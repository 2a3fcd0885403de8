----------------------------- MODULE MCHostLock ------------------------------
(* Three runs; r1 and r2 lock the two hosts in opposite orders.                *)
EXTENDS HostLock, TLC

CONSTANTS r1, r2, r3, h1, h2

MCRuns == {r1, r2, r3}
MCTargets == r1 :> <<h1, h2>> @@ r2 :> <<h2, h1>> @@ r3 :> <<h1>>
=============================================================================
