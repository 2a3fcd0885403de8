----------------------------- MODULE MCDispatch ------------------------------
(* Two nodes; in the runs with MCLeader only one of them ever leads. *)
EXTENDS Dispatch

MCNodes == {"n1", "n2"}
MCLeader == {"n1"}
==============================================================================
