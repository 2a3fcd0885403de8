------------------------------ MODULE MCClosure ------------------------------
(* Two hosts in the first batch, one in the second; two steps, the second of   *)
(* which declares no rollback; retries name one host of each batch.            *)
EXTENDS Closure, TLC

CONSTANTS h1, h2, h3, s1, s2

MCBatches == <<<<h1, h2>>, <<h3>>>>
MCSteps == <<s1, s2>>
MCUndo == s1 :> 1 @@ s2 :> 0
MCScopes == {{h1, h3}}
=============================================================================
