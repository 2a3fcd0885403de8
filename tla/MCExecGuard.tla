----------------------------- MODULE MCExecGuard -----------------------------
(* Three executions on two nodes; two of them share a node. *)
EXTENDS ExecGuard

MCNodes == {"n1", "n2"}
MCExecs == {"x1", "x2", "x3"}
MCNodeOf == [x \in MCExecs |-> IF x = "x3" THEN "n2" ELSE "n1"]
==============================================================================
