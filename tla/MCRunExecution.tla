--------------------------- MODULE MCRunExecution ----------------------------
(* Executions of one run on two nodes; NodeOfThree puts x1 and x2 on one node. *)
EXTENDS RunExecution

TwoNodes == {"n1", "n2"}
TwoExecs == {"x1", "x3"}
ThreeExecs == {"x1", "x2", "x3"}
NodeOfTwo == [x \in TwoExecs |-> IF x = "x3" THEN "n2" ELSE "n1"]
NodeOfThree == [x \in ThreeExecs |-> IF x = "x3" THEN "n2" ELSE "n1"]
==============================================================================
