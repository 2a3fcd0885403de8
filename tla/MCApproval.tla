----------------------------- MODULE MCApproval ------------------------------
(* Three people, two of them needed; one record is older than the clamp. *)
EXTENDS Approval

MCApprovers == {"ann", "bob", "eve"}
MCRequests == {[min |-> 2, approvers |-> {"ann", "bob"}, exclude |-> TRUE, expires |-> TRUE],
               [min |-> 0, approvers |-> {}, exclude |-> TRUE, expires |-> TRUE]}
==============================================================================
