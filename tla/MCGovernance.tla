---------------------------- MODULE MCGovernance -----------------------------
(* An operator, who plans, executes and manages the change, and an approver, *)
(* who votes and may apply it too.                                           *)
EXTENDS Governance, TLC

CONSTANTS operator, approver

OperatorAndApprover ==
    (operator :> Ops \ {"approve", "reject"}) @@ (approver :> {"approve", "reject", "apply"})

\* One plans while the other votes and applies.
PlannerAndApplier == (operator :> {"plan"}) @@ (approver :> {"approve", "apply"})
==============================================================================
