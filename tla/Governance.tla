----------------------------- MODULE Governance ------------------------------
(***************************************************************************)
(* The life of one change: plan, approval, settlement, apply, retry,       *)
(* rollback, pause, cancel and archive (change_service.go), with the       *)
(* engine's re-planning retry (wiring/run.go).                             *)
(*                                                                         *)
(* Every RPC reads the run, decides, and writes it some statements later,  *)
(* while other RPCs do the same.  There are three kinds of write: a        *)
(* compare-and-set on the status, UpdateRunPlan (the plan columns alone),  *)
(* and UpdateRun, which writes back the whole row as it was read.  A vote  *)
(* is one step, as ApprovalProofs shows it may be.                         *)
(***************************************************************************)
EXTENDS Naturals, Sequences, FiniteSets

CONSTANTS
    Callers,   \* clients, each with one RPC in flight
    Does,      \* the RPCs each of them calls
    Plans,     \* plan contents; two plans are equal iff their hashes are
    HighPlans, \* those whose derived tier is high or emergency
    Votable,   \* those whose workflow names enough independent approvers
    Gated,     \* those with a human gate
    Faulty,    \* the clients whose RPCs may break off half-way
    Seeded,    \* whether a record from before plan hashes may be waiting
    MaxRows,   \* bound: approval records for plans
    NoPlan,    \* the empty plan hash
    Gate       \* the marker a human gate's record carries for a plan hash

ASSUME PlansFresh ==
    /\ HighPlans \subseteq Plans /\ Votable \subseteq Plans /\ Gated \subseteq Plans
    /\ Plans # {} /\ NoPlan # Gate /\ {NoPlan, Gate} \cap Plans = {}
    /\ Seeded \in BOOLEAN

\* rolled_back_partial is admitted, guarded and written exactly where
\* rollback_incomplete is, and planned where draft is.
Verdicts == {"completed", "failed", "rolled_back", "rollback_incomplete"}
RunStatus == Verdicts \cup
    {"draft", "pending", "approved", "rejected", "running", "paused", "cancelled", "archived", "interrupted"}
RowTargets == {"cancelled", "archived", "paused", "running", "rolled_back", "rollback_incomplete"}
Ops == RowTargets \cup {"plan", "approve", "reject", "apply", "auto", "retry", "retry_host", "replan"}
Tiers == {"none", "standard", "high"}
Row == [status : {"pending", "approved", "rejected", "expired"}, plan : Plans \cup {NoPlan, Gate}]
Run == [status : RunStatus, plan : Plans \cup {NoPlan}, level : Tiers]

VARIABLES
    run,     \* the row of the run
    rows,    \* its approval records, oldest first
    rpc,     \* per caller: where its RPC is, and what it has read
    consented, \* history: the plans a record for which was approved
    overridden \* history: an execution or a decision lost the run to a write that
               \* compares nothing, to the takeover or to an RPC that broke off

vars == <<run, rows, rpc, consented, overridden>>

Idle == [at |-> "idle"]
Calls(c, op) == rpc[c] = Idle /\ op \in Does[c]
At(c, step) == rpc[c].at = step
Goto(c, r) == rpc' = [rpc EXCEPT ![c] = r]
Return(c) == Goto(c, Idle)
Move(c, step) == Goto(c, [rpc[c] EXCEPT !.at = step])

Init ==
    /\ run \in [status : {"draft", "pending"}, plan : {NoPlan}, level : {"none"}]
    /\ rows \in {<<>>} \cup (IF Seeded THEN {<<[status |-> "pending", plan |-> NoPlan]>>} ELSE {})
    /\ rpc = [c \in Callers |-> Idle]
    /\ consented = {}
    /\ overridden = FALSE
------------------------------------------------------------------------------
(* The store's writes *)

\* UpdateRun: the whole row.  What others wrote since seen was read is lost,
\* and an execution may lose its run.
Overrides(seen) == run # seen \/ run.status = "running"
UpdateRun(seen, new) ==
    /\ run' = new
    /\ overridden' = (overridden \/ Overrides(seen))

\* Mutant: the status is written without the comparison.
UpdateRunStatusBlind(from, to) == run' = [run EXCEPT !.status = to]

UpdateRunStatusIf(from, to) ==
    run' = IF run.status = from THEN [run EXCEPT !.status = to] ELSE run

\* Approval.MatchesPlan: a row without a hash matches every plan.
MatchesPlan(r, p) == r.plan = NoPlan \/ (p # NoPlan /\ r.plan = p)
Attested(p) == \E i \in DOMAIN rows : rows[i].status = "approved" /\ MatchesPlan(rows[i], p)
\* The record from before plan hashes, if there was one, is the first.
Legacy(i) == Seeded /\ i = 1 /\ rows[i].plan = NoPlan
PendingRows == {i \in DOMAIN rows : rows[i].status = "pending"}

derivedTier(p) == IF p \in HighPlans THEN "high" ELSE "standard"
------------------------------------------------------------------------------
(* PlanChange *)

\* The bound on records: those of plans, and those of calls about to add one.
Planning == {c \in Callers : rpc[c].at \in {"plan_write", "plan_reset", "kick", "supersede"}}
RoomForRow == Cardinality({i \in DOMAIN rows : rows[i].plan # Gate}) + Cardinality(Planning) < MaxRows

\* GetRun, and the engine's plan p for the requested hosts.
PlanRead(c, p) ==
    /\ Calls(c, "plan")
    /\ RoomForRow
    /\ Goto(c, [at |-> "plan_write", seen |-> run, plan |-> p])
    /\ UNCHANGED <<run, rows, consented, overridden>>

\* UpdateRunPlan, and whether an approval has to be taken back.
PlanWrite(c) ==
    /\ At(c, "plan_write")
    /\ run' = [run EXCEPT !.plan = rpc[c].plan]
    /\ LET reset == rpc[c].seen.status = "approved" /\ rpc[c].seen.plan # rpc[c].plan
       IN  Goto(c, [at |-> IF reset THEN "plan_reset" ELSE "kick",
                    seen |-> [rpc[c].seen EXCEPT !.plan = rpc[c].plan]])
    /\ UNCHANGED <<rows, consented, overridden>>

\* The new plan is not the approved one: approved goes back to draft.  When
\* the run has moved on meanwhile, that is only logged.
PlanReset(c) ==
    /\ At(c, "plan_reset")
    /\ UpdateRunStatusIf("approved", "draft")
    /\ Goto(c, [at |-> "kick",
                seen |-> IF run.status = "approved" THEN [rpc[c].seen EXCEPT !.status = "draft"]
                         ELSE rpc[c].seen])
    /\ UNCHANGED <<rows, consented, overridden>>

\* kickoffApproval: refuse a plan nobody independent could approve, or list
\* the records to supersede.
Kickoff(c) ==
    /\ At(c, "kick")
    /\ IF rpc[c].seen.plan \in Votable
       THEN Goto(c, [at |-> "supersede", seen |-> rpc[c].seen, old |-> PendingRows])
       ELSE Return(c)
    /\ UNCHANGED <<run, rows, consented, overridden>>

\* UpdateApproval compares nothing.  A re-planning retry expires the records
\* the same way.
Supersede(c) ==
    /\ rpc[c].at \in {"supersede", "expire"}
    /\ \E i \in rpc[c].old :
          /\ rows' = [rows EXCEPT ![i].status = "expired"]
          /\ Goto(c, [rpc[c] EXCEPT !.old = @ \ {i}])
    /\ UNCHANGED <<run, consented, overridden>>

\* Service.Create; the run still has to be told its tier when that is new.
CreateRow(c) ==
    /\ At(c, "supersede") /\ rpc[c].old = {}
    /\ rows' = Append(rows, [status |-> "pending", plan |-> rpc[c].seen.plan])
    /\ IF rpc[c].seen.level = derivedTier(rpc[c].seen.plan)
       THEN Return(c)
       ELSE Goto(c, [at |-> "tier", seen |-> rpc[c].seen])
    /\ UNCHANGED <<run, consented, overridden>>

TierWrite(c) ==
    /\ At(c, "tier")
    /\ UpdateRun(rpc[c].seen, [rpc[c].seen EXCEPT !.level = derivedTier(rpc[c].seen.plan)])
    /\ Return(c)
    /\ UNCHANGED <<rows, consented>>
------------------------------------------------------------------------------
(* ApproveChange, RejectChange and SettleApproval *)

\* The vote either completes the quorum or leaves the record pending.
ApproveChange(c) ==
    /\ Calls(c, "approve")
    /\ run.plan # NoPlan
    /\ \E i \in PendingRows, s \in {"pending", "approved"} :
          /\ rows' = [rows EXCEPT ![i].status = s]
          /\ consented' = IF s = "pending" THEN consented
                          ELSE consented \cup (IF Legacy(i) THEN Plans ELSE {rows[i].plan} \cap Plans)
    /\ Goto(c, [at |-> "settle"])
    /\ UNCHANGED <<run, overridden>>

RejectChange(c) ==
    /\ Calls(c, "reject")
    /\ \E i \in PendingRows : rows' = [rows EXCEPT ![i].status = "rejected"]
    /\ Goto(c, [at |-> "settle"])
    /\ UNCHANGED <<run, consented, overridden>>

\* ListApprovals comes before GetRun.
SettleRows(c) ==
    /\ At(c, "settle")
    /\ Goto(c, [at |-> "settle_run", rows |-> rows])
    /\ UNCHANGED <<run, rows, consented, overridden>>

\* Mutant: a run created from a template counts as settled.
terminalRunStatusesPending == RunStatus \ {"draft", "paused"}

terminalRunStatuses == RunStatus \ {"draft", "pending", "paused"}

\* The outcome of the records R for the plan p: a pending one leaves it open.
Settled(R, p) ==
    LET S == {R[i].status : i \in {j \in DOMAIN R : MatchesPlan(R[j], p)}}
    IN  IF "pending" \in S THEN "open"
        ELSE IF "rejected" \in S THEN "rejected"
        ELSE IF "approved" \in S THEN "approved" ELSE "open"

\* GetRun, the outcome for its plan, and the protection of a run that is
\* past approval.
SettleRun(c) ==
    /\ At(c, "settle_run")
    /\ LET to == Settled(rpc[c].rows, run.plan)
       IN  IF to = "open" \/ run.status \in terminalRunStatuses
           THEN Return(c)
           ELSE Goto(c, [at |-> "settle_cas", from |-> run.status, to |-> to])
    /\ UNCHANGED <<run, rows, consented, overridden>>

\* UpdateRunApprovalStatusIf; a lost race is logged.
SettleCas(c) ==
    /\ At(c, "settle_cas")
    /\ UpdateRunStatusIf(rpc[c].from, rpc[c].to)
    /\ Return(c)
    /\ UNCHANGED <<rows, consented, overridden>>
------------------------------------------------------------------------------
(* ApplyChange and the engine's execution *)

\* The guards on the row that GetRun returned.  auto is the client's
\* auto_approve: it skips the status guard and the approval check, and is
\* refused for a run whose recorded tier is high.
ApplyGate(c, auto) ==
    /\ Calls(c, IF auto THEN "auto" ELSE "apply")
    /\ run.plan # NoPlan
    /\ IF auto THEN run.level # "high" ELSE run.status = "approved"
    /\ Goto(c, [at |-> IF auto THEN "apply_cas" ELSE "apply_rows", seen |-> run,
                how |-> IF auto THEN "auto" ELSE "apply"])
    /\ UNCHANGED <<run, rows, consented, overridden>>

\* An approved record has to attest to the plan that was read.
ApplyRows(c) ==
    /\ At(c, "apply_rows")
    /\ IF Attested(rpc[c].seen.plan) THEN Move(c, "apply_cas") ELSE Return(c)
    /\ UNCHANGED <<run, rows, consented, overridden>>

\* Mutant: the status guard is trusted and the CAS result ignored.
ApplyCasIgnored(c) ==
    /\ At(c, "apply_cas")
    /\ UpdateRunStatusIf(rpc[c].seen.status, "running")
    /\ Goto(c, [at |-> "load", how |-> rpc[c].how])
    /\ UNCHANGED <<rows, consented, overridden>>

ApplyCas(c) ==
    /\ At(c, "apply_cas")
    /\ UpdateRunStatusIf(rpc[c].seen.status, "running")
    /\ overridden' = (overridden \/ (run.status = "running" /\ rpc[c].seen.status = "running"))
    /\ IF run.status = rpc[c].seen.status THEN Goto(c, [at |-> "load", how |-> rpc[c].how]) ELSE Return(c)
    /\ UNCHANGED <<rows, consented>>

Executing(how, p) == [at |-> "exec", how |-> how, plan |-> p]

\* runChange takes a slot of the node and reads the plan again.
Load(c) ==
    /\ At(c, "load")
    /\ Goto(c, Executing(rpc[c].how, run.plan))
    /\ UNCHANGED <<run, rows, consented, overridden>>

\* Mutant: the gate's record carries no plan marker.
OpenGateUnmarked(c) ==
    /\ At(c, "exec") /\ rpc[c].plan \in Gated
    /\ rows' = Append(rows, [status |-> "pending", plan |-> NoPlan])
    /\ Len(rows) <= MaxRows
    /\ Move(c, "gate")
    /\ UNCHANGED <<run, consented, overridden>>

\* A human gate of the plan opens its record, or finds the one of an earlier
\* execution: the identifier is the same.
OpenGate(c) ==
    /\ At(c, "exec") /\ rpc[c].plan \in Gated
    /\ rows' = IF \E i \in DOMAIN rows : rows[i].plan = Gate THEN rows
               ELSE Append(rows, [status |-> "pending", plan |-> Gate])
    /\ Move(c, "gate")
    /\ UNCHANGED <<run, consented, overridden>>

PassGate(c) ==
    /\ At(c, "gate")
    /\ \E i \in DOMAIN rows : rows[i] = [status |-> "approved", plan |-> Gate]
    /\ Move(c, "exec")
    /\ UNCHANGED <<run, rows, consented, overridden>>

\* casRunStatus: the verdict is written only over running.  No slot on the
\* node is a failure, and so is a gate that was refused or timed out, unless
\* its batches were rolled back.
Finish(c) ==
    /\ rpc[c].at \in {"load", "exec", "gate"}
    /\ \E v \in CASE At(c, "load") -> {"failed"}
                 [] At(c, "gate") -> Verdicts \ {"completed"}
                 [] OTHER -> Verdicts :
          UpdateRunStatusIf("running", v)
    /\ Return(c)
    /\ UNCHANGED <<rows, consented, overridden>>
------------------------------------------------------------------------------
(* RetryChange, RetryHost and the engine's retryChange *)

RetryAdmitted == {"failed", "rolled_back", "rollback_incomplete", "interrupted"}

\* RetryHost has no status guard.
Retry(c, how) ==
    /\ Calls(c, how)
    /\ how = "retry_host" \/ run.status \in RetryAdmitted
    /\ Goto(c, [at |-> "retry_load", how |-> how])
    /\ UNCHANGED <<run, rows, consented, overridden>>

\* loadStoredPlan; a run without one is refused.  A retry that re-plans
\* generates the plan p.
RetryLoad(c, p) ==
    /\ At(c, "retry_load")
    /\ IF run.plan = NoPlan THEN Return(c)
       ELSE IF rpc[c].how = "replan" THEN Goto(c, [at |-> "replan_rows", plan |-> p])
       ELSE Goto(c, [at |-> "retry_read", how |-> rpc[c].how, plan |-> run.plan])
    /\ UNCHANGED <<run, rows, consented, overridden>>

\* planAuthorised.
ReplanRows(c) ==
    /\ At(c, "replan_rows")
    /\ Goto(c, [at |-> "replan_read", plan |-> rpc[c].plan, ok |-> Attested(rpc[c].plan)])
    /\ UNCHANGED <<run, rows, consented, overridden>>

ReplanRead(c) ==
    /\ At(c, "replan_read")
    /\ Goto(c, [at |-> "replan_write", seen |-> run, plan |-> rpc[c].plan, ok |-> rpc[c].ok])
    /\ UNCHANGED <<run, rows, consented, overridden>>

\* The new plan is stored, approved or not; without an approval the run goes
\* back to draft.
ReplanWrite(c) ==
    /\ At(c, "replan_write")
    /\ LET new == [rpc[c].seen EXCEPT !.plan = rpc[c].plan]
       IN  /\ UpdateRun(rpc[c].seen, new)
           /\ Goto(c, IF rpc[c].ok THEN [at |-> "replan_load"] ELSE [at |-> "reenter", seen |-> new])
    /\ UNCHANGED <<rows, consented>>

ReplanLoad(c) ==
    /\ At(c, "replan_load")
    /\ Goto(c, [at |-> "retry_read", how |-> "replan", plan |-> run.plan])
    /\ UNCHANGED <<run, rows, consented, overridden>>

\* reenterApprovalFlow: no record is opened for the new plan.  An approval
\* since planAuthorised is overridden too.
Reenter(c) ==
    /\ At(c, "reenter")
    /\ run' = [rpc[c].seen EXCEPT !.status = "draft"]
    /\ overridden' = (overridden \/ Overrides(rpc[c].seen) \/ Attested(rpc[c].seen.plan))
    /\ Goto(c, [at |-> "reenter_list"])
    /\ UNCHANGED <<rows, consented>>

ReenterList(c) ==
    /\ At(c, "reenter_list")
    /\ Goto(c, [at |-> "expire", old |-> PendingRows])
    /\ UNCHANGED <<run, rows, consented, overridden>>

ReenterDone(c) ==
    /\ At(c, "expire") /\ rpc[c].old = {}
    /\ Return(c)
    /\ UNCHANGED <<run, rows, consented, overridden>>

\* The status to start from is whatever it is now.
RetryRead(c) ==
    /\ At(c, "retry_read")
    /\ Goto(c, [at |-> "retry_cas", how |-> rpc[c].how, plan |-> rpc[c].plan, from |-> run.status])
    /\ UNCHANGED <<run, rows, consented, overridden>>

RetryCas(c) ==
    /\ At(c, "retry_cas")
    /\ UpdateRunStatusIf(rpc[c].from, "running")
    /\ overridden' = (overridden \/ (run.status = "running" /\ rpc[c].from = "running"))
    /\ IF run.status = rpc[c].from THEN Goto(c, Executing(rpc[c].how, rpc[c].plan)) ELSE Return(c)
    /\ UNCHANGED <<rows, consented>>
------------------------------------------------------------------------------
(* The calls that write back the whole row *)

RowWrites(to) ==
    CASE to = "cancelled" -> RunStatus \ {"completed", "cancelled", "archived", "interrupted"}
      [] to = "archived" -> RunStatus \ {"running", "paused", "archived"}
      [] to = "paused" -> {"running", "pending"}
      [] to = "running" -> {"paused"}
      [] to \in {"rolled_back", "rollback_incomplete"} -> {"completed", "failed", "rollback_incomplete"}

\* Cancel (force: whatever the status), archive, pause, resume and rollback,
\* whose compensations run before the write.
RowRead(c, to, force) ==
    /\ Calls(c, to)
    /\ run.status \in RowWrites(to) \/ (force /\ to = "cancelled")
    /\ to \in Verdicts => run.plan # NoPlan
    /\ Goto(c, [at |-> "row_write", seen |-> run, to |-> to])
    /\ UNCHANGED <<run, rows, consented, overridden>>

RowWrite(c) ==
    /\ At(c, "row_write")
    /\ UpdateRun(rpc[c].seen, [rpc[c].seen EXCEPT !.status = rpc[c].to])
    /\ Return(c)
    /\ UNCHANGED <<rows, consented>>
------------------------------------------------------------------------------
(* The background loops, and faults *)

\* The takeover settles a run whose lease lapsed.
Interrupt ==
    /\ run.status = "running"
    /\ run' = [run EXCEPT !.status = "interrupted"]
    /\ overridden' = TRUE
    /\ UNCHANGED <<rows, rpc, consented>>

\* The expiry sweep.
Expire ==
    /\ \E i \in PendingRows : rows' = [rows EXCEPT ![i].status = "expired"]
    /\ UNCHANGED <<run, rpc, consented, overridden>>

\* A statement fails, or the node dies: the RPC goes no further.
BreakOff(c) ==
    /\ c \in Faulty /\ ~At(c, "idle")
    /\ Return(c)
    /\ overridden' = TRUE
    /\ UNCHANGED <<run, rows, consented>>

Call(c) ==
    \/ \E p \in Plans : PlanRead(c, p) \/ RetryLoad(c, p)
    \/ PlanWrite(c) \/ PlanReset(c) \/ Kickoff(c) \/ Supersede(c) \/ CreateRow(c) \/ TierWrite(c)
    \/ ApproveChange(c) \/ RejectChange(c) \/ SettleRows(c) \/ SettleRun(c) \/ SettleCas(c)
    \/ \E auto \in BOOLEAN : ApplyGate(c, auto)
    \/ ApplyRows(c) \/ ApplyCas(c) \/ Load(c) \/ OpenGate(c) \/ PassGate(c) \/ Finish(c)
    \/ \E how \in {"retry", "retry_host", "replan"} : Retry(c, how)
    \/ ReplanRows(c) \/ ReplanRead(c) \/ ReplanWrite(c) \/ ReplanLoad(c)
    \/ Reenter(c) \/ ReenterList(c) \/ ReenterDone(c) \/ RetryRead(c) \/ RetryCas(c)
    \/ \E to \in RowTargets, force \in BOOLEAN : RowRead(c, to, force)
    \/ RowWrite(c) \/ BreakOff(c)

Next == (\E c \in Callers : Call(c)) \/ Interrupt \/ Expire

Spec == Init /\ [][Next]_vars
------------------------------------------------------------------------------
(* Properties *)

Applying(c) == rpc[c].at \in {"load", "exec", "gate"} /\ rpc[c].how = "apply"

\* As long as the run was only written through compare-and-sets, at most one
\* approved apply of it executes, whatever was planned, voted and retried in
\* between (ApplyChange's CAS into running).
OneApply == \A c, d \in Callers : Applying(c) /\ Applying(d) => c = d \/ overridden

LastFor(p) ==
    {i \in DOMAIN rows : MatchesPlan(rows[i], p) /\ \A j \in DOMAIN rows : j > i => ~MatchesPlan(rows[j], p)}

\* No decision is lost: when every RPC has returned, the newest record for
\* the stored plan of a run that still waits for approval is not approved.
\* Settlement reads the records before the run and plans are stored by a
\* targeted write so that this holds while plans and votes interleave.
DecisionMirrored ==
    (\A c \in Callers : At(c, "idle")) /\ ~overridden /\ run.status \in {"draft", "pending"}
    => \A i \in LastFor(run.plan) : rows[i].status # "approved"

\* The inductive form of DecisionMirrored, for one client that stores plans.
\* An approved record is mirrored or somebody is about to: whoever stored the
\* plan opens a new record for it or starts it, whoever voted settles it.
Stores(c) == Does[c] \cap {"plan", "replan"} # {}
OnePlanner == \A c, d \in Callers : Stores(c) /\ Stores(d) => c = d

\* The calls in flight that stored a plan, or may.
Storing(m) ==
    \/ m.at \in {"plan_write", "plan_reset", "kick", "supersede", "tier", "replan_rows", "replan_read",
                 "replan_write", "replan_load", "reenter", "reenter_list", "expire"}
    \/ m.at = "retry_load" /\ m.how = "replan"

\* With r the run, R its records and o whether it was overridden: the call m
\* that opens a record for the plan it stored expires all others.
Opening(m, r, R, o) ==
    /\ m.at \in {"plan_reset", "kick", "supersede"} =>
          m.seen.plan \in Plans /\ (o \/ m.seen.plan = r.plan)
    /\ m.at = "supersede" =>
          /\ m.seen.plan \in Votable /\ "old" \in DOMAIN m
          /\ \A i \in DOMAIN R : R[i].status = "pending" => R[i].plan = Gate \/ i \in m.old

\* A call whose next steps take the run r out of draft and pending, or open a
\* new record for its plan.
Resolving(m, r) ==
    \/ m.at \in {"plan_reset", "kick", "supersede", "settle", "replan_load", "reenter", "retry_read"}
    \/ m.at = "settle_run" /\ Settled(m.rows, r.plan) # "open"
    \/ m.at \in {"settle_cas", "retry_cas"} /\ m.from = r.status

\* The run waits for approval although the newest record for its plan has it.
Waiting ==
    run.status \in {"draft", "pending"} /\ \E i \in LastFor(run.plan) : rows[i].status = "approved"

\* A pending record of a plan is newer than all other records of plans.
PendingIsNewest == \A i, j \in DOMAIN rows : rows[i].status = "pending" /\ i < j => Gate \in {rows[i].plan, rows[j].plan}

MirrorInv ==
    /\ \A c \in Callers : Storing(rpc[c]) => Stores(c)
    /\ \A c \in Callers : Opening(rpc[c], run, rows, overridden)
    /\ \A i \in DOMAIN rows : rows[i].plan \in Votable \cup {NoPlan, Gate}
    /\ PendingIsNewest
    /\ Waiting /\ ~overridden => \E c \in Callers : Resolving(rpc[c], run)

Closed == Verdicts \cup {"cancelled", "archived", "interrupted"}
ReopensOrOverwrites(c) ==
    rpc[c].at \in {"apply_cas", "retry_cas", "row_write", "tier", "replan_write", "reenter"}

\* A closed run is moved only by a call that asks for it or writes the whole
\* row: never by a late settlement, the reset of a re-plan, or the verdict of
\* an execution that lost the run (terminalRunStatuses, casRunStatus).
ClosedStands ==
    [][run.status \in Closed /\ run'.status # run.status
       => \E c \in Callers : ReopensOrOverwrites(c) /\ rpc'[c] # rpc[c]]_vars

\* A plan passes the approval check of apply, or of a re-planning retry, only
\* after a quorum consented to that very plan, whatever the status column
\* says: SettleCas compares the status alone and may have approved a run that
\* holds another plan by then.  Neither that nor the consent of a human gate
\* stands in for the plan's own record (MatchesPlan, the gate marker).
ConsentBeforeStart ==
    \A c \in Callers :
        /\ At(c, "apply_cas") /\ rpc[c].how = "apply" => rpc[c].seen.plan \in consented
        /\ At(c, "replan_read") /\ rpc[c].ok => rpc[c].plan \in consented

\* The inductive form of OneApply and ConsentBeforeStart.  What an RPC in
\* flight remembers was read from the run or the records some steps ago; with
\* C the plans consented to, which only grow, it stays true.
Consented(r, C) ==
    r.status = "approved" => r.plan = Gate \/ (r.plan = NoPlan /\ C = Plans) \/ r.plan \in C

Holding == {"plan_write", "plan_reset", "kick", "supersede", "tier", "apply_rows", "apply_cas",
            "replan_write", "reenter", "row_write"}

Remembers(m, C) ==
    /\ "at" \in DOMAIN m
    /\ m.at \in Holding =>
          "seen" \in DOMAIN m /\ m.seen \in Run /\ (m.seen.status = "approved" => C # {})
    /\ m.at \in {"plan_write", "replan_rows", "replan_read", "replan_write"} => m.plan \in Plans
    /\ m.at \in {"supersede", "apply_rows", "apply_cas"} => m.seen.plan \in Plans
    /\ m.at = "settle_run" => \A i \in DOMAIN m.rows : m.rows[i] \in Row /\ Consented(m.rows[i], C)
    /\ m.at = "settle_cas" => /\ m.from \notin terminalRunStatuses
                              /\ m.to \in {"approved", "rejected"}
                              /\ m.to = "approved" => C # {}
    /\ m.at \in {"apply_rows", "apply_cas"} => "how" \in DOMAIN m
    /\ m.at = "apply_cas" /\ m.how = "apply" => m.seen.plan \in C
    /\ m.at \in {"replan_read", "replan_write"} /\ m.ok => m.plan \in C
    /\ m.at = "row_write" => m.to \in RowTargets

ExecutingNow(c) == rpc[c].at \in {"load", "exec", "gate"}

\* An execution that was not overridden has the run, and has it alone.
Alone ==
    ~overridden => \A c \in Callers : ExecutingNow(c) =>
        run.status = "running" /\ \A d \in Callers : ExecutingNow(d) => c = d

IndInv ==
    /\ run \in Run
    /\ run.status = "approved" => consented # {}
    /\ consented \subseteq Plans
    /\ overridden \in BOOLEAN
    /\ rows \in Seq(Row)
    /\ \A i \in DOMAIN rows : Consented(rows[i], consented) /\ (rows[i].plan = NoPlan => Legacy(i))
    /\ DOMAIN rpc = Callers
    /\ \A c \in Callers : Remembers(rpc[c], consented)
    /\ Alone

\* ApplyChange's promise: "the final defence against the 'approve v1, re-plan
\* to v2, apply v2 under a v1 approval' drift".
AppliedWasApproved == \A c \in Callers : At(c, "exec") /\ rpc[c].how = "apply" => rpc[c].plan \in consented
==============================================================================
