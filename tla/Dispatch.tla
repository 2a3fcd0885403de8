------------------------------ MODULE Dispatch -------------------------------
(***************************************************************************)
(* Cross-node dispatch of one run: its run_assignment row, the leader's    *)
(* dispatch sweep (internal/dispatch Loop), the worker loops that claim    *)
(* and execute what they are assigned, and the takeover's writes to the    *)
(* row.                                                                    *)
(*                                                                         *)
(* Statements are atomic and interleave.  Leadership is only advisory, so  *)
(* several nodes may sweep at once.  Other runs appear only as the reason  *)
(* a worker is not chosen or does not poll.  The execution of the run      *)
(* itself is abstracted to its status: "settled" stands for every status   *)
(* other than approved, running and interrupted.                           *)
(***************************************************************************)
EXTENDS Naturals

CONSTANTS
    Nodes,         \* every node runs a worker loop
    Dispatchers,   \* the nodes that take themselves for the leader
    MaxFaults,     \* bound: failed statements, lost replies, stalls, crashes
    MaxApprovals,  \* bound: times the run is approved again
    NoAsg          \* the run has no run_assignment row

ASSUME DispatchersType == Dispatchers \subseteq Nodes
ASSUME BoundsType == MaxFaults \in Nat /\ MaxApprovals \in Nat

ActiveStates == {"pending", "executing"}
TerminalAssignStates == {"done", "interrupted"}
Results == {"completed", "failed", "rolled_back"}

Asg == [owner : Nodes, epoch : Nat, state : ActiveStates \cup TerminalAssignStates,
        result : Results \cup {""}]

ASSUME NoAsgIsNoAsg == NoAsg \notin Asg

VARIABLES
    asg,        \* the run_assignment row, or NoAsg
    stale,      \* updated_at is older than the claim timeout
    status,     \* runs.status
    op,         \* an execution started through the API, not by a worker
    dpc, dep, dto,  \* sweep of each dispatcher: step, epoch it read, worker it picked
    wpc, wep, wres, \* loop of each worker: step, epoch it read, result to record
    tk,         \* the takeover, between its status CAS and its last write
    up,         \* nodes that run
    view,       \* nodes the registry lists as active
    faults, approvals   \* what is left of the bounds

dispVars == <<dpc, dep, dto>>
workVars == <<wpc, wep, wres>>
envVars == <<up, view, faults, approvals>>
vars == <<asg, stale, status, op, dispVars, workVars, tk, envVars>>

DispSteps == {"idle", "getrun", "terminalise", "reclaim", "claim", "create", "reassign"}
WorkSteps == {"idle", "claim", "execute", "run", "complete", "result"}

TypeOK ==
    /\ asg \in Asg \cup {NoAsg}
    /\ stale \in BOOLEAN
    /\ status \in {"approved", "running", "interrupted", "settled"}
    /\ op \in BOOLEAN
    /\ dpc \in [Dispatchers -> DispSteps]
    /\ dep \in [Dispatchers -> Nat]
    /\ dto \in [Dispatchers -> Nodes]
    /\ wpc \in [Nodes -> WorkSteps]
    /\ wep \in [Nodes -> Nat]
    /\ wres \in [Nodes -> Results]
    /\ tk \in {"idle", "get", "reflect"}
    /\ up \subseteq Nodes /\ view \subseteq Nodes
    /\ faults \in 0 .. MaxFaults /\ approvals \in 0 .. MaxApprovals

\* A freshly approved run in a healthy cluster.
Init ==
    /\ asg = NoAsg /\ stale = FALSE
    /\ status = "approved" /\ op = FALSE
    /\ dpc = [d \in Dispatchers |-> "idle"]
    /\ dep = [d \in Dispatchers |-> 0]
    /\ dto = [d \in Dispatchers |-> d]
    /\ wpc = [w \in Nodes |-> "idle"]
    /\ wep = [w \in Nodes |-> 0]
    /\ wres = [w \in Nodes |-> "failed"]
    /\ tk = "idle"
    /\ up = Nodes /\ view = Nodes
    /\ faults = MaxFaults /\ approvals = MaxApprovals

\* One disturbance of the bounded number.
Fault == faults > 0 /\ faults' = faults - 1
NoFault == UNCHANGED faults

\* Steps of a sweep and of a worker loop; what a process has read is
\* forgotten when it is idle again.
DispGoto(d, from, to) ==
    /\ d \in up /\ dpc[d] = from
    /\ dpc' = [dpc EXCEPT ![d] = to]
DispKeep == UNCHANGED <<dep, dto>>
DispRest(d) ==
    /\ dep' = [dep EXCEPT ![d] = 0]
    /\ dto' = [dto EXCEPT ![d] = d]
WorkGoto(w, from, to) ==
    /\ w \in up /\ wpc[w] = from
    /\ wpc' = [wpc EXCEPT ![w] = to]
WorkRest(w) ==
    /\ wep' = [wep EXCEPT ![w] = 0]
    /\ wres' = [wres EXCEPT ![w] = "failed"]

AsgIn(s) == asg # NoAsg /\ asg.state = s
Active == asg # NoAsg /\ asg.state \in ActiveStates

\* The compare of UpdateAssignmentStateIf on epoch and state, and its set.
Matches(e, s) == AsgIn(s) /\ asg.epoch = e
SetState(s) == asg' = [asg EXCEPT !.state = s] /\ stale' = FALSE

\* The row as Reassign and ReclaimAssignment rewrite it.
Repoint(w) ==
    /\ asg' = [owner |-> w, epoch |-> asg.epoch + 1, state |-> "pending", result |-> ""]
    /\ stale' = FALSE
------------------------------------------------------------------------------
(* The dispatch sweep: DispatchOnce *)

\* workerLoads: the active nodes, or the leader itself when there is none.
\* Their order depends on the assignments of all runs, so any may come first.
Workers(d) == IF view = {} THEN {d} ELSE view

\* Mutant: only the rows of registered workers are looked at.
ListStaleOfWorkers(d) ==
    /\ DispGoto(d, "idle", "getrun")
    /\ AsgIn("pending") /\ stale /\ asg.owner \in Workers(d)
    /\ dep' = [dep EXCEPT ![d] = asg.epoch]
    /\ \E w \in Workers(d) : dto' = [dto EXCEPT ![d] = w]
    /\ UNCHANGED <<asg, stale, status, op, workVars, tk, envVars>>

\* reclaimStale lists the pending rows and finds this one past the claim
\* timeout.  The worker it will hand the row to is the first of workerLoads,
\* which it read just before.
ListStale(d) ==
    /\ DispGoto(d, "idle", "getrun")
    /\ AsgIn("pending") /\ stale
    /\ dep' = [dep EXCEPT ![d] = asg.epoch]
    /\ \E w \in Workers(d) : dto' = [dto EXCEPT ![d] = w]
    /\ UNCHANGED <<asg, stale, status, op, workVars, tk, envVars>>

\* GetRun: a run no longer waiting for dispatch ends its assignment.
GetRun(d) ==
    /\ DispGoto(d, "getrun", IF status = "approved" THEN "reclaim" ELSE "terminalise")
    /\ DispKeep
    /\ UNCHANGED <<asg, stale, status, op, workVars, tk, envVars>>

\* UpdateAssignmentStateIf(epoch, pending -> interrupted).
Terminalise(d) ==
    /\ DispGoto(d, "terminalise", "idle") /\ DispRest(d)
    /\ IF Matches(dep[d], "pending") THEN SetState("interrupted") ELSE UNCHANGED <<asg, stale>>
    /\ UNCHANGED <<status, op, workVars, tk, envVars>>

\* Mutant: the reclaim without the state in its compare, as Reassign has it.
ReclaimAnyState(d) ==
    /\ DispGoto(d, "reclaim", "idle") /\ DispRest(d)
    /\ IF asg # NoAsg /\ asg.epoch = dep[d] THEN Repoint(dto[d]) ELSE UNCHANGED <<asg, stale>>
    /\ UNCHANGED <<status, op, workVars, tk, envVars>>

\* Mutant: the reclaim without the epoch bump.
ReclaimKeepsEpoch(d) ==
    /\ DispGoto(d, "reclaim", "idle") /\ DispRest(d)
    /\ IF Matches(dep[d], "pending")
       THEN asg' = [asg EXCEPT !.owner = dto[d]] /\ stale' = FALSE
       ELSE UNCHANGED <<asg, stale>>
    /\ UNCHANGED <<status, op, workVars, tk, envVars>>

\* ReclaimAssignment: CAS on epoch and pending.
Reclaim(d) ==
    /\ DispGoto(d, "reclaim", "idle") /\ DispRest(d)
    /\ IF Matches(dep[d], "pending") THEN Repoint(dto[d]) ELSE UNCHANGED <<asg, stale>>
    /\ UNCHANGED <<status, op, workVars, tk, envVars>>

\* candidates lists the run as approved; a worker with spare capacity is
\* taken from the same list.
Candidate(d) ==
    /\ DispGoto(d, "idle", "claim")
    /\ status = "approved"
    /\ \E w \in Workers(d) : dto' = [dto EXCEPT ![d] = w]
    /\ UNCHANGED <<asg, stale, status, op, dep, workVars, tk, envVars>>

\* Mutant: claim without its test of the row it read.
GetAssignmentUntested(d) ==
    /\ \/ asg = NoAsg /\ DispGoto(d, "claim", "create") /\ DispKeep
       \/ /\ asg # NoAsg
          /\ DispGoto(d, "claim", "reassign")
          /\ dep' = [dep EXCEPT ![d] = asg.epoch]
          /\ UNCHANGED dto
    /\ UNCHANGED <<asg, stale, status, op, workVars, tk, envVars>>

\* claim reads the row again: active, it stands down.  (hasActiveAssignment
\* has made the same test in the same sweep.)
GetAssignment(d) ==
    /\ \/ Active /\ DispGoto(d, "claim", "idle") /\ DispRest(d)
       \/ asg = NoAsg /\ DispGoto(d, "claim", "create") /\ DispKeep
       \/ /\ asg # NoAsg /\ ~Active
          /\ DispGoto(d, "claim", "reassign")
          /\ dep' = [dep EXCEPT ![d] = asg.epoch]
          /\ UNCHANGED dto
    /\ UNCHANGED <<asg, stale, status, op, workVars, tk, envVars>>

\* CreateAssignment: run_id is the primary key, so a second insert fails.
Create(d) ==
    /\ DispGoto(d, "create", "idle") /\ DispRest(d)
    /\ IF asg = NoAsg
       THEN /\ asg' = [owner |-> dto[d], epoch |-> 1, state |-> "pending", result |-> ""]
            /\ stale' = FALSE
       ELSE UNCHANGED <<asg, stale>>
    /\ UNCHANGED <<status, op, workVars, tk, envVars>>

\* Reassign: CAS on the epoch alone.
Reassign(d) ==
    /\ DispGoto(d, "reassign", "idle") /\ DispRest(d)
    /\ IF asg # NoAsg /\ asg.epoch = dep[d] THEN Repoint(dto[d]) ELSE UNCHANGED <<asg, stale>>
    /\ UNCHANGED <<status, op, workVars, tk, envVars>>

\* Any statement of a sweep fails without effect; the sweep goes on without
\* this run.  (One whose reply is lost ends the same way after its effect.)
SweepFails(d) ==
    /\ \E s \in DispSteps \ {"idle"} : DispGoto(d, s, "idle")
    /\ DispRest(d) /\ Fault
    /\ UNCHANGED <<asg, stale, status, op, workVars, tk, up, view, approvals>>
------------------------------------------------------------------------------
(* The worker loop: pollOnce *)

\* acquire lists a pending row of this node.
Poll(w) ==
    /\ WorkGoto(w, "idle", "claim")
    /\ AsgIn("pending") /\ asg.owner = w
    /\ wep' = [wep EXCEPT ![w] = asg.epoch]
    /\ UNCHANGED <<asg, stale, status, op, dispVars, wres, tk, envVars>>

\* acquire claims it: UpdateAssignmentStateIf(epoch, pending -> executing).
\* Without the reply acquire gives up, whatever the database did.
Claim(w) ==
    /\ \/ /\ Matches(wep[w], "pending") /\ SetState("executing")
          /\ \/ WorkGoto(w, "claim", "execute") /\ UNCHANGED <<wep, wres>> /\ NoFault
             \/ WorkGoto(w, "claim", "idle") /\ WorkRest(w) /\ Fault
       \/ /\ ~Matches(wep[w], "pending")
          /\ WorkGoto(w, "claim", "idle") /\ WorkRest(w) /\ NoFault
          /\ UNCHANGED <<asg, stale>>
    /\ UNCHANGED <<status, op, dispVars, tk, up, view, approvals>>

\* Execute: ApplyChange moves an approved run to running.  Any other status
\* is refused (an interrupted run through RetryChange without hosts, which
\* the engine refuses too), and so is an approved one after an error.
Execute(w) ==
    /\ \/ /\ status = "approved" /\ status' = "running"
          /\ WorkGoto(w, "execute", "run") /\ NoFault
       \/ /\ status # "approved" /\ UNCHANGED status
          /\ WorkGoto(w, "execute", "complete") /\ NoFault
       \/ UNCHANGED status /\ WorkGoto(w, "execute", "complete") /\ Fault
    /\ UNCHANGED <<asg, stale, op, dispVars, wep, wres, tk, up, view, approvals>>

\* The execution ends: its verdict is written unless the run was moved on,
\* and mapped to an assignment result.
Finish(w) ==
    /\ WorkGoto(w, "run", "complete")
    /\ \/ /\ status = "running" /\ status' = "settled"
          /\ \E r \in Results : wres' = [wres EXCEPT ![w] = r]
       \/ status # "running" /\ UNCHANGED <<status, wres>>
    /\ UNCHANGED <<asg, stale, op, dispVars, wep, tk, envVars>>

\* complete: UpdateAssignmentStateIf(epoch, executing -> done).
Complete(w) ==
    /\ \/ /\ Matches(wep[w], "executing") /\ SetState("done")
          /\ WorkGoto(w, "complete", "result") /\ UNCHANGED <<wep, wres>>
       \/ /\ ~Matches(wep[w], "executing")
          /\ WorkGoto(w, "complete", "idle") /\ WorkRest(w)
          /\ UNCHANGED <<asg, stale>>
    /\ UNCHANGED <<status, op, dispVars, tk, envVars>>

\* Mutant: the result written without the epoch in the WHERE clause.
SetResultAnyEpoch(w) ==
    /\ WorkGoto(w, "result", "idle") /\ WorkRest(w)
    /\ asg' = [asg EXCEPT !.result = wres[w]] /\ stale' = FALSE
    /\ UNCHANGED <<status, op, dispVars, tk, envVars>>

\* SetAssignmentResult: by run and epoch, whatever the state.
SetResult(w) ==
    /\ WorkGoto(w, "result", "idle") /\ WorkRest(w)
    /\ IF asg # NoAsg /\ asg.epoch = wep[w]
       THEN asg' = [asg EXCEPT !.result = wres[w]] /\ stale' = FALSE
       ELSE UNCHANGED <<asg, stale>>
    /\ UNCHANGED <<status, op, dispVars, tk, envVars>>

\* A statement of complete fails; pollOnce logs it and polls again.
CompleteFails(w) ==
    /\ \E s \in {"complete", "result"} : WorkGoto(w, s, "idle")
    /\ WorkRest(w) /\ Fault
    /\ UNCHANGED <<asg, stale, status, op, dispVars, tk, up, view, approvals>>
------------------------------------------------------------------------------
(* The takeover and the operators *)

\* settleOne's status CAS; an execution that is alive can meet it too, when
\* its lease ran out.  The takeover lock keeps sweeps of one run apart.
TakeOver ==
    /\ tk = "idle" /\ status = "running"
    /\ status' = "interrupted" /\ tk' = "get"
    /\ UNCHANGED <<asg, stale, op, dispVars, workVars, envVars>>

\* settleOne reads the assignment and reflects the interruption onto it.
TakeoverGet ==
    /\ tk = "get"
    /\ tk' = IF Active THEN "reflect" ELSE "idle"
    /\ UNCHANGED <<asg, stale, status, op, dispVars, workVars, envVars>>

\* UpdateAssignmentState: any active row of the run, whatever its epoch.
TakeoverReflect ==
    /\ tk = "reflect" /\ tk' = "idle"
    /\ IF Active THEN SetState("interrupted") ELSE UNCHANGED <<asg, stale>>
    /\ UNCHANGED <<status, op, dispVars, workVars, envVars>>

\* Either fails, or the leader dies in between; both are only logged.
TakeoverFails ==
    /\ tk # "idle" /\ tk' = "idle" /\ Fault
    /\ UNCHANGED <<asg, stale, status, op, dispVars, workVars, up, view, approvals>>

\* ApplyChange or RetryChange through the API, on any node.
OperatorRun ==
    /\ ~op /\ status # "running"
    /\ op' = TRUE /\ status' = "running"
    /\ UNCHANGED <<asg, stale, dispVars, workVars, tk, envVars>>

OperatorRunEnds ==
    /\ op /\ op' = FALSE
    /\ status' = IF status = "running" THEN "settled" ELSE status
    /\ UNCHANGED <<asg, stale, dispVars, workVars, tk, envVars>>

\* Paused, cancelled or re-planned before it is executed.
Withdraw ==
    /\ status = "approved" /\ status' = "settled"
    /\ UNCHANGED <<asg, stale, op, dispVars, workVars, tk, envVars>>

\* Resumed, or re-planned by a retry and approved again.
ApproveAgain ==
    /\ status \in {"settled", "interrupted"} /\ status' = "approved"
    /\ approvals > 0 /\ approvals' = approvals - 1
    /\ UNCHANGED <<asg, stale, op, dispVars, workVars, tk, up, view, faults>>
------------------------------------------------------------------------------
(* Environment *)

\* The claim timeout passes.  It is far longer than the heartbeat timeout, so
\* the registry has dropped its dead nodes by then; a worker that runs lets
\* it pass when it is busy with another run or stalls.
ClaimTimeout ==
    /\ AsgIn("pending") /\ ~stale /\ stale' = TRUE
    /\ view \subseteq up
    /\ IF asg.owner \in up THEN Fault ELSE NoFault
    /\ UNCHANGED <<asg, status, op, dispVars, workVars, tk, up, view, approvals>>

\* A process dies with its sweep and its worker loop; one node survives.
Crash(n) ==
    /\ n \in up /\ up # {n} /\ up' = up \ {n} /\ Fault
    /\ wpc' = [wpc EXCEPT ![n] = "idle"] /\ WorkRest(n)
    /\ dpc' = [d \in Dispatchers |-> IF d = n THEN "idle" ELSE dpc[d]]
    /\ dep' = [d \in Dispatchers |-> IF d = n THEN 0 ELSE dep[d]]
    /\ dto' = [d \in Dispatchers |-> IF d = n THEN n ELSE dto[d]]
    /\ UNCHANGED <<asg, stale, status, op, tk, view, approvals>>

\* The registry drops a node whose heartbeat is late.
MarkStale(n) ==
    /\ n \in view \ up /\ view' = view \ {n}
    /\ UNCHANGED <<asg, stale, status, op, dispVars, workVars, tk, up, faults, approvals>>

\* The node comes back and registers.
Restart(n) ==
    /\ n \notin up /\ up' = up \cup {n} /\ view' = view \cup {n}
    /\ UNCHANGED <<asg, stale, status, op, dispVars, workVars, tk, faults, approvals>>

SweepStep(d) ==
    \/ ListStale(d) \/ GetRun(d) \/ Terminalise(d) \/ Reclaim(d)
    \/ Candidate(d) \/ GetAssignment(d) \/ Create(d) \/ Reassign(d)

WorkStep(w) ==
    Poll(w) \/ Claim(w) \/ Execute(w) \/ Finish(w) \/ Complete(w) \/ SetResult(w)

Next ==
    \/ \E d \in Dispatchers : SweepStep(d) \/ SweepFails(d)
    \/ \E w \in Nodes : WorkStep(w) \/ CompleteFails(w)
    \/ TakeOver \/ TakeoverGet \/ TakeoverReflect \/ TakeoverFails
    \/ OperatorRun \/ OperatorRunEnds \/ Withdraw \/ ApproveAgain
    \/ ClaimTimeout
    \/ \E n \in Nodes : Crash(n) \/ MarkStale(n) \/ Restart(n)

Spec == Init /\ [][Next]_vars

\* Some node leads and keeps sweeping, coming to the stale rows every time
\* before it looks for candidates, and a sweep goes on to its end.  The worker
\* loops keep polling, executions end, and time passes.
LoopFairness ==
    /\ \A d \in Dispatchers : WF_vars(dpc[d] # "idle" /\ SweepStep(d))
    /\ SF_vars(\E d \in Dispatchers : ListStale(d))
    /\ \A w \in Nodes : WF_vars(WorkStep(w))
    /\ WF_vars(\E n \in Nodes : MarkStale(n))
    /\ WF_vars(ClaimTimeout /\ faults' = faults)

LoopSpec == Spec /\ LoopFairness
------------------------------------------------------------------------------
(* Properties *)

\* A worker that has claimed the row, until it has recorded the outcome.
Claimed(w) == wpc[w] \in {"execute", "run", "complete", "result"}

\* "the stale owner's late claim fails instead of executing a run that now
\* belongs to another node" (comment of reclaimStale): an epoch is claimed by
\* one worker, and while it is current that worker is the row's owner.
EpochClaimedOnce ==
    /\ \A v, w \in Nodes : Claimed(v) /\ Claimed(w) /\ wep[v] = wep[w] => v = w
    /\ \A w \in Nodes : Claimed(w) /\ wep[w] = asg.epoch => asg.owner = w

\* A claimed row is never handed to anybody else before its epoch has ended
\* (comment of ReclaimAssignment: the worker "beats the reclaim instead of
\* being overwritten"), although Reassign compares the epoch alone.
ClaimNotStolen ==
    [][AsgIn("executing") => asg'.epoch = asg.epoch]_vars

\* A result belongs to the epoch that is done: it never lands on an assignment
\* made after it, which complete's two statements leave room for.
ResultOfDoneEpoch == asg # NoAsg /\ asg.result # "" => asg.state = "done"

\* What a worker that has read the row knows of it: its epoch is not ahead of
\* the row, and as long as the epoch is current the row is the worker's, and
\* is no longer pending once claimed and done once completed.
WorkersBehindRow ==
    \A w \in Nodes : wpc[w] # "idle" =>
        /\ asg # NoAsg /\ wep[w] <= asg.epoch
        /\ wep[w] = asg.epoch =>
              /\ asg.owner = w
              /\ Claimed(w) => asg.state # "pending"
              /\ wpc[w] = "result" => asg.state = "done"

\* What claim knows before Reassign: the epoch it read was over.
ReassignsEndedEpoch ==
    \A d \in Dispatchers : dpc[d] = "reassign" =>
        /\ asg # NoAsg /\ dep[d] <= asg.epoch
        /\ dep[d] = asg.epoch => asg.state \in TerminalAssignStates

\* Inductive invariant: the reads of the concurrent loops (acquire, claim)
\* against the row, which make the compare-and-sets on the epoch sufficient.
IndInv ==
    /\ TypeOK
    /\ WorkersBehindRow
    /\ ReassignsEndedEpoch
    /\ EpochClaimedOnce
    /\ ResultOfDoneEpoch

\* No pending assignment rots: it is claimed, or ended, or made anew at a
\* worker that claims it (DefaultClaimTimeout's comment).
PendingIsClaimed ==
    AsgIn("pending") ~> (asg # NoAsg /\ ~AsgIn("pending"))
==============================================================================
