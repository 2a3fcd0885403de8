------------------------------- MODULE Closure -------------------------------
(* The execution of one change on the node that holds it: the closed loop of   *)
(* ClosureRunner.Run (internal/engine/closure.go) over batches of concurrent   *)
(* targets (internal/batch/controller.go), its automatic rollback              *)
(* (internal/rollback/manager.go), the evidence rows both leave behind         *)
(* (internal/wiring/persist.go), and what later reads those rows: a retry that *)
(* resumes and an operator's rollback (internal/wiring/run.go).                *)
(*                                                                             *)
(* A step or a compensation is a name; what it does to a host is abstracted to *)
(* owed, the compensation commands its last dispatch still needs, and applied, *)
(* the steps whose effect stands.  Gates and everything that may refuse a run  *)
(* before its first dispatch are choices.                                      *)
(*                                                                             *)
(* The node has MaxParallel execution slots, and nothing keeps two executions  *)
(* of one change from holding two of them.  The execution that takes the next  *)
(* step is in the variables; the others wait in others, and Switch and Resume  *)
(* say whose turn it is.  Another node only takes over.                        *)
EXTENDS Naturals, Sequences, FiniteSets, FiniteSetsExt, Functions

CONSTANTS
    Batches,         \* the plan: a sequence of sequences of hosts
    Steps,           \* the plan's steps, in order
    Undo,            \* Undo[s]: how many commands a step's rollback spec has, 0 without one
    Snapshot,        \* steps whose rollback strategy is "snapshot"
    Idempotent,      \* steps of a module that declares itself idempotent
    Policies,        \* the on_failure policies considered: "auto", "manual"
    MaxConcurrency,
    Scopes,          \* host subsets a retry may name
    MaxParallel,     \* --engine-max-parallel-runs: the executions a node admits
    MaxSwitches,     \* bound on the turns overlapping executions take
    MaxJobs,         \* bound on the apply, retry and rollback requests
    MaxFaults        \* bound on crashes, lost leases, dead contexts, store errors, overlaps

Hosts == UNION {Range(Batches[i]) : i \in DOMAIN Batches}
Pairs == Hosts \X Range(Steps)
Commands(s) == 1..Undo[s]

\* A plan splits its targets into batches, drops none and repeats none, and has
\* at least one step.  Rows and ledger know a step by its name: plans that use a
\* name twice are outside the model.
ASSUME PlanAssumption ==
    /\ Batches \in Seq(Seq(Hosts))
    /\ \A i, j \in DOMAIN Batches : i # j => Range(Batches[i]) \cap Range(Batches[j]) = {}
    /\ Steps \in Seq(Range(Steps))
    /\ Steps # <<>>
    /\ \A i, j \in DOMAIN Steps : Steps[i] = Steps[j] => i = j
    /\ Undo \in [Range(Steps) -> Nat]

VARIABLES
    status,     \* runs.status
    policy,     \* the plan's on_failure
    rows,       \* the steps table, per host and step: see Evidence
    owed,       \* targets: commands needed to undo the step's last dispatch
    applied,    \* targets: host and step pairs whose effect stands
    blind,      \* history: pairs whose last work on the host left no row
    calls,      \* per request, an operator's rollback as its handler sees it
    jobs,       \* requests so far
    faults,     \* faults so far
    others,     \* the executions of the change that wait for their turn
    overlap,    \* history: two executions of the change have overlapped
    switches,   \* turns taken so far
    me,         \* the request whose execution takes the next step
    lease,      \* its execution lease as the store has it: none, held, lost
    late,       \* history: commands it sent to a host after the lease was lost
    cancelled,  \* its request's context
    pc,         \* where it is; "idle": no execution
    job,        \* what is executed: kind, batches and hosts
    pos,        \* position in job.plan
    at,         \* the goroutine of each target of the batch
    done,       \* results of the steps dispatched in this execution
    refused,    \* steps the lease check refused: results with an error as well
    undo,       \* compensation commands still to be run on the host: step and command
    undone,     \* compensation commands that succeeded in this execution
    flawed,     \* a compensation command failed
    verdict,    \* ClosureResult.Phase
    fault       \* executePlan returns an error

target == <<owed, applied>>
store == <<status, rows, blind>>
local == <<job, pos, at, done, refused, undo, undone, flawed, verdict, fault>>
session == <<me, lease, late, cancelled>>
node == <<policy, calls, jobs, faults, others, overlap, switches>>
vars == <<store, target, node, session, pc, local>>

\* What the rows of a step on a host say: it was dispatched, the batch numbers
\* under which a success is filed, and the compensation commands that succeeded
\* after the latest dispatch.
Evidence == [ran : BOOLEAN, ok : SUBSET DOMAIN Batches, undone : SUBSET UNION {Commands(s) : s \in Range(Steps)}]
NoEvidence == [ran |-> FALSE, ok |-> {}, undone |-> {}]

RollbackVerdicts == {"rolled_back", "rolled_back_partial", "rollback_incomplete"}
RetryAdmitted == RollbackVerdicts \cup {"failed", "interrupted"}
RollbackAdmitted == {"completed", "failed", "rolled_back_partial", "rollback_incomplete"}

NoJob == [kind |-> "none", plan |-> <<>>, scope |-> {}, resume |-> FALSE]

Idle ==
    /\ pc = "idle"
    /\ me = 0
    /\ lease = "none"
    /\ late = [h \in Hosts |-> 0]
    /\ cancelled = FALSE
    /\ job = NoJob
    /\ pos = 0
    /\ at = [h \in Hosts |-> "off"]
    /\ done = [p \in Pairs |-> "none"]
    /\ refused = {}
    /\ undo = [h \in Hosts |-> {}]
    /\ undone = [p \in Pairs |-> {}]
    /\ flawed = FALSE
    /\ verdict = "none"
    /\ fault = FALSE

Init ==
    /\ status = "approved"
    /\ policy \in Policies
    /\ rows = [p \in Pairs |-> NoEvidence]
    /\ owed = [p \in Pairs |-> {}]
    /\ applied = {}
    /\ blind = {}
    /\ calls = [r \in 1..MaxJobs |-> "none"]
    /\ jobs = 0
    /\ faults = 0
    /\ others = {}
    /\ overlap = FALSE
    /\ switches = 0
    /\ Idle

-------------------------------------------------------------------------------
(* Plans.                                                                      *)

\* The places in K in order, and the elements of a sequence at them.
Rank(K, k) == Cardinality({m \in K : m <= k})
Nth(K, n) == CHOOSE k \in K : Rank(K, k) = n
Keep(seq, K) == [n \in 1..Cardinality(K) |-> seq[Nth(K, n)]]

\* The stored plan restricted to some hosts, without the batches that have none
\* of them; batch numbers are kept.
Wanted(i, hosts) == {k \in DOMAIN Batches[i] : Batches[i][k] \in hosts}
narrowPlan(hosts) ==
    Keep([i \in DOMAIN Batches |-> [no |-> i, hosts |-> Keep(Batches[i], Wanted(i, hosts))]],
         {i \in DOMAIN Batches : Wanted(i, hosts) # {}})

\* Batches every step of which has a success row, under the batch's number, on
\* every host, and only steps of idempotent modules.
completedIdempotentBatches(p) ==
    {b.no : b \in {c \in Range(p) : /\ Range(Steps) \subseteq Idempotent
                                    /\ \A h \in Range(c.hosts), s \in Range(Steps) :
                                          c.no \in rows[<<h, s>>].ok}}

\* The plan without the skipped batches, renumbered from the first.
buildResumePlan(p, skip) ==
    LET kept == Keep(p, {i \in DOMAIN p : p[i].no \notin skip})
    IN  [i \in DOMAIN kept |-> [no |-> i, hosts |-> kept[i].hosts]]

ResumePlan(p) ==
    LET skip == completedIdempotentBatches(p)
    IN  IF skip = {} THEN p ELSE buildResumePlan(p, skip)

-------------------------------------------------------------------------------
(* Requests.                                                                   *)

\* The locals an execution begins with and leaves behind.
Fresh ==
    /\ lease' = "none"
    /\ late' = [h \in Hosts |-> 0]
    /\ cancelled' = FALSE
    /\ at' = [h \in Hosts |-> "off"]
    /\ done' = [p \in Pairs |-> "none"]
    /\ refused' = {}
    /\ undone' = [p \in Pairs |-> {}]
    /\ flawed' = FALSE
    /\ verdict' = "none"
    /\ fault' = FALSE

Request == jobs < MaxJobs /\ jobs' = jobs + 1

Executing == Cardinality(others) + (IF pc = "idle" THEN 0 ELSE 1)

\* The execution as it waits for its turn.
Context ==
    [me |-> me, lease |-> lease, late |-> late, cancelled |-> cancelled, pc |-> pc, job |-> job, pos |-> pos,
     at |-> at, done |-> done, refused |-> refused, undo |-> undo, undone |-> undone,
     flawed |-> flawed, verdict |-> verdict, fault |-> fault]

\* acquire: a request takes a free slot, whichever change the taken ones are for.
Launch(request, kind, hosts) ==
    /\ Executing < MaxParallel
    /\ others' = IF pc = "idle" THEN others ELSE others \cup {Context}
    /\ overlap' = (overlap \/ pc # "idle")
    /\ pc # "idle" => faults < MaxFaults
    /\ faults' = IF pc = "idle" THEN faults ELSE faults + 1
    /\ me' = request
    /\ job' = [kind |-> kind, plan |-> narrowPlan(hosts), scope |-> hosts \cap Hosts,
               resume |-> status = "interrupted"]
    /\ Fresh
    /\ UNCHANGED <<rows, blind, target, policy, switches>>

\* ApplyChange claims an approved run and executes the stored plan.
Apply ==
    /\ Request
    /\ status = "approved"
    /\ Launch(jobs', "apply", Hosts)
    /\ status' = "running"
    /\ pc' = "begin"
    /\ pos' = 0
    /\ undo' = [h \in Hosts |-> {}]
    /\ UNCHANGED calls

\* retryChange without a re-plan, for the hosts the request names; it fails
\* when none of them is in the plan.
Retry(hosts) ==
    /\ Request
    /\ hosts \cap Hosts # {}
    /\ status \in RetryAdmitted
    /\ Launch(jobs', "retry", hosts)
    /\ status' = "running"
    /\ pc' = "begin"
    /\ pos' = 0
    /\ undo' = [h \in Hosts |-> {}]
    /\ UNCHANGED calls

\* RollbackChange reads the run and admits the request before it has a slot.
AdmitRollback ==
    /\ Request
    /\ status \in RollbackAdmitted
    /\ calls' = [calls EXCEPT ![jobs'] = "admitted"]
    /\ UNCHANGED <<store, target, policy, faults, others, overlap, switches, session, pc, local>>

\* A mutant of ledgerFromStoredSteps: compensation rows are not read.
ledgerOfForwardRows == {p \in Pairs : rows[p].ran}

\* What the stored rows say was dispatched and has no later compensation.
ledgerFromStoredSteps == {p \in Pairs : rows[p].ran /\ rows[p].undone = {}}

\* The same, from the results of this execution.
LedgerFromBatchResults == {p \in Pairs : done[p] # "none" \/ p \in refused}

\* The compensation commands of a ledger, per host: the step's place in the plan
\* and the command's in its rollback spec.
Compensations(ledger) ==
    [h \in Hosts |-> UNION {{i} \X Commands(Steps[i]) : i \in {j \in DOMAIN Steps : <<h, Steps[j]>> \in ledger}}]

\* Steps are undone in reverse, the commands of each in order.
FirstOf(c, commands) ==
    \A d \in commands : d[1] < c[1] \/ (d[1] = c[1] /\ c[2] <= d[2])

\* rollbackChange: no lease, no host lock; the ledger is read from the rows.
StartRollback(r) ==
    /\ calls[r] = "admitted"
    /\ Launch(r, "rollback", Hosts)
    /\ calls' = [calls EXCEPT ![r] = "executing"]
    /\ pc' = "undo"
    /\ pos' = Len(job'.plan)
    /\ undo' = Compensations(ledgerFromStoredSteps)
    /\ UNCHANGED <<status, jobs>>

\* acquire does not wait: every slot is taken, the request fails.
RefuseRollback(r) ==
    /\ calls[r] = "admitted"
    /\ Executing = MaxParallel
    /\ calls' = [calls EXCEPT ![r] = "none"]
    /\ UNCHANGED <<store, target, policy, jobs, faults, others, overlap, switches, session, pc, local>>

\* The request writes the outcome over whatever status the run has by then.
WriteVerdict(r) ==
    /\ calls[r] \in RollbackVerdicts
    /\ status' = calls[r]
    /\ calls' = [calls EXCEPT ![r] = "none"]
    /\ UNCHANGED <<rows, blind, target, policy, jobs, faults, others, overlap, switches, session, pc, local>>

\* Executions in progress take turns.
Load(c) ==
    /\ me' = c.me /\ lease' = c.lease /\ late' = c.late /\ cancelled' = c.cancelled
    /\ pc' = c.pc /\ job' = c.job /\ pos' = c.pos
    /\ at' = c.at /\ done' = c.done /\ refused' = c.refused
    /\ undo' = c.undo /\ undone' = c.undone /\ flawed' = c.flawed
    /\ verdict' = c.verdict /\ fault' = c.fault
    /\ UNCHANGED <<store, target, policy, calls, jobs, faults, overlap>>

Switch(c) ==
    /\ pc # "idle"
    /\ switches < MaxSwitches
    /\ switches' = switches + 1
    /\ others' = (others \ {c}) \cup {Context}
    /\ Load(c)

Resume(c) ==
    /\ pc = "idle"
    /\ others' = others \ {c}
    /\ Load(c)
    /\ UNCHANGED switches

-------------------------------------------------------------------------------
(* Forward execution.                                                          *)

\* guard.Begin, the resume filter, and everything that may refuse passed.
Begin ==
    /\ pc = "begin"
    /\ lease' = "held"
    /\ job' = [job EXCEPT !.plan = IF job.resume THEN ResumePlan(@) ELSE @]
    /\ pos' = 1
    /\ pc' = "batch"
    /\ UNCHANGED <<store, target, node, me, late, cancelled,
                   at, done, refused, undo, undone, flawed, verdict, fault>>

\* The lease, the capability check, the host guard, a pre-apply gate, a host
\* lock, a snapshot capture or the context refuses: nothing was dispatched.
Refuse ==
    /\ pc = "begin"
    /\ verdict' = "failed"
    /\ fault' = TRUE
    /\ pc' = "settle"
    /\ UNCHANGED <<store, target, node, session, job, pos, at, done, refused, undo, undone, flawed>>

Targets == Range(job.plan[pos].hosts)
Failures == {"failed", "fenced", "cancelled"}

\* The batch's context: the request's, or cancelled by the first target error.
CtxDone == cancelled \/ \E h \in Hosts : at[h] \in Failures

\* The step the target is at: the first without a result.
Pending(h) == {i \in DOMAIN Steps : done[<<h, Steps[i]>>] = "none"}
Current(h) == Steps[Min(Pending(h))]
OnLast(h) == \A i \in Pending(h) : Steps[i] = Current(h)

StartBatch ==
    /\ pc = "batch"
    /\ pos \in DOMAIN job.plan
    /\ ~cancelled
    /\ at' = [h \in Hosts |-> IF h \in Targets THEN "wait" ELSE "off"]
    /\ pc' = "run"
    /\ UNCHANGED <<store, target, node, session, job, pos, done, refused, undo, undone, flawed, verdict, fault>>

\* What a target's goroutine leaves alone, and one that sends nothing.
OfTarget == <<store, node, me, lease, cancelled, pc, job, pos, undo, undone, flawed, verdict, fault>>
Silent == <<OfTarget, target, late>>

\* The semaphore, or the end of the context; select takes either when both are ready.
EnterTarget(h) ==
    /\ at[h] = "wait"
    /\ Cardinality({t \in Hosts : at[t] \in {"ready", "cleared", "flight"}}) < MaxConcurrency
    /\ at' = [at EXCEPT ![h] = "ready"]
    /\ UNCHANGED <<Silent, done, refused>>

SkipTarget(h) ==
    /\ at[h] \in {"wait", "ready"}
    /\ CtxDone
    /\ at' = [at EXCEPT ![h] = "cancelled"]
    /\ UNCHANGED <<Silent, done, refused>>

\* exec checks the lease, ...
StartStep(h) ==
    /\ at[h] = "ready"
    /\ ~CtxDone
    /\ lease = "held"
    /\ at' = [at EXCEPT ![h] = "cleared"]
    /\ UNCHANGED <<Silent, done, refused>>

FencedStep(h) ==
    /\ at[h] = "ready"
    /\ ~CtxDone
    /\ lease = "lost"
    /\ at' = [at EXCEPT ![h] = "fenced"]
    /\ refused' = refused \cup {<<h, Current(h)>>}
    /\ UNCHANGED <<Silent, done>>

\* A command sent when the lease is lost.
SentLate(h) == late' = [late EXCEPT ![h] = IF lease = "lost" THEN @ + 1 ELSE @]

\* ... then dials and sends the step, whatever the lease is by then.  A dial
\* that fails is a step that fails.
SendStep(h) ==
    /\ pc = "run"
    /\ at[h] = "cleared"
    /\ at' = [at EXCEPT ![h] = "flight"]
    /\ owed' = [owed EXCEPT ![<<h, Current(h)>>] = Commands(Current(h))]
    /\ applied' = applied \ {<<h, Current(h)>>}
    /\ SentLate(h)
    /\ UNCHANGED <<OfTarget, done, refused>>

FinishStep(h) ==
    /\ at[h] = "flight"
    /\ \/ /\ done' = [done EXCEPT ![<<h, Current(h)>>] = "ok"]
          /\ applied' = applied \cup {<<h, Current(h)>>}
          /\ at' = [at EXCEPT ![h] = IF OnLast(h) THEN "ok" ELSE "ready"]
       \/ /\ done' = [done EXCEPT ![<<h, Current(h)>>] = "failed"]
          /\ at' = [at EXCEPT ![h] = "failed"]
          /\ UNCHANGED applied
    /\ UNCHANGED <<OfTarget, late, owed, refused>>

\* A failure after the first batch was reached: compensate what was executed, or,
\* with on_failure: manual, keep it and fail.
Unwind(executed) ==
    \/ /\ policy = "manual"
       /\ verdict' = "failed"
       /\ fault' = TRUE
       /\ pc' = "evidence"
       /\ UNCHANGED <<pos, undo>>
    \/ /\ policy = "auto"
       /\ undo' = Compensations(LedgerFromBatchResults)
       /\ pos' = executed
       /\ pc' = "undo"
       /\ UNCHANGED <<verdict, fault>>

OfBatch == <<store, target, node, session, job, done, refused, undone, flawed>>

\* Cancelled between two batches or before the post-apply gates.
AbortBetween ==
    /\ pc = "batch"
    /\ cancelled
    /\ Unwind(pos - 1)
    /\ UNCHANGED <<OfBatch, at>>

\* A mutant of Joined: targets queued at the semaphore are not waited for.
JoinedStarted == pc = "run" /\ \A h \in Hosts : at[h] \notin {"ready", "cleared", "flight"}

\* All targets of the batch have returned.
Joined == pc = "run" /\ \A h \in Hosts : at[h] \in Failures \cup {"ok", "off"}

\* The batch's error is the error of its first failed target in plan order.
Errors == {k \in DOMAIN job.plan[pos].hosts : at[job.plan[pos].hosts[k]] \in Failures}
FirstError == at[job.plan[pos].hosts[Min(Errors)]]

EndBatch ==
    /\ Joined
    /\ at' = [h \in Hosts |-> "off"]
    /\ \/ /\ Errors = {}                 \* post-batch gates pass
          /\ pos' = pos + 1
          /\ pc' = "batch"
          /\ UNCHANGED <<undo, verdict, fault>>
       \/ /\ Errors = {}                 \* or one fails
          /\ Unwind(pos)
       \/ /\ Errors # {}
          /\ FirstError = "fenced"
          /\ verdict' = "failed"
          /\ fault' = TRUE
          /\ pc' = "evidence"
          /\ UNCHANGED <<pos, undo>>
       \/ /\ Errors # {}
          /\ FirstError # "fenced"
          /\ Unwind(pos)
    /\ UNCHANGED OfBatch

\* Every batch succeeded: the post-apply gates.
PostApply ==
    /\ pc = "batch"
    /\ pos = Len(job.plan) + 1
    /\ ~cancelled
    /\ \/ /\ verdict' = "completed"
          /\ pc' = "evidence"
          /\ UNCHANGED <<pos, undo, fault>>
       \/ Unwind(pos - 1)
    /\ UNCHANGED <<OfBatch, at>>

-------------------------------------------------------------------------------
(* Rollback: the closure's own, detached from the request's context, and the   *)
(* operator's, which is not.                                                   *)

Manual == job.kind = "rollback"

\* A mutant of Reaches: the lease is not checked before a compensation.
ReachesUnfenced(h, s) == Manual => ~cancelled

\* Whether a command gets to the host: the closure's commands pass the lease
\* check of exec first, snapshot restores do not.
Reaches(h, s) == IF Manual THEN ~cancelled ELSE at[h] = "cleared" \/ s \in Snapshot

OfUndo == <<store, node, me, lease, cancelled, pc, job, pos, done, refused, verdict, fault>>

\* exec checks the lease for the closure's next command on the host, ...
ClearUndo(h) ==
    /\ pc = "undo"
    /\ ~Manual
    /\ pos \in DOMAIN job.plan
    /\ h \in Targets
    /\ at[h] = "off"
    /\ \E c \in undo[h] : FirstOf(c, undo[h]) /\ Steps[c[1]] \notin Snapshot
    /\ lease = "held"
    /\ at' = [at EXCEPT ![h] = "cleared"]
    /\ UNCHANGED <<OfUndo, target, late, undo, undone, flawed>>

\* ... then dials and sends it; or it fails, refused by the check included.
RunUndo(h) ==
    /\ pc = "undo"
    /\ pos \in DOMAIN job.plan
    /\ h \in Targets
    /\ \E c \in undo[h] :
          /\ FirstOf(c, undo[h])
          /\ LET p == <<h, Steps[c[1]]>>
             IN  \/ /\ Reaches(h, Steps[c[1]])
                    /\ owed' = [owed EXCEPT ![p] = @ \ {c[2]}]
                    /\ applied' = applied \ {p}
                    /\ undone' = [undone EXCEPT ![p] = @ \cup {c[2]}]
                    /\ IF Steps[c[1]] \in Snapshot THEN UNCHANGED late ELSE SentLate(h)
                    /\ UNCHANGED flawed
                 \/ /\ flawed' = TRUE
                    /\ UNCHANGED <<target, late, undone>>
          /\ undo' = [undo EXCEPT ![h] = @ \ {c}]
    /\ at' = [at EXCEPT ![h] = "off"]
    /\ UNCHANGED OfUndo

Ledger == IF Manual THEN ledgerFromStoredSteps ELSE LedgerFromBatchResults

\* A mutant of Success: a step without a compensation is no gap.
SuccessWithGaps == ~flawed

\* A step that ran and declares no compensation is a gap.
Success == ~flawed /\ \A p \in Ledger : Undo[p[2]] # 0

RollbackPhase ==
    IF Success THEN "rolled_back"
    ELSE IF \E p \in Pairs : undone[p] # {} THEN "rolled_back_partial"
    ELSE "rollback_incomplete"

\* Batches are walked in reverse, each to its end.
EndUndoBatch ==
    /\ pc = "undo"
    /\ pos \in DOMAIN job.plan => \A h \in Targets : undo[h] = {}
    /\ \/ /\ pos > 1
          /\ pos' = pos - 1
          /\ UNCHANGED <<pc, verdict>>
       \/ /\ pos <= 1
          /\ verdict' = RollbackPhase
          /\ pc' = "evidence"
          /\ UNCHANGED pos
       \/ /\ pos <= 1                    \* the run baseline is not restored
          /\ Manual
          /\ verdict' = "rollback_incomplete"
          /\ pc' = "evidence"
          /\ UNCHANGED pos
    /\ UNCHANGED <<OfBatch, at, undo, fault>>

-------------------------------------------------------------------------------
(* Evidence and outcome.                                                       *)

\* Pairs this execution changed on a host.
Touched == {p \in Pairs : \/ done[p] # "none"
                          \/ undone[p] # {}
                          \/ at[p[1]] = "flight" /\ Current(p[1]) = p[2]}

BatchNo(h) == (CHOOSE b \in Range(job.plan) : h \in Range(b.hosts)).no

OfEvidence == <<status, target, policy, calls, jobs, others, overlap, switches, session,
                job, pos, at, done, refused, undo, undone, flawed, verdict>>

\* The lease is still ours, or none is needed, and the context is alive.
MayPersist == (Manual \/ lease = "held") /\ ~cancelled

\* A mutant of Persist: compensations of an earlier dispatch still count.
PersistKeepsUndone ==
    /\ pc = "evidence"
    /\ MayPersist
    /\ rows' = [p \in Pairs |->
                  [ran |-> rows[p].ran \/ done[p] # "none",
                   ok |-> IF done[p] = "ok" THEN rows[p].ok \cup {BatchNo(p[1])} ELSE rows[p].ok,
                   undone |-> rows[p].undone \cup undone[p]]]
    /\ blind' = {p \in blind : done[p] = "none"}
    /\ pc' = "settle"
    /\ UNCHANGED <<OfEvidence, faults, fault>>

\* persistClosureResults and persistRollbackResults.
Persist ==
    /\ pc = "evidence"
    /\ MayPersist
    /\ rows' = [p \in Pairs |->
                  IF done[p] = "none"
                  THEN [ran |-> rows[p].ran, ok |-> rows[p].ok, undone |-> rows[p].undone \cup undone[p]]
                  ELSE [ran |-> TRUE,
                        ok |-> IF done[p] = "ok" THEN rows[p].ok \cup {BatchNo(p[1])} ELSE rows[p].ok,
                        undone |-> undone[p]]]
    /\ blind' = {p \in blind : done[p] = "none"}
    /\ pc' = "settle"
    /\ UNCHANGED <<OfEvidence, faults, fault>>

Fault == faults < MaxFaults /\ faults' = faults + 1

\* The evidence gate refuses, the context is gone, or the store fails.
LoseEvidence ==
    /\ pc = "evidence"
    /\ \/ ~MayPersist /\ UNCHANGED faults
       \/ MayPersist /\ Fault
    /\ fault' = TRUE
    /\ blind' = blind \cup Touched
    /\ pc' = "settle"
    /\ UNCHANGED <<OfEvidence, rows>>

\* The status the outcome is written as.
Outcome ==
    CASE job.kind = "apply" -> IF fault THEN "failed" ELSE verdict
      [] job.kind = "retry" -> IF verdict \in RollbackVerdicts THEN verdict
                               ELSE IF fault THEN "failed" ELSE verdict

\* The locals of an execution end with it.
EndJob ==
    /\ pc' = "idle"
    /\ me' = 0
    /\ job' = NoJob
    /\ pos' = 0
    /\ undo' = [h \in Hosts |-> {}]
    /\ Fresh

\* Executions of one node share the lease: it is gone for all of them.
Unleased == {[c EXCEPT !.lease = IF @ = "held" THEN "lost" ELSE @] : c \in others}

\* lease.End, then the compare-and-set from running, with the request's context.
Settle ==
    /\ pc = "settle"
    /\ ~Manual
    /\ status' = IF status = "running" /\ ~cancelled THEN Outcome ELSE status
    /\ others' = IF lease = "held" THEN Unleased ELSE others
    /\ EndJob
    /\ UNCHANGED <<rows, blind, target, policy, calls, jobs, faults, overlap, switches>>

\* rollbackChange returns: RollbackChange has a status to write, unless the
\* rollback succeeded and its evidence did not, or its context is gone.
ReturnRollback ==
    /\ pc = "settle"
    /\ Manual
    /\ calls' = [calls EXCEPT ![me] =
                   CASE cancelled -> "none"
                     [] ~cancelled /\ verdict # "rolled_back" -> "rollback_incomplete"
                     [] ~cancelled /\ verdict = "rolled_back" /\ fault -> "none"
                     [] OTHER -> "rolled_back"]
    /\ EndJob
    /\ UNCHANGED <<store, target, policy, jobs, faults, others, overlap, switches>>

-------------------------------------------------------------------------------
(* Faults.                                                                     *)

\* The client goes away or its deadline passes.
Cancel ==
    /\ Fault
    /\ pc # "idle"
    /\ ~cancelled
    /\ cancelled' = TRUE
    /\ UNCHANGED <<store, target, policy, calls, jobs, others, overlap, switches, me, lease, late, pc, local>>

\* The lease expires and another node reclaims it.
LoseLease ==
    /\ Fault
    /\ lease = "held"
    /\ lease' = "lost"
    /\ others' = Unleased
    /\ UNCHANGED <<store, target, policy, calls, jobs, overlap, switches, me, late, cancelled, pc, local>>

\* The takeover, or the scan for orphaned runs, settles a run nobody executes:
\* an operator's rollback is not an execution to them.
Interrupt ==
    /\ status = "running"
    /\ pc = "idle" \/ Manual \/ lease = "lost"
    /\ \A c \in others : c.job.kind = "rollback" \/ c.lease = "lost"
    /\ status' = "interrupted"
    /\ UNCHANGED <<rows, blind, target, node, session, pc, local>>

\* The node goes down with every execution and handler on it.
Crash ==
    /\ Fault
    /\ pc # "idle" \/ others # {} \/ \E r \in DOMAIN calls : calls[r] # "none"
    /\ calls' = [r \in DOMAIN calls |-> "none"]
    /\ blind' = IF pc = "settle" THEN blind ELSE blind \cup Touched
    /\ others' = {}
    /\ EndJob
    /\ UNCHANGED <<status, rows, target, policy, jobs, overlap, switches>>

-------------------------------------------------------------------------------
Execute ==
    \/ Begin \/ Refuse \/ StartBatch \/ AbortBetween \/ EndBatch \/ PostApply
    \/ EndUndoBatch \/ Persist \/ LoseEvidence \/ Settle \/ ReturnRollback
    \/ \E h \in Hosts : \/ EnterTarget(h) \/ SkipTarget(h) \/ StartStep(h) \/ FencedStep(h)
                        \/ SendStep(h) \/ FinishStep(h) \/ ClearUndo(h) \/ RunUndo(h)
    \/ \E c \in others : Resume(c)

Next ==
    \/ Apply
    \/ \E hosts \in Scopes : Retry(hosts)
    \/ AdmitRollback
    \/ \E r \in DOMAIN calls : StartRollback(r) \/ RefuseRollback(r) \/ WriteVerdict(r)
    \/ Execute
    \/ \E c \in others : Switch(c)
    \/ Cancel \/ LoseLease \/ Interrupt \/ Crash

Spec == Init /\ [][Next]_vars

-------------------------------------------------------------------------------
(* Properties.                                                                 *)

\* Between executions, while none has overlapped another, the rows tell what the
\* hosts still need: unless the last work on a host left no row (a crash, a lost
\* lease, a dead context), a step's outstanding compensation is exactly what its
\* rows leave open.
EvidenceIsTrue ==
    pc = "idle" /\ ~overlap =>
        \A p \in Pairs \ blind :
            owed[p] = IF rows[p].ran THEN Commands(p[2]) \ rows[p].undone ELSE {}

\* What the rows leave open, and the pair a host is being given.
Open(p) == IF rows[p].ran THEN Commands(p[2]) \ rows[p].undone ELSE {}
InFlight(p) == at[p[1]] = "flight" /\ Current(p[1]) = p[2]

\* The inductive form.  While an execution is on, what it dispatched owes what
\* it has not undone, and everything else what the rows leave open less what it
\* has undone; nothing is undone before the forward pass has ended.
IndInv ==
    /\ DOMAIN rows = Pairs /\ DOMAIN owed = Pairs /\ DOMAIN done = Pairs
    /\ DOMAIN undone = Pairs /\ DOMAIN at = Hosts /\ DOMAIN undo = Hosts
    /\ pc \in {"idle", "begin", "batch", "run", "undo", "evidence", "settle"}
    /\ pc \in {"idle", "begin"} => \A p \in Pairs : done[p] = "none"
    /\ pc \in {"idle", "begin", "batch", "run"} => \A p \in Pairs : undone[p] = {}
    /\ pc \notin {"run", "undo"} => \A h \in Hosts : at[h] = "off"
    /\ pc = "undo" => \A h \in Hosts :
          at[h] = "off" \/ (at[h] = "cleared" /\ ~Manual /\ pos \in DOMAIN job.plan /\ h \in Targets /\ undo[h] # {})
    /\ pc \in {"idle", "settle"} => \A p \in Pairs \ blind : owed[p] = Open(p)
    /\ pc \notin {"idle", "settle"} =>
          \A p \in Pairs :
             IF done[p] # "none" \/ InFlight(p) THEN owed[p] = Commands(p[2]) \ undone[p]
             ELSE p \in blind \/ owed[p] = Open(p) \ undone[p]
    /\ lease \in {"none", "held", "lost"}
    /\ pc \in {"idle", "begin"} \/ Manual => lease = "none"
    /\ Manual => pc \in {"undo", "evidence", "settle"}
    /\ "kind" \in DOMAIN job
    /\ job.kind = "none" <=> pc = "idle"

\* While no two executions of the change have overlapped, no compensation runs
\* twice for one dispatch of its step, whoever runs it: the closure or an operator
\* after it.  (A dispatch the lease check refused counts as run; its compensation
\* is refused as well, snapshot restores apart.)  Two rollbacks that do overlap
\* read the same rows and both send the compensations.
NoSecondUndo ==
    ~overlap =>
        \A h \in Hosts : \A c \in undo[h] :
            LET p == <<h, Steps[c[1]]>>
            IN  c[2] \in owed[p] \/ p \in blind \/ p \in refused

\* A batch is entered only when every step of every earlier batch succeeded on
\* every one of its hosts.
BatchBarrier ==
    \A i, j \in DOMAIN job.plan :
        i < j => \A h \in Range(job.plan[i].hosts), t \in Range(job.plan[j].hosts), s \in Range(Steps) :
                    done[<<t, s>>] # "none" => \A r \in Range(Steps) : done[<<h, r>>] = "ok"

\* An execution no other has overlapped that reports a clean rollback has left
\* none of its own steps in effect and nothing of them to undo, and an operator's
\* rollback nothing the rows show, except a step whose compensation an earlier
\* rollback ran in part.
CleanVerdict ==
    verdict = "rolled_back" /\ ~overlap =>
        \A p \in Pairs :
            \/ owed[p] = {} /\ p \notin applied
            \/ IF Manual THEN p \in blind \/ rows[p].undone # {} ELSE done[p] = "none"

\* The invariant of one execution behind these three and CompletedIsApplied.
\* The plan has a host in one batch and, unless batches were skipped, leaves out
\* no host of the request.
Plans == Seq([no : Nat, hosts : Seq(Hosts)])
OneBatch(plan) ==
    \A i, j \in DOMAIN plan : i # j => Range(plan[i].hosts) \cap Range(plan[j].hosts) = {}
Covers(plan, hosts) == \A h \in hosts : \E i \in DOMAIN plan : h \in Range(plan[i].hosts)
PlanSound ==
    /\ job \in [kind : {"none", "apply", "retry", "rollback"}, plan : Plans,
                scope : SUBSET Hosts, resume : BOOLEAN]
    /\ pos \in Nat
    /\ OneBatch(job.plan)
    /\ pc # "idle" /\ (Manual \/ ~job.resume) => Covers(job.plan, job.scope)
    /\ Manual => job.scope = Hosts

\* A host of one of the first n batches.
Reached(h, n) == \E i \in DOMAIN job.plan : i <= n /\ h \in Range(job.plan[i].hosts)

\* Forward, batch by batch: the batches before the current one succeeded, those
\* after it are untouched, and a target that returned ok has done every step.
ForwardInv ==
    /\ done \in [Pairs -> {"none", "ok", "failed"}]
    /\ refused \subseteq Pairs
    /\ at \in [Hosts -> {"off", "wait", "ready", "cleared", "flight", "ok"} \cup Failures]
    /\ pc \in {"idle", "begin"} \/ Manual => LedgerFromBatchResults = {}
    /\ pc = "batch" => pos \in 1..Len(job.plan) + 1
    /\ pc = "run" => pos \in DOMAIN job.plan
    /\ pc = "batch" => \A p \in LedgerFromBatchResults : Reached(p[1], pos - 1)
    /\ pc = "run" => \A p \in LedgerFromBatchResults : Reached(p[1], pos)
    /\ pc \in {"batch", "run"} =>
          /\ \A p \in Pairs : Reached(p[1], pos - 1) => done[p] = "ok"
          /\ \A p \in Pairs : done[p] = "ok" => p \in applied
    /\ pc = "run" => \A h \in Hosts :
          /\ at[h] # "off" <=> h \in Targets
          /\ at[h] \in {"wait", "ready", "cleared", "flight"} =>
                /\ \A s \in Range(Steps) : done[<<h, s>>] # "failed"
                /\ Pending(h) # {}
          /\ at[h] = "ok" => \A s \in Range(Steps) : done[<<h, s>>] = "ok"

\* Backward: what is queued was run and not undone, and until a command fails
\* what was run and is not queued has been undone.
UndoInv ==
    /\ undo \in [Hosts -> SUBSET ((DOMAIN Steps) \X Nat)]
    /\ pc # "undo" => \A h \in Hosts : undo[h] = {}
    /\ pc = "undo" => \A h \in Hosts : undo[h] # {} => Reached(h, pos)
    /\ pc = "undo" => \A h \in Hosts : \A c \in undo[h] :
          /\ <<h, Steps[c[1]]>> \in Ledger
          /\ c[2] \in Commands(Steps[c[1]]) \ undone[<<h, Steps[c[1]]>>]
    /\ pc = "undo" /\ ~flawed =>
          \A h \in Hosts, i \in DOMAIN Steps :
             <<h, Steps[i]>> \in Ledger =>
                \A k \in Commands(Steps[i]) : k \in undone[<<h, Steps[i]>>] \/ <<i, k>> \in undo[h]

\* An outcome, once there is one, is true.
OutcomeInv ==
    /\ verdict # "none" => pc \in {"evidence", "settle"}
    /\ verdict = "completed" =>
          /\ ~Manual
          /\ \A i \in DOMAIN job.plan : Range(job.plan[i].hosts) \X Range(Steps) \subseteq applied

\* What stands on a host was run and not undone: by this execution, or as the rows say.
AppliedInv ==
    \A p \in Pairs : p \in applied =>
        /\ p \in blind \/ rows[p].ran \/ (pc # "settle" /\ done[p] # "none")
        /\ undone[p] = {}

ExecInv == IndInv /\ AppliedInv /\ PlanSound /\ ForwardInv /\ UndoInv /\ OutcomeInv /\ BatchBarrier /\ CleanVerdict

\* An executor that lost its lease soon stops writing: it sends a host at most
\* one more command, the one that had passed the check.  Steps and compensations
\* count together, snapshot restores do not.
FencedSendsOnce == \A h \in Hosts : late[h] <= 1

\* The inductive form, for every execution: a host that was sent a command late
\* is not cleared for another.
Fenced(c) ==
    /\ {"at", "late", "lease", "pc", "job"} \subseteq DOMAIN c /\ "kind" \in DOMAIN c.job
    /\ DOMAIN c.at = Hosts /\ DOMAIN c.late = Hosts
    /\ \A h \in Hosts : c.late[h] \in {0, 1}
    /\ \A h \in Hosts : c.late[h] = 1 => c.lease = "lost" /\ c.at[h] # "cleared"
    /\ c.pc = "begin" => c.lease = "none"
    /\ c.job.kind = "rollback" => c.lease = "none" /\ c.pc # "begin"
FenceInv == Fenced(Context) /\ \A c \in others : Fenced(c)

\* An execution that skipped no batch, and that no other has overlapped, completes
\* the run only when every step of the plan is in effect on every host of the
\* request, whatever was cancelled, lost or undone on the way.
CompletedIsApplied ==
    [][status' = "completed" /\ status # "completed" /\ ~job.resume /\ ~overlap =>
        job.scope \X Range(Steps) \subseteq applied']_vars
=============================================================================
