---------------------------- MODULE RunExecution -----------------------------
(***************************************************************************)
(* One run of a change in cluster mode, from the RPC that starts it to its *)
(* terminal status: the executions of the change service and the engine    *)
(* (ApplyChange, RetryChange, RetryHost, executePlan), the takeover loops  *)
(* of the nodes, and the execution lease (ExecGuard) they share.           *)
(*                                                                         *)
(* Every database statement is a step of its own, so that executions,      *)
(* sweeps, crashes and the clock interleave between any two statements.  A *)
(* statement may fail, and a write may take effect although its reply is   *)
(* lost.  The closure itself is abstracted to the Owns gates it passes and *)
(* its verdict; "rolled_back" stands for the three rollback verdicts.      *)
(***************************************************************************)
EXTENDS ExecGuard

CONSTANTS
    Calls,    \* the RPCs operators issue: a subset of AllCalls
    Sweepers, \* the nodes that take themselves for the leader
    Leader,   \* the one among them every registry converges on
    NoNode

AllCalls == {"apply", "autoApprove", "retry", "retryHost"}

ASSUME CallsType == Calls \subseteq AllCalls
ASSUME LeaderType == Leader \in Sweepers /\ Sweepers \subseteq Nodes

\* runstatus: the verdicts of an execution, what a retry may start from, and
\* the terminal statuses a run of this module can have.
Verdicts == {"completed", "failed", "rolled_back"}
RetryAdmitted == {"failed", "rolled_back", "interrupted"}
Terminal == Verdicts \cup {"interrupted"}
Statuses == {"approved", "running"} \cup Terminal

VARIABLES
    status,   \* runs.status
    aged,     \* runs.updated_at is older than the orphan grace period
    pc,       \* where each execution is
    via,      \* "apply" or "retry": which code maps its verdict
    arg,      \* the status it carries: the one it CASes from, later its verdict
    sweep,    \* where each node's takeover sweep is
    tlock     \* the node that holds the lock takeover:<run>, or NoNode

runVars == <<status, aged, pc, via, arg, sweep, tlock>>
allVars == <<vars, runVars>>

ExecSteps == {"idle", "retry", "cas", "begin", "run", "gate", "persist", "end", "settle", "done"}
SweepSteps == {"idle", "lock", "cas", "delete", "release"}

LocalTypeOK ==
    /\ status \in Statuses
    /\ aged \in BOOLEAN
    /\ pc \in [Execs -> ExecSteps]
    /\ via \in [Execs -> {"apply", "retry"}]
    /\ arg \in [Execs -> Statuses]
    /\ sweep \in [Sweepers -> SweepSteps]
    /\ tlock \in Sweepers \cup {NoNode}

RunTypeOK == TypeOK /\ LocalTypeOK

\* An approved change on a cluster that has not executed it.
RunInit ==
    /\ Init
    /\ status = "approved"
    /\ aged = FALSE
    /\ pc = [x \in Execs |-> "idle"]
    /\ via = [x \in Execs |-> "apply"]
    /\ arg = [x \in Execs |-> "failed"]
    /\ sweep = [n \in Sweepers |-> "idle"]
    /\ tlock = NoNode

Goto(x, from, to) == pc[x] = from /\ pc' = [pc EXCEPT ![x] = to]
SweepGoto(n, from, to) == sweep[n] = from /\ sweep' = [sweep EXCEPT ![n] = to]

\* Any status write also sets updated_at.
SetStatus(s) == status' = s /\ aged' = FALSE
------------------------------------------------------------------------------
(* Starting an execution *)

\* ApplyChange: the state guard (waived by autoApprove), reading the status
\* its CAS will start from.
ApplyChange(x) ==
    /\ Goto(x, "idle", "cas")
    /\ \/ "apply" \in Calls /\ status = "approved"
       \/ "autoApprove" \in Calls
    /\ arg' = [arg EXCEPT ![x] = status]
    /\ UNCHANGED <<vars, status, aged, via, sweep, tlock>>

\* RetryChange admits by status and calls the engine's retryChange.
RetryChange(x) ==
    /\ "retry" \in Calls
    /\ status \in RetryAdmitted
    /\ Goto(x, "idle", "retry")
    /\ via' = [via EXCEPT ![x] = "retry"]
    /\ UNCHANGED <<vars, status, aged, arg, sweep, tlock>>

\* RetryHost calls it too, whatever the status of the run.
RetryHost(x) ==
    /\ "retryHost" \in Calls
    /\ Goto(x, "idle", "retry")
    /\ via' = [via EXCEPT ![x] = "retry"]
    /\ UNCHANGED <<vars, status, aged, arg, sweep, tlock>>

\* retryChange re-reads the run and takes its status, whatever it is now, as
\* the one to CAS from; every refusal before that leaves the run alone.
RetryRead(x) ==
    /\ \/ Goto(x, "retry", "cas") /\ arg' = [arg EXCEPT ![x] = status]
       \/ Goto(x, "retry", "done") /\ UNCHANGED arg
    /\ UNCHANGED <<vars, status, aged, via, sweep, tlock>>

\* Mutant: a plain UpdateRun instead of the CAS.
StartBlind(x) ==
    /\ \E next \in {"begin", "done"} : Goto(x, "cas", next)
    /\ SetStatus("running")
    /\ arg' = [arg EXCEPT ![x] = "failed"]
    /\ UNCHANGED <<vars, via, sweep, tlock>>

\* UpdateRunStatusIf(old -> running).  Without the reply the RPC returns an
\* error and the run stays "running" with nobody to execute it.
StartCAS(x) ==
    /\ pc[x] = "cas"
    /\ \/ /\ status = arg[x]
          /\ SetStatus("running")
          /\ \E next \in {"begin", "done"} : Goto(x, "cas", next)
       \/ Goto(x, "cas", "done") /\ UNCHANGED <<status, aged>>
    /\ arg' = [arg EXCEPT ![x] = "failed"]
    /\ UNCHANGED <<vars, via, sweep, tlock>>

\* runChange refuses after ApplyChange's CAS: no parallel-run slot, or the
\* stored plan does not load.  (retryChange checks both before its CAS.)
RunRefused(x) ==
    /\ via[x] = "apply"
    /\ Goto(x, "begin", "settle")
    /\ UNCHANGED <<vars, status, aged, via, arg, sweep, tlock>>

\* executePlan: Begin registers the lease; an execution without one is refused.
Begin(x) ==
    /\ pc[x] = "begin"
    /\ Register(x)
    /\ Goto(x, "begin", IF phase'[x] = "held" THEN "run" ELSE "settle")
    /\ UNCHANGED <<status, aged, via, arg, sweep, tlock>>
------------------------------------------------------------------------------
(* The fenced execution *)

\* One step dispatched, forward or undo, behind its Owns gate.
Dispatch(x) ==
    /\ pc[x] = "run"
    /\ Owns(x)
    /\ UNCHANGED runVars

\* The closure returns its verdict.  A plan the engine cannot set up (snapshot
\* capability, channels) returns before the evidence gate.
CloseRun(x) ==
    /\ \/ /\ Goto(x, "run", "gate")
          /\ \E v \in Verdicts : arg' = [arg EXCEPT ![x] = v]
       \/ /\ Goto(x, "run", "end")
          /\ arg' = [arg EXCEPT ![x] = "failed"]
    /\ UNCHANGED <<vars, status, aged, via, sweep, tlock>>

\* What an error does to the verdict: ApplyChange writes failed, retryChange
\* keeps a rollback verdict.
OnError(x) == IF via[x] = "retry" /\ arg[x] = "rolled_back" THEN "rolled_back" ELSE "failed"

\* The evidence gate: Owns once more before the step rows are written.
EvidenceGate(x) ==
    /\ \/ /\ Goto(x, "gate", "persist")
          /\ Owns(x)
          /\ UNCHANGED arg
       \/ /\ Goto(x, "gate", "end")
          /\ arg' = [arg EXCEPT ![x] = OnError(x)]
          /\ UNCHANGED vars
    /\ UNCHANGED <<status, aged, via, sweep, tlock>>

\* persistClosureResults: the batch and step rows, written or not.
Persist(x) ==
    /\ Goto(x, "persist", "end")
    /\ \E v \in {arg[x], OnError(x)} : arg' = [arg EXCEPT ![x] = v]
    /\ UNCHANGED <<vars, status, aged, via, sweep, tlock>>

\* The deferred End, which runs before the caller's terminal write.
EndRun(x) ==
    /\ Goto(x, "end", "settle")
    /\ End(x)
    /\ UNCHANGED <<status, aged, via, arg, sweep, tlock>>

\* Mutant: the terminal write as a plain UpdateRun.
SettleBlind(x) ==
    /\ Goto(x, "settle", "done")
    /\ SetStatus(arg[x])
    /\ via' = [via EXCEPT ![x] = "apply"]
    /\ arg' = [arg EXCEPT ![x] = "failed"]
    /\ UNCHANGED <<vars, sweep, tlock>>

\* casRunStatus / the terminal write of retryChange: UpdateRunStatusIf(running
\* -> verdict), which may fail, lose the race, or lose its reply.
Settle(x) ==
    /\ Goto(x, "settle", "done")
    /\ \/ status = "running" /\ SetStatus(arg[x])
       \/ UNCHANGED <<status, aged>>
    /\ via' = [via EXCEPT ![x] = "apply"]
    /\ arg' = [arg EXCEPT ![x] = "failed"]
    /\ UNCHANGED <<vars, sweep, tlock>>

\* The background renewal, at any moment between Begin and End; a loop that
\* stopped after an error is one that takes no further step.
LeaseHeartbeat(x) ==
    /\ pc[x] \in {"run", "gate", "persist", "end"}
    /\ Heartbeat(x)
    /\ UNCHANGED runVars
------------------------------------------------------------------------------
(* The takeover loop *)

Orphaned == status = "running" /\ aged /\ row = NoRow

\* Mutant: the sweep without the orphan scan.
ScanExpiredOnly(n) ==
    /\ Expired
    /\ SweepGoto(n, "idle", "lock")
    /\ UNCHANGED <<vars, status, aged, pc, via, arg, tlock>>

\* TakeoverOnce: the run is a candidate of the expired scan or of the orphan
\* scan.
Scan(n) ==
    /\ Expired \/ Orphaned
    /\ SweepGoto(n, "idle", "lock")
    /\ UNCHANGED <<vars, status, aged, pc, via, arg, tlock>>

\* settleOne: the lock takeover:<run>; busy or failing, the sweep stands down.
TakeLock(n) ==
    /\ \/ tlock \in {n, NoNode} /\ tlock' = n /\ SweepGoto(n, "lock", "cas")
       \/ SweepGoto(n, "lock", "idle") /\ UNCHANGED tlock
    /\ UNCHANGED <<vars, status, aged, pc, via, arg>>

\* UpdateRunStatusIf(running -> interrupted).
Interrupt(n) ==
    /\ status = "running"
    /\ SetStatus("interrupted")
    /\ SweepGoto(n, "cas", "delete")
    /\ UNCHANGED <<vars, pc, via, arg, tlock>>

\* The CAS failed or matched no row: the lease row is left alone.
StandDown(n) ==
    /\ SweepGoto(n, "cas", "release")
    /\ UNCHANGED <<vars, status, aged, pc, via, arg, tlock>>

\* Assignment, step and trace writes touch nothing here; then the row is
\* deleted, whoever owns it now.  A failed delete is only logged.
DeleteRow(n) ==
    /\ SweepGoto(n, "delete", "release")
    /\ DeleteExecution \/ UNCHANGED vars
    /\ UNCHANGED <<status, aged, pc, via, arg, tlock>>

\* The deferred Release, by key and owner.
Release(n) ==
    /\ SweepGoto(n, "release", "idle")
    /\ tlock' = IF tlock = n THEN NoNode ELSE tlock
    /\ UNCHANGED <<vars, status, aged, pc, via, arg>>
------------------------------------------------------------------------------
(* Environment *)

\* A node dies with its executions and its sweep, and restarts empty.
NodeCrash(n) ==
    /\ Crash(n)
    /\ pc' = [x \in Execs |-> IF NodeOf[x] = n /\ pc[x] # "idle" THEN "done" ELSE pc[x]]
    /\ via' = [x \in Execs |-> IF NodeOf[x] = n THEN "apply" ELSE via[x]]
    /\ arg' = [x \in Execs |-> IF NodeOf[x] = n THEN "failed" ELSE arg[x]]
    /\ sweep' = [m \in Sweepers |-> IF m = n THEN "idle" ELSE sweep[m]]
    /\ UNCHANGED <<status, aged, tlock>>

ClockTick == Tick /\ UNCHANGED runVars

\* updated_at passes the grace period, which exceeds the sections between two
\* statements of an execution that does no work: CAS -> Begin, End -> verdict.
GraceElapses ==
    /\ status = "running" /\ ~aged
    /\ \A x \in Execs : pc[x] \notin {"begin", "settle"}
    /\ aged' = TRUE
    /\ UNCHANGED <<vars, status, pc, via, arg, sweep, tlock>>

\* The takeover lock's lease runs out under its holder.
LockLapses ==
    /\ tlock # NoNode
    /\ tlock' = NoNode
    /\ UNCHANGED <<vars, status, aged, pc, via, arg, sweep>>

ExecStep(x) ==
    \/ RetryRead(x) \/ StartCAS(x) \/ RunRefused(x) \/ Begin(x)
    \/ CloseRun(x) \/ EvidenceGate(x) \/ Persist(x) \/ EndRun(x) \/ Settle(x)

SweepStep(n) == Scan(n) \/ StandDown(n) \/ DeleteRow(n) \/ Release(n)

RunNext ==
    \/ \E x \in Execs :
          ApplyChange(x) \/ RetryChange(x) \/ RetryHost(x)
          \/ ExecStep(x) \/ Dispatch(x) \/ LeaseHeartbeat(x)
    \/ \E n \in Sweepers : SweepStep(n) \/ TakeLock(n) \/ Interrupt(n)
    \/ \E n \in Nodes : NodeCrash(n)
    \/ ClockTick \/ GraceElapses \/ LockLapses

RunSpec == RunInit /\ [][RunNext]_allVars

\* An execution that has started takes its next step unless its node dies;
\* time passes; the leader's loop keeps sweeping, and its lock and CAS
\* statements do not fail forever.
Fairness ==
    /\ \A x \in Execs : WF_allVars(ExecStep(x))
    /\ WF_allVars(ClockTick) /\ WF_allVars(GraceElapses) /\ WF_allVars(LockLapses)
    /\ WF_allVars(SweepStep(Leader))
    /\ SF_allVars(TakeLock(Leader) /\ sweep'[Leader] = "cas")
    /\ SF_allVars(Interrupt(Leader))

LiveSpec == RunSpec /\ Fairness
------------------------------------------------------------------------------
(* Properties *)

\* An execution that would pass the Owns gate now: it can reach hosts.
CanWrite(x) == pc[x] = "run" /\ Matches(x) /\ ~Expired

\* A settled run is only ever reopened, never re-labelled: no zombie, refused
\* start or sweep writes its verdict over one that is already there.
TerminalOnlyReopens ==
    [][(status \in Terminal /\ status' # status) => status' = "running"]_allVars

\* A run never rots in "running": whatever crashes, lapses or fails on the
\* way, it settles (the purpose of the takeover, takeover.go:1-6).
RunningSettles == status = "running" ~> status # "running"

\* "a run is single-flight cluster-wide" (exec_guard.go:56-57): two executions
\* can never both reach hosts.
SingleFlight == \A x, y \in Execs : CanWrite(x) /\ CanWrite(y) => x = y

\* Evidence written within a TTL of its Owns gate is written by an execution
\* that still holds the row (comment of Owns, exec_guard.go:109-116).
EvidenceOfTheHolder ==
    [][\A x \in Execs : pc[x] = "persist" /\ pc'[x] = "end" /\ age[x] <= TTL
                         => Matches(x)]_allVars

\* An execution between its successful start and its terminal write.
Active(x) == pc[x] \in {"begin", "run", "gate", "persist", "end", "settle"}

\* With ApplyChange as the only call, the CAS out of "approved" admits one
\* execution ever: the invariant behind SingleFlight for such a run.
OneApply ==
    /\ \A x \in Execs : pc[x] # "retry"
    /\ \A x \in Execs : pc[x] = "cas" => arg[x] = "approved"
    /\ \A x, y \in Execs : Active(x) /\ Active(y) => x = y
    /\ \A x \in Execs : Active(x) => arg[x] # "approved" /\ status # "approved"

\* The only apply has started and is past Begin: no registration follows.
Started == status # "approved" /\ \A x \in Execs : pc[x] # "begin"

\* With ApplyChange as the only call, what lets a sweep delete the row: a row
\* that a sweep is about to delete is expired for good, because nobody is left
\* to register, so an execution within a TTL of its last Owns still has it.
EvidenceInv ==
    /\ row # NoRow \/ aged => Started
    /\ \A n \in Sweepers : sweep[n] # "idle" => Started /\ (row = NoRow \/ Expired)
    /\ \A x \in Execs : pc[x] \in {"run", "gate", "persist", "end"} =>
          phase[x] = "held" /\ (age[x] <= TTL => Matches(x))
==============================================================================
