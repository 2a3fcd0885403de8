# A TLA+ model of LEVEE

LEVEE governs high-risk changes: a change is planned, approved, executed in
batches under verification gates, rolled back automatically when a gate or a
step fails, and left with an audit hash chain. It runs on one node over SQLite
or as a cluster over PostgreSQL, where every node serves the API, a leader
assigns approved changes to workers, and a takeover loop settles the changes of
nodes that died. This directory models the parts of that system whose
correctness depends on the order in which things happen, checks them with TLC
on small instances, and proves the properties that matter most with TLAPS.

## The system

| part | code (`internal/`) | state | module |
|---|---|---|---|
| execution lease | `cluster/exec_guard.go` | row of `run_execution`, epoch sequence | ExecGuard |
| executions of a run | `grpc/change_service.go`, `wiring/run.go`, `wiring/exec.go` | `runs.status`, lease handle | RunExecution |
| takeover loop | `takeover` | per-run lock, candidates | RunExecution, Dispatch |
| dispatch | `dispatch` | `run_assignment` rows | Dispatch |
| approval records | `approval` | approval rows with decisions and revision | Approval, Ballot |
| change life cycle, pause, human gates | `grpc/change_service.go`, `pause`, `approval/gate_approver.go`, `wiring/run.go` | run status, plan hash, tier, approval records | Governance |
| host locks | `lock`, `engine/closure.go` | lock rows per host with TTL | HostLock |
| closure, batches, rollback, evidence | `engine/closure.go`, `batch`, `rollback`, `wiring/persist.go`, `wiring/run.go` | batch progress, hosts, step rows, verdict | Closure |
| audit and trace chains | `audit` | rows with previous and current hash | AuditChain |

Everything else in the repository is listed in `PROJECT.json` with the reason it
is not modelled; see also the last section.

What makes these parts hard, and is therefore modelled: every database
statement interleaves with those of other nodes; a node can die or stall
between any two of them; a statement can fail, or succeed with its reply lost;
leases and locks run out under their holders; operators call again while an
earlier call is still running; a row read before is written back after.

How they interact: `PlanChange` stores a plan and opens an approval record
bound to its hash; votes settle the record, and settlement moves the run to
`approved` when the record matches the stored plan. An API call, or a worker the
leader gave the run to, moves the run to `running` by a compare-and-set and
calls `executePlan`, which registers the execution lease, locks the hosts, runs
the batches with an `Owns` check before every step that reaches a host, undoes
what ran when a step or gate fails, writes the evidence rows, and deletes the
lease; the caller then writes the verdict by a compare-and-set from `running`.
The takeover loop moves runs whose lease ran out, or that have none, to
`interrupted`. A retry, or an operator's rollback, starts from the evidence
rows. Every operation leaves audit rows, which each write seals into a chain.
Nothing but the database connects these parts, and every one of them may run on
several nodes at once.

## Modules

### ExecGuard: the lease of one run

`row` is the `run_execution` row, `seq` the epoch sequence; `phase` and `epoch`
are what each execution holds in memory. Time is kept as the ticks left until
`lease_expires`, so the state space does not grow with the clock. One action
per statement: `Register` (its SQL has an insert, a same-owner and a reclaim
path, and a refusal), `Owns`, `Heartbeat`, `End`, `DeleteExecution`; `Crash` and
`Tick` are the environment. A statement whose reply is lost takes effect while
its caller sees an error. `age` and `lastWrite` are history variables.

### RunExecution: executions of one run and the takeover

Extends ExecGuard and conjoins its actions. `pc[x]` is the place of execution
`x` in its call, from the admission check (`ApplyChange`, `RetryChange`,
`RetryHost`) over `StartCAS`, `Begin`, `Dispatch` (a step gated by `Owns`),
`CloseRun`, `EvidenceGate`, `Persist`, `EndRun` to `Settle`; every step is one
database statement. `sweep[n]` is the place of node `n`'s takeover sweep:
`Scan`, `TakeLock`, `Interrupt` or `StandDown`, `DeleteRow`, `Release`.
Every step of this system is a step of ExecGuard or leaves its variables alone
(the lemma `RunImplementsGuard`), so the properties of the lease carry over.

Abstractions: hosts, batches and gates are one repeatable `Dispatch` and a free
verdict (Closure has them). A retry is the one that names hosts (Governance has
the one that re-plans). Admission checks on people, calendars and budgets may
refuse a call before it changes anything and are left out. The orphan grace of
five minutes (`GraceElapses`) exceeds the sections in which a running execution has
no lease row, between the start and `Begin` and between `End` and the verdict: no
call stalls in them for longer. `EvidenceOfTheHolder` rests on that assumption: a
sweep that finds an execution stalled before `Begin` could otherwise delete the row
the execution registers after all.

### Dispatch: the assignment of one run

`asg` is the `run_assignment` row, `stale` whether its `updated_at` is past the
claim timeout. `dpc`, `dep`, `dto` are the sweep of each node that takes itself
for the leader (what step, which epoch it read, which worker it picked);
`wpc`, `wep`, `wres` the loop of each worker; `tk` the takeover's writes to the
row, which carry no epoch. Sweep: `ListStale`, `GetRun`, then `Terminalise` or
`Reclaim`; `Candidate`, `GetAssignment`, then `Create` or `Reassign`. Worker:
`Poll`, `Claim`, `Execute`, `Finish`, `Complete`, `SetResult`. The environment
crashes and restarts nodes, ages the row, withdraws and approves the run, and
lets an operator run it directly.

Abstractions: the execution itself is its status only. Other runs exist as the
reason a worker is or is not chosen, so capacity is not modelled. One takeover
of the run is under way at a time. A live node is not dropped from the registry.
`MarkDone` and `DeleteAssignment` have no caller outside tests.

### Approval and Ballot: one approval record under concurrent decisions

Ballot is what the service promises: each approver votes at most once, the
first veto or the vote that makes the quorum closes the ballot, and a closed
ballot does not change unless a re-plan withdraws it. Approval is what the code
does. `rec` is the table; `call[c]` a caller inside `decide`, with the copy of
the row it read and its attempt; `todo[s]` an expiry sweep; `kick[k]` a
`kickoffApproval` that supersedes older records and creates a new one. `Attempt`
reads and runs every check of `decide`; `DecideWrite` is the compare-and-set on
pending and revision, which may fail or lose its reply, and `Retry` goes back to
read again, up to `CasMaxAttempts` in all. `SweepList`, `ExpireOne`, `SweepFails` are `CheckExpiry`; `KickoffList`,
`SupersedeOne`, `Create` the re-plan. One record is older than the clamp of
`MinApprovers` and carries a quorum of zero. `IsBallot` is the refinement
(`INSTANCE Ballot` with the ballot each row amounts to).

Abstractions: the policy guard in front of `decide` may refuse a call before
anything changes and is left out.

### Governance: the life cycle of one change

`run` is the status, plan and tier of the run's row, `rows` its approval
records, `rpc[c]` where each caller's RPC stands and what it has read. Every RPC
is the sequence of its reads and writes: `PlanRead`, `PlanWrite`, `PlanReset`,
`Kickoff`, `Supersede`, `CreateRow`, `TierWrite`; `ApproveChange` or
`RejectChange`, then `SettleRows`, `SettleRun`, `SettleCas`; `ApplyGate`,
`ApplyRows`, `ApplyCas`, `Load`, then the execution with a human gate
(`OpenGate`, `PassGate`) and `Finish`; `Retry` with its re-plan (`ReplanRows` to
`ReenterDone`) and `RetryCas`; `RowRead` and `RowWrite` for cancel, archive,
pause, resume and rollback, which write back the whole row. `Interrupt` is the
takeover, `Expire` the sweep, `BreakOff` an RPC whose statement fails or whose
node dies. `consented` and `overridden` are history: the plans a quorum approved,
and whether a write that compares nothing, the takeover or a broken RPC took the
run from somebody.

Abstractions: `rolled_back_partial` is folded into `rollback_incomplete` and
`planned` into `draft`. A vote is one step, which ApprovalProofs justifies; the
failures that `kickoffApproval` logs and continues after are in Approval.
Deployments without approval service or engine are left out. Bulk pause and bulk
transitions are the same write, run by run.

### HostLock: the locks of concurrent executions

`locks` is the table, one row per host. A run walks its targets in plan order
(`Acquire`, `StoreAcquire`, `CreateLock`), takes over expired rows
(`ForceAcquire`, `UpdateLockOwnedBy`), works, and releases on every path
(`Finish`, `Release`, `DeleteLock`); `at` and `seen` are the time and row it read
before its next write. Any statement may fail (`StatementFails`), and a write may
take effect and lose its reply (`ReplyLost`): the run gives up and does not know of
the row, or drops a row it failed to delete. `stranded` records those hosts; such a
row goes when its TTL is over. `CleanExpired`, `Crash` and `Tick` are the
environment.

Abstractions: nodes and database share a clock. `CleanExpired` has no caller in the
program and is in the model because the package offers it. An operator's rollback
takes no host lock and is absent.

### Closure: what one execution does to the hosts

The state has three layers. On the hosts: `owed`, the compensation commands a
step's last dispatch still needs, and `applied`, the effects that stand. In the
store: `status`, the step `rows`, the `lease`. In the executor: the plan being
executed (`job`, `pos`), the goroutine of each target (`at`), results (`done`,
`refused`), the compensation queue (`undo`, `undone`) and the verdict. Requests
are `Apply`, `Retry` (narrowed to hosts, or resumed from `interrupted`) and an
operator's rollback (`AdmitRollback`, `StartRollback`, `ReturnRollback`,
`WriteVerdict`). An execution runs `Begin`, `StartBatch`, then concurrently per
target `EnterTarget`, `StartStep` (the lease check passes) or `FencedStep` (it does
not), `SendStep` (the command goes out), `FinishStep`, `SkipTarget`;
`EndBatch` joins them and runs the gates, `PostApply` the last ones; `Unwind`
chooses between rollback and the `manual` policy, `RunUndo` and `EndUndoBatch`
compensate batch by batch, `Persist` or `LoseEvidence` write the rows, `Settle`
the status. `Cancel`, `LoseLease`, `Crash` and `Interrupt` strike anywhere.
`blind` is history: pairs whose last work left no row; `late` counts the commands an
executor sent to a host after it had lost its lease.

A node has `MaxParallel` slots (`acquire`), and nothing keeps two executions of one
change from holding two of them: two rollbacks, or a rollback and a retry. The
execution that takes the next step is in the variables, the others wait in `others`
as records (`Context`), and `Switch` and `Resume` pass the turn. `overlap` is
history: some execution began while another one was under way.

`undo[h]` is the set of commands still to run on a host, each the place of its step
and its own place in the rollback spec; `FirstOf` picks them in the order of
`rollbackTarget`, steps backwards and the commands of each forwards. Selections from
a plan (`narrowPlan`, `buildResumePlan`) are `Keep` of the places that stay.

Abstractions: evidence rows are written all or none. All executions are on one node;
those on several are RunExecution's, and another node only takes over here. Every batch has the plan's
steps, as `plan/generator.go` builds it. `lease.End` and the settling
compare-and-set are one step. Post-rollback verification, run baselines, rows of
skipped batches, compensations of uncertain outcome and dry runs are left out.

### AuditChain: rows sealed by concurrent walks

One module for the audit and the trace chain, told apart by `kind`. A position of
the chain order is a row and its writer: `Insert`, then the walk of `Seal` over
pages (`List`, `Seal`, `EndPage`), which may refuse (`Refuse`) or break off
(`Fail`). Rows of either chain arrive in any order, because timestamp and id are
taken before the insert: for traces by the RPCs, executors and takeovers of every
node (`audit/trace.go:127-136`, `wiring/run.go:471-477`,
`grpc/change_service.go:1158-1166`, `takeover/takeover.go:280`). A trace may start
with rows sealed under the V1 encoding, which `checkTrace` accepts and `Seal` does
not; the audit chain has no V1. `page` is what the walk read and `prev` the hash it
carries; a link is written without comparing. `Alter` edits the content of a sealed
row behind the write-once triggers; `Failures` is `Verify`. `quiet` is history:
nothing else happened since the walk began; `regular` as well: rows came in chain
order and none is from before V2.

Abstractions: a digest is its preimage, the sequence of rows it covers with their
encoding. That takes digests to be injective, which the separator of V1 is not on
every content. `Alter` leaves the hash columns alone, so nothing is said of edits
that recompute them. Rows are not deleted; `Rebuild` and `BuildForce` have no caller.

## Runs

| run | question | distinct states |
|---|---|---|
| `guard` | three executions on two nodes use the lease in any order: epochs belong to one node, lost leases stay lost, writes are in epoch order, no reclaim within a TTL of `Owns` | 25,178 |
| `run_all` | all calls, two nodes, one of them sweeping: no terminal status is re-labelled, and the run leaves `running` whatever crashes, lapses or fails | 971,362 |
| `run_apply` | concurrent `ApplyChange` calls, two sweeping nodes: one execution reaches hosts, and writes evidence only while it holds the lease | 137,058 |
| `dispatch_live` | two leaders, two workers, one fault: an epoch is claimed once, a claim is not overwritten, a result stays with its epoch, and a pending assignment is claimed or ended whichever node dies | 1,028,376 |
| `dispatch_approvals` | one leader and a run that is approved again: a reopened assignment is not taken from its claimant | 1,556,833 |
| `approval` | two voters, two sweeps and two re-plans: records are sound, acknowledged votes count, settled records stay, overdue ones settle, and the service implements Ballot | 512,896 |
| `governance` | an operator and an approver use every RPC of a change with two plans, a human gate and a record from before plan hashes: one apply at a time, no decision lost, consent before start, closed runs stand | 3,522,755 |
| `host_lock` | three executions over two hosts in opposite orders, with failing statements and lost replies: work on a host is exclusive until a TTL runs out, only owners give up valid locks, what stays locked was stranded by a failed statement and expires, everybody ends | 755,048 |
| `closure` | apply, retry and rollback of a plan of two batches with a fault or an overlap anywhere: a fenced executor sends a host at most one more command, batches wait for each other, and, without overlap, rows and hosts agree, nothing is undone twice, clean verdicts are clean, completed means applied | 2,980,006 |
| `audit_chain` | three rows in any order, pages of two, rows from before V2, one edit: an edit stays visible, the audit chain is refused for an edit only, an undisturbed walk closes the chain or refuses a row that verification reports too | 395,336 |
| `plan_drift`, `retry_race` | counterexamples, see below | |

`plan_drift` states what `grpc/change_service.go:1108-1109` says of
`ApplyChange`'s approval check, "the final defence against the 'approve v1,
re-plan to v2, apply v2 under a v1 approval' drift", and what lines 628-629 say:
"the approved change can never drift from the planned one". In the
counterexample v1 is approved; an apply checks v1 against its record; a
concurrent `PlanChange` stores v2; the apply's compare-and-set into `running`
compares the status alone and succeeds; `runChange` reads the plan again
(`wiring/run.go:198`), finds v2 consistent with the hash stored beside it, and
executes it. `ConsentBeforeStart` in the run `governance` is what does hold: the
plan that passed the check had been consented to.

`retry_race` states `SingleFlight`, the "a run is single-flight cluster-wide" of
`cluster/exec_guard.go:56-57`, of retries, for which `wiring/run.go:429-430` says
"only failed/rolled_back runs reach here (RPC guard); CAS into running so a
concurrent retry/apply cannot double-execute". In the counterexample an apply has
failed and two retries on one node are admitted. The first moves the run from
`failed` to `running` and registers. The second reads the status again, as
`running`, and compares with that, so its compare-and-set from `running` to
`running` succeeds; `Register` finds a row of its own node, refreshes it and keeps
the epoch; `Owns` then answers yes to both. On two nodes the second is refused the
lease, and writes `failed` under the first. Host locks are not part of this model:
their owner is an id minted for every closure, so for the five minutes of their TTL
they do refuse the second one the hosts, and the refused execution settles the run
as `failed` while the first goes on. Without retries the property holds
(`run_apply`, `ApplySingleFlight`).

### Bounds

Two nodes are the fewest on which an owner, a reclaimer and a sweeper differ;
three executions, two of them on one node, bring in the same-owner path of
`Register` next to a reclaim (`guard`, `run_apply`). `run_all` has two executions
on two nodes, of which one sweeps, so that liveness can be checked over all calls; a
second sweep beside the first is in `run_apply`, and for `TerminalOnlyReopens` the
proof has any number. A TTL of 1 or 2 ticks distinguishes a fresh, a running
and an expired lease. In Dispatch, `MaxFaults` bounds failed statements, lost
replies, stalls and crashes together, and `MaxApprovals` the times the run is
approved again; one of each already interleaves with every step of the others.

Approval has one record, because nothing relates two of them, and
`CasMaxAttempts` is the code's 4 (`approval/service.go:220`); three people, one of them the initiator, make
a quorum of two, a veto, a duplicate and an exclusion possible. Governance has
two plans, of different tiers, so that a plan can be replaced and put back, and
`MaxRows` 2 for the records of plans besides the gate's. Only the
approver's RPCs break off in this instance (`Faulty`), to keep it small; in the
proofs every caller's may. HostLock needs a third run for a takeover beside a
deadlock-shaped pair; `MaxClock` is twice the TTL, so a lock can expire, be taken
over and expire again. Closure has a concurrent batch before a sequential one, a
step with and one without compensation, three requests and one fault: apply,
then retry or rollback, then another. An overlap counts as a fault (`MaxFaults`),
`MaxSwitches` 2 lets the turn go to the other execution and come back, and
`MaxParallel` is 2, where the code's default is 4 (`wiring/wiring.go:87-89`): two
executions are what an overlap takes. Snapshot steps are not in that instance
(`Snapshot = {}`), so restores are covered by the theorems only. In AuditChain pages
of two over three rows put a boundary inside the chain. Symmetry is not used.

### Fairness

`run_all`: an execution that started takes its next step unless its node dies
(goroutines are scheduled, statements return or fail); time passes; one node,
`Leader`, keeps sweeping, and its lock and status statements do not fail for
ever (strong fairness, since the lock is repeatedly taken and released by
others). `dispatch_live`: worker loops poll, sweeps go on to their end, time
passes, dead nodes are marked stale, and some node sweeps stale rows again and
again, as the ticker of `Loop.Run` does. Strong fairness is on the set of
dispatchers, not on one of them, because the leader may die. `approval`: the
expiry sweep keeps ticking, as a failed pass does not stop `Run`
(`approval/expiry.go`), and its updates do not fail for ever. `host_lock`: an
execution that can take a step takes one; the clock need not advance. The other runs
check safety alone and assume no fairness. Nothing obliges an operator, approver or client to act.

## Proofs

TLAPS checks the theorems for every set of nodes, executions, callers, hosts,
plans and rows, every TTL and every bound. The constants are assumed to be what
their `ASSUME`s say: types, a positive TTL, and that the "no row" values are not
rows. Closure's `PlanAssumption` adds that batches share no host, that there is a
step, and that steps have different names: `plan/generator.go:10` ("no target is
duplicated"), `dsl/parser.go:692` and `dsl/validator.go:146` see to the first two;
the third is rule V23 of `docs/leveelang-spec.md:1331`, which nothing in the code
enforces (`dsl/depends.go:56-57` calls a duplicate "a separate defect"). It limits
what the model speaks of: rows and ledger know a step by its name and could not tell
two such steps apart, so the theorems say nothing of a plan that has them. Two
theorems have a hypothesis on top, `Calls = {"apply"}`, and one has two
(`DecisionsAreMirrored`); they are explained below, and the runs' instances satisfy
them.

Every safety property that a passing run checks has a theorem. Each argument
rests on an inductive invariant, because no property is inductive by itself; TLC
checked each of these on the run's instance before it was proved. In the larger
modules Zenon is the default prover, which most leaves need; the others name
theirs.

**RunExecutionProofs, the lease.** `IndInv` says that every epoch in a row or
handle was drawn from the sequence (`EpochsIssued`), that a row with a handle's
epoch is owned by the handle's node (`RowOfItsNode`), that no write is ahead of the
row or the sequence (`WritesBehindRow`), and that a holder's lease covers the rest
of a TTL (`LeaseCoversHolders`). A fresh epoch is then greater than all others,
which gives `OneNodePerEpoch`, `LossIsPermanent` and `EpochOrder`; the lease bound
gives `RenewalClosesWindow`.

**RunExecutionProofs, the run.** Each step of RunExecution is a step of ExecGuard or
leaves its variables alone, which with the theorems above yields `RunFencing`.
`RunTypeCorrect` and `TerminalStable` are about all calls. `ApplySingleFlight` assumes
`Calls = {"apply"}` and rests on `OneApply`: the compare-and-set out of `approved`
admits one execution ever, because nothing in that system returns to `approved`.
`EvidenceIsFenced` has the same hypothesis and rests on `EvidenceInv`: once the one
execution has registered nobody registers again, so a row that a sweep is about to
delete by run id stays expired, and an execution within a TTL of its `Owns` gate still
matches its row. With retries both fail, see `retry_race` and the next section.

**DispatchProofs.** `IndInv` relates what every loop has read to the row: a
worker's epoch is never ahead of it and, while current, the row is the worker's
and in the state its step implies (`WorkersBehindRow`); an epoch that a leader is
about to reassign has ended (`ReassignsEndedEpoch`). The last is why `Reassign`,
which compares the epoch alone, does not overwrite a claim (`ClaimsKept`).
`ClaimsFenced` and `ResultsStay` are conjuncts.

**ApprovalProofs.** Every stored record is sound, and a caller's copy whose
revision still is the stored one is the stored record with its vote appended
(`Faithful`). Hence a write that passes the compare-and-set appends one vote to
what is stored, which is a step of Ballot (`ImplementsBallot`), loses none
(`AckedVotesCount`) and settles exactly at the quorum (`RecordsAreSound`).

**GovernanceProofs.** `IndInv` says that approved records were consented to, that
what each RPC remembers agrees with that (`Remembers`), and that an execution
nobody overrode has the run and has it alone (`Alone`). This gives
`ConsentComesFirst` and `ApplyIsExclusive`; `ClosedRunsStand` is a case analysis
of the writers of the row. `DecisionsAreMirrored` rests on `MirrorInv`: when the
newest record of the stored plan is approved and the run still waits, some call
under way will move the run, open a new record, or start it; and a pending record
of a plan is newer than all other records of plans. It assumes that one client stores plans. Two that do can
each list the pending records before the other creates its own, two records are
then pending, and an approval of the newer leaves the older one open, so the vote
moves nothing. It also assumes that, where a record from before plan hashes exists,
every plan is put to a vote: such a record matches every plan, and a plan that needs
no approval resets the run without opening a record.

**HostLockProofs.** A lock granted and not expired is the row in the table
(`HeldIsOwned`), a live run knows every row it owns unless a statement failed on that
host (`OwnedIsKnown`), a row about to be deleted is the one that was read
(`SeenIsCurrent`), although a takeover keeps the row's id, and no row outlasts a TTL.
`HoldersOwnTheirRows`, `LocksExclude`, `ReturnedRunsLeaveNothing` and
`OnlyOwnersGiveUp` follow.

**ClosureProofs.** `IndInv` extends `EvidenceIsTrue` into the execution: a pair
dispatched in it owes its commands less those undone, every other pair what its
rows leave open. It holds while no two executions have overlapped, and gives
`RowsTellTheTruth`. `FencedExecutorsStop` needs no such hypothesis: `FenceInv` says of
every execution, the one in the variables and those that wait, that a host it sent a
command to without the lease is not cleared for another one. The module also has the
lemmas about plans: what `narrowPlan` and `buildResumePlan` keep, and in which order,
and those about the forward phase that the next module uses.

**ClosureExecProofs.** `ExecInv` adds what an execution knows of itself: its plan
has every host in one batch and drops no host of the request unless it resumes
(`PlanSound`); the batches before the current one have succeeded, those after it are
untouched, and a target that returned ok has done every step (`ForwardInv`); what is
queued for undo was run and not undone, and until a command fails what was run and
is not queued has been undone (`UndoInv`); an effect that stands has a row or was
dispatched in this execution, and nothing of it was undone (`AppliedInv`); and a run
called completed has its plan in effect (`OutcomeInv`). All of it is proved up to the
first overlap. `BatchesInOrder` and `CleanMeansClean` are conjuncts, `UndoneOnce` and
`CompletionIsEarned` follow. `BatchBarrier` is about one execution's own memory and
does not depend on the others; TLC checks it with overlaps too.

**AuditChainProofs.** Every sealed pair, stored or in a walk's hands, covers the
original content of its row (`RowsCovered`, `PagesCovered`). A row that was edited
therefore matches no hash a walk will ever write (`EditsStayVisible`), and the audit
chain, which relinks what is intact, refuses nothing else (`OnlyEditsAreRefused`). A
trace chain refuses nothing else while its rows came in order under V2: there is then
one value a row can be sealed with (`InOrder`). `QuietSealsClose` and
`RefusalsAreVisible` rest on `QuietInv`: a walk that nothing has disturbed walks alone,
its page is what the table holds, the rows it has passed verify, and the hash it
carries is that of the last one. A page that is not full holds all remaining rows, by
a count of them (`PageOfRows`), so the walk that stops there has passed every row; and
a row it refuses fails verification as well, or was sealed under V1.

Model-checked only: the liveness properties (`RunningSettles`, `PendingIsClaimed`,
`OverdueSettles`, `EveryRunEnds`), because fairness and `ENABLED` are beyond this
prover, `BatchBarrier` across overlaps, and the counterexamples. What
a recursively defined function computes for every input cannot be proved here
either, so the models use none that a theorem depends on: a selection from a
sequence is defined by ranks (`Keep`), and the few inductions over numbers go
through the least element of a set.

## Read in the code, stated by no run

Behaviour met while modelling that a reader of the code or its documents may not
expect. The models have it as the code does; the properties are stated so that
they are true of it; where a model leaves it out, the entry says so.

Executions, lease and takeover:

- A same-node retry that registers before the takeover deleted the lease row
  shares the epoch of the execution that lost it (`cluster/exec_guard.go:56-57`:
  "a run is single-flight cluster-wide").
- The terminal compare-and-set compares the status only: an execution that was
  interrupted can settle the run a retry has reopened
  (`docs/design-cluster-failover.md:127`).
- The lease row is deleted before the verdict is written, so the orphan scan can
  find a long execution in between (`cluster/exec_guard.go:246-247`: "a healthy
  execution is never mistaken for an orphan").
- `deleteExecRow` deletes by run id; after a retry it can delete the row of a
  newer execution. `EvidenceOfTheHolder` does not hold beyond `run_apply`.
- `RetryHost` has no check of the status. The retry budget is read before the
  retry and recorded after it, so concurrent retries pass it together.

Dispatch:

- A worker that dies between its claim and `ApplyChange`'s status write leaves an
  approved run with an executing assignment, which neither loop looks at
  (`docs/design-cluster-dispatch.md:148`).
- `complete` writes state and result in two statements; if the second fails the
  row stays `done` without the result that
  `docs/design-cluster-dispatch.md:55` requires. Line 23 of that document has
  interrupted runs dispatched again; `candidates` lists approved runs only.
- `reclaimStale` does not look at the capacity of the worker it picks.

Life cycle and approval:

- Pause, resume, cancel, archive, rollback, the tier write of a re-plan and the
  re-planning retry write the whole row they read earlier: a decision, a verdict
  or a plan stored since is lost. In particular the tier write can put back
  `approved` (`grpc/change_service.go:691-693`: "cannot write the stale
  'approved' back").
- A re-plan supersedes pending records without comparing, so a record approved
  since is overwritten. Records of human gates are decided and superseded by the
  same code (`approval/gate_approver.go:14-20`: "must be invisible to the CHANGE
  approval machinery"); only their consent is kept apart, which
  `ConsentBeforeStart` checks.
- `SettleApproval` compares the status alone (`grpc/change_service.go:2388`), so a run
  can be `approved` with a plan nobody consented to; the approval check of apply then
  refuses it, which is what `ConsentBeforeStart` says.
- A vote on a paused run settles it to `approved`. A settlement that stalled may
  move a run that left its status and came back to it.
- A refused re-planning retry leaves a draft for whose plan no record is pending;
  an approval between its check and its reset is not taken into account.
- When too few approvers are configured the plan stays stored, though
  `ErrApprovalUnderprovisioned` (`grpc/change_service.go:724-727`) says "the plan
  is not persisted", and the tier is not recorded.

Closure, rollback and evidence:

- The batch's error is that of the first failed target in plan order; a cancelled
  one before a fenced one hides `ErrFencedOut` (`engine/closure.go:681-683`) and
  the rollback runs. Its commands are refused by `Owns`; snapshot and baseline
  restores are not. Post-apply gates run after fencing as well.
- A resumed retry skips batches whose rows say success even when a rollback
  undid them before the interruption, or a later attempt failed
  (`wiring/persist.go`: "can be skipped on a resumable retry without changing
  target state"). `CompletedIsApplied` therefore excepts resumed executions.
  `buildResumePlan` also renumbers batches and drops the run's snapshot setting.
- `ledgerFromStoredSteps` takes a step for compensated when any of its undo
  commands succeeded; `CleanVerdict` names this exception.
- A retry for some hosts sets the whole run to `completed`, and `rolled_back`
  after a retry speaks of that execution only.
- A fenced executor whose `failed` beats the takeover leaves a run without
  evidence, and an operator's rollback of it then reports `rolled_back`.
- An operator's rollback takes neither lease nor host lock, and its admission does not
  claim the status. Two that overlap read the same rows and both send the
  compensations; `grpc/change_service.go:2141` claims "double-undo protection" for a
  run that already is `rolled_back`. A rollback beside a retry can file its undo rows
  after the retry's forward rows, and then the rows call undone what the host still
  needs. The properties of Closure that this breaks are stated up to the first
  overlap.
- The lease is checked before the channel is dialled (`wiring/exec.go:97-108`), so an
  executor that loses it in between sends one more command to a host.
- A rollback writes its verdict over whatever status the run has, `running`
  included, and after it has freed its slot. A failed restore of the baseline
  changes its verdict, but not that of the automatic rollback.
- A client that disconnects does not stop the rollback, but its dead context fails
  the evidence and status writes; on a single node no takeover settles the run.
- Steps that failed to reach the host are compensated like the others.
- Two steps of one name are accepted, against rule V23 of
  `docs/leveelang-spec.md:1331`; evidence and ledger are keyed by host and name, so
  they would share both. Plans with such steps are outside the model.

Audit chain:

- A walk that read its page before another one wrote can overwrite a correct link,
  so the audit chain fails `Verify` until the next write
  (`audit/auditchain.go:36-38`: "two concurrent Seal calls compute byte-identical
  hashes for any row they both cover, so they cannot fork the chain").
- A trace row that arrives behind a sealed successor makes every later seal of
  that run's trace refuse. Until then two walks that overlap around it can write
  different hashes to one row (`audit/hashchain.go:160-161`: "two overlapping walks compute
  identical values for the records they share"). `audit/auditchain.go:25-26` has traces
  "written by one process in one order", which the code does not see to.
- A trace sealed under V1 and never edited verifies (`audit/verify.go:213-215`), but
  its next seal refuses it (`audit/hashchain.go:186-208`).

## Not modelled

- **Membership, leader election and the distributed lock manager.** Dispatch and
  RunExecution assume the weakest outcome, several nodes that act as leader at
  once and a lock that lapses, so an election model would not weaken what they
  show.
- **Several runs at once**, where they compete for workers or slots.
- **Bulk operations, the retry budget, calendars, permissions**: they repeat or
  refuse modelled calls.
- **I/O to hosts and services, parsers and importers, plan generation and risk
  scoring, transport, storage drivers, analysis, notification, command line and
  web UI.** These are most of the repository by volume. They hold no state
  whose order of change matters to a run, or they are computations over
  documents that unit tests reach well. A model of them would be a transcription;
  the share of the code that is modelled is small for this reason.
