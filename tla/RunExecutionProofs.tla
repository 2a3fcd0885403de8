------------------------- MODULE RunExecutionProofs --------------------------
(***************************************************************************)
(* Proofs about the execution lease, for any nodes, executions and TTL,    *)
(* and about the executions of a run: they implement the lease (ExecGuard),*)
(* settled runs are never re-labelled, and with ApplyChange alone a run is *)
(* single-flight, gets the verdict of the execution that started it, and   *)
(* has its evidence written by the holder of the lease.                    *)
(***************************************************************************)
EXTENDS RunExecution, TLAPS

-------------------------------------------------------------------------------
(* The lease.                                                                *)

\* The initial state, an empty table, satisfies the inductive invariant.
LEMMA InitIndInv == Init => IndInv
  BY NodeOfType, TTLPositive, NoRowIsNoRow
  DEF Init, IndInv, TypeOK, EpochsIssued, EpochBelongsToOneNode, RowOfItsNode,
      WritesBehindRow, LeaseCoversHolders, Holders, Matches

\* What a row of the table is made of.
LEMMA RowFields ==
  ASSUME IndInv, row # NoRow
  PROVE  /\ row \in Row
         /\ row.owner \in Nodes
         /\ row.epoch \in 1 .. seq
         /\ row.left \in -1 .. TTL
  BY DEF IndInv, TypeOK, EpochsIssued, Row

\* A registration that succeeds for x with epoch e preserves the invariant:
\* e is the row's own epoch kept for the same owner, or a fresh one.
LEMMA GrantIndInv ==
  ASSUME IndInv,
         NEW x \in Execs, NEW e \in Nat, NEW s \in Nat, NEW reply \in BOOLEAN,
         phase[x] = "new",
         s >= seq, e <= s,
         seq' = s,
         row' = [owner |-> NodeOf[x], epoch |-> e, left |-> TTL],
         \/ e > seq
         \/ row # NoRow /\ e = row.epoch /\ row.owner = NodeOf[x],
         Granted(x, e, reply),
         UNCHANGED lastWrite
  PROVE  IndInv'
<1> USE NodeOfType, TTLPositive, NoRowIsNoRow
<1>1. /\ row' \in Row
      /\ row' # NoRow
      /\ row'.owner = NodeOf[x] /\ row'.epoch = e /\ row'.left = TTL
  BY DEF Row
<1>2. e >= 1
  BY RowFields DEF IndInv, TypeOK
<1>3. /\ phase' \in [Execs -> {"new", "held", "done"}]
      /\ epoch' \in [Execs -> Nat]
      /\ age' \in [Execs -> 0 .. TTL + 1]
      /\ \A y \in Execs : y # x => phase'[y] = phase[y] /\ epoch'[y] = epoch[y] /\ age'[y] = age[y]
      /\ phase'[x] = "held" => epoch'[x] = e /\ age'[x] = 0
  BY DEF IndInv, TypeOK, Granted
<1>4. TypeOK'
  BY <1>1, <1>3 DEF IndInv, TypeOK
<1>5. EpochsIssued'
  BY <1>1, <1>2, <1>3 DEF IndInv, TypeOK, EpochsIssued
<1>6. \A y \in Execs : y # x /\ phase[y] = "held" /\ epoch[y] = e => NodeOf[y] = NodeOf[x]
  BY DEF IndInv, TypeOK, EpochsIssued, RowOfItsNode
<1>7. EpochBelongsToOneNode'
  BY <1>3, <1>6 DEF IndInv, EpochBelongsToOneNode
<1>8. RowOfItsNode'
  BY <1>1, <1>3, <1>6 DEF RowOfItsNode
<1>9. WritesBehindRow'
  BY <1>1, RowFields DEF IndInv, TypeOK, WritesBehindRow
<1>10. LeaseCoversHolders'
  BY <1>1, <1>3 DEF LeaseCoversHolders, Holders
<1> QED
  BY <1>4, <1>5, <1>7, <1>8, <1>9, <1>10 DEF IndInv


\* A step that leaves the sequence and the handles alone, and renews the
\* row's lease or leaves it, preserves the invariant.
LEMMA RenewIndInv ==
  ASSUME IndInv, row # NoRow,
         row' = [row EXCEPT !.left = TTL],
         UNCHANGED <<seq, phase, epoch>>,
         age' \in [Execs -> 0 .. TTL + 1],
         lastWrite' \in Nat, lastWrite' <= row.epoch
  PROVE  IndInv'
<1> USE TTLPositive, NoRowIsNoRow
<1>1. /\ row' \in Row /\ row' # NoRow
      /\ row'.owner = row.owner /\ row'.epoch = row.epoch /\ row'.left = TTL
  BY RowFields DEF Row
<1>2. TypeOK'
  BY <1>1 DEF IndInv, TypeOK
<1>3. EpochsIssued' /\ EpochBelongsToOneNode' /\ RowOfItsNode' /\ WritesBehindRow'
  BY <1>1, RowFields
  DEF IndInv, TypeOK, EpochsIssued, EpochBelongsToOneNode, RowOfItsNode, WritesBehindRow
<1>4. LeaseCoversHolders'
  BY <1>1 DEF LeaseCoversHolders, Holders
<1> QED
  BY <1>2, <1>3, <1>4 DEF IndInv

\* A step that only retires handles, and deletes the row or leaves it,
\* preserves the invariant.
LEMMA RetireIndInv ==
  ASSUME IndInv,
         row' = NoRow \/ row' = row,
         seq' \in Nat, seq' >= seq,
         phase' \in [Execs -> {"new", "held", "done"}],
         age' \in [Execs -> 0 .. TTL + 1],
         \A x \in Execs : phase'[x] = "held" => phase[x] = "held" /\ age'[x] = age[x],
         UNCHANGED <<epoch, lastWrite>>
  PROVE  IndInv'
<1>1. TypeOK'
  BY DEF IndInv, TypeOK
<1>2. EpochsIssued' /\ EpochBelongsToOneNode' /\ RowOfItsNode' /\ WritesBehindRow'
  BY RowFields
  DEF IndInv, TypeOK, EpochsIssued, EpochBelongsToOneNode, RowOfItsNode, WritesBehindRow
<1>3. LeaseCoversHolders'
  BY DEF IndInv, LeaseCoversHolders, Holders, Matches
<1> QED
  BY <1>1, <1>2, <1>3 DEF IndInv

\* Every step of the guard preserves the inductive invariant.
LEMMA NextIndInv == IndInv /\ [Next]_vars => IndInv'
<1> SUFFICES ASSUME IndInv, [Next]_vars PROVE IndInv'
  OBVIOUS
<1> USE NodeOfType, TTLPositive, NoRowIsNoRow
<1>t. TypeOK
  BY DEF IndInv
<1>1. ASSUME NEW x \in Execs, Register(x) PROVE IndInv'
  <2>1. ASSUME NEW reply \in BOOLEAN, RegisterInsert(x, reply) PROVE IndInv'
    BY <1>t, <2>1, GrantIndInv DEF RegisterInsert, TypeOK
  <2>2. ASSUME NEW reply \in BOOLEAN, RegisterRefresh(x, reply) PROVE IndInv'
    <3>1. row' = [owner |-> NodeOf[x], epoch |-> row.epoch, left |-> TTL]
      BY <2>2, RowFields DEF RegisterRefresh, Row
    <3>2. /\ row # NoRow /\ row.owner = NodeOf[x] /\ phase[x] = "new"
          /\ seq' = seq + 1 /\ Granted(x, row.epoch, reply) /\ UNCHANGED lastWrite
      BY <2>2 DEF RegisterRefresh
    <3>3. row.epoch \in Nat /\ row.epoch <= seq + 1 /\ seq + 1 \in Nat /\ seq + 1 >= seq
      BY <1>t, <3>2, RowFields DEF TypeOK
    <3> QED
      BY <3>1, <3>2, <3>3, GrantIndInv
  <2>3. ASSUME NEW reply \in BOOLEAN, RegisterReclaim(x, reply) PROVE IndInv'
    BY <1>t, <2>3, GrantIndInv DEF RegisterReclaim, TypeOK
  <2>4. CASE RegisterRefused(x)
    BY <1>t, <2>4, RetireIndInv DEF RegisterRefused, TypeOK
  <2>5. CASE RegisterFailed(x)
    BY <1>t, <2>5, RetireIndInv DEF RegisterFailed, TypeOK
  <2> QED
    BY <1>1, <2>1, <2>2, <2>3, <2>4, <2>5 DEF Register
<1>2. ASSUME NEW x \in Execs, Owns(x) PROVE IndInv'
  BY <1>t, <1>2, RowFields, RenewIndInv DEF Owns, Matches, TypeOK
<1>3. ASSUME NEW x \in Execs, Heartbeat(x) PROVE IndInv'
  BY <1>t, <1>3, RowFields, RenewIndInv DEF Heartbeat, TypeOK, IndInv, WritesBehindRow
<1>4. ASSUME NEW x \in Execs, End(x) PROVE IndInv'
  BY <1>t, <1>4, RetireIndInv DEF End, TypeOK
<1>5. CASE DeleteExecution
  BY <1>t, <1>5, RetireIndInv DEF DeleteExecution, TypeOK
<1>6. ASSUME NEW n \in Nodes, Crash(n) PROVE IndInv'
  BY <1>t, <1>6, RetireIndInv DEF Crash, TypeOK
<1>7. CASE Tick
  <2>1. TypeOK'
    BY <1>t, <1>7 DEF Tick, TypeOK, Expired, Row
  <2>2. row # NoRow => row' # NoRow /\ row'.owner = row.owner /\ row'.epoch = row.epoch
                       /\ row'.left >= row.left - 1 /\ row'.left >= -1
    BY <1>7, RowFields DEF Tick, Expired, Row
  <2>3. row = NoRow => row' = NoRow
    BY <1>7 DEF Tick
  <2>4. EpochsIssued' /\ EpochBelongsToOneNode' /\ RowOfItsNode' /\ WritesBehindRow'
    BY <1>7, <2>2, <2>3
    DEF Tick, IndInv, EpochsIssued, EpochBelongsToOneNode, RowOfItsNode, WritesBehindRow
  <2>5. LeaseCoversHolders'
    BY <1>t, <1>7, <2>2, <2>3, RowFields
    DEF Tick, IndInv, TypeOK, LeaseCoversHolders, Holders, Matches
  <2> QED
    BY <2>1, <2>4, <2>5 DEF IndInv
<1>8. CASE UNCHANGED vars
  BY <1>t, <1>8, RetireIndInv DEF vars, TypeOK
<1> QED
  BY <1>1, <1>2, <1>3, <1>4, <1>5, <1>6, <1>7, <1>8 DEF Next

\* The inductive invariant holds in every reachable state of the guard.
THEOREM Invariance == Spec => []IndInv
  BY InitIndInv, NextIndInv, PTL DEF Spec

\* Executions that hold the same epoch run on the same node.
THEOREM OneNodePerEpoch == Spec => []EpochBelongsToOneNode
<1>1. IndInv => EpochBelongsToOneNode
  BY DEF IndInv
<1> QED
  BY <1>1, Invariance, PTL
------------------------------------------------------------------------------
\* How a step may change the row: it stays the same registration, disappears,
\* or becomes one with an epoch never issued before, which replaces at most an
\* expired one.
LEMMA RowStep ==
  ASSUME IndInv, [Next]_vars
  PROVE  \/ row' = NoRow
         \/ row # NoRow /\ row'.epoch = row.epoch /\ row'.owner = row.owner
         \/ row'.epoch > seq /\ (row = NoRow \/ Expired)
<1> USE NodeOfType, TTLPositive, NoRowIsNoRow
<1>t. seq \in Nat /\ (row # NoRow => row \in Row)
  BY DEF IndInv, TypeOK
<1> DEFINE Goal == \/ row' = NoRow
                   \/ row # NoRow /\ row'.epoch = row.epoch /\ row'.owner = row.owner
                   \/ row'.epoch > seq /\ (row = NoRow \/ Expired)
<1>1. ASSUME NEW x \in Execs, Register(x) PROVE Goal
  <2>1. ASSUME NEW reply \in BOOLEAN,
               RegisterInsert(x, reply) \/ RegisterReclaim(x, reply)
        PROVE  Goal
    BY <1>t, <2>1 DEF RegisterInsert, RegisterReclaim
  <2>2. ASSUME NEW reply \in BOOLEAN, RegisterRefresh(x, reply) PROVE Goal
    BY <1>t, <2>2 DEF RegisterRefresh, Row
  <2>3. CASE RegisterRefused(x) \/ RegisterFailed(x)
    BY <2>3 DEF RegisterRefused, RegisterFailed
  <2> QED
    BY <1>1, <2>1, <2>2, <2>3 DEF Register
<1>2. ASSUME NEW x \in Execs, Owns(x) \/ Heartbeat(x) PROVE Goal
  BY <1>t, <1>2 DEF Owns, Heartbeat, Matches, Row
<1>3. ASSUME NEW x \in Execs, End(x) PROVE Goal
  BY <1>3 DEF End
<1>4. CASE DeleteExecution
  BY <1>4 DEF DeleteExecution
<1>5. ASSUME NEW n \in Nodes, Crash(n) PROVE Goal
  BY <1>5 DEF Crash
<1>6. CASE Tick
  BY <1>t, <1>6 DEF Tick, Row
<1>7. CASE UNCHANGED vars
  BY <1>7 DEF vars
<1> QED
  BY <1>1, <1>2, <1>3, <1>4, <1>5, <1>6, <1>7 DEF Next

\* A held handle keeps its epoch: only a new execution registers.
LEMMA EpochStep ==
  ASSUME IndInv, [Next]_vars, NEW x \in Execs, phase[x] = "held"
  PROVE  epoch'[x] = epoch[x]
  BY DEF Next, vars, Register, RegisterInsert, RegisterRefresh, RegisterReclaim,
         RegisterRefused, RegisterFailed, Granted, Owns, Heartbeat, End,
         DeleteExecution, Crash, Tick, IndInv, TypeOK

\* Losing the row is permanent: no later registration brings it back.
THEOREM LossIsPermanent == Spec => LostStaysLost
<1>1. ASSUME IndInv, [Next]_vars, NEW x \in Execs, phase[x] = "held", ~Matches(x)
      PROVE  ~Matches(x)'
  <2>1. epoch'[x] = epoch[x] /\ epoch[x] \in Nat /\ epoch[x] <= seq /\ seq \in Nat
    BY <1>1, EpochStep DEF IndInv, TypeOK, EpochsIssued
  <2> QED
    BY <1>1, <2>1, RowStep DEF Matches
<1>2. IndInv /\ [Next]_vars
      => [\A x \in Execs : phase[x] = "held" /\ ~Matches(x) => ~Matches(x)']_vars
  BY <1>1
<1> QED
  BY <1>2, Invariance, PTL DEF Spec, LostStaysLost

\* Executions pass the Owns gate in the order of their epochs.
THEOREM EpochOrder == Spec => WritesInEpochOrder
<1>1. ASSUME IndInv, [Next]_vars PROVE [lastWrite' >= lastWrite]_vars
  <2>1. ASSUME NEW x \in Execs, Owns(x) PROVE lastWrite' >= lastWrite
    BY <1>1, <2>1 DEF Owns, Matches, IndInv, TypeOK, WritesBehindRow
  <2>2. CASE UNCHANGED lastWrite
    BY <1>1, <2>2 DEF IndInv, TypeOK
  <2> QED
    BY <1>1, <2>1, <2>2
    DEF Next, vars, Register, RegisterInsert, RegisterRefresh, RegisterReclaim,
        RegisterRefused, RegisterFailed, Heartbeat, End, DeleteExecution, Crash, Tick
<1> QED
  BY <1>1, Invariance, PTL DEF Spec, WritesInEpochOrder

\* No other node re-registers the run within a TTL of a passed Owns.
THEOREM RenewalClosesWindow == Spec => NoReclaimWithinTTL
<1>1. ASSUME IndInv, [Next]_vars, NEW x \in Holders,
             row' # NoRow, row'.epoch # row.epoch
      PROVE  age[x] > TTL
  <2>1. x \in Execs /\ row # NoRow
    BY <1>1 DEF Holders, Matches
  <2>2. row.left < 0
    BY <1>1, <2>1, RowStep DEF Expired
  <2>3. row.left >= TTL - age[x] /\ age[x] \in Int /\ TTL \in Int /\ row.left \in Int
    BY <1>1, <2>1, RowFields, TTLPositive DEF IndInv, LeaseCoversHolders, TypeOK
  <2> QED
    BY <2>2, <2>3
<1>2. IndInv /\ [Next]_vars
      => [\A x \in Holders : (row' # NoRow /\ row'.epoch # row.epoch) => age[x] > TTL]_vars
  BY <1>1
<1> QED
  BY <1>2, Invariance, PTL DEF Spec, NoReclaimWithinTTL

-------------------------------------------------------------------------------
(* The run.                                                                  *)

\* Each step of the run is a step of the guard or leaves the lease alone.
LEMMA StepSimulation == [RunNext]_allVars => [Next]_vars
<1> SUFFICES ASSUME [RunNext]_allVars PROVE [Next]_vars
  OBVIOUS
<1>1. ASSUME NEW x \in Execs, ApplyChange(x) \/ RetryChange(x) \/ RetryHost(x) PROVE UNCHANGED vars
  BY <1>1 DEF ApplyChange, RetryChange, RetryHost
<1>2. ASSUME NEW x \in Execs, ExecStep(x) PROVE [Next]_vars
  <2>1. CASE RetryRead(x) \/ StartCAS(x) \/ RunRefused(x) \/ CloseRun(x) \/ Persist(x) \/ Settle(x)
    BY <2>1 DEF RetryRead, StartCAS, RunRefused, CloseRun, Persist, Settle
  <2>2. CASE Begin(x)
    BY <2>2 DEF Begin, Next
  <2>3. CASE EvidenceGate(x)
    BY <2>3 DEF EvidenceGate, Next
  <2>4. CASE EndRun(x)
    BY <2>4 DEF EndRun, Next
  <2> QED
    BY <1>2, <2>1, <2>2, <2>3, <2>4 DEF ExecStep
<1>3. ASSUME NEW x \in Execs, Dispatch(x) \/ LeaseHeartbeat(x) PROVE Next
  BY <1>3 DEF Dispatch, LeaseHeartbeat, Next
<1>4. ASSUME NEW n \in Sweepers, SweepStep(n) PROVE [Next]_vars
  BY <1>4 DEF SweepStep, Scan, StandDown, DeleteRow, Release, Next
<1>5. ASSUME NEW n \in Sweepers, TakeLock(n) \/ Interrupt(n) PROVE UNCHANGED vars
  BY <1>5 DEF TakeLock, Interrupt
<1>6. ASSUME NEW n \in Nodes, NodeCrash(n) PROVE Next
  BY <1>6 DEF NodeCrash, Next
<1>7. CASE ClockTick \/ GraceElapses \/ LockLapses
  BY <1>7 DEF ClockTick, GraceElapses, LockLapses, Next
<1>8. CASE UNCHANGED allVars
  BY <1>8 DEF allVars
<1> QED
  BY <1>1, <1>2, <1>3, <1>4, <1>5, <1>6, <1>7, <1>8 DEF RunNext

\* Executions, takeover, crashes and the clock use the lease row only through
\* the operations of the guard.
LEMMA RunImplementsGuard == RunSpec => Spec
<1>1. RunInit => Init
  BY DEF RunInit
<1> QED
  BY <1>1, StepSimulation, PTL DEF RunSpec, Spec

\* So the guarantees of the guard are guarantees about every run: lost
\* ownership is permanent, and writes come in epoch order.
THEOREM RunFencing == RunSpec => LostStaysLost /\ WritesInEpochOrder /\ NoReclaimWithinTTL
  BY RunImplementsGuard, LossIsPermanent, EpochOrder, RenewalClosesWindow, PTL
------------------------------------------------------------------------------
\* The initial state has the right types.
LEMMA InitLocalType == RunInit => LocalTypeOK
<1>1. /\ {"approved", "failed"} \subseteq Statuses
      /\ "idle" \in ExecSteps
      /\ "idle" \in SweepSteps
  BY DEF Statuses, Terminal, Verdicts, ExecSteps, SweepSteps
<1> QED
  BY ZenonT(30), <1>1 DEF RunInit, LocalTypeOK

\* Every step keeps the types of the run's own state.
LEMMA NextLocalType == LocalTypeOK /\ [RunNext]_allVars => LocalTypeOK'
<1> SUFFICES ASSUME LocalTypeOK, [RunNext]_allVars PROVE LocalTypeOK'
  OBVIOUS
<1> USE DEF LocalTypeOK, Goto, SetStatus
<1>s. /\ Verdicts \subseteq Statuses
      /\ {"running", "failed", "interrupted"} \subseteq Statuses
      /\ {"cas", "retry", "begin", "run", "gate", "persist", "end", "settle", "done"} \subseteq ExecSteps
      /\ {"idle", "lock", "cas", "delete", "release"} \subseteq SweepSteps
  BY DEF Statuses, Terminal, Verdicts, ExecSteps, SweepSteps
<1>1. ASSUME NEW x \in Execs, ApplyChange(x) PROVE LocalTypeOK'
  BY <1>1, <1>s DEF ApplyChange
<1>2. ASSUME NEW x \in Execs, RetryChange(x) \/ RetryHost(x) PROVE LocalTypeOK'
  BY <1>2, <1>s DEF RetryChange, RetryHost
<1>3. ASSUME NEW x \in Execs, ExecStep(x) PROVE LocalTypeOK'
  <2>1. CASE RetryRead(x)
    BY <2>1, <1>s DEF RetryRead
  <2>2. CASE StartCAS(x)
    BY Zenon, <2>2, <1>s DEF StartCAS
  <2>3. CASE RunRefused(x)
    BY <2>3, <1>s DEF RunRefused
  <2>4. CASE Begin(x)
    BY <2>4, <1>s DEF Begin
  <2>5. CASE CloseRun(x)
    BY <2>5, <1>s DEF CloseRun
  <2>6. CASE EvidenceGate(x)
    BY <2>6, <1>s DEF EvidenceGate, OnError, Statuses, Terminal, Verdicts
  <2>7. CASE Persist(x)
    BY <2>7, <1>s DEF Persist, OnError, Statuses, Terminal, Verdicts
  <2>8. CASE EndRun(x)
    BY <2>8, <1>s DEF EndRun
  <2>9. CASE Settle(x)
    BY Zenon, <2>9, <1>s DEF Settle
  <2> QED
    BY <1>3, <2>1, <2>2, <2>3, <2>4, <2>5, <2>6, <2>7, <2>8, <2>9 DEF ExecStep
<1>4. ASSUME NEW x \in Execs, Dispatch(x) \/ LeaseHeartbeat(x) PROVE LocalTypeOK'
  BY <1>4 DEF Dispatch, LeaseHeartbeat, runVars
<1>5. ASSUME NEW n \in Sweepers, SweepStep(n) \/ TakeLock(n) \/ Interrupt(n) PROVE LocalTypeOK'
  BY Zenon, <1>5, <1>s
  DEF SweepStep, Scan, StandDown, DeleteRow, Release, TakeLock, Interrupt, SweepGoto
<1>6. ASSUME NEW n \in Nodes, NodeCrash(n) PROVE LocalTypeOK'
  BY <1>6, <1>s DEF NodeCrash
<1>7. CASE ClockTick \/ GraceElapses \/ LockLapses
  BY Zenon, <1>7 DEF ClockTick, GraceElapses, LockLapses, runVars
<1>8. CASE UNCHANGED allVars
  BY <1>8 DEF allVars, runVars
<1> QED
  BY <1>1, <1>2, <1>3, <1>4, <1>5, <1>6, <1>7, <1>8 DEF RunNext

\* Type correctness of the composed specification.
THEOREM RunTypeCorrect == RunSpec => []RunTypeOK
<1>1. IndInv => TypeOK
  BY DEF IndInv
<1>2. RunSpec => []IndInv
  BY RunImplementsGuard, Invariance, PTL
<1>3. RunSpec => []LocalTypeOK
  BY InitLocalType, NextLocalType, PTL DEF RunSpec
<1> QED
  BY <1>1, <1>2, <1>3, PTL DEF RunTypeOK
------------------------------------------------------------------------------
\* Only three statements write the status, each from one value.
LEMMA StatusStep ==
  ASSUME [RunNext]_allVars
  PROVE  \/ status' = status
         \/ status' = "running"
         \/ status = "running"
<1> USE DEF Goto, SetStatus
<1>1. ASSUME NEW x \in Execs,
             \/ ApplyChange(x) \/ RetryChange(x) \/ RetryHost(x)
             \/ Dispatch(x) \/ LeaseHeartbeat(x)
      PROVE  status' = status
  BY <1>1 DEF ApplyChange, RetryChange, RetryHost, Dispatch, LeaseHeartbeat, runVars
<1>2. ASSUME NEW x \in Execs, ExecStep(x)
      PROVE  status' = status \/ status' = "running" \/ status = "running"
  BY <1>2 DEF ExecStep, RetryRead, StartCAS, RunRefused, Begin, CloseRun, EvidenceGate,
              Persist, EndRun, Settle
<1>3. ASSUME NEW n \in Sweepers, SweepStep(n) \/ TakeLock(n) \/ Interrupt(n)
      PROVE  status' = status \/ status = "running"
  BY <1>3 DEF SweepStep, Scan, StandDown, DeleteRow, Release, TakeLock, Interrupt
<1>4. ASSUME NEW n \in Nodes, NodeCrash(n) PROVE status' = status
  BY <1>4 DEF NodeCrash
<1>5. CASE ClockTick \/ GraceElapses \/ LockLapses \/ UNCHANGED allVars
  BY <1>5 DEF ClockTick, GraceElapses, LockLapses, allVars, runVars
<1> QED
  BY <1>1, <1>2, <1>3, <1>4, <1>5 DEF RunNext

\* No step writes over a terminal status except to reopen the run.
THEOREM TerminalStable == RunSpec => TerminalOnlyReopens
<1>1. [RunNext]_allVars
      => [(status \in Terminal /\ status' # status) => status' = "running"]_allVars
  BY StatusStep DEF Terminal, Verdicts
<1> QED
  BY <1>1, PTL DEF RunSpec, TerminalOnlyReopens
------------------------------------------------------------------------------
\* With ApplyChange as the only call, every step preserves OneApply: the CAS
\* that starts an execution leaves "approved", and nothing returns to it.
LEMMA NextOneApply ==
  ASSUME Calls = {"apply"}, LocalTypeOK, OneApply, [RunNext]_allVars
  PROVE  OneApply'
<1> USE DEF LocalTypeOK, Goto, SetStatus
<1>1. ASSUME NEW x \in Execs, ApplyChange(x) PROVE OneApply'
  BY <1>1 DEF ApplyChange, OneApply, Active
<1>2. ASSUME NEW x \in Execs, RetryChange(x) \/ RetryHost(x) PROVE FALSE
  BY <1>2 DEF RetryChange, RetryHost
<1>3. ASSUME NEW x \in Execs, RetryRead(x) PROVE FALSE
  BY <1>3 DEF RetryRead, OneApply
<1>4. ASSUME NEW x \in Execs, StartCAS(x) PROVE OneApply'
  <2>1. CASE UNCHANGED status /\ pc'[x] = "done"
    BY <1>4, <2>1 DEF StartCAS, OneApply, Active
  <2>2. CASE status = arg[x] /\ status' = "running"
    <3>1. \A y \in Execs : ~Active(y)
      BY <1>4, <2>2 DEF StartCAS, OneApply
    <3> QED
      BY <1>4, <2>2, <3>1 DEF StartCAS, OneApply, Active
  <2> QED
    BY <1>4, <2>1, <2>2 DEF StartCAS
<1>5. ASSUME NEW x \in Execs, RunRefused(x) PROVE OneApply'
  BY <1>5 DEF RunRefused, OneApply, Active
<1>6. ASSUME NEW x \in Execs, Begin(x) PROVE OneApply'
  BY <1>6 DEF Begin, OneApply, Active
<1>7. ASSUME NEW x \in Execs, CloseRun(x) PROVE OneApply'
  BY <1>7 DEF CloseRun, OneApply, Active, Verdicts
<1>8. ASSUME NEW x \in Execs, EvidenceGate(x) PROVE OneApply'
  BY <1>8 DEF EvidenceGate, OnError, OneApply, Active
<1>9. ASSUME NEW x \in Execs, Persist(x) PROVE OneApply'
  BY <1>9 DEF Persist, OnError, OneApply, Active
<1>10. ASSUME NEW x \in Execs, EndRun(x) PROVE OneApply'
  BY <1>10 DEF EndRun, OneApply, Active
<1>11. ASSUME NEW x \in Execs, Settle(x) PROVE OneApply'
  <2>1. Active(x) /\ arg[x] # "approved"
    BY <1>11 DEF Settle, OneApply, Active
  <2> QED
    BY <1>11, <2>1 DEF Settle, OneApply, Active
<1>12. ASSUME NEW x \in Execs, Dispatch(x) \/ LeaseHeartbeat(x) PROVE OneApply'
  BY <1>12 DEF Dispatch, LeaseHeartbeat, runVars, OneApply, Active
<1>13. ASSUME NEW n \in Sweepers, SweepStep(n) \/ TakeLock(n) \/ Interrupt(n) PROVE OneApply'
  BY <1>13 DEF SweepStep, Scan, StandDown, DeleteRow, Release, TakeLock, Interrupt,
               OneApply, Active
<1>14. ASSUME NEW n \in Nodes, NodeCrash(n) PROVE OneApply'
  BY <1>14 DEF NodeCrash, OneApply, Active
<1>15. CASE ClockTick \/ GraceElapses \/ LockLapses \/ UNCHANGED allVars
  BY <1>15 DEF ClockTick, GraceElapses, LockLapses, allVars, runVars, OneApply, Active
<1> QED
  BY <1>1, <1>2, <1>3, <1>4, <1>5, <1>6, <1>7, <1>8, <1>9, <1>10, <1>11, <1>12, <1>13,
     <1>14, <1>15
  DEF RunNext, ExecStep

\* A change that is only ever applied has at most one execution that counts.
LEMMA OneApplyInvariant == ASSUME Calls = {"apply"} PROVE RunSpec => []OneApply
<1>1. RunInit => OneApply
  BY DEF RunInit, OneApply, Active
<1>2. LocalTypeOK /\ OneApply /\ [RunNext]_allVars => OneApply'
  BY NextOneApply
<1>3. RunSpec => []LocalTypeOK
  BY InitLocalType, NextLocalType, PTL DEF RunSpec
<1> QED
  BY <1>1, <1>2, <1>3, PTL DEF RunSpec

\* However many nodes call ApplyChange concurrently, and whatever crashes,
\* lapses or takes over, only one execution can reach hosts.
THEOREM ApplySingleFlight == ASSUME Calls = {"apply"} PROVE RunSpec => []SingleFlight
<1>1. OneApply => SingleFlight
  BY DEF OneApply, SingleFlight, CanWrite, Active
<1> QED
  BY <1>1, OneApplyInvariant, PTL
------------------------------------------------------------------------------
\* What each step of the guard does to an execution's hold on the row.  Only
\* End and DeleteExecution take the row from a holder within its TTL.
LEMMA HoldStep ==
  ASSUME IndInv, Next, NEW x \in Execs, phase[x] = "held", phase'[x] = "held",
         age[x] <= TTL => Matches(x), age'[x] <= TTL,
         row # NoRow => row' # NoRow
  PROVE  Matches(x)'
<1>1. epoch'[x] = epoch[x]
  BY EpochStep
<1>2. age[x] \in 0 .. TTL + 1 /\ TTL \in Nat /\ (row # NoRow => row.left \in Int)
  BY RowFields, TTLPositive DEF IndInv, TypeOK
<1>3. CASE age[x] <= TTL
  <2>1. Matches(x) /\ x \in Holders
    BY <1>3 DEF Holders
  <2>2. ~Expired
    BY <1>2, <1>3, <2>1 DEF Expired, IndInv, LeaseCoversHolders, Matches
  <2>3. row'.epoch = row.epoch /\ row'.owner = row.owner
    BY <2>1, <2>2, RowStep DEF Matches
  <2> QED
    BY <1>1, <2>1, <2>3 DEF Matches
<1>4. CASE ~(age[x] <= TTL)
  <2>1. Owns(x)
    <3>1. age' # age /\ age'[x] # age[x]
      BY <1>4
    <3> QED
      BY <1>2, <1>4, <3>1
      DEF Next, Register, RegisterInsert, RegisterRefresh, RegisterReclaim, RegisterRefused,
          RegisterFailed, Granted, Owns, Heartbeat, End, DeleteExecution, Crash, Tick,
          IndInv, TypeOK
  <2> QED
    BY <1>1, <2>1, RowStep DEF Owns, Matches, IndInv, TypeOK, Row
<1> QED
  BY <1>3, <1>4

\* A run whose only apply has begun never has another one at Begin.
LEMMA StartedStep ==
  ASSUME Calls = {"apply"}, LocalTypeOK, OneApply, Started, [RunNext]_allVars
  PROVE  Started'
<1> USE DEF LocalTypeOK, Started, Goto, SetStatus
<1>1. ASSUME NEW x \in Execs, ApplyChange(x) \/ RetryChange(x) \/ RetryHost(x)
      PROVE  Started'
  BY <1>1 DEF ApplyChange, RetryChange, RetryHost
<1>2. ASSUME NEW x \in Execs, StartCAS(x) PROVE Started'
  BY <1>2 DEF StartCAS, OneApply
<1>3. ASSUME NEW x \in Execs, Settle(x) PROVE Started'
  BY <1>3 DEF Settle, OneApply, Active
<1>4. ASSUME NEW x \in Execs,
             \/ RetryRead(x) \/ RunRefused(x) \/ Begin(x) \/ CloseRun(x)
             \/ EvidenceGate(x) \/ Persist(x) \/ EndRun(x)
      PROVE  Started'
  BY <1>4 DEF RetryRead, RunRefused, Begin, CloseRun, EvidenceGate, Persist, EndRun
<1>5. ASSUME NEW x \in Execs, Dispatch(x) \/ LeaseHeartbeat(x) PROVE Started'
  BY <1>5 DEF Dispatch, LeaseHeartbeat, runVars
<1>6. ASSUME NEW n \in Sweepers, SweepStep(n) \/ TakeLock(n) \/ Interrupt(n) PROVE Started'
  BY <1>6 DEF SweepStep, Scan, StandDown, DeleteRow, Release, TakeLock, Interrupt
<1>7. ASSUME NEW n \in Nodes, NodeCrash(n) PROVE Started'
  BY <1>7 DEF NodeCrash
<1>8. CASE ClockTick \/ GraceElapses \/ LockLapses \/ UNCHANGED allVars
  BY <1>8 DEF ClockTick, GraceElapses, LockLapses, allVars, runVars
<1> QED
  BY <1>1, <1>2, <1>3, <1>4, <1>5, <1>6, <1>7, <1>8 DEF RunNext, ExecStep

\* With ApplyChange as the only call every step keeps EvidenceInv: the one
\* execution alone registers, and the sweeps delete only what has expired.
LEMMA NextEvidence ==
  ASSUME Calls = {"apply"}, LocalTypeOK, OneApply, IndInv, EvidenceInv, [RunNext]_allVars
  PROVE  EvidenceInv'
<1> USE DEF LocalTypeOK, Goto, SetStatus
<1> DEFINE Dead == row = NoRow \/ Expired
           Holding(x) == pc[x] \in {"run", "gate", "persist", "end"} =>
                           phase[x] = "held" /\ (age[x] <= TTL => Matches(x))
<1>e. /\ row # NoRow \/ aged => Started
      /\ \A n \in Sweepers : sweep[n] # "idle" => Started /\ Dead
      /\ \A x \in Execs : Holding(x)
  BY DEF EvidenceInv
<1>s. Started => Started'
  BY StartedStep
<1>g. [Next]_vars
  BY SMTT(20), StepSimulation
<1>f. ASSUME row' # NoRow \/ aged' => Started',
             \A n \in Sweepers : sweep'[n] # "idle" => Started' /\ Dead',
             \A x \in Execs : Holding(x)'
      PROVE  EvidenceInv'
  BY <1>f DEF EvidenceInv
<1>t. phase \in [Execs -> {"new", "held", "done"}] /\ age \in [Execs -> 0 .. TTL + 1]
      /\ epoch \in [Execs -> Nat] /\ TTL \in Nat /\ (row # NoRow => row \in Row)
  BY TTLPositive DEF IndInv, TypeOK
<1> HIDE DEF Holding, Dead
\* Steps of the run that leave the lease alone.
<1>1. CASE /\ UNCHANGED vars
           /\ aged' => aged \/ Started
           /\ \A n \in Sweepers : sweep'[n] # "idle" => sweep[n] # "idle" \/ (Started /\ Dead)
           /\ \A x \in Execs : pc'[x] \in {"run", "gate", "persist", "end"}
                               => pc[x] \in {"run", "gate", "persist", "end"}
  BY <1>1, <1>e, <1>f, <1>s DEF vars, Holding, Dead, Expired, Matches
<1>2. ASSUME NEW x \in Execs, Begin(x) PROVE EvidenceInv'
  <2>1. ~Started /\ Active(x)
    BY <1>2 DEF Begin, Started, Active
  <2>2. Started'
    <3>1. status' = status /\ pc' = [pc EXCEPT ![x] = pc'[x]] /\ pc'[x] # "begin"
      BY <1>2 DEF Begin
    <3>2. \A y \in Execs : pc[y] = "begin" => y = x
      BY <2>1 DEF OneApply, Active
    <3> QED
      BY <2>1, <3>1, <3>2 DEF Started, OneApply
  <2>3. ASSUME NEW y \in Execs PROVE Holding(y)'
    <3>1. CASE y # x
      <4>1. pc'[y] = pc[y]
        BY <1>2, <3>1 DEF Begin
      <4>2. ~Active(y)
        BY <2>1, <3>1 DEF OneApply
      <4> QED
        BY <4>1, <4>2 DEF Holding, Active
    <3>2. CASE y = x
      <4>1. pc'[x] \in {"run", "settle"} /\ (pc'[x] = "run" => phase'[x] = "held") /\ Register(x)
        BY <1>2 DEF Begin
      <4>2. phase'[x] = "held" => Matches(x)'
        <5>1. ASSUME NEW reply \in BOOLEAN,
                     RegisterInsert(x, reply) \/ RegisterReclaim(x, reply),
                     phase'[x] = "held"
              PROVE  Matches(x)'
          <6>1. PICK e \in Nat : /\ row' = [owner |-> NodeOf[x], epoch |-> e, left |-> TTL]
                                 /\ Granted(x, e, reply)
            BY <5>1 DEF RegisterInsert, RegisterReclaim, IndInv, TypeOK
          <6>2. epoch'[x] = e
            BY <1>t, <5>1, <6>1 DEF Granted
          <6>3. row' \in Row
            BY <6>1, NodeOfType, <1>t DEF Row
          <6> QED
            BY <6>1, <6>2, <6>3, NoRowIsNoRow DEF Matches
        <5>2. ASSUME NEW reply \in BOOLEAN, RegisterRefresh(x, reply), phase'[x] = "held"
              PROVE  Matches(x)'
          <6>1. epoch'[x] = row.epoch /\ row'.epoch = row.epoch /\ row'.owner = NodeOf[x] /\ row' \in Row
            BY <1>t, <5>2 DEF RegisterRefresh, Granted, Row
          <6> QED
            BY <6>1, NoRowIsNoRow DEF Matches
        <5>3. CASE RegisterRefused(x) \/ RegisterFailed(x)
          BY <1>t, <5>3 DEF RegisterRefused, RegisterFailed
        <5> QED
          BY <4>1, <5>1, <5>2, <5>3 DEF Register
      <4> QED
        BY <3>2, <4>1, <4>2 DEF Holding
    <3> QED
      BY <3>1, <3>2
  <2>4. \A n \in Sweepers : sweep'[n] = "idle"
    BY <1>2, <1>e, <2>1 DEF Begin
  <2> QED
    BY <2>2, <2>3, <2>4, <1>f
\* Steps that use the lease: the run's own execution and the sweeps.
<1>3. ASSUME row # NoRow => row' # NoRow, row = NoRow => row' = NoRow, Next,
             Dead => Dead', UNCHANGED <<aged, sweep, pc, phase>>
      PROVE  EvidenceInv'
  <2>1. ASSUME NEW x \in Execs PROVE Holding(x)'
    BY <1>3, <1>e, HoldStep DEF Holding
  <2> QED
    BY <1>3, <1>e, <1>f, <1>s, <2>1
<1>4. ASSUME NEW x \in Execs, Owns(x) \/ Heartbeat(x)
      PROVE  row # NoRow /\ row' # NoRow /\ ~Dead /\ UNCHANGED phase
  BY <1>4, <1>t, TTLPositive, NoRowIsNoRow DEF Owns, Heartbeat, Matches, Dead, Row
<1>5. ASSUME NEW x \in Execs, Dispatch(x) \/ LeaseHeartbeat(x) PROVE EvidenceInv'
  <2>1. (Owns(x) \/ Heartbeat(x)) /\ UNCHANGED <<aged, sweep, pc>>
    BY <1>5 DEF Dispatch, LeaseHeartbeat, runVars
  <2>2. Next
    BY <2>1 DEF Next
  <2> QED
    BY <1>3, <1>4, <2>1, <2>2
<1>6. ASSUME NEW x \in Execs, EvidenceGate(x) PROVE EvidenceInv'
  <2>1. CASE UNCHANGED vars
    BY <1>1, <1>6, <2>1 DEF EvidenceGate
  <2>2. CASE Owns(x) /\ pc[x] = "gate"
    <3>1. UNCHANGED <<aged, sweep>> /\ pc' = [pc EXCEPT ![x] = pc'[x]] /\ Next
      BY <1>6, <2>2 DEF EvidenceGate, Next
    <3>2. row # NoRow /\ row' # NoRow /\ ~Dead /\ UNCHANGED phase
      BY <1>4, <2>2
    <3>3. ASSUME NEW y \in Execs PROVE Holding(y)'
      BY <1>e, <2>2, <3>1, <3>2, HoldStep DEF Holding
    <3> QED
      BY <1>e, <1>f, <1>s, <3>1, <3>2, <3>3
  <2> QED
    BY <1>6, <2>1, <2>2 DEF EvidenceGate
<1>7. ASSUME NEW x \in Execs, EndRun(x) PROVE EvidenceInv'
  <2>1. UNCHANGED <<aged, sweep>> /\ pc[x] = "end" /\ pc' = [pc EXCEPT ![x] = "settle"] /\ End(x)
    BY <1>7 DEF EndRun
  <2>2. row' \in {row, NoRow} /\ (Dead => Dead')
    BY <2>1 DEF End, Dead, Expired
  <2>3. ASSUME NEW y \in Execs PROVE Holding(y)'
    <3>1. y # x => ~Active(y)
      BY <2>1 DEF OneApply, Active
    <3> QED
      BY <2>1, <3>1 DEF Holding, Active
  <2> QED
    BY <1>e, <1>f, <1>s, <2>1, <2>2, <2>3
<1>8. ASSUME NEW n \in Sweepers, DeleteRow(n) PROVE EvidenceInv'
  <2>1. CASE UNCHANGED vars
    BY <1>1, <1>8, <2>1 DEF DeleteRow, SweepGoto
  <2>2. CASE DeleteExecution
    <3>1. /\ UNCHANGED <<aged, pc, phase, age, epoch>> /\ row # NoRow /\ row' = NoRow
          /\ sweep[n] = "delete" /\ \A m \in Sweepers : sweep'[m] # "idle" => sweep[m] # "idle"
      BY <1>8, <2>2 DEF DeleteRow, DeleteExecution, SweepGoto
    <3>2. Expired
      BY <1>e, <3>1 DEF Dead
    <3>3. ASSUME NEW x \in Execs PROVE Holding(x)'
      <4>1. ASSUME pc[x] \in {"run", "gate", "persist", "end"} PROVE age[x] > TTL
        <5>1. SUFFICES ASSUME age[x] <= TTL PROVE FALSE
          BY <1>t
        <5>2. x \in Holders
          BY <1>e, <4>1, <5>1 DEF Holding, Holders
        <5>3. row.left >= TTL - age[x] /\ row.left < 0 /\ row.left \in Int
          BY <3>1, <3>2, <5>2, RowFields DEF IndInv, LeaseCoversHolders, Expired
        <5> QED
          BY <1>t, <5>1, <5>3
      <4> QED
        BY <1>e, <1>t, <3>1, <4>1 DEF Holding
    <3>4. Dead'
      BY <3>1 DEF Dead
    <3> QED
      BY <1>e, <1>f, <1>s, <3>1, <3>3, <3>4
  <2> QED
    BY <1>8, <2>1, <2>2 DEF DeleteRow
<1>9. ASSUME NEW n \in Sweepers, Scan(n) PROVE EvidenceInv'
  <2>1. Started /\ Dead
    BY <1>9, <1>e DEF Scan, Orphaned, Expired, Dead
  <2> QED
    BY <1>1, <1>9, <2>1 DEF Scan, SweepGoto
<1>10. ASSUME NEW n \in Sweepers, StandDown(n) \/ Release(n) \/ TakeLock(n) \/ Interrupt(n)
       PROVE  EvidenceInv'
  BY SMTT(20), <1>1, <1>10 DEF StandDown, Release, TakeLock, Interrupt, SweepGoto
<1>11. ASSUME NEW n \in Nodes, NodeCrash(n) PROVE EvidenceInv'
  <2>1. /\ UNCHANGED <<aged, row, epoch>>
        /\ \A m \in Sweepers : sweep'[m] # "idle" => sweep[m] # "idle"
        /\ \A x \in Execs : pc'[x] \in {"run", "gate", "persist", "end"} =>
              pc'[x] = pc[x] /\ phase'[x] = phase[x] /\ age'[x] = age[x]
    BY <1>11, <1>t DEF NodeCrash, Crash
  <2> QED
    BY <1>e, <1>f, <1>s, <2>1 DEF Holding, Dead, Expired, Matches
<1>12. CASE ClockTick
  <2>1. /\ Next /\ UNCHANGED <<aged, sweep, pc, phase>>
        /\ row' = IF row = NoRow \/ Expired THEN row ELSE [row EXCEPT !.left = @ - 1]
    BY <1>12 DEF ClockTick, Next, Tick, runVars
  <2>2. /\ row # NoRow => row' # NoRow
        /\ row = NoRow => row' = NoRow
        /\ Dead => Dead'
    BY <1>t, <2>1, NoRowIsNoRow, TTLPositive DEF Dead, Expired, Row
  <2> QED
    BY <1>3, <2>1, <2>2
<1>13. CASE GraceElapses
  BY <1>1, <1>13 DEF GraceElapses, Started
<1>14. CASE LockLapses \/ UNCHANGED allVars
  BY <1>1, <1>14 DEF LockLapses, allVars, runVars
<1>15. ASSUME NEW x \in Execs,
              ApplyChange(x) \/ RetryChange(x) \/ RetryHost(x) \/ RetryRead(x) \/ RunRefused(x)
       PROVE  EvidenceInv'
  BY <1>1, <1>15 DEF ApplyChange, RetryChange, RetryHost, RetryRead, RunRefused
<1>16. ASSUME NEW x \in Execs, StartCAS(x) \/ CloseRun(x) \/ Persist(x) \/ Settle(x)
       PROVE  EvidenceInv'
  BY <1>1, <1>16 DEF StartCAS, CloseRun, Persist, Settle
<1> QED
  BY <1>2, <1>5, <1>6, <1>7, <1>8, <1>9, <1>10, <1>11, <1>12, <1>13, <1>14, <1>15, <1>16
  DEF RunNext, ExecStep, SweepStep

\* Whatever lapses, crashes or sweeps, evidence written within a TTL of its
\* gate is written by the execution that still has the row.
THEOREM EvidenceIsFenced == ASSUME Calls = {"apply"} PROVE RunSpec => EvidenceOfTheHolder
<1>1. RunInit => EvidenceInv
  BY DEF RunInit, Init, EvidenceInv, Started
<1>2. LocalTypeOK /\ OneApply /\ IndInv /\ EvidenceInv /\ [RunNext]_allVars => EvidenceInv'
  BY NextEvidence
<1>3. RunSpec => []LocalTypeOK
  BY InitLocalType, NextLocalType, PTL DEF RunSpec
<1>4. RunSpec => []IndInv
  BY RunImplementsGuard, Invariance, PTL
<1>5. EvidenceInv /\ [RunNext]_allVars
      => [\A x \in Execs : pc[x] = "persist" /\ pc'[x] = "end" /\ age[x] <= TTL
                           => Matches(x)]_allVars
  BY DEF EvidenceInv
<1> QED
  BY <1>1, <1>2, <1>3, <1>4, <1>5, OneApplyInvariant, PTL DEF RunSpec, EvidenceOfTheHolder
==============================================================================
