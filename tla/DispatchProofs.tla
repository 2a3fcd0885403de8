--------------------------- MODULE DispatchProofs ----------------------------
(* Proofs about dispatch, for any nodes, competing leaders and bounds. *)
EXTENDS Dispatch, TLAPS

\* Most leaves are first-order; those that need more name another prover.
USE Zenon

\* A worker's step that neither reads the row nor completes it, and a sweep's
\* step that does not go on to Reassign.
WorkerCalm ==
    \A w \in Nodes :
        \/ wpc'[w] = "idle"
        \/ wep'[w] = wep[w] /\ wpc'[w] = wpc[w]
        \/ wep'[w] = wep[w] /\ Claimed(w) /\ wpc'[w] \in {"run", "complete"}
SweepCalm ==
    \A d \in Dispatchers : dpc'[d] = "reassign" => dpc[d] = "reassign" /\ dep'[d] = dep[d]

\* Arithmetic of epochs.
LEMMA EpochArith ==
  /\ \A a, b, c \in Nat : a <= b /\ c > b => a < c
  /\ \A a, b \in Nat : a < b => a <= b /\ a # b
  /\ \A a \in Nat : a + 1 \in Nat /\ a + 1 > a
  BY SMT

\* The initial state satisfies the inductive invariant.
LEMMA InitIndInv == Init => IndInv
<1> SUFFICES ASSUME Init PROVE IndInv
  OBVIOUS
<1>1. TypeOK
  <2>1. asg \in Asg \cup {NoAsg} /\ stale \in BOOLEAN /\ op \in BOOLEAN
    BY DEF Init
  <2>2. dpc \in [Dispatchers -> DispSteps] /\ dep \in [Dispatchers -> Nat] /\ dto \in [Dispatchers -> Nodes]
    BY DispatchersType DEF Init, DispSteps
  <2>3. wpc \in [Nodes -> WorkSteps] /\ wep \in [Nodes -> Nat] /\ wres \in [Nodes -> Results]
    BY DEF Init, WorkSteps, Results
  <2>4. faults \in 0 .. MaxFaults /\ approvals \in 0 .. MaxApprovals
    BY SMT, BoundsType DEF Init
  <2> QED
    BY <2>1, <2>2, <2>3, <2>4 DEF Init, TypeOK
<1>2. WorkersBehindRow /\ ReassignsEndedEpoch /\ EpochClaimedOnce /\ ResultOfDoneEpoch
  BY DEF Init, WorkersBehindRow, ReassignsEndedEpoch, EpochClaimedOnce, ResultOfDoneEpoch, Claimed
<1> QED
  BY <1>1, <1>2 DEF IndInv

\* What a row is made of.
LEMMA AsgFields ==
  ASSUME TypeOK, asg # NoAsg
  PROVE  /\ asg \in Asg
         /\ asg.owner \in Nodes /\ asg.epoch \in Nat
         /\ asg.state \in {"pending", "executing", "done", "interrupted"}
         /\ asg.result \in Results \cup {""}
  BY DEF TypeOK, Asg, ActiveStates, TerminalAssignStates

\* The row after SetState, Repoint and SetAssignmentResult, field by field.
LEMMA SetStateFields ==
  ASSUME TypeOK, asg # NoAsg,
         NEW s \in ActiveStates \cup TerminalAssignStates, SetState(s)
  PROVE  /\ asg' \in Asg /\ asg' # NoAsg /\ stale' = FALSE
         /\ asg'.owner = asg.owner /\ asg'.epoch = asg.epoch
         /\ asg'.state = s /\ asg'.result = asg.result
  BY AsgFields, NoAsgIsNoAsg DEF SetState, Asg

\* Reassigning gives the row to w under the next epoch, pending and without a
\* result.
LEMMA RepointFields ==
  ASSUME TypeOK, asg # NoAsg, NEW w \in Nodes, Repoint(w)
  PROVE  /\ asg' \in Asg /\ asg' # NoAsg /\ stale' = FALSE
         /\ asg'.owner = w /\ asg'.epoch = asg.epoch + 1
         /\ asg'.state = "pending" /\ asg'.result = ""
<1>1. asg.epoch + 1 \in Nat
  BY AsgFields, EpochArith, Zenon
<1>2. /\ asg' = [owner |-> w, epoch |-> asg.epoch + 1, state |-> "pending", result |-> ""]
      /\ stale' = FALSE
  BY DEF Repoint
<1>3. asg' \in Asg
  BY <1>1, <1>2 DEF Asg, ActiveStates
<1>4. asg' # NoAsg
  BY <1>3, NoAsgIsNoAsg, Zenon
<1>5. asg'.owner = w /\ asg'.epoch = asg.epoch + 1 /\ asg'.state = "pending" /\ asg'.result = ""
  BY <1>2
<1> QED
  BY <1>2, <1>3, <1>4, <1>5, Zenon

\* A calm step that leaves the row alone preserves the invariant.
LEMMA SameRow ==
  ASSUME IndInv, TypeOK', asg' = asg, WorkerCalm, SweepCalm
  PROVE  IndInv'
<1>1. WorkersBehindRow'
  BY DEF IndInv, WorkersBehindRow, WorkerCalm, Claimed
<1>2. ReassignsEndedEpoch'
  BY DEF IndInv, ReassignsEndedEpoch, SweepCalm
<1>3. EpochClaimedOnce'
  BY ZenonT(30) DEF IndInv, EpochClaimedOnce, WorkerCalm, Claimed
<1>4. ResultOfDoneEpoch'
  BY DEF IndInv, ResultOfDoneEpoch
<1> QED
  BY <1>1, <1>2, <1>3, <1>4 DEF IndInv

\* So does one that makes the row anew, in a fresh epoch.
LEMMA NewRow ==
  ASSUME IndInv, TypeOK', WorkerCalm, SweepCalm,
         asg' # NoAsg, asg'.result = "",
         asg # NoAsg => asg'.epoch > asg.epoch
  PROVE  IndInv'
<1>0. asg'.epoch \in Nat /\ (asg # NoAsg => asg.epoch \in Nat)
  BY AsgFields DEF IndInv, TypeOK, Asg
<1>1. \A w \in Nodes : wep'[w] \in Nat
  BY DEF TypeOK
<1>2. \A d \in Dispatchers : dep'[d] \in Nat
  BY DEF TypeOK
<1>3. \A w \in Nodes : wpc'[w] # "idle" => asg # NoAsg /\ wep'[w] <= asg.epoch
  BY DEF IndInv, WorkersBehindRow, WorkerCalm, Claimed
<1>4. \A w \in Nodes : wpc'[w] # "idle" => wep'[w] < asg'.epoch /\ wep'[w] <= asg'.epoch /\ wep'[w] # asg'.epoch
  BY <1>0, <1>1, <1>3, EpochArith, Zenon
<1>5. WorkersBehindRow'
  BY <1>4, Zenon DEF WorkersBehindRow
<1>6. ReassignsEndedEpoch'
  <2> SUFFICES ASSUME NEW d \in Dispatchers, dpc'[d] = "reassign"
               PROVE  dep'[d] <= asg'.epoch /\ dep'[d] # asg'.epoch
    BY DEF ReassignsEndedEpoch
  <2>1. asg # NoAsg /\ dep'[d] <= asg.epoch
    BY DEF IndInv, ReassignsEndedEpoch, SweepCalm
  <2> QED
    BY <1>0, <1>2, <2>1, EpochArith, Zenon
<1>7. \A v, w \in Nodes : Claimed(v)' /\ Claimed(w)' /\ wep'[v] = wep'[w] => v = w
  <2>1. \A w \in Nodes : Claimed(w)' => Claimed(w) /\ wep'[w] = wep[w]
    BY DEF WorkerCalm, Claimed
  <2> QED
    BY <2>1, Zenon DEF IndInv, EpochClaimedOnce
<1>8. EpochClaimedOnce'
  <2>1. \A w \in Nodes : Claimed(w)' => wep'[w] # asg'.epoch
    BY <1>4 DEF Claimed
  <2> QED
    BY <1>7, <2>1, Zenon DEF EpochClaimedOnce
<1>9. ResultOfDoneEpoch'
  BY DEF ResultOfDoneEpoch
<1> QED
  BY <1>5, <1>6, <1>8, <1>9 DEF IndInv

\* So does one that interrupts an active row.
LEMMA InterruptedRow ==
  ASSUME IndInv, TypeOK', WorkerCalm, SweepCalm, Active, SetState("interrupted")
  PROVE  IndInv'
<1>1. /\ asg # NoAsg /\ asg.state # "done" /\ asg' # NoAsg
      /\ asg'.owner = asg.owner /\ asg'.epoch = asg.epoch
      /\ asg'.state = "interrupted" /\ asg'.result = asg.result
  BY SetStateFields DEF IndInv, Active, ActiveStates, TerminalAssignStates
<1>2. WorkersBehindRow'
  BY <1>1 DEF IndInv, WorkersBehindRow, WorkerCalm, Claimed
<1>3. ReassignsEndedEpoch'
  BY <1>1 DEF IndInv, ReassignsEndedEpoch, SweepCalm, TerminalAssignStates
<1>4. EpochClaimedOnce'
  BY SMT, <1>1 DEF IndInv, EpochClaimedOnce, WorkerCalm, Claimed
<1>5. ResultOfDoneEpoch'
  BY <1>1 DEF IndInv, ResultOfDoneEpoch
<1> QED
  BY <1>2, <1>3, <1>4, <1>5 DEF IndInv
------------------------------------------------------------------------------
\* The parts of TypeOK that each kind of step changes.
TypeRow == asg \in Asg \cup {NoAsg} /\ stale \in BOOLEAN
TypeSweep ==
    /\ dpc \in [Dispatchers -> DispSteps] /\ dep \in [Dispatchers -> Nat]
    /\ dto \in [Dispatchers -> Nodes]
TypeWork ==
    /\ wpc \in [Nodes -> WorkSteps] /\ wep \in [Nodes -> Nat]
    /\ wres \in [Nodes -> Results]
TypeRest ==
    /\ status \in {"approved", "running", "interrupted", "settled"}
    /\ op \in BOOLEAN /\ tk \in {"idle", "get", "reflect"}
    /\ up \subseteq Nodes /\ view \subseteq Nodes
    /\ faults \in 0 .. MaxFaults /\ approvals \in 0 .. MaxApprovals

\* The four parts together are the type invariant, before a step ...
LEMMA TypeParts == TypeOK <=> TypeRow /\ TypeSweep /\ TypeWork /\ TypeRest
  BY DEF TypeOK, TypeRow, TypeSweep, TypeWork, TypeRest

\* ... and after it.
LEMMA TypePartsNext == TypeRow' /\ TypeSweep' /\ TypeWork' /\ TypeRest' => TypeOK'
  BY DEF TypeOK, TypeRow, TypeSweep, TypeWork, TypeRest

\* A disturbance and a re-approval stay within their bounds.
LEMMA FaultType ==
  ASSUME TypeRest, Fault \/ NoFault
  PROVE  faults' \in 0 .. MaxFaults
  BY SMT, BoundsType DEF TypeRest, Fault, NoFault

\* What the rewritten or kept row is, whichever statement wrote it.
LEMMA RowStep ==
  ASSUME TypeOK,
         \/ UNCHANGED <<asg, stale>>
         \/ asg # NoAsg /\ \E s \in ActiveStates \cup TerminalAssignStates : SetState(s)
         \/ asg # NoAsg /\ \E w \in Nodes : Repoint(w)
  PROVE  TypeRow'
<1>1. CASE UNCHANGED <<asg, stale>>
  BY <1>1, TypeParts DEF TypeRow
<1>2. CASE asg # NoAsg /\ \E s \in ActiveStates \cup TerminalAssignStates : SetState(s)
  BY <1>2, SetStateFields, Zenon DEF TypeRow
<1>3. CASE asg # NoAsg /\ \E w \in Nodes : Repoint(w)
  BY <1>3, RepointFields, Zenon DEF TypeRow
<1> QED
  BY <1>1, <1>2, <1>3

\* A step that leaves the workers alone is calm for them.
LEMMA WorkersIdle == ASSUME TypeOK, UNCHANGED workVars PROVE TypeWork' /\ WorkerCalm
  BY TypeParts DEF TypeWork, workVars, WorkerCalm

\* A step that leaves the sweeps alone is calm for them.
LEMMA SweepsIdle == ASSUME TypeOK, UNCHANGED dispVars PROVE TypeSweep' /\ SweepCalm
  BY TypeParts DEF TypeSweep, dispVars, SweepCalm

\* A sweep that moves to another step than Reassign, and forgets or keeps what
\* it read, is calm.
LEMMA SweepMoves ==
  ASSUME TypeOK, NEW d \in Dispatchers, NEW f, NEW t \in DispSteps, t # "reassign",
         DispGoto(d, f, t),
         DispRest(d) \/ DispKeep
  PROVE  TypeSweep' /\ SweepCalm
<1>0. TypeSweep
  BY TypeParts
<1>1. dpc' \in [Dispatchers -> DispSteps] /\ (\A c \in Dispatchers : c # d => dpc'[c] = dpc[c]) /\ dpc'[d] = t
  BY <1>0 DEF TypeSweep, DispGoto
<1>2. /\ dep' \in [Dispatchers -> Nat] /\ dto' \in [Dispatchers -> Nodes]
      /\ \A c \in Dispatchers : c # d => dep'[c] = dep[c]
  BY SMT, <1>0, DispatchersType DEF TypeSweep, DispRest, DispKeep
<1> QED
  BY <1>1, <1>2 DEF TypeSweep, SweepCalm

\* A worker that goes back to polling is calm, and so is one that goes on
\* executing what it claimed.
LEMMA WorkerMoves ==
  ASSUME TypeOK, NEW w \in Nodes, NEW f, NEW t \in WorkSteps, WorkGoto(w, f, t),
         \/ t = "idle" /\ WorkRest(w)
         \/ /\ Claimed(w) /\ t \in {"run", "complete"}
            /\ UNCHANGED wep /\ wres' \in [Nodes -> Results]
  PROVE  TypeWork' /\ WorkerCalm
<1>0. TypeWork
  BY TypeParts
<1>1. wpc' \in [Nodes -> WorkSteps] /\ (\A v \in Nodes : v # w => wpc'[v] = wpc[v]) /\ wpc'[w] = t
  BY <1>0 DEF TypeWork, WorkGoto
<1>2. /\ wep' \in [Nodes -> Nat] /\ wres' \in [Nodes -> Results]
      /\ \A v \in Nodes : v # w => wep'[v] = wep[v]
  BY SMT, <1>0 DEF TypeWork, WorkRest, Results
<1> QED
  BY <1>1, <1>2 DEF TypeWork, WorkerCalm

\* Nothing but the row, the sweeps and the workers changes.
LEMMA RestIdle ==
  ASSUME TypeOK, UNCHANGED <<status, op, tk, envVars>>
  PROVE  TypeRest'
  BY TypeParts DEF TypeRest, envVars
------------------------------------------------------------------------------
\* Every statement of a sweep preserves the invariant.
LEMMA SweepIndInv ==
  ASSUME IndInv, NEW d \in Dispatchers, SweepStep(d) \/ SweepFails(d)
  PROVE  IndInv'
<1>0. TypeOK /\ TypeRow /\ TypeSweep
  BY TypeParts DEF IndInv
<1>a. Workers(d) \subseteq Nodes
  BY DispatchersType, TypeParts DEF IndInv, TypeRest, Workers
<1>1. TypeWork' /\ WorkerCalm
  <2>1. UNCHANGED workVars
    BY DEF SweepStep, ListStale, GetRun, Terminalise, Reclaim, Candidate, GetAssignment,
      Create, Reassign, SweepFails
  <2> QED
    BY <1>0, <2>1, WorkersIdle
<1>2. TypeRest'
  <2>1. CASE SweepStep(d)
    <3>1. UNCHANGED <<status, op, tk, envVars>>
      BY <2>1, Zenon DEF SweepStep, ListStale, GetRun, Terminalise, Reclaim, Candidate,
        GetAssignment, Create, Reassign
    <3> QED
      BY <1>0, <3>1, RestIdle
  <2>2. CASE SweepFails(d)
    BY <1>0, <2>2, TypeParts, FaultType DEF SweepFails, TypeRest
  <2> QED
    BY <2>1, <2>2
<1>3. ASSUME asg' = asg, stale' = stale, TypeSweep', SweepCalm
      PROVE  IndInv'
  BY <1>0, <1>1, <1>2, <1>3, TypePartsNext, SameRow, Zenon DEF TypeRow
<1>4. ASSUME asg # NoAsg, Repoint(dto[d]), TypeSweep', SweepCalm
      PROVE  IndInv'
  <2>1. dto[d] \in Nodes
    BY <1>0 DEF TypeSweep
  <2>2. TypeRow'
    BY <1>0, <1>4, <2>1, RowStep
  <2>3. /\ asg' # NoAsg /\ asg'.result = "" /\ asg'.epoch = asg.epoch + 1
    BY <1>0, <1>4, <2>1, RepointFields
  <2>4. asg'.epoch > asg.epoch
    BY <1>0, <1>4, <2>3, AsgFields, EpochArith, Zenon
  <2> QED
    BY <1>1, <1>2, <1>4, <2>2, <2>3, <2>4, TypePartsNext, NewRow, Zenon
<1>5. CASE ListStale(d)
  <2>1. TypeSweep' /\ SweepCalm
    <3>1. asg.epoch \in Nat
      BY <1>0, <1>5, AsgFields DEF ListStale, AsgIn
    <3>2. /\ dpc' = [dpc EXCEPT ![d] = "getrun"] /\ dep' = [dep EXCEPT ![d] = asg.epoch]
          /\ \E w \in Nodes : dto' = [dto EXCEPT ![d] = w]
      BY <1>a, <1>5 DEF ListStale, DispGoto
    <3> QED
      BY <1>0, <3>1, <3>2 DEF TypeSweep, SweepCalm, DispSteps
  <2> QED
    BY <1>3, <1>5, <2>1 DEF ListStale
<1>6. CASE GetRun(d)
  <2>1. TypeSweep' /\ SweepCalm
    BY <1>0, <1>6, SweepMoves DEF GetRun, DispSteps
  <2> QED
    BY <1>3, <1>6, <2>1 DEF GetRun
<1>7. CASE Terminalise(d)
  <2>1. TypeSweep' /\ SweepCalm
    BY <1>0, <1>7, SweepMoves DEF Terminalise, DispSteps
  <2>2. CASE Active /\ SetState("interrupted")
    <3>1. TypeRow'
      BY <1>0, <2>2, RowStep DEF Active, TerminalAssignStates
    <3> QED
      BY <1>1, <1>2, <2>1, <2>2, <3>1, TypePartsNext, InterruptedRow, Zenon
  <2>3. CASE UNCHANGED <<asg, stale>>
    BY <1>3, <2>1, <2>3
  <2> QED
    BY <1>7, <2>2, <2>3 DEF Terminalise, Matches, AsgIn, Active, ActiveStates
<1>8. CASE Reclaim(d)
  <2>1. TypeSweep' /\ SweepCalm
    BY <1>0, <1>8, SweepMoves DEF Reclaim, DispSteps
  <2> QED
    BY <1>3, <1>4, <1>8, <2>1 DEF Reclaim, Matches, AsgIn
<1>9. CASE Candidate(d)
  <2>1. TypeSweep' /\ SweepCalm
    <3>1. /\ dpc' = [dpc EXCEPT ![d] = "claim"] /\ dep' = dep
          /\ \E w \in Nodes : dto' = [dto EXCEPT ![d] = w]
      BY <1>a, <1>9 DEF Candidate, DispGoto
    <3> QED
      BY <1>0, <3>1 DEF TypeSweep, SweepCalm, DispSteps
  <2> QED
    BY <1>3, <1>9, <2>1 DEF Candidate
<1>10. CASE GetAssignment(d)
  <2>0. asg' = asg /\ stale' = stale
    BY <1>10 DEF GetAssignment
  <2>1. CASE Active /\ DispGoto(d, "claim", "idle") /\ DispRest(d)
    BY <1>0, <1>3, <2>0, <2>1, SweepMoves DEF DispSteps
  <2>2. CASE asg = NoAsg /\ DispGoto(d, "claim", "create") /\ DispKeep
    BY <1>0, <1>3, <2>0, <2>2, SweepMoves DEF DispSteps
  <2>3. CASE /\ asg # NoAsg /\ ~Active /\ DispGoto(d, "claim", "reassign")
             /\ dep' = [dep EXCEPT ![d] = asg.epoch] /\ UNCHANGED dto
    <3>1. asg.epoch \in Nat /\ asg.state \in TerminalAssignStates
      BY <1>0, <2>3, AsgFields DEF Active, ActiveStates, TerminalAssignStates
    <3>2. /\ TypeSweep' /\ dep'[d] = asg.epoch
          /\ \A c \in Dispatchers : c # d => dpc'[c] = dpc[c] /\ dep'[c] = dep[c]
      BY <1>0, <2>3, <3>1 DEF TypeSweep, DispGoto, DispSteps
    <3>3. ReassignsEndedEpoch'
      BY SMT, <2>0, <2>3, <3>1, <3>2 DEF IndInv, ReassignsEndedEpoch
    <3>4. WorkersBehindRow' /\ EpochClaimedOnce' /\ ResultOfDoneEpoch'
      BY <1>10, <2>0 DEF IndInv, WorkersBehindRow, EpochClaimedOnce, ResultOfDoneEpoch, Claimed,
        GetAssignment, workVars
    <3>5. TypeOK'
      BY <1>0, <1>1, <1>2, <2>0, <3>2, TypePartsNext, Zenon DEF TypeRow
    <3> QED
      BY <3>3, <3>4, <3>5 DEF IndInv
  <2> QED
    BY <1>10, <2>1, <2>2, <2>3, Zenon DEF GetAssignment
<1>11. CASE Create(d)
  <2>1. TypeSweep' /\ SweepCalm
    BY <1>0, <1>11, SweepMoves DEF Create, DispSteps
  <2>2. CASE asg = NoAsg
    <3>1. /\ asg' = [owner |-> dto[d], epoch |-> 1, state |-> "pending", result |-> ""]
          /\ stale' = FALSE
      BY <1>11, <2>2, Zenon DEF Create
    <3>2. asg' \in Asg /\ asg'.result = ""
      BY <1>0, <3>1 DEF TypeSweep, Asg, ActiveStates
    <3>3. TypeRow' /\ asg' # NoAsg
      BY <3>1, <3>2, NoAsgIsNoAsg, Zenon DEF TypeRow
    <3> QED
      BY <1>1, <1>2, <2>1, <2>2, <3>2, <3>3, TypePartsNext, NewRow, Zenon
  <2>3. CASE asg # NoAsg
    BY <1>3, <1>11, <2>1, <2>3 DEF Create
  <2> QED
    BY <2>2, <2>3
<1>12. CASE Reassign(d)
  <2>1. TypeSweep' /\ SweepCalm
    BY <1>0, <1>12, SweepMoves DEF Reassign, DispSteps
  <2> QED
    BY <1>3, <1>4, <1>12, <2>1 DEF Reassign
<1>13. CASE SweepFails(d)
  <2>1. TypeSweep' /\ SweepCalm
    BY <1>0, <1>13, SweepMoves DEF SweepFails, DispSteps
  <2> QED
    BY <1>3, <1>13, <2>1 DEF SweepFails
<1> QED
  BY <1>5, <1>6, <1>7, <1>8, <1>9, <1>10, <1>11, <1>12, <1>13, Zenon DEF SweepStep

\* A row whose owner and epoch stay, while at most worker w moves on, keeps
\* the invariant when w and the row agree.
LEMMA OwnersStep ==
  ASSUME IndInv, TypeOK', NEW w \in Nodes,
         asg # NoAsg, asg' # NoAsg, asg.owner = w, wep[w] = asg.epoch, wpc[w] # "idle",
         asg'.owner = asg.owner, asg'.epoch = asg.epoch, asg'.state # "pending",
         asg'.result # "" => asg'.state = "done",
         UNCHANGED dispVars,
         asg.state \in TerminalAssignStates => asg'.state \in TerminalAssignStates,
         \A v \in Nodes : v # w => wpc'[v] = wpc[v] /\ wep'[v] = wep[v],
         wpc'[w] = "idle" \/ wep'[w] = wep[w],
         wpc'[w] = "result" => asg'.state = "done",
         Claimed(w) \/ asg.state = "pending"
  PROVE  IndInv'
<1>1. \A v \in Nodes : v # w /\ wpc[v] # "idle" => wep[v] # asg.epoch
  BY DEF IndInv, WorkersBehindRow
<1>2. WorkersBehindRow'
  <2> SUFFICES ASSUME NEW v \in Nodes, wpc'[v] # "idle"
               PROVE  /\ wep'[v] <= asg'.epoch
                      /\ wep'[v] = asg'.epoch =>
                            /\ asg'.owner = v
                            /\ Claimed(v)' => asg'.state # "pending"
                            /\ wpc'[v] = "result" => asg'.state = "done"
    BY DEF WorkersBehindRow
  <2>1. CASE v = w
    BY <2>1 DEF IndInv, WorkersBehindRow
  <2>2. CASE v # w
    BY <1>1, <2>2 DEF IndInv, WorkersBehindRow
  <2> QED
    BY <2>1, <2>2
<1>3. ReassignsEndedEpoch'
  BY DEF IndInv, ReassignsEndedEpoch, dispVars
<1>4. EpochClaimedOnce'
  <2>1. \A v \in Nodes : v # w /\ Claimed(v)' => Claimed(v) /\ wep'[v] = wep[v] /\ wep'[v] # asg.epoch
    BY <1>1 DEF Claimed
  <2>2. Claimed(w)' => wep'[w] = asg.epoch
    BY DEF Claimed
  <2>3. \A u, v \in Nodes : Claimed(u)' /\ Claimed(v)' /\ wep'[u] = wep'[v] => u = v
    <3> SUFFICES ASSUME NEW u \in Nodes, NEW v \in Nodes, Claimed(u)', Claimed(v)', wep'[u] = wep'[v]
                 PROVE  u = v
      OBVIOUS
    <3>1. CASE u # w /\ v # w
      BY <2>1, <3>1, Zenon DEF IndInv, EpochClaimedOnce
    <3>2. CASE u = w \/ v = w
      BY <2>1, <2>2, <3>2, Zenon
    <3> QED
      BY <3>1, <3>2
  <2>4. \A v \in Nodes : Claimed(v)' /\ wep'[v] = asg'.epoch => asg'.owner = v
    BY <2>1, Zenon
  <2> QED
    BY <2>3, <2>4, Zenon DEF EpochClaimedOnce
<1>5. ResultOfDoneEpoch'
  BY DEF ResultOfDoneEpoch
<1> QED
  BY <1>2, <1>3, <1>4, <1>5 DEF IndInv

\* Every statement of a worker loop preserves the invariant.
LEMMA WorkIndInv ==
  ASSUME IndInv, NEW w \in Nodes, WorkStep(w) \/ CompleteFails(w)
  PROVE  IndInv'
<1>0. TypeOK /\ TypeRow /\ TypeWork /\ TypeRest
  BY TypeParts DEF IndInv
<1>1. TypeSweep' /\ SweepCalm /\ UNCHANGED dispVars
  <2>1. UNCHANGED dispVars
    BY DEF WorkStep, Poll, Claim, Execute, Finish, Complete, SetResult, CompleteFails
  <2> QED
    BY <1>0, <2>1, SweepsIdle
<1>2. TypeRest'
  BY <1>0, FaultType, Zenon DEF WorkStep, Poll, Claim, Execute, Finish, Complete, SetResult,
    CompleteFails, TypeRest, envVars, NoFault
<1>3. ASSUME asg' = asg, stale' = stale, TypeWork', WorkerCalm
      PROVE  IndInv'
  BY <1>0, <1>1, <1>2, <1>3, TypePartsNext, SameRow, Zenon DEF TypeRow
<1>4. ASSUME NEW f, NEW t, WorkGoto(w, f, t)
      PROVE  wpc[w] = f /\ wpc'[w] = t /\ \A v \in Nodes : v # w => wpc'[v] = wpc[v]
  BY <1>0, <1>4 DEF WorkGoto, TypeWork
<1>5. ASSUME WorkRest(w)
      PROVE  \A v \in Nodes : v # w => wep'[v] = wep[v]
  BY <1>0, <1>5 DEF WorkRest, TypeWork
<1>6. CASE Poll(w)
  <2>1. /\ asg # NoAsg /\ asg.owner = w /\ asg.epoch \in Nat
        /\ asg' = asg /\ stale' = stale
    BY <1>0, <1>6, AsgFields DEF Poll, AsgIn
  <2>2. TypeWork' /\ wep'[w] = asg.epoch /\ \A v \in Nodes : v # w => wep'[v] = wep[v]
    BY <1>0, <1>6, <2>1 DEF Poll, WorkGoto, TypeWork, WorkSteps
  <2>3. wpc'[w] = "claim" /\ \A v \in Nodes : v # w => wpc'[v] = wpc[v]
    BY <1>4, <1>6 DEF Poll
  <2>4. WorkersBehindRow'
    BY SMT, <2>1, <2>2, <2>3 DEF IndInv, WorkersBehindRow, Claimed
  <2>5. EpochClaimedOnce'
    BY ZenonT(40), <2>1, <2>2, <2>3 DEF IndInv, EpochClaimedOnce, Claimed
  <2>6. ReassignsEndedEpoch' /\ ResultOfDoneEpoch'
    BY <1>1, <2>1 DEF IndInv, ReassignsEndedEpoch, ResultOfDoneEpoch, dispVars
  <2>7. TypeOK'
    BY <1>0, <1>1, <1>2, <2>1, <2>2, TypePartsNext, Zenon DEF TypeRow
  <2> QED
    BY <2>4, <2>5, <2>6, <2>7 DEF IndInv
<1>7. CASE Claim(w)
  <2>0. wpc[w] = "claim"
    BY <1>4, <1>7, Zenon DEF Claim
  <2>1. CASE Matches(wep[w], "pending") /\ SetState("executing")
    <3>1. asg # NoAsg /\ asg.state = "pending" /\ wep[w] = asg.epoch /\ asg.owner = w
      BY <2>0, <2>1 DEF IndInv, WorkersBehindRow, Matches, AsgIn
    <3>2. /\ asg' # NoAsg /\ asg'.owner = asg.owner /\ asg'.epoch = asg.epoch
          /\ asg'.state = "executing" /\ asg'.result = asg.result /\ TypeRow'
      BY <1>0, <2>1, <3>1, SetStateFields, RowStep DEF ActiveStates
    <3>3. asg.result = ""
      BY <3>1 DEF IndInv, ResultOfDoneEpoch
    <3>4. CASE WorkGoto(w, "claim", "execute") /\ UNCHANGED <<wep, wres>>
      <4>1. TypeWork'
        BY <1>0, <3>4 DEF WorkGoto, TypeWork, WorkSteps
      <4>2. TypeOK'
        BY <1>1, <1>2, <3>2, <4>1, TypePartsNext, Zenon
      <4>3. wpc'[w] = "execute" /\ \A v \in Nodes : v # w => wpc'[v] = wpc[v] /\ wep'[v] = wep[v]
        BY <1>4, <3>4
      <4> QED
        BY <1>1, <2>0, <3>1, <3>2, <3>3, <3>4, <4>2, <4>3, OwnersStep DEF TerminalAssignStates
    <3>5. CASE WorkGoto(w, "claim", "idle") /\ WorkRest(w)
      <4>1. TypeWork'
        BY <1>0, <3>5, WorkerMoves DEF WorkSteps
      <4>2. TypeOK'
        BY <1>1, <1>2, <3>2, <4>1, TypePartsNext, Zenon
      <4>3. wpc'[w] = "idle" /\ \A v \in Nodes : v # w => wpc'[v] = wpc[v] /\ wep'[v] = wep[v]
        BY <1>4, <1>5, <3>5
      <4> QED
        BY <1>1, <2>0, <3>1, <3>2, <3>3, <4>2, <4>3, OwnersStep DEF TerminalAssignStates
    <3> QED
      BY <1>7, <2>1, <3>4, <3>5, Zenon DEF Claim
  <2>2. CASE UNCHANGED <<asg, stale>> /\ WorkGoto(w, "claim", "idle") /\ WorkRest(w)
    BY <1>0, <1>3, <2>2, WorkerMoves DEF WorkSteps
  <2> QED
    BY <1>7, <2>1, <2>2, Zenon DEF Claim
<1>8. CASE Execute(w)
  <2>0. asg' = asg /\ stale' = stale
    BY <1>8 DEF Execute
  <2>1. \E t \in {"run", "complete"} : WorkGoto(w, "execute", t)
    BY <1>8 DEF Execute
  <2>2. Claimed(w) /\ UNCHANGED wep /\ wres' \in [Nodes -> Results]
    BY <1>0, <1>8, <2>1 DEF Execute, WorkGoto, Claimed, TypeWork
  <2>3. TypeWork' /\ WorkerCalm
    BY <1>0, <2>1, <2>2, WorkerMoves DEF WorkSteps
  <2> QED
    BY <1>3, <2>0, <2>3
<1>9. CASE Finish(w)
  <2>0. asg' = asg /\ stale' = stale
    BY <1>9 DEF Finish
  <2>1. WorkGoto(w, "run", "complete") /\ Claimed(w) /\ UNCHANGED wep
    BY <1>9 DEF Finish, WorkGoto, Claimed
  <2>2. wres' \in [Nodes -> Results]
    BY <1>0, <1>9 DEF Finish, TypeWork
  <2>3. TypeWork' /\ WorkerCalm
    BY <1>0, <2>1, <2>2, WorkerMoves DEF WorkSteps
  <2> QED
    BY <1>3, <2>0, <2>3
<1>10. CASE Complete(w)
  <2>0. wpc[w] = "complete" /\ Claimed(w)
    BY <1>4, <1>10 DEF Complete, Claimed
  <2>1. CASE /\ Matches(wep[w], "executing") /\ SetState("done")
             /\ WorkGoto(w, "complete", "result") /\ UNCHANGED <<wep, wres>>
    <3>1. asg # NoAsg /\ asg.state = "executing" /\ wep[w] = asg.epoch /\ asg.owner = w
      BY <2>0, <2>1 DEF IndInv, WorkersBehindRow, Matches, AsgIn
    <3>2. /\ asg' # NoAsg /\ asg'.owner = asg.owner /\ asg'.epoch = asg.epoch
          /\ asg'.state = "done" /\ TypeRow'
      BY <1>0, <2>1, <3>1, SetStateFields, RowStep DEF TerminalAssignStates
    <3>3. TypeWork'
      BY <1>0, <2>1 DEF WorkGoto, TypeWork, WorkSteps
    <3>4. TypeOK'
      BY <1>1, <1>2, <3>2, <3>3, TypePartsNext, Zenon
    <3>5. \A v \in Nodes : v # w => wpc'[v] = wpc[v] /\ wep'[v] = wep[v]
      BY <1>4, <2>1
    <3> QED
      BY <1>1, <2>0, <2>1, <3>1, <3>2, <3>4, <3>5, OwnersStep DEF TerminalAssignStates
  <2>2. CASE UNCHANGED <<asg, stale>> /\ WorkGoto(w, "complete", "idle") /\ WorkRest(w)
    BY <1>0, <1>3, <2>2, WorkerMoves DEF WorkSteps
  <2> QED
    BY <1>10, <2>1, <2>2, Zenon DEF Complete
<1>11. CASE SetResult(w)
  <2>0. /\ wpc[w] = "result" /\ Claimed(w) /\ wpc'[w] = "idle" /\ TypeWork' /\ WorkerCalm
        /\ \A v \in Nodes : v # w => wpc'[v] = wpc[v] /\ wep'[v] = wep[v]
    BY <1>0, <1>4, <1>5, <1>11, WorkerMoves DEF SetResult, Claimed, WorkSteps
  <2>1. CASE asg # NoAsg /\ asg.epoch = wep[w]
    <3>1. asg.owner = w /\ asg.state = "done"
      BY <2>0, <2>1 DEF IndInv, WorkersBehindRow
    <3>2. asg' = [asg EXCEPT !.result = wres[w]] /\ stale' = FALSE
      BY <1>11, <2>1, Zenon DEF SetResult
    <3>3. /\ asg' \in Asg /\ asg'.owner = asg.owner /\ asg'.epoch = asg.epoch
          /\ asg'.state = "done"
      BY <1>0, <2>1, <3>1, <3>2, AsgFields DEF TypeWork, Asg
    <3>4. TypeOK' /\ asg' # NoAsg
      BY <1>1, <1>2, <2>0, <3>2, <3>3, NoAsgIsNoAsg, TypePartsNext, Zenon DEF TypeRow
    <3> QED
      BY <1>1, <2>0, <2>1, <3>1, <3>3, <3>4, OwnersStep DEF TerminalAssignStates
  <2>2. CASE ~(asg # NoAsg /\ asg.epoch = wep[w])
    BY <1>3, <1>11, <2>0, <2>2 DEF SetResult
  <2> QED
    BY <2>1, <2>2
<1>12. CASE CompleteFails(w)
  BY <1>0, <1>3, <1>12, WorkerMoves DEF CompleteFails, WorkSteps
<1> QED
  BY <1>6, <1>7, <1>8, <1>9, <1>10, <1>11, <1>12, Zenon DEF WorkStep

\* The takeover, the operators and the environment preserve the invariant.
LEMMA EnvIndInv ==
  ASSUME IndInv,
         \/ TakeOver \/ TakeoverGet \/ TakeoverReflect \/ TakeoverFails
         \/ OperatorRun \/ OperatorRunEnds \/ Withdraw \/ ApproveAgain
         \/ ClaimTimeout
         \/ \E n \in Nodes : Crash(n) \/ MarkStale(n) \/ Restart(n)
  PROVE  IndInv'
<1>0. TypeOK /\ TypeRow /\ TypeSweep /\ TypeWork /\ TypeRest
  BY TypeParts DEF IndInv
<1>1. ASSUME asg' = asg, stale' \in BOOLEAN, UNCHANGED <<dispVars, workVars>>, TypeRest'
      PROVE  IndInv'
  <2>1. TypeSweep' /\ SweepCalm /\ TypeWork' /\ WorkerCalm
    BY <1>0, <1>1, SweepsIdle, WorkersIdle
  <2>2. TypeRow'
    BY <1>0, <1>1, Zenon DEF TypeRow
  <2> QED
    BY <1>1, <2>1, <2>2, TypePartsNext, SameRow, Zenon
<1>2. stale \in BOOLEAN
  BY <1>0 DEF TypeRow
<1>3. CASE TakeOver \/ TakeoverGet \/ OperatorRun \/ OperatorRunEnds \/ Withdraw
  <2>1. TypeRest'
    BY <1>0, <1>3, Zenon
    DEF TakeOver, TakeoverGet, OperatorRun, OperatorRunEnds, Withdraw, TypeRest, envVars
  <2> QED
    BY <1>1, <1>2, <1>3, <2>1, Zenon DEF TakeOver, TakeoverGet, OperatorRun, OperatorRunEnds, Withdraw
<1>4. CASE TakeoverFails
  <2>1. TypeRest'
    BY <1>0, <1>4, FaultType, Zenon DEF TakeoverFails, TypeRest
  <2> QED
    BY <1>1, <1>2, <1>4, <2>1, Zenon DEF TakeoverFails
<1>5. CASE TakeoverReflect
  <2>1. TypeRest'
    BY <1>0, <1>5, Zenon DEF TakeoverReflect, TypeRest, envVars
  <2>2. TypeSweep' /\ SweepCalm /\ TypeWork' /\ WorkerCalm
    BY <1>0, <1>5, SweepsIdle, WorkersIdle DEF TakeoverReflect
  <2>3. CASE Active
    <3>1. SetState("interrupted")
      BY <1>5, <2>3, Zenon DEF TakeoverReflect
    <3>2. TypeRow'
      BY <1>0, <2>3, <3>1, RowStep DEF Active, TerminalAssignStates
    <3> QED
      BY <2>1, <2>2, <2>3, <3>1, <3>2, TypePartsNext, InterruptedRow, Zenon
  <2>4. CASE ~Active
    BY <1>1, <1>2, <1>5, <2>1, <2>4, Zenon DEF TakeoverReflect
  <2> QED
    BY <2>3, <2>4
<1>6. CASE ApproveAgain
  <2>1. approvals' \in 0 .. MaxApprovals
    BY SMT, <1>0, <1>6, BoundsType DEF ApproveAgain, TypeRest
  <2>2. TypeRest'
    BY <1>0, <1>6, <2>1, Zenon DEF ApproveAgain, TypeRest
  <2> QED
    BY <1>1, <1>2, <1>6, <2>2, Zenon DEF ApproveAgain
<1>7. CASE ClaimTimeout
  <2>1. TypeRest'
    BY <1>0, <1>7, FaultType, Zenon DEF ClaimTimeout, TypeRest
  <2> QED
    BY <1>1, <1>7, <2>1, Zenon DEF ClaimTimeout
<1>8. ASSUME NEW n \in Nodes, MarkStale(n) \/ Restart(n)
      PROVE  IndInv'
  <2>1. up' \subseteq Nodes /\ view' \subseteq Nodes
    BY <1>0, <1>8 DEF MarkStale, Restart, TypeRest
  <2>2. TypeRest'
    BY <1>0, <1>8, <2>1, Zenon DEF MarkStale, Restart, TypeRest
  <2> QED
    BY <1>1, <1>2, <1>8, <2>2, Zenon DEF MarkStale, Restart
<1>9. ASSUME NEW n \in Nodes, Crash(n)
      PROVE  IndInv'
  <2>1. TypeRest'
    <3>1. up' \subseteq Nodes /\ view' \subseteq Nodes
      BY <1>0, <1>9 DEF Crash, TypeRest
    <3> QED
      BY <1>0, <1>9, <3>1, FaultType, Zenon DEF Crash, TypeRest
  <2>2. TypeWork' /\ WorkerCalm
    BY <1>0, <1>9 DEF Crash, WorkRest, TypeWork, WorkerCalm, WorkSteps, Results
  <2>3. TypeSweep' /\ SweepCalm
    BY <1>0, <1>9 DEF Crash, TypeSweep, SweepCalm, DispSteps
  <2>4. asg' = asg /\ TypeRow'
    BY <1>0, <1>9, Zenon DEF Crash, TypeRow
  <2> QED
    BY <2>1, <2>2, <2>3, <2>4, TypePartsNext, SameRow, Zenon
<1> QED
  BY <1>3, <1>4, <1>5, <1>6, <1>7, <1>8, <1>9, Zenon

\* Every step of dispatch preserves the inductive invariant.
LEMMA NextIndInv == IndInv /\ [Next]_vars => IndInv'
<1> SUFFICES ASSUME IndInv, [Next]_vars PROVE IndInv'
  OBVIOUS
<1>1. CASE Next
  BY <1>1, SweepIndInv, WorkIndInv, EnvIndInv, Zenon DEF Next
<1>2. CASE UNCHANGED vars
  BY <1>2, Zenon DEF vars, dispVars, workVars, envVars, IndInv, TypeOK, WorkersBehindRow,
    ReassignsEndedEpoch, EpochClaimedOnce, ResultOfDoneEpoch, Claimed
<1> QED
  BY <1>1, <1>2

\* For any nodes, leaders and bounds, what the concurrent loops have read of an
\* assignment stays in step with it (dispatch.go claim, acquire, complete).
THEOREM Invariance == Spec => []IndInv
<1> QED
  BY InitIndInv, NextIndInv, PTL DEF Spec

\* An epoch of an assignment is claimed by one worker, which owns the row while
\* the epoch is current: the fencing the comment of reclaimStale promises.
THEOREM ClaimsFenced == Spec => []EpochClaimedOnce
<1>1. IndInv => EpochClaimedOnce
  BY DEF IndInv
<1> QED
  BY <1>1, Invariance, PTL

\* complete's two statements never put a result on a later epoch.
THEOREM ResultsStay == Spec => []ResultOfDoneEpoch
<1>1. IndInv => ResultOfDoneEpoch
  BY DEF IndInv
<1> QED
  BY <1>1, Invariance, PTL

\* No competing leader overwrites the claim of a worker, Reassign included.
THEOREM ClaimsKept == Spec => ClaimNotStolen
<1>1. IndInv /\ [Next]_vars => [AsgIn("executing") => asg'.epoch = asg.epoch]_vars
  <2> SUFFICES ASSUME IndInv, Next, AsgIn("executing") PROVE asg'.epoch = asg.epoch
    BY DEF vars, dispVars, workVars, envVars
  <2>0. TypeOK /\ asg # NoAsg /\ asg.state = "executing"
    BY DEF IndInv, AsgIn
  <2>1. ASSUME NEW s \in ActiveStates \cup TerminalAssignStates, SetState(s)
        PROVE  asg'.epoch = asg.epoch
    BY <2>0, <2>1, SetStateFields
  <2>2. ASSUME NEW d \in Dispatchers, SweepStep(d) \/ SweepFails(d)
        PROVE  asg'.epoch = asg.epoch
    <3>1. CASE Reassign(d)
      <4>1. asg.epoch # dep[d]
        BY <2>0, <3>1 DEF IndInv, ReassignsEndedEpoch, Reassign, DispGoto, TerminalAssignStates
      <4> QED
        BY <3>1, <4>1 DEF Reassign
    <3>2. CASE ~Reassign(d)
      BY <2>0, <2>1, <2>2, <3>2 DEF SweepStep, SweepFails, ListStale, GetRun, Terminalise, Reclaim,
        Candidate, GetAssignment, Create, Matches, AsgIn
    <3> QED
      BY <3>1, <3>2
  <2>3. ASSUME NEW w \in Nodes, WorkStep(w) \/ CompleteFails(w)
        PROVE  asg'.epoch = asg.epoch
    <3>1. CASE SetResult(w)
      BY <2>0, <3>1, AsgFields DEF SetResult, Asg
    <3>2. CASE ~SetResult(w)
      BY <2>0, <2>1, <2>3, <3>2 DEF WorkStep, CompleteFails, Poll, Claim, Execute, Finish, Complete,
        ActiveStates, TerminalAssignStates
    <3> QED
      BY <3>1, <3>2
  <2>4. CASE TakeoverReflect
    BY <2>1, <2>4 DEF TakeoverReflect, TerminalAssignStates
  <2>5. CASE \/ TakeOver \/ TakeoverGet \/ TakeoverFails
             \/ OperatorRun \/ OperatorRunEnds \/ Withdraw \/ ApproveAgain \/ ClaimTimeout
             \/ \E n \in Nodes : Crash(n) \/ MarkStale(n) \/ Restart(n)
    BY <2>5 DEF TakeOver, TakeoverGet, TakeoverFails, OperatorRun, OperatorRunEnds, Withdraw,
      ApproveAgain, ClaimTimeout, Crash, MarkStale, Restart
  <2> QED
    BY <2>2, <2>3, <2>4, <2>5, Zenon DEF Next
<1> QED
  BY <1>1, Invariance, PTL DEF Spec, ClaimNotStolen
==============================================================================
