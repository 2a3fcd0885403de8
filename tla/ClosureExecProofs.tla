-------------------------- MODULE ClosureExecProofs --------------------------
(* The way back and the outcome of an execution of Closure: with the forward    *)
(* pass of ClosureProofs they make ExecInv inductive.  From it: batches are done *)
(* in order, a completed run is applied, nothing is undone twice, and a clean   *)
(* rollback is clean.                                                           *)
EXTENDS ClosureProofs

\* Most leaves are first-order; those that need more name another prover.
USE Zenon

-------------------------------------------------------------------------------
(* The rollback.                                                                *)

\* What a rollback queues: the commands of the ledger's steps.
LEMMA Queued ==
    ASSUME NEW ledger
    PROVE  /\ Compensations(ledger) \in [Hosts -> SUBSET ((DOMAIN Steps) \X Nat)]
           /\ \A h \in Hosts, i \in DOMAIN Steps, k \in Nat :
                 <<i, k>> \in Compensations(ledger)[h] <=>
                    <<h, Steps[i]>> \in ledger /\ k \in Commands(Steps[i])
<1> DEFINE Of(h) == UNION {{i} \X Commands(Steps[i]) : i \in {j \in DOMAIN Steps : <<h, Steps[j]>> \in ledger}}
<1>1. Compensations(ledger) = [h \in Hosts |-> Of(h)]
    BY DEF Compensations
<1>2. ASSUME NEW h \in Hosts PROVE Of(h) \in SUBSET ((DOMAIN Steps) \X Nat)
  <2> SUFFICES ASSUME NEW c \in Of(h) PROVE c \in (DOMAIN Steps) \X Nat
    OBVIOUS
  <2>1. PICK i \in DOMAIN Steps : c \in {i} \X Commands(Steps[i])
    OBVIOUS
  <2>2. Commands(Steps[i]) \subseteq Nat
    BY SMT DEF Commands
  <2> QED BY <2>1, <2>2
<1>3. ASSUME NEW h \in Hosts, NEW i \in DOMAIN Steps, NEW k \in Nat
      PROVE  <<i, k>> \in Of(h) <=> <<h, Steps[i]>> \in ledger /\ k \in Commands(Steps[i])
  <2>1. ASSUME <<i, k>> \in Of(h)
        PROVE  <<h, Steps[i]>> \in ledger /\ k \in Commands(Steps[i])
    <3>1. PICK j \in DOMAIN Steps : <<h, Steps[j]>> \in ledger /\ <<i, k>> \in {j} \X Commands(Steps[j])
      BY <2>1
    <3>2. i = j
      BY <3>1
    <3> QED BY <3>1, <3>2
  <2>2. ASSUME <<h, Steps[i]>> \in ledger, k \in Commands(Steps[i])
        PROVE  <<i, k>> \in Of(h)
    <3>1. <<i, k>> \in {i} \X Commands(Steps[i])
      BY <2>2
    <3> QED BY <2>2, <3>1
  <2> QED BY <2>1, <2>2
<1> QED BY SMT, <1>1, <1>2, <1>3

\* The ledger of the rollback, from rows or results.
LEMMA LedgerFrame ==
    ASSUME UNCHANGED <<job, rows, done, refused>>
    PROVE  Ledger' = Ledger
BY DEF Ledger, Manual, ledgerFromStoredSteps, LedgerFromBatchResults

\* A rollback starts: everything in the ledger is queued, nothing is undone.
LEMMA UndoStarts ==
    ASSUME pc' = "undo", undo' = Compensations(Ledger'),
           \A p \in Pairs : undone'[p] = {},
           \A p \in Ledger' : Reached(p[1], pos)'
    PROVE  UndoInv'
<1> DEFINE L == Ledger'
<1>1. undo' \in [Hosts -> SUBSET ((DOMAIN Steps) \X Nat)]
    BY Queued
<1>2. \A h \in Hosts, i \in DOMAIN Steps, k \in Nat :
         <<i, k>> \in undo'[h] <=> <<h, Steps[i]>> \in L /\ k \in Commands(Steps[i])
    BY Queued
<1>3. L \subseteq Pairs
    BY DEF Ledger, ledgerFromStoredSteps, LedgerFromBatchResults
<1>4. ASSUME NEW h \in Hosts, NEW c \in undo'[h]
      PROVE  /\ <<h, Steps[c[1]]>> \in L
             /\ c[2] \in Commands(Steps[c[1]]) \ undone'[<<h, Steps[c[1]]>>]
             /\ Reached(h, pos)'
  <2>1. c[1] \in DOMAIN Steps /\ c[2] \in Nat /\ c = <<c[1], c[2]>>
    BY SMT, <1>1
  <2>2. <<h, Steps[c[1]]>> \in L /\ c[2] \in Commands(Steps[c[1]])
    BY SMT, <1>2, <2>1
  <2>3. undone'[<<h, Steps[c[1]]>>] = {}
    BY <1>3, <2>2
  <2>4. Reached(<<h, Steps[c[1]]>>[1], pos)'
    BY <2>2
  <2> QED BY <2>2, <2>3, <2>4
<1>5. ASSUME NEW h \in Hosts, NEW i \in DOMAIN Steps, <<h, Steps[i]>> \in L, NEW k \in Commands(Steps[i])
      PROVE  <<i, k>> \in undo'[h]
  <2>1. k \in Nat
    BY SMT DEF Commands
  <2> QED BY <1>2, <1>5, <2>1
<1> QED BY <1>1, <1>4, <1>5 DEF UndoInv

\* A command is taken off the queue; unless it fails it is undone.
LEMMA UndoRuns ==
    ASSUME IndInv, UndoInv, NEW h \in Hosts, RunUndo(h)
    PROVE  UndoInv'
<1>1. pc = "undo" /\ UNCHANGED <<pc, job, pos, rows, done, refused>>
    BY DEF RunUndo, OfUndo, store
<1>2. PICK c \in undo[h] :
         /\ undo' = [undo EXCEPT ![h] = @ \ {c}]
         /\ \/ /\ undone' = [undone EXCEPT ![<<h, Steps[c[1]]>>] = @ \cup {c[2]}]
               /\ flawed' = flawed
            \/ undone' = undone /\ flawed' = TRUE
    BY DEF RunUndo
<1>3. c[1] \in DOMAIN Steps /\ c[2] \in Nat /\ c = <<c[1], c[2]>>
  <2>1. c \in (DOMAIN Steps) \X Nat
    BY DEF UndoInv
  <2> QED BY SMT, <2>1
<1>4. Ledger' = Ledger
    BY <1>1, LedgerFrame
<1>5. undo' \in [Hosts -> SUBSET ((DOMAIN Steps) \X Nat)]
    BY <1>2 DEF UndoInv
<1>6. \A t \in Hosts : undo'[t] = IF t = h THEN undo[h] \ {c} ELSE undo[t]
    BY <1>2 DEF UndoInv
<1>7. \A t \in Hosts : Reached(t, pos)' <=> Reached(t, pos)
    BY <1>1 DEF Reached
<1>8. \A i \in DOMAIN Steps : Steps[i] \in Range(Steps)
    BY DEF Range
<1>9. \A t \in Hosts, i \in DOMAIN Steps : <<t, Steps[i]>> \in Pairs
    BY <1>8 DEF Pairs
<1>10. ASSUME NEW t \in Hosts, NEW d \in undo'[t]
       PROVE  /\ <<t, Steps[d[1]]>> \in Ledger
              /\ d[2] \in Commands(Steps[d[1]]) \ undone'[<<t, Steps[d[1]]>>]
  <2>1. d \in undo[t]
    BY <1>6
  <2>2. d[1] \in DOMAIN Steps /\ d[2] \in Nat /\ d = <<d[1], d[2]>>
    BY SMT, <2>1 DEF UndoInv
  <2>3. /\ <<t, Steps[d[1]]>> \in Ledger
        /\ d[2] \in Commands(Steps[d[1]]) \ undone[<<t, Steps[d[1]]>>]
    BY <1>1, <2>1 DEF UndoInv
  <2>4. CASE <<t, Steps[d[1]]>> = <<h, Steps[c[1]]>>
    <3>1. t = h /\ d[1] = c[1]
      BY <1>3, <2>2, <2>4, PlanAssumption
    <3>2. d[2] # c[2]
      BY <1>3, <1>6, <2>2, <3>1
    <3>3. undone'[<<t, Steps[d[1]]>>] \subseteq undone[<<t, Steps[d[1]]>>] \cup {c[2]}
      BY ZenonT(30), <1>2, <1>9, <2>2 DEF IndInv
    <3> QED BY <2>3, <3>2, <3>3
  <2>5. CASE <<t, Steps[d[1]]>> # <<h, Steps[c[1]]>>
    <3>1. undone'[<<t, Steps[d[1]]>>] = undone[<<t, Steps[d[1]]>>]
      BY <1>2, <1>9, <2>2, <2>5 DEF IndInv
    <3> QED BY <2>3, <3>1
  <2> QED BY <2>4, <2>5
<1>11. ASSUME ~flawed', NEW t \in Hosts, NEW i \in DOMAIN Steps, <<t, Steps[i]>> \in Ledger,
              NEW k \in Commands(Steps[i])
       PROVE  k \in undone'[<<t, Steps[i]>>] \/ <<i, k>> \in undo'[t]
  <2>1. /\ ~flawed
        /\ undone' = [undone EXCEPT ![<<h, Steps[c[1]]>>] = @ \cup {c[2]}]
    BY SMT, <1>2, <1>11
  <2>2. k \in undone[<<t, Steps[i]>>] \/ <<i, k>> \in undo[t]
    BY <1>1, <1>11, <2>1 DEF UndoInv
  <2>3. <<t, Steps[i]>> \in Pairs /\ <<h, Steps[c[1]]>> \in Pairs
    BY <1>3, <1>9
  <2>4. CASE k \in undone[<<t, Steps[i]>>]
    BY <2>1, <2>3, <2>4 DEF IndInv
  <2>5. CASE <<i, k>> \in undo[t] /\ ~(t = h /\ <<i, k>> = c)
    BY <1>6, <2>5
  <2>6. CASE t = h /\ <<i, k>> = c
    BY <1>3, <2>1, <2>3, <2>6 DEF IndInv
  <2> QED BY <2>2, <2>4, <2>5, <2>6
<1>12. \A t \in Hosts : undo'[t] # {} => Reached(t, pos)'
    BY <1>1, <1>6, <1>7 DEF UndoInv
<1> QED BY <1>1, <1>4, <1>5, <1>10, <1>11, <1>12 DEF UndoInv


\* The end of a batch of the rollback: nothing is left of it, and at the first
\* batch nothing is left at all.
LEMMA UndoBatchDone ==
    ASSUME PlanSound, UndoInv, EndUndoBatch, NEW h \in Hosts, undo[h] # {}
    PROVE  pos > 1 /\ Reached(h, pos - 1)
<1>1. pc = "undo" /\ (pos \in DOMAIN job.plan => \A t \in Targets : undo[t] = {})
    BY DEF EndUndoBatch
<1>2. PICK i \in DOMAIN job.plan : i <= pos /\ h \in Range(job.plan[i].hosts)
    BY <1>1 DEF UndoInv, Reached
<1>3. i # pos
    BY <1>1, <1>2 DEF Targets
<1>4. i \in Nat \ {0} /\ pos \in Nat
    BY SMT, <1>2, PlanParts DEF PlanSound
<1>5. i <= pos - 1 /\ pos > 1
    BY SMT, <1>2, <1>3, <1>4
<1> QED BY <1>2, <1>5 DEF Reached

\* A failure with policy auto starts the rollback of what was executed.
LEMMA UnwindStarts ==
    ASSUME IndInv, PlanSound, ForwardInv, UndoInv, NEW n,
           \/ n = pos - 1 /\ (AbortBetween \/ PostApply)
           \/ n = pos /\ EndBatch,
           pc' = "undo"
    PROVE  UndoInv'
<1>1. /\ pc \in {"batch", "run"} /\ UNCHANGED <<job, rows, done, refused, undone>>
      /\ undo' = Compensations(LedgerFromBatchResults)
      /\ pos' = n
    BY DEF AbortBetween, PostApply, EndBatch, Joined, Unwind, OfBatch, store
<1>2. (n = pos - 1 => pc = "batch") /\ (n = pos => pc = "run")
  <2>1. pos # pos - 1
    BY SMT DEF PlanSound
  <2> QED BY <2>1 DEF AbortBetween, PostApply, EndBatch, Joined
<1>3. Ledger' = LedgerFromBatchResults
    BY <1>1 DEF IndInv, Ledger, Manual, LedgerFromBatchResults
<1>4. \A p \in LedgerFromBatchResults : Reached(p[1], n)
    BY <1>2 DEF ForwardInv
<1>5. \A p \in Ledger' : Reached(p[1], pos)'
    BY <1>1, <1>3, <1>4 DEF Reached
<1>6. \A p \in Pairs : undone'[p] = {}
    BY <1>1 DEF IndInv
<1> QED BY <1>1, <1>3, <1>5, <1>6, UndoStarts

\* An operator's rollback starts from the rows.
LEMMA OperatorStarts ==
    ASSUME NEW q, StartRollback(q), PlanSound'
    PROVE  UndoInv'
<1>1. /\ pc' = "undo" /\ rows' = rows
      /\ undone' = [p \in Pairs |-> {}]
      /\ undo' = Compensations(ledgerFromStoredSteps)
      /\ pos' = Len(job'.plan)
    BY DEF StartRollback, Launch, Fresh
<1>2. job'.kind = "rollback" /\ job'.scope = Hosts
    BY DEF StartRollback, Launch
<1>3. Ledger' = ledgerFromStoredSteps /\ ledgerFromStoredSteps \subseteq Pairs
    BY <1>1, <1>2 DEF Ledger, Manual, ledgerFromStoredSteps
<1>4. Covers(job'.plan, Hosts) /\ job'.plan \in Plans
    BY <1>1, <1>2 DEF PlanSound, Manual, Covers
<1>5. \A i \in DOMAIN job'.plan : i <= pos'
    BY SMT, <1>1, <1>4, PlanParts
<1>6. \A p \in Ledger' : Reached(p[1], pos)'
    BY <1>3, <1>4, <1>5 DEF Covers, Reached, Pairs
<1>7. \A p \in Pairs : undone'[p] = {}
    BY <1>1
<1> QED BY <1>1, <1>3, <1>6, <1>7, UndoStarts

\* A target's goroutine runs in a batch, and leaves the rest of the execution alone.
LEMMA TargetRuns ==
    ASSUME IndInv, NEW h \in Hosts, TargetStep(h)
    PROVE  pc = "run" /\ UNCHANGED <<pc, job, undo, undone, verdict, rows, blind>>
<1>1. at[h] \in {"wait", "ready", "flight"} \/ pc = "run"
    BY DEF TargetStep, EnterTarget, SkipTarget, StartStep, FencedStep, SendStep, FinishStep
<1>2. pc = "run"
    BY <1>1 DEF IndInv
<1>3. UNCHANGED <<pc, job, undo, undone, verdict, rows, blind>>
    BY DEF TargetStep, EnterTarget, SkipTarget, StartStep, FencedStep, SendStep, FinishStep, Silent, OfTarget, store
<1> QED BY <1>2, <1>3

\* Every step keeps the backward part.
LEMMA UndoPartKeeps ==
    ASSUME Alone, IndInv, PlanSound, ForwardInv, UndoInv, [Next]_vars, ~overlap'
    PROVE  UndoInv'
<1>1. CASE Outside \/ \E h \in Hosts : ClearUndo(h)
  <2>1. UNCHANGED <<pc, job, pos, done, refused, undo, undone, flawed, rows>>
    BY <1>1, OutsideFrame DEF ClearUndo, OfUndo, store
  <2>2. Ledger' = Ledger
    BY <2>1, LedgerFrame
  <2> QED BY <2>1, <2>2 DEF UndoInv, Reached
<1>2. CASE pc = "idle" /\ Start
  <2>1. CASE Apply \/ \E hosts \in Scopes : Retry(hosts)
    <3>1. pc' = "begin" /\ undo' = [h \in Hosts |-> {}]
      BY <2>1 DEF Apply, Retry
    <3> QED BY <3>1 DEF UndoInv
  <2>2. CASE \E q \in DOMAIN calls : StartRollback(q)
    BY <2>2, OperatorStarts, PlanKeeps
  <2> QED BY <1>2, <2>1, <2>2 DEF Start
<1>3. CASE Begin \/ Refuse \/ StartBatch \/ Persist \/ LoseEvidence \/ \E h \in Hosts : TargetStep(h)
  <2>1. pc # "undo" /\ pc' # "undo" /\ undo' = undo
    <3>1. CASE \E h \in Hosts : TargetStep(h)
      BY <3>1, TargetRuns
    <3>2. CASE Begin \/ Refuse \/ StartBatch \/ Persist \/ LoseEvidence
      BY <3>2 DEF Begin, Refuse, StartBatch, Persist, LoseEvidence, OfEvidence
    <3> QED BY <1>3, <3>1, <3>2
  <2> QED BY <2>1 DEF UndoInv
<1>4. CASE AbortBetween \/ PostApply \/ EndBatch
  <2>1. CASE pc' = "undo"
    BY <1>4, <2>1, UnwindStarts
  <2>2. CASE pc' # "undo"
    <3>1. undo' = undo /\ pc # "undo"
      BY <1>4, <2>2 DEF AbortBetween, PostApply, EndBatch, Joined, Unwind
    <3> QED BY <2>2, <3>1 DEF UndoInv
  <2> QED BY <2>1, <2>2
<1>5. CASE EndUndoBatch
  <2>1. pc = "undo" /\ UNCHANGED <<job, rows, done, refused, undo, undone, flawed>>
    BY <1>5 DEF EndUndoBatch, OfBatch, store
  <2>2. Ledger' = Ledger
    BY <2>1, LedgerFrame
  <2>3. CASE pos > 1
    <3>1. pc' = pc /\ pos' = pos - 1
      BY SMT, <1>5, <2>3 DEF EndUndoBatch, PlanSound
    <3>2. \A h \in Hosts : undo[h] # {} => Reached(h, pos)'
      BY <1>5, <2>1, <3>1, UndoBatchDone DEF Reached
    <3> QED BY <2>1, <2>2, <3>1, <3>2 DEF UndoInv
  <2>4. CASE ~(pos > 1)
    <3>1. pc' = "evidence"
      BY <1>5, <2>4 DEF EndUndoBatch
    <3>2. \A h \in Hosts : undo[h] = {}
      BY <1>5, <2>4, UndoBatchDone
    <3> QED BY <2>1, <3>1, <3>2 DEF UndoInv
  <2> QED BY <2>3, <2>4
<1>6. CASE \E h \in Hosts : RunUndo(h)
    BY <1>6, UndoRuns
<1>7. CASE End
  <2>1. pc' = "idle" /\ undo' = [h \in Hosts |-> {}]
    BY <1>7 DEF End, Settle, ReturnRollback, Crash, EndJob
  <2> QED BY <2>1 DEF UndoInv
<1> QED BY <1>1, <1>2, <1>3, <1>4, <1>5, <1>6, <1>7, StepKinds DEF Step


\* An outcome is reached once, at the end, and nothing touches a host after it.
LEMMA OutcomeKeeps ==
    ASSUME Alone, IndInv, PlanSound, ForwardInv, OutcomeInv, [Next]_vars, ~overlap'
    PROVE  OutcomeInv'
<1>1. CASE Outside
    BY <1>1, OutsideFrame DEF OutcomeInv, Manual
<1>2. CASE Start \/ End
  <2>1. verdict' = "none"
    BY <1>2 DEF Start, Apply, Retry, StartRollback, Launch, End, Settle, ReturnRollback, Crash, EndJob, Fresh
  <2> QED BY <2>1 DEF OutcomeInv
<1>3. CASE Begin \/ StartBatch \/ \E h \in Hosts : TargetStep(h)
  <2>1. pc \in {"begin", "batch", "run"} /\ verdict' = verdict
    BY <1>3, TargetRuns DEF Begin, StartBatch
  <2> QED BY <2>1 DEF OutcomeInv
<1>4. CASE \E h \in Hosts : ClearUndo(h) \/ RunUndo(h)
  <2>1. pc = "undo" /\ verdict' = verdict
    BY <1>4 DEF ClearUndo, RunUndo, OfUndo
  <2> QED BY <2>1 DEF OutcomeInv
<1>5. CASE Refuse \/ AbortBetween \/ EndBatch \/ EndUndoBatch
  <2>1. /\ pc \notin {"evidence", "settle"}
        /\ \/ verdict' = verdict
           \/ pc' \in {"evidence", "settle"} /\ verdict' # "completed"
    BY <1>5 DEF Refuse, AbortBetween, EndBatch, Joined, EndUndoBatch, RollbackPhase, Unwind
  <2> QED BY <2>1 DEF OutcomeInv
<1>6. CASE PostApply
  <2>1. pc = "batch" /\ pos = Len(job.plan) + 1 /\ UNCHANGED <<job, applied, done>>
    BY <1>6 DEF PostApply, OfBatch, target
  <2>2. CASE verdict' = "completed"
    <3>1. pc' = "evidence" /\ ~Manual'
      BY <1>6, <2>1, <2>2 DEF PostApply, Unwind, OutcomeInv, IndInv, Manual
    <3>2. ASSUME NEW i \in DOMAIN job.plan, NEW h \in Range(job.plan[i].hosts), NEW s \in Range(Steps)
          PROVE  <<h, s>> \in applied
      <4>1. job.plan \in Plans
        BY DEF PlanSound
      <4>2. i <= pos - 1 /\ <<h, s>> \in Pairs
        BY SMT, <2>1, <4>1, PlanHosts, PlanParts DEF Pairs
      <4>3. Reached(h, pos - 1)
        BY <4>2 DEF Reached
      <4> QED BY <2>1, <4>2, <4>3 DEF ForwardInv
    <3> QED BY SMT, <2>1, <3>1, <3>2 DEF OutcomeInv
  <2>3. CASE verdict' # "completed"
    <3>1. verdict' = verdict \/ pc' = "evidence"
      BY <1>6, <2>3 DEF PostApply, Unwind
    <3> QED BY <2>1, <2>3, <3>1 DEF OutcomeInv
  <2> QED BY <2>2, <2>3
<1>7. CASE Persist \/ LoseEvidence
  <2>1. pc' = "settle" /\ UNCHANGED <<verdict, job, applied>>
    BY <1>7 DEF Persist, LoseEvidence, OfEvidence, target
  <2> QED BY <2>1 DEF OutcomeInv, Manual
<1> QED BY <1>1, <1>2, <1>3, <1>4, <1>5, <1>6, <1>7, StepKinds DEF Step

\* What stands on a host was run and not undone.
LEMMA AppliedKeeps ==
    ASSUME Alone, IndInv, AppliedInv, [Next]_vars, ~overlap'
    PROVE  AppliedInv'
<1>1. CASE Outside
    BY <1>1, OutsideFrame DEF AppliedInv
<1>2. CASE (pc = "idle" /\ Start) \/ End
  <2>1. UNCHANGED <<rows, applied>> /\ blind \subseteq blind' /\ \A p \in Pairs : undone'[p] = {}
    BY <1>2 DEF Start, Apply, Retry, StartRollback, Launch, End, Settle, ReturnRollback, Crash, EndJob, Fresh,
                store, target
  <2>2. \A p \in Pairs : pc # "settle" /\ done[p] # "none" => p \in blind'
    BY <1>2 DEF End, Settle, ReturnRollback, Crash, Touched, IndInv
  <2> QED BY <2>1, <2>2 DEF AppliedInv
<1>3. CASE \/ Begin \/ Refuse \/ StartBatch \/ AbortBetween \/ EndBatch \/ PostApply \/ EndUndoBatch
           \/ \E h \in Hosts : ClearUndo(h)
  <2>1. UNCHANGED <<rows, blind, applied, done, undone>>
    BY <1>3 DEF Begin, Refuse, StartBatch, AbortBetween, EndBatch, PostApply, EndUndoBatch, ClearUndo,
                OfBatch, OfUndo, store, target
  <2>2. pc' = "settle" => \A p \in Pairs : done[p] = "none"
    BY <1>3 DEF Begin, Refuse, StartBatch, AbortBetween, EndBatch, PostApply, EndUndoBatch, ClearUndo, Unwind,
                OfUndo, IndInv
  <2>3. pc # "settle"
    BY <1>3 DEF Begin, Refuse, StartBatch, AbortBetween, EndBatch, Joined, PostApply, EndUndoBatch, ClearUndo
  <2> QED BY <2>1, <2>2, <2>3 DEF AppliedInv
<1>4. ASSUME NEW h \in Hosts, TargetStep(h) PROVE AppliedInv'
  <2>1. pc = "run" /\ UNCHANGED <<pc, undone, rows, blind>>
    BY <1>4, TargetRuns
  <2>2. \A p \in Pairs : undone[p] = {}
    BY <2>1 DEF IndInv
  <2>3. \A p \in Pairs : p \in applied' => (p \in applied /\ done'[p] = done[p]) \/ done'[p] # "none"
    <3>1. CASE FinishStep(h)
      <4>1. PICK d \in {"ok", "failed"} :
               /\ done' = [done EXCEPT ![<<h, Current(h)>>] = d]
               /\ applied' \in {applied, applied \cup {<<h, Current(h)>>}}
        BY <3>1 DEF FinishStep
      <4> QED BY <4>1 DEF IndInv
    <3>2. CASE ~FinishStep(h)
      BY <1>4, <3>2 DEF TargetStep, EnterTarget, SkipTarget, StartStep, FencedStep, SendStep, Silent, target
    <3> QED BY <3>1, <3>2
  <2> QED BY <2>1, <2>2, <2>3 DEF AppliedInv
<1>5. ASSUME NEW h \in Hosts, RunUndo(h) PROVE AppliedInv'
  <2>1. pc = "undo" /\ UNCHANGED <<pc, done, rows, blind>>
    BY <1>5 DEF RunUndo, OfUndo, store
  <2>2. \/ UNCHANGED <<applied, undone>>
        \/ \E p, k : /\ applied' = applied \ {p}
                     /\ undone' = [undone EXCEPT ![p] = @ \cup {k}]
    BY <1>5 DEF RunUndo, target
  <2>3. \A p \in Pairs : p \in applied' => p \in applied /\ undone'[p] = undone[p]
    BY <2>2 DEF IndInv
  <2> QED BY <2>1, <2>3 DEF AppliedInv
<1>6. CASE Persist
  <2>1. /\ pc = "evidence" /\ UNCHANGED <<applied, undone>>
        /\ blind' = {p \in blind : done[p] = "none"}
    BY <1>6 DEF Persist, OfEvidence, target
  <2>2. \A p \in Pairs : rows'[p].ran = IF done[p] = "none" THEN rows[p].ran ELSE TRUE
    BY <1>6 DEF Persist
  <2> QED BY <2>1, <2>2 DEF AppliedInv
<1>7. CASE LoseEvidence
  <2>1. pc = "evidence" /\ UNCHANGED <<rows, applied, undone>> /\ blind' = blind \cup Touched
    BY <1>7 DEF LoseEvidence, OfEvidence, target
  <2> QED BY <2>1 DEF AppliedInv, Touched
<1> QED BY <1>1, <1>2, <1>3, <1>4, <1>5, <1>6, <1>7, StepKinds DEF Step

\* In the forward pass the barrier follows from where the batches are.
LEMMA BarrierForward ==
    (pc \in {"idle", "begin", "batch", "run"} /\ PlanSound /\ ForwardInv => BatchBarrier)'
<1> SUFFICES ASSUME PlanSound', ForwardInv', pc' \in {"idle", "begin", "batch", "run"},
                    NEW i \in DOMAIN job'.plan, NEW j \in DOMAIN job'.plan, i < j,
                    NEW h \in Range(job'.plan[i].hosts), NEW t \in Range(job'.plan[j].hosts),
                    NEW s \in Range(Steps), done'[<<t, s>>] # "none", NEW r \in Range(Steps)
             PROVE  done'[<<h, r>>] = "ok"
    BY DEF BatchBarrier
<1>1. job'.plan \in Plans /\ pos' \in Nat
    BY DEF PlanSound
<1>2. i \in Nat /\ <<t, s>> \in Pairs /\ <<h, r>> \in Pairs
    BY <1>1, PlanHosts DEF Pairs
<1>3. <<t, s>> \in LedgerFromBatchResults'
    BY <1>2 DEF LedgerFromBatchResults
<1>4. pc' \in {"batch", "run"}
    BY <1>3 DEF ForwardInv
<1>5. Reached(<<t, s>>[1], pos - 1)' \/ Reached(<<t, s>>[1], pos)'
    BY <1>3, <1>4 DEF ForwardInv
<1>6. PICK n \in DOMAIN job'.plan : n <= pos' /\ t \in Range(job'.plan[n].hosts)
  <2>1. \A n \in DOMAIN job'.plan : n \in Nat /\ (n <= pos' - 1 => n <= pos')
    BY SMT, <1>1, PlanHosts
  <2> QED BY <1>5, <2>1 DEF Reached
<1>7. n = j
    BY <1>6 DEF PlanSound, OneBatch
<1>8. i <= pos' - 1
    BY SMT, <1>1, <1>2, <1>6, <1>7, PlanHosts
<1>9. Reached(<<h, r>>[1], pos - 1)'
    BY <1>8 DEF Reached
<1> QED BY <1>2, <1>4, <1>9 DEF ForwardInv

\* Every step keeps the barrier; after the forward pass no result is added.
LEMMA BarrierKeeps ==
    ASSUME Alone, IndInv, PlanSound, ForwardInv, BatchBarrier, [Next]_vars, ~overlap'
    PROVE  BatchBarrier'
<1>1. CASE pc' \in {"idle", "begin", "batch", "run"}
  <2>1. PlanSound' /\ ForwardInv'
    BY PlanKeeps, ForwardKeeps
  <2> QED BY <1>1, <2>1, BarrierForward
<1>2. CASE pc' \notin {"idle", "begin", "batch", "run"}
  <2>1. CASE Start
    <3>1. done' = [p \in Pairs |-> "none"]
      BY <2>1 DEF Start, Apply, Retry, StartRollback, Launch, Fresh
    <3>2. \A p \in Pairs : done'[p] = "none"
      BY <3>1
    <3>3. PlanSound'
      BY PlanKeeps
    <3>4. \A i \in DOMAIN job'.plan : Range(job'.plan[i].hosts) \subseteq Hosts
      <4>1. job'.plan \in Plans
        BY <3>3 DEF PlanSound
      <4> QED BY <4>1, PlanHosts
    <3>5. \A i \in DOMAIN job'.plan : \A t \in Range(job'.plan[i].hosts), s \in Range(Steps) : done'[<<t, s>>] = "none"
      BY <3>2, <3>4 DEF Pairs
    <3> QED BY <3>5 DEF BatchBarrier
  <2>2. CASE ~Start
    <3>1. UNCHANGED <<job, done>>
      <4>1. CASE Outside
        BY <4>1, OutsideFrame
      <4>2. CASE Begin \/ StartBatch \/ End
        BY <1>2, <4>2 DEF Begin, StartBatch, End, Settle, ReturnRollback, Crash, EndJob
      <4>3. CASE \E h \in Hosts : TargetStep(h)
        BY <1>2, <4>3, TargetRuns
      <4>4. CASE Refuse \/ AbortBetween \/ EndBatch \/ PostApply \/ EndUndoBatch \/ Persist
                 \/ LoseEvidence \/ \E h \in Hosts : ClearUndo(h) \/ RunUndo(h)
        BY <4>4 DEF Refuse, AbortBetween, EndBatch, PostApply, EndUndoBatch, Persist,
                    LoseEvidence, ClearUndo, RunUndo, OfBatch, OfEvidence, OfUndo
      <4> QED BY <2>2, <4>1, <4>2, <4>3, <4>4, StepKinds DEF Step
    <3> QED BY SMT, <3>1 DEF BatchBarrier
  <2> QED BY <2>1, <2>2
<1> QED BY <1>1, <1>2


\* A rollback that ends clean: every queue is empty and no command failed, so
\* every command of every step in the ledger has run, and each step has one.
LEMMA CleanEnd ==
    ASSUME IndInv, AppliedInv, PlanSound, ForwardInv, UndoInv, OutcomeInv,
           EndUndoBatch, verdict' = "rolled_back"
    PROVE  CleanVerdict'
<1>1. /\ pc = "undo" /\ pos <= 1 /\ Success
      /\ UNCHANGED <<job, rows, blind, owed, applied, done>>
    <2>1. pc = "undo" /\ UNCHANGED <<job, rows, blind, owed, applied, done>>
      BY DEF EndUndoBatch, OfBatch, store, target
    <2>2. verdict # "rolled_back"
      BY <2>1 DEF OutcomeInv
    <2> QED BY <2>1, <2>2 DEF EndUndoBatch, RollbackPhase
<1>2. ASSUME NEW h \in Hosts PROVE undo[h] = {}
  <2>1. undo[h] # {} => pos > 1
    BY UndoBatchDone
  <2>2. pos \in Nat
    BY DEF PlanSound
  <2> QED BY SMT, <1>1, <2>1, <2>2
<1>3. ASSUME NEW p \in Ledger PROVE p \in Pairs /\ Commands(p[2]) \subseteq undone[p]
  <2>1. p \in Pairs
    BY DEF Ledger, ledgerFromStoredSteps, LedgerFromBatchResults
  <2>2. PICK h \in Hosts, i \in DOMAIN Steps : p = <<h, Steps[i]>>
    BY SMT, <2>1 DEF Pairs, Range
  <2>3. ~flawed /\ undo[h] = {}
    BY <1>1, <1>2 DEF Success
  <2>4. \A k \in Commands(Steps[i]) : k \in undone[p]
    BY <1>1, <2>2, <2>3 DEF UndoInv
  <2> QED BY <2>1, <2>2, <2>4
<1>a. ASSUME NEW p \in Ledger PROVE undone[p] # {}
  <2>1. p \in Pairs /\ Undo[p[2]] # 0
    BY <1>1, <1>3 DEF Success
  <2>2. p[2] \in Range(Steps)
    BY SMT, <2>1 DEF Pairs
  <2>3. 1 \in Commands(p[2])
    BY SMT, <2>1, <2>2, PlanAssumption DEF Commands
  <2> QED BY <1>3, <2>3
<1>4. ASSUME NEW p \in Pairs, owed[p] # {} \/ p \in applied
      PROVE  IF Manual THEN p \in blind \/ rows[p].undone # {} ELSE done[p] = "none"
  <2>1. ~InFlight(p)
    BY <1>1 DEF IndInv, InFlight, Pairs
  <2>2. CASE Manual
    <3>1. done[p] = "none"
      BY <2>2 DEF ForwardInv, LedgerFromBatchResults
    <3>2. p \in blind \/ owed[p] = Open(p) \ undone[p]
      BY <1>1, <2>1, <3>1 DEF IndInv
    <3>3. ASSUME p \notin blind, rows[p].undone = {} PROVE FALSE
      <4>1. rows[p].ran
        BY <1>4, <3>1, <3>2, <3>3 DEF Open, AppliedInv
      <4>2. owed[p] = Commands(p[2]) \ undone[p]
        BY <3>2, <3>3, <4>1 DEF Open
      <4>3. p \in Ledger
        BY <2>2, <3>3, <4>1 DEF Ledger, ledgerFromStoredSteps
      <4>4. owed[p] = {} /\ p \notin applied
        BY <1>3, <1>a, <4>2, <4>3 DEF AppliedInv
      <4> QED BY <1>4, <4>4
    <3> QED BY <2>2, <3>3
  <2>3. CASE ~Manual
    <3>1. ASSUME done[p] # "none" PROVE FALSE
      <4>1. owed[p] = Commands(p[2]) \ undone[p]
        BY <1>1, <3>1 DEF IndInv
      <4>2. p \in Ledger
        BY <2>3, <3>1 DEF Ledger, LedgerFromBatchResults
      <4>3. owed[p] = {} /\ p \notin applied
        BY <1>3, <1>a, <4>1, <4>2 DEF AppliedInv
      <4> QED BY <1>4, <4>3
    <3> QED BY <2>3, <3>1
  <2> QED BY <2>2, <2>3
<1> QED BY <1>1, <1>4 DEF CleanVerdict, Manual

\* Once given, a clean verdict stays true while its evidence is written.
LEMMA CleanKeeps ==
    ASSUME Alone, IndInv, AppliedInv, PlanSound, ForwardInv, UndoInv, OutcomeInv, CleanVerdict,
           [Next]_vars, ~overlap'
    PROVE  CleanVerdict'
<1>1. CASE Outside
    BY <1>1, OutsideFrame DEF CleanVerdict, Manual, Alone
<1>2. CASE EndUndoBatch
    BY <1>2, CleanEnd DEF CleanVerdict
<1>3. CASE Persist \/ LoseEvidence
  <2>1. UNCHANGED <<verdict, job, owed, applied, done>>
    BY <1>3 DEF Persist, LoseEvidence, OfEvidence, target
  <2>2. ASSUME NEW p \in Pairs, Manual, p \in blind \/ rows[p].undone # {}
        PROVE  p \in blind' \/ rows'[p].undone # {}
    <3>1. done[p] = "none"
      BY <2>2 DEF ForwardInv, LedgerFromBatchResults
    <3>2. CASE Persist
      <4>1. p \in blind => p \in blind'
        BY <3>1, <3>2 DEF Persist
      <4>2. rows'[p].undone = rows[p].undone \cup undone[p]
        BY <3>1, <3>2 DEF Persist
      <4> QED BY <2>2, <4>1, <4>2
    <3>3. CASE LoseEvidence
      BY <2>2, <3>3 DEF LoseEvidence
    <3> QED BY <1>3, <3>2, <3>3
  <2> QED BY <2>1, <2>2 DEF CleanVerdict, Manual, Alone
<1>4. CASE Start \/ End
  <2>1. verdict' = "none"
    BY <1>4 DEF Start, Apply, Retry, StartRollback, Launch, End, Settle, ReturnRollback, Crash, EndJob, Fresh
  <2> QED BY <2>1 DEF CleanVerdict
<1>5. CASE Begin \/ StartBatch \/ \E h \in Hosts : ClearUndo(h) \/ RunUndo(h)
  <2>1. pc \notin {"evidence", "settle"} /\ verdict' = verdict
    BY <1>5 DEF Begin, StartBatch, ClearUndo, RunUndo, OfUndo
  <2> QED BY <2>1 DEF CleanVerdict, OutcomeInv
<1>6. CASE \E h \in Hosts : TargetStep(h)
  <2>1. pc \notin {"evidence", "settle"} /\ verdict' = verdict
    BY <1>6, TargetRuns
  <2> QED BY <2>1 DEF CleanVerdict, OutcomeInv
<1>7. CASE Refuse \/ AbortBetween \/ EndBatch \/ PostApply
  <2>1. pc \notin {"evidence", "settle"} /\ verdict' \in {verdict, "failed", "completed"}
    BY <1>7 DEF Refuse, AbortBetween, EndBatch, Joined, PostApply, Unwind
  <2> QED BY <2>1 DEF CleanVerdict, OutcomeInv
<1> QED BY <1>1, <1>2, <1>3, <1>4, <1>5, <1>6, <1>7, StepKinds DEF Step

\* Nothing has happened yet.
LEMMA InitExec == Init => ExecInv
<1> SUFFICES ASSUME Init PROVE ExecInv
    OBVIOUS
<1>1. IndInv
    BY InitInv
<1>2. /\ pc = "idle" /\ pos = 0 /\ verdict = "none" /\ refused = {}
      /\ at = [h \in Hosts |-> "off"] /\ done = [p \in Pairs |-> "none"]
      /\ undo = [h \in Hosts |-> {}]
      /\ job.kind = "none" /\ job.plan = <<>> /\ job.scope = {}
    BY DEF Init, Idle, NoJob
<1>3. job \in [kind : {"none", "apply", "retry", "rollback"}, plan : Plans,
               scope : SUBSET Hosts, resume : BOOLEAN]
  <2>1. <<>> \in Plans
    BY SMT DEF Plans
  <2> QED BY <2>1 DEF Init, Idle, NoJob
<1>4. PlanSound
    BY SMT, <1>2, <1>3 DEF PlanSound, OneBatch, Manual
<1>5. ForwardInv
    BY <1>2 DEF ForwardInv, LedgerFromBatchResults
<1>6. UndoInv /\ OutcomeInv /\ CleanVerdict /\ AppliedInv
    BY <1>2 DEF UndoInv, OutcomeInv, CleanVerdict, AppliedInv, Init
<1>7. BatchBarrier
  <2>1. DOMAIN job.plan = {}
    BY SMT, <1>2
  <2> QED BY <2>1 DEF BatchBarrier
<1> QED BY <1>1, <1>4, <1>5, <1>6, <1>7 DEF ExecInv

\* The invariant of one execution holds while executions come one at a time.
THEOREM ExecInvariance == Spec => [](overlap \/ (others = {} /\ ExecInv))
<1> DEFINE Inv == overlap \/ (others = {} /\ IndInv)
<1>1. Inv /\ Inv' /\ [Next]_vars /\ (overlap \/ (others = {} /\ ExecInv))
        => (overlap \/ (others = {} /\ ExecInv))'
  <2> SUFFICES ASSUME Inv', overlap \/ (others = {} /\ ExecInv), [Next]_vars, ~overlap'
               PROVE  others' = {} /\ ExecInv'
    OBVIOUS
  <2>1. Alone /\ ExecInv /\ others' = {} /\ IndInv'
    BY OverlapStays DEF Alone
  <2>2. /\ IndInv /\ AppliedInv /\ PlanSound /\ ForwardInv /\ UndoInv /\ OutcomeInv
        /\ BatchBarrier /\ CleanVerdict
    BY <2>1 DEF ExecInv
  <2>3. PlanSound' /\ ForwardInv' /\ OutcomeInv' /\ BatchBarrier' /\ CleanVerdict'
    BY <2>1, <2>2, PlanKeeps, ForwardKeeps, OutcomeKeeps, BarrierKeeps, CleanKeeps
  <2>4. UndoInv' /\ AppliedInv'
    BY <2>1, <2>2, UndoPartKeeps, AppliedKeeps
  <2> QED BY <2>1, <2>3, <2>4 DEF ExecInv
<1>2. Init => overlap \/ (others = {} /\ ExecInv)
    BY InitExec DEF Init
<1> QED BY <1>1, <1>2, Invariance, PTL DEF Spec


\* For every plan: no step of a batch has a result before every step of every
\* earlier batch has succeeded on all of its hosts, in any execution, first,
\* narrowed or resumed, while none has overlapped another.
THEOREM BatchesInOrder == Spec => [](~overlap => BatchBarrier)
BY ExecInvariance, PTL DEF ExecInv

\* For every plan: a rollback that calls itself clean, and that no other execution
\* overlapped, has left nothing in effect and nothing to undo.
THEOREM CleanMeansClean == Spec => []CleanVerdict
<1>1. overlap => CleanVerdict
    BY DEF CleanVerdict
<1> QED BY <1>1, ExecInvariance, PTL DEF ExecInv

\* For every plan: while no two executions of the change have overlapped, a
\* compensation command that is queued is one its host still needs, whether the
\* closure queued it or an operator's rollback.
THEOREM UndoneOnce == Spec => []NoSecondUndo
<1>1. ExecInv => NoSecondUndo
  <2> SUFFICES ASSUME ExecInv, NEW h \in Hosts, NEW c \in undo[h],
                      <<h, Steps[c[1]]>> \notin blind, <<h, Steps[c[1]]>> \notin refused
               PROVE  c[2] \in owed[<<h, Steps[c[1]]>>]
    BY DEF NoSecondUndo
  <2> DEFINE p == <<h, Steps[c[1]]>>
  <2>1. IndInv /\ ForwardInv /\ UndoInv
    BY DEF ExecInv
  <2>2. pc = "undo" /\ p \in Ledger /\ c[2] \in Commands(Steps[c[1]]) \ undone[p]
    BY <2>1 DEF UndoInv
  <2>3. p \in Pairs /\ p[2] = Steps[c[1]] /\ p[1] = h
    BY <2>2 DEF Ledger, ledgerFromStoredSteps, LedgerFromBatchResults
  <2>4. p \notin blind /\ p \notin refused
    OBVIOUS
  <2> HIDE DEF p
  <2>5. CASE done[p] # "none"
    BY <2>1, <2>2, <2>3, <2>5 DEF IndInv, p
  <2>6. CASE done[p] = "none"
    <3>1. Manual /\ rows[p].ran /\ rows[p].undone = {}
      BY <2>2, <2>4, <2>6 DEF Ledger, LedgerFromBatchResults, ledgerFromStoredSteps
    <3>2. at[h] = "off"
      BY <2>1, <2>2, <3>1 DEF IndInv
    <3>3. ~InFlight(p)
      BY <2>3, <3>2 DEF InFlight
    <3>4. owed[p] = Open(p) \ undone[p]
      BY <2>1, <2>2, <2>3, <2>4, <2>6, <3>3 DEF IndInv
    <3> QED BY <2>2, <2>3, <3>1, <3>4 DEF Open, p
  <2> QED BY <2>5, <2>6
<1>2. overlap => NoSecondUndo
    BY DEF NoSecondUndo
<1> QED BY <1>1, <1>2, ExecInvariance, PTL

\* For every plan: an execution that skipped no batch, that no other has overlapped
\* and that completes the run has every step in effect on every host it was asked
\* for.
THEOREM CompletionIsEarned == Spec => CompletedIsApplied
<1> DEFINE Earned == status' = "completed" /\ status # "completed" /\ ~job.resume /\ ~overlap
                        => job.scope \X Range(Steps) \subseteq applied'
<1>1. (overlap \/ (others = {} /\ ExecInv)) /\ [Next]_vars => [Earned]_vars
  <2> SUFFICES ASSUME others = {}, ExecInv, Next, status' = "completed", status # "completed", ~job.resume
               PROVE  job.scope \X Range(Steps) \subseteq applied'
    OBVIOUS
  <2>1. IndInv /\ PlanSound /\ OutcomeInv
    BY DEF ExecInv
  <2>2. Settle
    BY DEF Next, Execute, Apply, Retry, Launch, AdmitRollback, StartRollback, RefuseRollback,
           WriteVerdict, RollbackVerdicts, Begin, Refuse, StartBatch, AbortBetween, EndBatch,
           PostApply, EndUndoBatch, Persist, LoseEvidence, ReturnRollback, Cancel, LoseLease,
           Interrupt, Crash, EnterTarget, SkipTarget, StartStep, FencedStep, SendStep, FinishStep,
           ClearUndo, RunUndo, OfBatch, OfEvidence, Silent, OfTarget, OfUndo, store
  <2>3. pc = "settle" /\ ~Manual /\ applied' = applied /\ Outcome = "completed"
    BY <2>2 DEF Settle, target
  <2>4. job.kind \in {"apply", "retry"}
    BY <2>1, <2>3 DEF PlanSound, IndInv, Manual
  <2>5. verdict = "completed"
    BY <2>3, <2>4 DEF Outcome
  <2>6. \A i \in DOMAIN job.plan : Range(job.plan[i].hosts) \X Range(Steps) \subseteq applied
    BY <2>1, <2>5 DEF OutcomeInv
  <2>7. Covers(job.plan, job.scope)
    BY <2>1, <2>3 DEF PlanSound
  <2> QED BY <2>3, <2>6, <2>7 DEF Covers
<1> QED BY <1>1, ExecInvariance, PTL DEF Spec, CompletedIsApplied
=============================================================================
