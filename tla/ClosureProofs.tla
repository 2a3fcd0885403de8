---------------------------- MODULE ClosureProofs ----------------------------
(* Proofs about Closure, for every plan, every set of compensations and every  *)
(* bound.  IndInv: while executions come one at a time, the evidence rows are  *)
(* true between them.  FenceInv: an executor that lost its lease sends a host  *)
(* one more command at most, overlaps included.  Then the plans and the        *)
(* forward pass: PlanSound and ForwardInv are kept by every step.              *)
(* ClosureExecProofs continues with the way back and the outcome.              *)
EXTENDS Closure, FiniteSetTheorems, WellFoundedInduction, TLAPS

\* Most leaves are first-order; those that need more name another prover.
USE Zenon

-------------------------------------------------------------------------------
(* Sequences and plans.                                                         *)

\* The least-number principle, for Min.
LEMMA NatMin ==
    ASSUME NEW S \in SUBSET Nat, S # {}
    PROVE  Min(S) \in S /\ \A y \in S : Min(S) <= y
<1>1. OpToRel(<, Nat) = {ss \in Nat \X Nat : ss[1] < ss[2]}
    BY DEF OpToRel
<1>2. PICK x \in S : \A y \in S : ~(<<y, x>> \in {ss \in Nat \X Nat : ss[1] < ss[2]})
    BY <1>1, WFMin, NatLessThanWellFounded
<1>3. ASSUME NEW y \in S PROVE x <= y
  <2>1. <<y, x>> \in Nat \X Nat
    OBVIOUS
  <2>2. ~(<<y, x>>[1] < <<y, x>>[2])
    BY <1>2, <2>1
  <2> QED BY SMT, <2>2
<1> QED BY <1>3 DEF Min

\* The place of a member in a set grows with it.
LEMMA RankMonotone ==
    ASSUME NEW K \in SUBSET Nat, IsFiniteSet(K), NEW j \in K, NEW k \in K, j < k
    PROVE  Rank(K, j) < Rank(K, k)
<1> DEFINE J == {m \in K : m <= j}  L == {m \in K : m <= k}
<1>1. \A m \in K : m <= j => m <= k
    BY SMT
<1>2. J \in SUBSET L /\ L \in SUBSET K
    BY <1>1
<1>3. k \in L /\ k \notin J
    BY SMT
<1>4. IsFiniteSet(L)
    BY <1>2, FS_Subset
<1>5. Cardinality(J) <= Cardinality(L) /\ Cardinality(J) # Cardinality(L)
    BY <1>2, <1>3, <1>4, FS_Subset
<1>6. Cardinality(J) \in Nat /\ Cardinality(L) \in Nat
    BY <1>2, <1>4, FS_Subset, FS_CardinalityType
<1> QED BY SMT, <1>5, <1>6 DEF Rank

\* The ranks of a finite set are the numbers from 1 to its size, each once.
LEMMA RankOnto ==
    ASSUME NEW K \in SUBSET Nat, IsFiniteSet(K)
    PROVE  /\ Cardinality(K) \in Nat
           /\ \A k \in K : Rank(K, k) \in 1..Cardinality(K)
           /\ \A j, k \in K : Rank(K, j) = Rank(K, k) => j = k
           /\ \A n \in 1..Cardinality(K) : \E k \in K : Rank(K, k) = n
<1> DEFINE N == Cardinality(K)  f == [k \in K |-> Rank(K, k)]
<1>1. N \in Nat
    BY FS_CardinalityType
<1>2. ASSUME NEW k \in K PROVE Rank(K, k) \in 1..N
  <2> DEFINE L == {m \in K : m <= k}
  <2>1. L \in SUBSET K /\ k \in L
    BY SMT
  <2>2. IsFiniteSet(L) /\ Cardinality(L) <= N
    BY <2>1, FS_Subset
  <2>3. Cardinality(L) \in Nat /\ Cardinality(L) # 0
    BY <2>1, <2>2, FS_CardinalityType, FS_EmptySet
  <2> QED BY SMT, <1>1, <2>2, <2>3 DEF Rank
<1>3. ASSUME NEW j \in K, NEW k \in K, Rank(K, j) = Rank(K, k) PROVE j = k
  <2>1. Rank(K, j) \in Int /\ ~(j < k) /\ ~(k < j)
    BY SMT, <1>1, <1>2, <1>3, RankMonotone
  <2> QED BY SMT, <2>1
<1>4. f \in Injection(K, 1..N)
    BY <1>2, <1>3 DEF Injection, IsInjective
<1>5. IsFiniteSet(1..N) /\ Cardinality(1..N) = N
    BY SMT, <1>1, FS_Interval
<1>6. f \in Surjection(K, 1..N)
    BY <1>4, <1>5, FS_Injection
<1>7. \A n \in 1..N : \E k \in K : Rank(K, k) = n
    BY <1>6 DEF Surjection
<1> QED BY <1>1, <1>2, <1>3, <1>7

\* Keep lists the chosen elements, each place once and every place.
LEMMA KeepLists ==
    ASSUME NEW T, NEW seq \in Seq(T), NEW K \in SUBSET DOMAIN seq
    PROVE  /\ Keep(seq, K) \in Seq(T)
           /\ \A n \in DOMAIN Keep(seq, K) : Nth(K, n) \in K /\ Keep(seq, K)[n] = seq[Nth(K, n)]
           /\ \A m, n \in DOMAIN Keep(seq, K) : Nth(K, m) = Nth(K, n) => m = n
           /\ \A k \in K : \E n \in DOMAIN Keep(seq, K) : Nth(K, n) = k
<1>1. /\ DOMAIN seq = 1..Len(seq) /\ Len(seq) \in Nat
      /\ \A k \in DOMAIN seq : seq[k] \in T
    BY SMT
<1>2. K \in SUBSET Nat
    BY SMT, <1>1
<1>3. IsFiniteSet(K)
  <2>1. IsFiniteSet(1..Len(seq))
    BY SMT, <1>1, FS_Interval
  <2>2. K \in SUBSET (1..Len(seq))
    BY <1>1
  <2> QED BY <2>1, <2>2, FS_Subset
<1>4. /\ Cardinality(K) \in Nat
      /\ \A k \in K : Rank(K, k) \in 1..Cardinality(K)
      /\ \A j, k \in K : Rank(K, j) = Rank(K, k) => j = k
      /\ \A n \in 1..Cardinality(K) : \E k \in K : Rank(K, k) = n
    BY <1>2, <1>3, RankOnto
<1>5. \A n \in 1..Cardinality(K) : Nth(K, n) \in K /\ Rank(K, Nth(K, n)) = n
    BY <1>4 DEF Nth
<1>6. DOMAIN Keep(seq, K) = 1..Cardinality(K)
    BY DEF Keep
<1>7. \A n \in 1..Cardinality(K) : Keep(seq, K)[n] = seq[Nth(K, n)]
    BY DEF Keep
<1>8. Keep(seq, K) \in Seq(T)
  <2>1. Keep(seq, K) = [n \in 1..Cardinality(K) |-> seq[Nth(K, n)]]
    BY DEF Keep
  <2>2. \A n \in 1..Cardinality(K) : seq[Nth(K, n)] \in T
    BY <1>1, <1>5
  <2> QED BY SMT, <1>4, <2>1, <2>2
<1>9. \A k \in K : Nth(K, Rank(K, k)) = k
    BY SMT, <1>4, <1>5
<1> QED BY <1>4, <1>5, <1>6, <1>7, <1>8, <1>9

\* What a plan is made of.
LEMMA PlanParts ==
    ASSUME NEW plan \in Plans
    PROVE  /\ Len(plan) \in Nat /\ DOMAIN plan = 1..Len(plan)
           /\ \A i \in DOMAIN plan : plan[i] \in [no : Nat, hosts : Seq(Hosts)]
<1> DEFINE B == [no : Nat, hosts : Seq(Hosts)]
<1>1. plan \in Seq(B)
    BY DEF Plans
<1> HIDE DEF B
<1>2. Len(plan) \in Nat /\ DOMAIN plan = 1..Len(plan) /\ \A i \in DOMAIN plan : plan[i] \in B
    BY SMT, <1>1
<1> QED BY <1>2 DEF B

\* Its places are numbers from 1, its targets hosts.
LEMMA PlanHosts ==
    ASSUME NEW plan \in Plans, NEW i \in DOMAIN plan
    PROVE  i \in Nat /\ 1 <= i /\ i <= Len(plan) /\ Range(plan[i].hosts) \subseteq Hosts
<1>1. i \in 1..Len(plan) /\ Len(plan) \in Nat /\ plan[i] \in [no : Nat, hosts : Seq(Hosts)]
    BY PlanParts
<1>2. plan[i].hosts \in Seq(Hosts)
    BY <1>1
<1>3. \A k \in DOMAIN plan[i].hosts : plan[i].hosts[k] \in Hosts
    BY SMT, <1>2
<1> QED BY SMT, <1>1, <1>3 DEF Range

\* The batches kept of a plan still have every host in one batch.
LEMMA KeepOneBatch ==
    ASSUME NEW plan \in Plans, OneBatch(plan), NEW K \in SUBSET DOMAIN plan
    PROVE  Keep(plan, K) \in Plans /\ OneBatch(Keep(plan, K))
<1> DEFINE kept == Keep(plan, K)
<1>1. /\ kept \in Plans
      /\ \A n \in DOMAIN kept : Nth(K, n) \in K /\ kept[n] = plan[Nth(K, n)]
      /\ \A m, n \in DOMAIN kept : Nth(K, m) = Nth(K, n) => m = n
    BY SMT, KeepLists DEF Plans
<1> HIDE DEF kept
<1>2. OneBatch(kept)
    BY <1>1 DEF OneBatch
<1> QED BY <1>1, <1>2 DEF kept

\* narrowPlan: every host in one batch, and no wanted host of the plan left out.
LEMMA NarrowSound ==
    ASSUME NEW hosts
    PROVE  /\ narrowPlan(hosts) \in Plans
           /\ OneBatch(narrowPlan(hosts))
           /\ Covers(narrowPlan(hosts), hosts \cap Hosts)
<1> DEFINE W(i) == Keep(Batches[i], Wanted(i, hosts))
           full == [i \in DOMAIN Batches |-> [no |-> i, hosts |-> W(i)]]
           K == {i \in DOMAIN Batches : Wanted(i, hosts) # {}}
<1>1. /\ DOMAIN Batches = 1..Len(Batches) /\ Len(Batches) \in Nat
      /\ \A i \in DOMAIN Batches : Batches[i] \in Seq(Hosts)
    BY SMT, PlanAssumption
<1>2. ASSUME NEW i \in DOMAIN Batches
      PROVE  /\ W(i) \in Seq(Hosts)
             /\ Range(W(i)) = Range(Batches[i]) \cap hosts
  <2> DEFINE w == Wanted(i, hosts)  kept == Keep(Batches[i], w)
  <2>1. w \in SUBSET DOMAIN Batches[i]
    BY DEF Wanted
  <2>2. /\ kept \in Seq(Hosts)
        /\ \A n \in DOMAIN kept : Nth(w, n) \in w /\ kept[n] = Batches[i][Nth(w, n)]
        /\ \A k \in w : \E n \in DOMAIN kept : Nth(w, n) = k
    BY SMT, <1>1, <2>1, KeepLists
  <2>3. \A k \in w : \E n \in DOMAIN kept : kept[n] = Batches[i][k]
    BY <2>2
  <2>4. \A n \in DOMAIN kept : \E k \in w : kept[n] = Batches[i][k]
    BY <2>2
  <2> HIDE DEF kept
  <2>5. Range(kept) = Range(Batches[i]) \cap hosts
    BY SMT, <2>3, <2>4 DEF Range, Wanted
  <2> QED BY <2>2, <2>5 DEF kept
<1> HIDE DEF W
<1>3. full \in Plans
  <2>1. \A i \in DOMAIN Batches : [no |-> i, hosts |-> W(i)] \in [no : Nat, hosts : Seq(Hosts)]
    BY SMT, <1>1, <1>2
  <2> QED BY SMT, <1>1, <2>1 DEF Plans
<1>4. DOMAIN full = DOMAIN Batches /\ \A i \in DOMAIN Batches : full[i].hosts = W(i)
    OBVIOUS
<1>5. OneBatch(full)
    BY <1>2, <1>4, PlanAssumption DEF OneBatch
<1>6. narrowPlan(hosts) = Keep(full, K)
    BY DEF narrowPlan, W
<1>7. K \in SUBSET DOMAIN full
    BY <1>4
<1> HIDE DEF full
<1>8. narrowPlan(hosts) \in Plans /\ OneBatch(narrowPlan(hosts))
    BY <1>3, <1>5, <1>6, <1>7, KeepOneBatch
<1>9. Covers(narrowPlan(hosts), hosts \cap Hosts)
  <2> SUFFICES ASSUME NEW h \in hosts \cap Hosts
               PROVE  \E n \in DOMAIN narrowPlan(hosts) : h \in Range(narrowPlan(hosts)[n].hosts)
    BY DEF Covers
  <2>1. PICK i \in DOMAIN Batches : h \in Range(Batches[i])
    BY DEF Hosts
  <2>2. i \in K
    BY <2>1 DEF Wanted, Range
  <2> HIDE DEF K
  <2>a. /\ \A n \in DOMAIN Keep(full, K) : Keep(full, K)[n] = full[Nth(K, n)]
        /\ \A k \in K : \E n \in DOMAIN Keep(full, K) : Nth(K, n) = k
    BY SMT, <1>3, <1>7, KeepLists DEF Plans
  <2>3. PICK n \in DOMAIN Keep(full, K) : Nth(K, n) = i /\ Keep(full, K)[n] = full[Nth(K, n)]
    BY <2>2, <2>a
  <2>4. Keep(full, K)[n].hosts = W(i)
    BY <1>4, <2>3
  <2> QED BY <1>2, <1>6, <2>1, <2>3, <2>4
<1> QED BY <1>8, <1>9

\* A resumed plan, with or without skipped batches, has every host in one batch.
LEMMA ResumeSound ==
    ASSUME NEW p \in Plans, OneBatch(p)
    PROVE  ResumePlan(p) \in Plans /\ OneBatch(ResumePlan(p))
<1> DEFINE skip == completedIdempotentBatches(p)
           K == {i \in DOMAIN p : p[i].no \notin skip}
           kept == Keep(p, K)
           new == [i \in DOMAIN kept |-> [no |-> i, hosts |-> kept[i].hosts]]
<1>1. kept \in Plans /\ OneBatch(kept)
    BY KeepOneBatch
<1> HIDE DEF kept, skip
<1>2. /\ DOMAIN kept = 1..Len(kept) /\ Len(kept) \in Nat
      /\ \A i \in DOMAIN kept : kept[i] \in [no : Nat, hosts : Seq(Hosts)]
    BY <1>1, PlanParts
<1>3. \A i \in DOMAIN kept : new[i] \in [no : Nat, hosts : Seq(Hosts)] /\ new[i].hosts = kept[i].hosts
    BY SMT, <1>2
<1>4. new \in Plans
    BY SMT, <1>2, <1>3 DEF Plans
<1>5. OneBatch(new)
    BY <1>1, <1>3 DEF OneBatch
<1>6. ResumePlan(p) = IF skip = {} THEN p ELSE new
    BY DEF ResumePlan, buildResumePlan, kept, skip
<1> QED BY <1>4, <1>5, <1>6

-------------------------------------------------------------------------------
(* Frame facts.                                                                *)

\* The step a target is at depends on the results of that target alone.
LEMMA CurrentFrame ==
    ASSUME NEW h \in Hosts, \A s \in Range(Steps) : done'[<<h, s>>] = done[<<h, s>>]
    PROVE  Current(h)' = Current(h)
<1>1. \A i \in DOMAIN Steps : Steps[i] \in Range(Steps)
    BY DEF Range
<1>2. Pending(h)' = Pending(h)
    BY <1>1 DEF Pending
<1> QED BY <1>2 DEF Current

\* The parts of the invariant that mention the evidence and the hosts.
LEMMA Frame ==
    ASSUME IndInv, UNCHANGED <<rows, blind, owed, done, undone, at, job, pos, undo>>, pc' = pc,
           lease' = lease \/ (lease = "held" /\ lease' = "lost")
    PROVE  IndInv'
<1>1. \A h \in Hosts : Current(h)' = Current(h)
    BY CurrentFrame
<1>2. \A p \in Pairs : InFlight(p)' <=> InFlight(p)
    BY <1>1 DEF InFlight, Pairs
<1> QED BY <1>2 DEF IndInv, Open, Manual, Targets

\* The initial state: nothing dispatched, nothing owed.
LEMMA InitInv == Init => IndInv
BY SMT DEF Init, Idle, IndInv, Open, NoEvidence, InFlight, Manual, NoJob, Pairs

-------------------------------------------------------------------------------
(* One lemma per kind of step.                                                 *)

\* A request gets a slot.
Start == Apply \/ (\E hosts \in Scopes : Retry(hosts)) \/ \E r \in DOMAIN calls : StartRollback(r)

\* A target's goroutine.
TargetStep(h) == \/ EnterTarget(h) \/ SkipTarget(h) \/ StartStep(h) \/ FencedStep(h)
                 \/ SendStep(h) \/ FinishStep(h)

\* The steps of an execution.
Step ==
    \/ Begin \/ Refuse \/ StartBatch \/ AbortBetween \/ EndBatch \/ PostApply
    \/ EndUndoBatch \/ Persist \/ LoseEvidence
    \/ \E h \in Hosts : TargetStep(h) \/ ClearUndo(h) \/ RunUndo(h)
End == Settle \/ ReturnRollback \/ Crash

\* The queues are per host throughout.
LEMMA UndoDomain ==
    ASSUME DOMAIN undo = Hosts, Step \/ End
    PROVE  DOMAIN undo' = Hosts
<1>1. \/ undo' = undo
      \/ \E h, U : undo' = [undo EXCEPT ![h] = U]
      \/ undo' = Compensations(LedgerFromBatchResults)
      \/ undo' = [h \in Hosts |-> {}]
  <2>1. CASE \E h \in Hosts : RunUndo(h)
    BY <2>1 DEF RunUndo
  <2>2. CASE Step /\ ~\E h \in Hosts : RunUndo(h)
    BY <2>2 DEF Step, TargetStep, Begin, Refuse, StartBatch, AbortBetween, EndBatch, PostApply, EndUndoBatch,
                Unwind, Persist, LoseEvidence, EnterTarget, SkipTarget, StartStep, FencedStep, SendStep,
                FinishStep, ClearUndo, OfEvidence, Silent, OfTarget
  <2>3. CASE End
    BY <2>3 DEF End, Settle, ReturnRollback, Crash, EndJob
  <2> QED BY <2>1, <2>2, <2>3 DEF Step
<1> QED BY <1>1 DEF Compensations

\* It finds no other execution: no result, nothing undone, no target out.
LEMMA RequestKeeps ==
    ASSUME IndInv, pc = "idle", Start
    PROVE  IndInv'
<1>1. /\ pc' \in {"begin", "undo"}
      /\ UNCHANGED <<rows, blind, owed, applied>>
      /\ lease' = "none" /\ at' = [h \in Hosts |-> "off"]
      /\ done' = [p \in Pairs |-> "none"] /\ undone' = [p \in Pairs |-> {}]
    BY DEF Start, Apply, Retry, StartRollback, Launch, Fresh, target
<1>2. /\ "kind" \in DOMAIN job'
      /\ \/ pc' = "begin" /\ job'.kind \in {"apply", "retry"}
         \/ pc' = "undo" /\ job'.kind = "rollback"
    BY SMT DEF Start, Apply, Retry, StartRollback, Launch
<1>3. \A p \in Pairs : p[1] \in Hosts
    BY DEF Pairs
<1>4. \A p \in Pairs : Open(p)' = Open(p) /\ ~InFlight(p)'
    BY <1>1, <1>3 DEF Open, InFlight
<1>5. \A p \in Pairs : p \in blind \/ owed[p] = Open(p)
    BY DEF IndInv
<1>6. DOMAIN undo' = Hosts
    BY DEF Start, Apply, Retry, StartRollback, Compensations
<1>7. /\ \A h \in Hosts : at'[h] = "off"
      /\ \A p \in Pairs : done'[p] = "none" /\ undone'[p] = {}
      /\ DOMAIN at' = Hosts /\ DOMAIN done' = Pairs /\ DOMAIN undone' = Pairs
    BY <1>1
<1>8. \A p \in Pairs : p \in blind' \/ owed'[p] = Open(p)' \ undone'[p]
    BY <1>1, <1>4, <1>5, <1>7
<1> QED BY <1>1, <1>2, <1>4, <1>6, <1>7, <1>8 DEF IndInv, Manual

\* Steps that leave the hosts, the rows and the results alone, and only move
\* the execution on.
LEMMA MoveKeeps ==
    ASSUME IndInv, Begin \/ Refuse \/ StartBatch \/ AbortBetween \/ PostApply \/ EndUndoBatch
    PROVE  IndInv'
<1>u. DOMAIN undo' = Hosts
    BY UndoDomain DEF IndInv, Step
<1>1. UNCHANGED <<rows, blind, owed, done, undone>>
    BY DEF Begin, Refuse, StartBatch, AbortBetween, PostApply, EndUndoBatch, OfBatch, store, target
<1>2. \A p \in Pairs : p[1] \in Hosts
    BY DEF Pairs
<1>3. CASE Begin
  <2>1. pc = "begin" /\ pc' = "batch" /\ lease' = "held" /\ UNCHANGED <<at, undo>>
    BY <1>3 DEF Begin
  <2>2. ~Manual /\ "kind" \in DOMAIN job' /\ job'.kind = job.kind
    BY <1>3, <2>1 DEF Begin, IndInv
  <2>3. \A h \in Hosts : at[h] = "off"
    BY <2>1 DEF IndInv
  <2> QED BY <1>u, <1>1, <1>2, <2>1, <2>2, <2>3 DEF IndInv, Open, InFlight, Manual
<1>4. CASE Refuse
    BY <1>u, <1>1, <1>2, <1>4 DEF Refuse, session, IndInv, Open, InFlight, Manual
<1>5. CASE StartBatch
    BY <1>u, <1>1, <1>2, <1>5 DEF StartBatch, session, IndInv, Open, InFlight, Manual
<1>6. CASE AbortBetween \/ PostApply
  <2>1. pc = "batch" /\ pc' \in {"undo", "evidence"} /\ UNCHANGED <<at, lease, job>>
    BY <1>6 DEF AbortBetween, PostApply, Unwind, OfBatch, session
  <2> QED BY <1>u, <1>1, <1>2, <2>1 DEF IndInv, Open, InFlight, Manual
<1>7. CASE EndUndoBatch
  <2>1. pc = "undo" /\ pc' \in {"undo", "evidence"} /\ UNCHANGED <<at, lease, job>>
    BY <1>7 DEF EndUndoBatch, OfBatch, session
  <2>2. \A h \in Hosts : at[h] = "off"
    BY <1>7, <2>1 DEF EndUndoBatch, IndInv
  <2> QED BY <1>u, <1>1, <1>2, <2>1, <2>2 DEF IndInv, Open, InFlight, Manual
<1> QED BY <1>3, <1>4, <1>5, <1>6, <1>7

\* What it has in flight owes all its compensation.
LEMMA TargetKeeps ==
    ASSUME IndInv, NEW h \in Hosts,
           TargetStep(h)
    PROVE  IndInv'
<1>u. DOMAIN undo' = Hosts
    BY UndoDomain DEF IndInv, Step
<1>1. UNCHANGED <<rows, blind, lease, job, pc, undone>>
    BY DEF TargetStep, EnterTarget, SkipTarget, FencedStep, StartStep, SendStep, FinishStep, Silent, OfTarget, store
<1>2. at[h] # "off" /\ pc = "run"
    BY DEF TargetStep, EnterTarget, SkipTarget, FencedStep, StartStep, SendStep, FinishStep, IndInv
<1>3. \A p \in Pairs : p[1] \in Hosts /\ p[2] \in Range(Steps) /\ p = <<p[1], p[2]>>
    BY SMT DEF Pairs
<1>4. CASE EnterTarget(h) \/ SkipTarget(h) \/ StartStep(h) \/ FencedStep(h)
  <2>1. UNCHANGED <<owed, done>> /\ at[h] # "flight"
    BY <1>4 DEF EnterTarget, SkipTarget, StartStep, FencedStep, Silent, target
  <2>2. PICK a \in {"ready", "cleared", "cancelled", "fenced"} : at' = [at EXCEPT ![h] = a]
    BY <1>4 DEF EnterTarget, SkipTarget, StartStep, FencedStep
  <2>3. \A t \in Hosts : Current(t)' = Current(t)
    BY <2>1, CurrentFrame
  <2>4. \A p \in Pairs : InFlight(p)' <=> InFlight(p)
    BY <1>3, <2>1, <2>2, <2>3 DEF InFlight, IndInv
  <2>5. DOMAIN at' = Hosts
    BY <2>2 DEF IndInv
  <2> QED BY <1>u, <1>1, <1>2, <2>1, <2>4, <2>5 DEF IndInv, Open, Manual
<1>5. CASE SendStep(h)
  <2>1. /\ done' = done
        /\ at' = [at EXCEPT ![h] = "flight"]
        /\ owed' = [owed EXCEPT ![<<h, Current(h)>>] = Commands(Current(h))]
    BY <1>5 DEF SendStep
  <2>2. \A t \in Hosts : Current(t)' = Current(t)
    BY <2>1, CurrentFrame
  <2>3. at[h] = "cleared"
    BY <1>5 DEF SendStep
  <2>4. ASSUME NEW p \in Pairs
        PROVE  IF done'[p] # "none" \/ InFlight(p)' THEN owed'[p] = Commands(p[2]) \ undone'[p]
               ELSE p \in blind' \/ owed'[p] = Open(p)' \ undone'[p]
    <3>1. CASE p = <<h, Current(h)>>
      <4>1. owed'[p] = Commands(p[2])
        BY <2>1, <3>1 DEF IndInv
      <4>2. InFlight(p)'
        BY <2>1, <2>2, <3>1 DEF InFlight, IndInv
      <4> QED BY <1>1, <1>2, <4>1, <4>2 DEF IndInv
    <3>2. CASE p # <<h, Current(h)>>
      <4>1. owed'[p] = owed[p]
        BY <2>1, <3>2 DEF IndInv
      <4>2. InFlight(p)' <=> InFlight(p)
        <5>1. CASE p[1] = h
          <6>1. Current(h)' = Current(h) /\ p[2] # Current(h)
            BY <1>3, <2>2, <3>2, <5>1
          <6> QED BY <5>1, <6>1 DEF InFlight
        <5>2. CASE p[1] # h
          BY <1>3, <2>1, <2>2, <5>2 DEF InFlight, IndInv
        <5> QED BY <5>1, <5>2
      <4>3. Open(p)' = Open(p)
        BY <1>1 DEF Open
      <4> QED BY <1>1, <1>2, <2>1, <4>1, <4>2, <4>3 DEF IndInv
    <3> QED BY <3>1, <3>2
  <2>5. DOMAIN at' = Hosts /\ DOMAIN owed' = Pairs
    BY <2>1 DEF IndInv
  <2> QED BY <1>u, <1>1, <1>2, <2>1, <2>4, <2>5 DEF IndInv, Manual
<1>6. CASE FinishStep(h)
  <2>1. PICK r \in {"ok", "failed"} : done' = [done EXCEPT ![<<h, Current(h)>>] = r]
    BY <1>6 DEF FinishStep
  <2>2. PICK a \in {"ok", "ready", "failed"} : at' = [at EXCEPT ![h] = a]
    BY <1>6 DEF FinishStep
  <2>3. owed' = owed /\ at[h] = "flight"
    BY <1>6 DEF FinishStep
  <2>4. ASSUME NEW p \in Pairs
        PROVE  IF done'[p] # "none" \/ InFlight(p)' THEN owed'[p] = Commands(p[2]) \ undone'[p]
               ELSE p \in blind' \/ owed'[p] = Open(p)' \ undone'[p]
    <3>1. CASE p = <<h, Current(h)>>
      <4>1. InFlight(p)
        BY <2>3, <3>1 DEF InFlight
      <4>2. done'[p] # "none"
        BY <2>1, <3>1 DEF IndInv
      <4> QED BY <1>1, <1>2, <2>3, <4>1, <4>2 DEF IndInv
    <3>2. CASE p # <<h, Current(h)>>
      <4>1. done'[p] = done[p]
        BY <2>1, <3>2 DEF IndInv
      <4>2. InFlight(p)' <=> InFlight(p)
        <5>1. CASE p[1] = h
          BY <1>3, <2>2, <2>3, <3>2, <5>1 DEF InFlight, IndInv
        <5>2. CASE p[1] # h
          <6>1. \A s \in Range(Steps) : done'[<<p[1], s>>] = done[<<p[1], s>>]
            <7> TAKE s \in Range(Steps)
            <7>1. <<p[1], s>> \in Pairs /\ <<p[1], s>> # <<h, Current(h)>>
              BY <1>3, <5>2 DEF Pairs
            <7> QED BY <2>1, <7>1 DEF IndInv
          <6>2. Current(p[1])' = Current(p[1])
            BY <1>3, <6>1, CurrentFrame
          <6> QED BY <1>3, <2>2, <5>2, <6>2 DEF InFlight, IndInv
        <5> QED BY <5>1, <5>2
      <4>3. Open(p)' = Open(p)
        BY <1>1 DEF Open
      <4> QED BY <1>1, <1>2, <2>3, <4>1, <4>2, <4>3 DEF IndInv
    <3> QED BY <3>1, <3>2
  <2>5. DOMAIN at' = Hosts /\ DOMAIN done' = Pairs
    BY <2>1, <2>2 DEF IndInv
  <2> QED BY <1>u, <1>1, <1>2, <2>3, <2>4, <2>5 DEF IndInv, Manual
<1> QED BY <1>4, <1>5, <1>6 DEF TargetStep

\* The end of a batch: every target has returned.
LEMMA EndBatchKeeps ==
    ASSUME IndInv, EndBatch
    PROVE  IndInv'
<1>u. DOMAIN undo' = Hosts
    BY UndoDomain DEF IndInv, Step
<1>1. /\ pc = "run" /\ pc' \in {"batch", "undo", "evidence"}
      /\ at' = [h \in Hosts |-> "off"]
      /\ UNCHANGED <<rows, blind, owed, done, undone, lease, job>>
    BY DEF EndBatch, Joined, Unwind, OfBatch, session, store, target
<1>2. \A h \in Hosts : at[h] # "flight"
    BY DEF EndBatch, Joined, Failures
<1>3. \A p \in Pairs : p[1] \in Hosts
    BY DEF Pairs
<1> QED BY <1>u, <1>1, <1>2, <1>3 DEF IndInv, Open, InFlight, Manual

\* A compensation: what it takes off the debt it adds to the record.
LEMMA UndoKeeps ==
    ASSUME IndInv, NEW h \in Hosts, RunUndo(h) \/ ClearUndo(h)
    PROVE  IndInv'
<1>u. DOMAIN undo' = Hosts
    BY UndoDomain DEF IndInv, Step
<1>1. /\ pc = "undo" /\ pos \in DOMAIN job.plan
      /\ UNCHANGED <<rows, blind, lease, job, pos, pc, done>>
    BY DEF RunUndo, ClearUndo, OfUndo, store
<1>a. \A t \in Hosts : at[t] = "off" \/ (at[t] = "cleared" /\ ~Manual /\ t \in Targets /\ undo[t] # {})
    BY <1>1 DEF IndInv
<1>b. DOMAIN at' = Hosts /\ \A t \in Hosts : at'[t] = "off" \/ (at'[t] = "cleared" /\ ~Manual /\ t \in Targets /\ undo'[t] # {})
  <2>1. CASE RunUndo(h)
    <3>1. /\ at' = [at EXCEPT ![h] = "off"]
          /\ \E U : undo' = [undo EXCEPT ![h] = U]
      BY <2>1 DEF RunUndo
    <3>2. \A t \in Hosts : t # h => at'[t] = at[t] /\ undo'[t] = undo[t]
      BY <3>1 DEF IndInv
    <3>3. DOMAIN at' = Hosts /\ at'[h] = "off"
      BY <3>1 DEF IndInv
    <3> QED BY <1>a, <3>2, <3>3
  <2>2. CASE ClearUndo(h)
    <3>1. /\ at' = [at EXCEPT ![h] = "cleared"] /\ undo' = undo
          /\ ~Manual /\ h \in Targets /\ undo[h] # {}
      BY <2>2 DEF ClearUndo
    <3> QED BY <1>a, <3>1 DEF IndInv
  <2> QED BY <2>1, <2>2
<1>c. Targets' = Targets /\ Manual' = Manual
    BY <1>1 DEF Targets, Manual
<1>2. \A p \in Pairs : InFlight(p)' = FALSE /\ InFlight(p) = FALSE
    BY <1>a, <1>b DEF InFlight, Pairs
<1>3. \A p \in Pairs : Open(p)' = Open(p)
    BY <1>1 DEF Open
<1>4. CASE UNCHANGED <<owed, undone>>
    BY <1>u, <1>1, <1>b, <1>c, <1>2, <1>3, <1>4 DEF IndInv, Manual
<1>5. CASE ~UNCHANGED <<owed, undone>>
  <2>1. PICK s, u : /\ owed' = [owed EXCEPT ![<<h, s>>] = @ \ {u}]
                    /\ undone' = [undone EXCEPT ![<<h, s>>] = @ \cup {u}]
    BY <1>5 DEF RunUndo, ClearUndo, target
  <2>2. DOMAIN owed' = Pairs /\ DOMAIN undone' = Pairs
    BY <2>1 DEF IndInv
  <2>3. ASSUME NEW p \in Pairs
        PROVE  IF done[p] # "none" THEN owed'[p] = Commands(p[2]) \ undone'[p]
               ELSE p \in blind \/ owed'[p] = Open(p) \ undone'[p]
    <3>1. IF done[p] # "none" THEN owed[p] = Commands(p[2]) \ undone[p]
          ELSE p \in blind \/ owed[p] = Open(p) \ undone[p]
      BY <1>1, <1>2 DEF IndInv
    <3>2. CASE p = <<h, s>>
      <4>1. owed'[p] = owed[p] \ {u} /\ undone'[p] = undone[p] \cup {u}
        BY <2>1, <3>2 DEF IndInv
      <4> QED BY <3>1, <4>1
    <3>3. CASE p # <<h, s>>
      <4>1. owed'[p] = owed[p] /\ undone'[p] = undone[p]
        BY <2>1, <3>3 DEF IndInv
      <4> QED BY <3>1, <4>1
    <3> QED BY <3>2, <3>3
  <2> QED BY <1>u, <1>1, <1>b, <1>c, <1>2, <1>3, <2>2, <2>3 DEF IndInv, Manual
<1> QED BY <1>4, <1>5

\* The evidence: written, it states the debt; lost, the pairs worked on are blind.
LEMMA EvidenceKeeps ==
    ASSUME IndInv, Persist \/ LoseEvidence
    PROVE  IndInv'
<1>u. DOMAIN undo' = Hosts
    BY UndoDomain DEF IndInv, Step
<1>1. /\ pc = "evidence" /\ pc' = "settle"
      /\ UNCHANGED <<owed, done, undone, at, lease, job>>
    BY DEF Persist, LoseEvidence, OfEvidence, session, target
<1>2. \A p \in Pairs : ~InFlight(p)
    BY <1>1 DEF IndInv, InFlight, Pairs
<1>3. ASSUME NEW p \in Pairs
      PROVE  IF done[p] # "none" THEN owed[p] = Commands(p[2]) \ undone[p]
             ELSE p \in blind \/ owed[p] = Open(p) \ undone[p]
    BY <1>1, <1>2 DEF IndInv
<1>4. CASE Persist
  <2>1. /\ DOMAIN rows' = Pairs
        /\ blind' = {p \in blind : done[p] = "none"}
    BY <1>4 DEF Persist
  <2>2. ASSUME NEW p \in Pairs \ blind'
        PROVE  owed[p] = Open(p)'
    <3>1. CASE done[p] = "none"
      <4>1. rows'[p].ran = rows[p].ran /\ rows'[p].undone = rows[p].undone \cup undone[p]
        BY <1>4, <3>1 DEF Persist
      <4>2. owed[p] = Open(p) \ undone[p]
        BY <1>3, <2>1, <3>1
      <4> QED BY <4>1, <4>2 DEF Open
    <3>2. CASE done[p] # "none"
      <4>1. rows'[p].ran = TRUE /\ rows'[p].undone = undone[p]
        BY <1>4, <3>2 DEF Persist
      <4> QED BY <1>3, <3>2, <4>1 DEF Open
    <3> QED BY <3>1, <3>2
  <2> QED BY <1>u, <1>1, <2>1, <2>2 DEF IndInv, Manual
<1>5. CASE LoseEvidence
  <2>1. rows' = rows /\ blind' = blind \cup Touched
    BY <1>5 DEF LoseEvidence
  <2>2. ASSUME NEW p \in Pairs \ blind'
        PROVE  owed[p] = Open(p)'
    <3>1. done[p] = "none" /\ undone[p] = {} /\ p \notin blind
      BY <2>1 DEF Touched
    <3> QED BY <1>3, <2>1, <3>1 DEF Open
  <2> QED BY <1>u, <1>1, <2>1, <2>2 DEF IndInv, Manual
<1> QED BY <1>4, <1>5

\* The end of an execution, settled or crashed.
LEMMA EndKeeps ==
    ASSUME IndInv, Settle \/ ReturnRollback \/ Crash
    PROVE  IndInv'
<1>u. DOMAIN undo' = Hosts
    BY UndoDomain DEF IndInv, End
<1>1. EndJob /\ UNCHANGED <<rows, owed>>
    BY DEF Settle, ReturnRollback, Crash, store, target
<1>2. \A p \in Pairs \ blind' : owed[p] = Open(p)
  <2>1. CASE pc = "settle"
    BY <2>1 DEF Settle, ReturnRollback, Crash, store, IndInv
  <2>2. CASE pc # "settle"
    <3>1. blind' = blind \cup Touched
      BY <2>2 DEF Settle, ReturnRollback, Crash
    <3> TAKE p \in Pairs \ blind'
    <3>2. done[p] = "none" /\ undone[p] = {} /\ p \notin blind /\ ~InFlight(p)
      BY <3>1 DEF Touched, InFlight
    <3> QED BY <2>2, <3>2 DEF IndInv, Open
  <2> QED BY <2>1, <2>2
<1>3. \A p \in Pairs : Open(p)' = Open(p)
    BY <1>1 DEF Open
<1>4. /\ pc' = "idle" /\ job' = NoJob /\ lease' = "none" /\ at' = [h \in Hosts |-> "off"]
      /\ done' = [p \in Pairs |-> "none"] /\ undone' = [p \in Pairs |-> {}]
    BY <1>1 DEF EndJob, Fresh
<1> QED BY <1>u, <1>1, <1>2, <1>3, <1>4 DEF IndInv, Manual, NoJob

-------------------------------------------------------------------------------
(* Until two executions of the change overlap there is one at a time.          *)
Alone == ~overlap /\ others = {}

\* Steps outside the execution: they change the status, the request, the lease
\* and the counters only.
Outside ==
    \/ AdmitRollback \/ Cancel \/ Interrupt \/ LoseLease \/ UNCHANGED vars
    \/ \E r \in DOMAIN calls : RefuseRollback(r) \/ WriteVerdict(r)

\* What they leave alone.
LEMMA OutsideFrame ==
    ASSUME Outside
    PROVE  /\ UNCHANGED <<pc, job, pos, at, done, refused, undo, undone, flawed, verdict,
                          rows, blind, owed, applied>>
           /\ lease' = lease \/ (lease = "held" /\ lease' = "lost")
BY DEF Outside, AdmitRollback, RefuseRollback, WriteVerdict, Cancel, Interrupt, LoseLease,
       vars, store, target, session, local

\* The step relation, sorted, and that nothing but a request ends the solitude.
LEMMA StepKinds ==
    ASSUME Alone, [Next]_vars, ~overlap'
    PROVE  Alone' /\ (Outside \/ (pc = "idle" /\ Start) \/ Step \/ End)
<1>1. CASE Outside
  <2>1. others' = others \/ others' = Unleased
    BY <1>1 DEF Outside, AdmitRollback, RefuseRollback, WriteVerdict, Cancel, Interrupt, LoseLease, vars, node
  <2> QED BY <1>1, <2>1 DEF Alone, Unleased
<1>2. CASE Start
  <2>1. pc = "idle" /\ others' = others
    BY <1>2 DEF Start, Apply, Retry, StartRollback, Launch
  <2> QED BY <1>2, <2>1 DEF Alone
<1>3. CASE Step
  <2>1. others' = others
    BY <1>3 DEF Step, TargetStep, Begin, Refuse, StartBatch, AbortBetween, EndBatch, PostApply, EndUndoBatch,
                Persist, LoseEvidence, EnterTarget, SkipTarget, StartStep, FencedStep, SendStep, FinishStep,
                ClearUndo, RunUndo, OfBatch, OfEvidence, Silent, OfTarget, OfUndo, node
  <2> QED BY <1>3, <2>1 DEF Alone
<1>4. CASE End
  <2>1. others' \in {others, Unleased, {}}
    BY <1>4 DEF End, Settle, ReturnRollback, Crash
  <2> QED BY <1>4, <2>1 DEF Alone, Unleased
<1>5. Outside \/ Start \/ Step \/ End
    BY DEF Next, Execute, Outside, Start, Step, End, TargetStep, Alone
<1> QED BY <1>1, <1>2, <1>3, <1>4, <1>5

\* The history flag is never taken back.
LEMMA OverlapStays ==
    ASSUME [Next]_vars, overlap
    PROVE  overlap'
<1>1. CASE Outside
    BY <1>1 DEF Outside, AdmitRollback, RefuseRollback, WriteVerdict, Cancel, Interrupt, LoseLease, vars, node
<1>2. CASE Start
    BY <1>2 DEF Start, Apply, Retry, StartRollback, Launch
<1>3. CASE Step
    BY <1>3 DEF Step, TargetStep, Begin, Refuse, StartBatch, AbortBetween, EndBatch, PostApply, EndUndoBatch,
                Persist, LoseEvidence, EnterTarget, SkipTarget, StartStep, FencedStep, SendStep, FinishStep,
                ClearUndo, RunUndo, OfBatch, OfEvidence, Silent, OfTarget, OfUndo, node
<1>4. CASE End
    BY <1>4 DEF End, Settle, ReturnRollback, Crash
<1>5. CASE \E c \in others : Switch(c) \/ Resume(c)
    BY <1>5 DEF Switch, Resume, Load
<1>6. Outside \/ Start \/ Step \/ End \/ \E c \in others : Switch(c) \/ Resume(c)
    BY DEF Next, Execute, Outside, Start, Step, End, TargetStep
<1> QED BY <1>1, <1>2, <1>3, <1>4, <1>5, <1>6

\* While executions come one at a time, the invariant is inductive.
THEOREM Invariance == Spec => [](overlap \/ (others = {} /\ IndInv))
<1>1. ASSUME Alone, IndInv, [Next]_vars, ~overlap' PROVE IndInv'
  <2>1. CASE pc = "idle" /\ Start
    BY <1>1, <2>1, RequestKeeps
  <2>2. CASE Outside
    BY <1>1, <2>2, OutsideFrame, Frame
  <2>3. CASE Step
    BY <1>1, <2>3, MoveKeeps, TargetKeeps, EndBatchKeeps, UndoKeeps, EvidenceKeeps DEF Step
  <2>4. CASE End
    BY <1>1, <2>4, EndKeeps DEF End
  <2> QED BY <1>1, <2>1, <2>2, <2>3, <2>4, StepKinds
<1>2. (overlap \/ (others = {} /\ IndInv)) /\ [Next]_vars => (overlap \/ (others = {} /\ IndInv))'
    BY <1>1, OverlapStays, StepKinds DEF Alone
<1>3. Init => overlap \/ (others = {} /\ IndInv)
    BY InitInv DEF Init
<1> QED BY <1>2, <1>3, PTL DEF Spec

\* Between executions the stored rows say what the hosts still need, for every
\* plan and any number of retries, rollbacks, crashes and lost leases, while no
\* two executions of the change have overlapped.
THEOREM RowsTellTheTruth == Spec => []EvidenceIsTrue
<1>1. overlap \/ (others = {} /\ IndInv) => EvidenceIsTrue
    BY DEF IndInv, EvidenceIsTrue, Open
<1> QED BY <1>1, Invariance, PTL

-------------------------------------------------------------------------------
(* The fence, with any number of executions on the node: FenceInv is inductive *)
(* whether they overlap or not.                                                *)

\* Fenced for the execution whose turn it is.
FencedHere ==
    /\ "kind" \in DOMAIN job
    /\ DOMAIN at = Hosts /\ DOMAIN late = Hosts
    /\ \A h \in Hosts : late[h] \in {0, 1}
    /\ \A h \in Hosts : late[h] = 1 => lease = "lost" /\ at[h] # "cleared"
    /\ pc = "begin" => lease = "none"
    /\ job.kind = "rollback" => lease = "none" /\ pc # "begin"

LEMMA FencedContext ==
    (Fenced(Context) <=> FencedHere) /\ (Fenced(Context)' <=> FencedHere')
<1>1. /\ {"at", "late", "lease", "pc", "job"} \subseteq DOMAIN Context
      /\ Context.at = at /\ Context.late = late /\ Context.lease = lease
      /\ Context.pc = pc /\ Context.job = job
    BY DEF Context
<1>2. /\ {"at", "late", "lease", "pc", "job"} \subseteq DOMAIN Context'
      /\ (Context').at = at' /\ (Context').late = late' /\ (Context').lease = lease'
      /\ (Context').pc = pc' /\ (Context').job = job'
    BY DEF Context
<1> HIDE DEF Context
<1> QED BY <1>1, <1>2 DEF Fenced, FencedHere

\* An execution that waits keeps its fence when the lease is lost.
LEMMA UnleasedFenced ==
    ASSUME \A c \in others : Fenced(c)
    PROVE  \A c \in Unleased : Fenced(c)
<1> SUFFICES ASSUME NEW d \in others
             PROVE  Fenced([d EXCEPT !.lease = IF @ = "held" THEN "lost" ELSE @])
    BY DEF Unleased
<1> DEFINE c == [d EXCEPT !.lease = IF @ = "held" THEN "lost" ELSE @]
<1>1. Fenced(d)
    OBVIOUS
<1>2. /\ DOMAIN c = DOMAIN d
      /\ c.at = d.at /\ c.late = d.late /\ c.pc = d.pc /\ c.job = d.job
      /\ c.lease = IF d.lease = "held" THEN "lost" ELSE d.lease
    BY <1>1 DEF Fenced
<1> HIDE DEF c
<1>3. Fenced(c)
    BY <1>1, <1>2 DEF Fenced
<1> QED BY <1>3 DEF c

\* A command sent: the first the host gets late, if it is late.
LEMMA SentLateOnce ==
    ASSUME FencedHere, NEW h \in Hosts, at[h] = "cleared" \/ lease # "lost", SentLate(h)
    PROVE  /\ DOMAIN late' = Hosts
           /\ \A t \in Hosts : late'[t] \in {0, 1}
           /\ \A t \in Hosts : late'[t] = 1 => lease = "lost" /\ (t = h \/ late[t] = 1)
<1>1. /\ DOMAIN late' = Hosts
      /\ late'[h] = IF lease = "lost" THEN late[h] + 1 ELSE late[h]
      /\ \A t \in Hosts : t # h => late'[t] = late[t]
    BY DEF SentLate, FencedHere
<1>2. lease = "lost" => late[h] = 0
    BY DEF FencedHere
<1>3. 0 + 1 = 1
    BY SMT
<1> QED BY <1>1, <1>2, <1>3 DEF FencedHere

\* No step of an execution breaks its own fence.
LEMMA StepFenced ==
    ASSUME FencedHere, Step
    PROVE  FencedHere'
<1>1. CASE Begin
  <2>1. /\ lease = "none" /\ pc = "begin" /\ pc' = "batch" /\ UNCHANGED <<at, late>>
        /\ "kind" \in DOMAIN job' /\ job'.kind = job.kind
    BY <1>1 DEF Begin, FencedHere
  <2> QED BY <2>1 DEF FencedHere
<1>2. CASE StartBatch
  <2>1. /\ at' = [h \in Hosts |-> IF h \in Targets THEN "wait" ELSE "off"]
        /\ pc' = "run" /\ UNCHANGED <<late, lease, job>>
    BY <1>2 DEF StartBatch, session
  <2> HIDE DEF Targets
  <2>2. DOMAIN at' = Hosts /\ \A h \in Hosts : at'[h] # "cleared"
    BY <2>1
  <2> QED BY <2>1, <2>2 DEF FencedHere
<1>3. CASE Refuse \/ AbortBetween \/ EndBatch \/ PostApply \/ EndUndoBatch \/ Persist \/ LoseEvidence
  <2>1. /\ at' = at \/ at' = [h \in Hosts |-> "off"]
        /\ pc' # "begin" /\ UNCHANGED <<late, lease, job>>
    BY <1>3 DEF Refuse, AbortBetween, EndBatch, Unwind, PostApply, EndUndoBatch, Persist, LoseEvidence,
                OfBatch, OfEvidence, session
  <2> QED BY <2>1 DEF FencedHere
<1>4. CASE \E h \in Hosts : EnterTarget(h) \/ SkipTarget(h) \/ StartStep(h) \/ FencedStep(h) \/ FinishStep(h)
                             \/ ClearUndo(h)
  <2>1. PICK h \in Hosts : EnterTarget(h) \/ SkipTarget(h) \/ StartStep(h) \/ FencedStep(h) \/ FinishStep(h)
                           \/ ClearUndo(h)
    BY <1>4
  <2>2. /\ \E a : at' = [at EXCEPT ![h] = a] /\ (a = "cleared" => lease = "held")
        /\ UNCHANGED <<late, lease, job, pc>>
    <3>1. CASE FinishStep(h)
      BY <3>1 DEF FinishStep, OfTarget
    <3>2. CASE ~FinishStep(h)
      BY <2>1, <3>2 DEF EnterTarget, SkipTarget, StartStep, FencedStep, ClearUndo, Silent, OfTarget, OfUndo
    <3> QED BY <3>1, <3>2
  <2>3. /\ DOMAIN at' = Hosts
        /\ \A t \in Hosts : at'[t] = "cleared" => at[t] = "cleared" \/ lease = "held"
    BY <2>2 DEF FencedHere
  <2> QED BY <2>2, <2>3 DEF FencedHere
<1>5. ASSUME NEW h \in Hosts, SendStep(h) \/ RunUndo(h) PROVE FencedHere'
  <2>1. /\ \E a \in {"flight", "off"} : at' = [at EXCEPT ![h] = a]
        /\ UNCHANGED <<lease, job, pc>>
    BY <1>5 DEF SendStep, RunUndo, OfTarget, OfUndo
  <2>2. /\ DOMAIN at' = Hosts /\ at'[h] # "cleared"
        /\ \A t \in Hosts : at'[t] = "cleared" => at[t] = "cleared"
    BY <2>1 DEF FencedHere
  <2>3. CASE late' = late
    BY <2>1, <2>2, <2>3 DEF FencedHere
  <2>4. CASE late' # late
    <3>1. SentLate(h) /\ (at[h] = "cleared" \/ lease # "lost")
      <4>1. CASE SendStep(h)
        BY <4>1 DEF SendStep
      <4>2. CASE RunUndo(h)
        <5>1. SentLate(h) /\ (at[h] = "cleared" \/ Manual)
          BY <2>4, <4>2 DEF RunUndo, Reaches
        <5> QED BY <5>1 DEF FencedHere, Manual
      <4> QED BY <1>5, <4>1, <4>2
    <3>2. /\ DOMAIN late' = Hosts
          /\ \A t \in Hosts : late'[t] \in {0, 1}
          /\ \A t \in Hosts : late'[t] = 1 => lease = "lost" /\ (t = h \/ late[t] = 1)
      BY <3>1, SentLateOnce
    <3> QED BY <2>1, <2>2, <3>2 DEF FencedHere
  <2> QED BY <2>3, <2>4
<1> QED BY <1>1, <1>2, <1>3, <1>4, <1>5 DEF Step, TargetStep

\* A fenced executor sends a host at most one more command, the one whose lease
\* check had passed, for every plan, with any number of executions on the node and
\* any interleaving of their steps.
THEOREM FencedExecutorsStop == Spec => []FencedSendsOnce
<1>1. Init => FenceInv
  <2>1. Init => FencedHere
    BY SMT DEF Init, Idle, NoJob, FencedHere
  <2>2. Init => others = {}
    BY DEF Init
  <2> QED BY <2>1, <2>2, FencedContext DEF FenceInv
<1>2. ASSUME FenceInv, [Next]_vars PROVE FenceInv'
  <2>a. FencedHere /\ \A c \in others : Fenced(c)
    BY <1>2, FencedContext DEF FenceInv
  <2>b. \A c \in Unleased : Fenced(c)
    BY <2>a, UnleasedFenced
  <2> SUFFICES FencedHere' /\ \A c \in others' : Fenced(c)
    BY FencedContext DEF FenceInv
  <2>1. CASE Outside
    <3>1. others' \in {others, Unleased}
      BY <2>1 DEF Outside, AdmitRollback, RefuseRollback, WriteVerdict, Cancel, Interrupt, LoseLease, vars, node
    <3>2. /\ UNCHANGED <<late, at, job, pc>>
          /\ lease' = lease \/ (lease = "held" /\ lease' = "lost")
      BY <2>1, OutsideFrame DEF Outside, AdmitRollback, RefuseRollback, WriteVerdict, Cancel, Interrupt,
                                LoseLease, vars, session
    <3> QED BY <2>a, <2>b, <3>1, <3>2 DEF FencedHere
  <2>2. CASE Start
    <3>1. others' = others \/ others' = others \cup {Context}
      BY <2>2 DEF Start, Apply, Retry, StartRollback, Launch
    <3>2. lease' = "none" /\ at' = [h \in Hosts |-> "off"] /\ late' = [h \in Hosts |-> 0]
      BY <2>2 DEF Start, Apply, Retry, StartRollback, Launch, Fresh
    <3>3. "kind" \in DOMAIN job' /\ (job'.kind = "rollback" => pc' = "undo")
      BY SMT, <2>2 DEF Start, Apply, Retry, StartRollback, Launch
    <3>4. DOMAIN at' = Hosts /\ DOMAIN late' = Hosts /\ \A h \in Hosts : late'[h] = 0
      BY <3>2
    <3>5. 0 # 1
      BY SMT
    <3> QED BY <1>2, <2>a, <3>1, <3>2, <3>3, <3>4, <3>5 DEF FencedHere, FenceInv
  <2>3. CASE Step
    <3>1. others' = others
      BY <2>3 DEF Step, TargetStep, Begin, Refuse, StartBatch, AbortBetween, EndBatch, PostApply, EndUndoBatch,
                  Persist, LoseEvidence, EnterTarget, SkipTarget, StartStep, FencedStep, SendStep, FinishStep,
                  ClearUndo, RunUndo, OfBatch, OfEvidence, Silent, OfTarget, OfUndo, node
    <3> QED BY <2>a, <2>3, <3>1, StepFenced
  <2>4. CASE End
    <3>1. others' \in {others, Unleased, {}}
      BY <2>4 DEF End, Settle, ReturnRollback, Crash
    <3>2. /\ lease' = "none" /\ at' = [h \in Hosts |-> "off"] /\ late' = [h \in Hosts |-> 0]
          /\ job' = NoJob /\ pc' = "idle"
      BY <2>4 DEF End, Settle, ReturnRollback, Crash, EndJob, Fresh
    <3>3. DOMAIN at' = Hosts /\ DOMAIN late' = Hosts /\ \A h \in Hosts : late'[h] = 0
      BY <3>2
    <3>4. 0 # 1
      BY SMT
    <3> QED BY <2>a, <2>b, <3>1, <3>2, <3>3, <3>4 DEF FencedHere, NoJob
  <2>5. CASE \E c \in others : Switch(c) \/ Resume(c)
    <3>1. PICK c \in others : /\ Load(c)
                              /\ others' \in {(others \ {c}) \cup {Context}, others \ {c}}
      BY <2>5 DEF Switch, Resume
    <3>2. Fenced(c)
      BY <2>a
    <3>3. FencedHere'
      BY <3>1, <3>2 DEF Load, Fenced, FencedHere
    <3> QED BY <1>2, <2>a, <3>1, <3>3 DEF FenceInv
  <2> QED BY <1>2, <2>1, <2>2, <2>3, <2>4, <2>5
          DEF Next, Execute, Outside, Start, Step, End, TargetStep
<1>3. FenceInv => FencedSendsOnce
  <2>1. 0 <= 1 /\ 1 <= 1
    BY SMT
  <2> QED BY <2>1, FencedContext DEF FenceInv, FencedHere, FencedSendsOnce
<1> QED BY <1>1, <1>2, <1>3, PTL DEF Spec

-------------------------------------------------------------------------------
(* Progress of one execution: the invariant behind BatchBarrier, NoSecondUndo,  *)
(* CleanVerdict and CompletedIsApplied, one part at a time.                     *)

\* A request: a fresh plan, nothing done.
LEMMA LaunchPlan ==
    ASSUME NEW q, NEW kind, NEW hosts, kind \in {"apply", "retry", "rollback"}, Launch(q, kind, hosts)
    PROVE  /\ job' \in [kind : {"none", "apply", "retry", "rollback"}, plan : Plans,
                        scope : SUBSET Hosts, resume : BOOLEAN]
           /\ job'.kind = kind /\ job'.scope = hosts \cap Hosts
           /\ OneBatch(job'.plan) /\ Covers(job'.plan, job'.scope)
<1> DEFINE np == narrowPlan(hosts)
<1>1. np \in Plans /\ OneBatch(np) /\ Covers(np, hosts \cap Hosts)
    BY NarrowSound
<1>2. job' = [kind |-> kind, plan |-> np, scope |-> hosts \cap Hosts, resume |-> status = "interrupted"]
    BY DEF Launch
<1> HIDE DEF np
<1>3. /\ job'.kind = kind /\ job'.scope = hosts \cap Hosts /\ job'.plan = np
    BY <1>2
<1>4. (status = "interrupted") \in BOOLEAN
    OBVIOUS
<1>5. job' \in [kind : {"none", "apply", "retry", "rollback"}, plan : Plans,
                scope : SUBSET Hosts, resume : BOOLEAN]
    BY <1>1, <1>2, <1>4
<1> QED BY <1>1, <1>3, <1>5

\* Batches and positions.
LEMMA PlanKeeps ==
    ASSUME Alone, IndInv, PlanSound, ForwardInv, [Next]_vars, ~overlap'
    PROVE  PlanSound'
<1>1. CASE Outside \/ \E h \in Hosts : TargetStep(h) \/ ClearUndo(h) \/ RunUndo(h)
  <2>1. UNCHANGED <<pc, job, pos>>
    BY <1>1, OutsideFrame DEF TargetStep, EnterTarget, SkipTarget, StartStep, FencedStep, SendStep, FinishStep,
                              ClearUndo, RunUndo, Silent, OfTarget, OfUndo
  <2> QED BY <2>1 DEF PlanSound, Manual, OneBatch, Covers
<1>3. CASE pc = "idle" /\ Start
  <2>1. PICK kind \in {"apply", "retry", "rollback"}, hosts \in Scopes \cup {Hosts} :
            (\E q : Launch(q, kind, hosts)) /\ (kind = "rollback" => hosts = Hosts)
    BY <1>3 DEF Start, Apply, Retry, StartRollback
  <2>2. /\ job' \in [kind : {"none", "apply", "retry", "rollback"}, plan : Plans,
                     scope : SUBSET Hosts, resume : BOOLEAN]
        /\ job'.kind = kind /\ job'.scope = hosts \cap Hosts
        /\ OneBatch(job'.plan) /\ Covers(job'.plan, job'.scope)
    BY SMT, <2>1, LaunchPlan
  <2>3. pos' = 0 \/ pos' = Len(job'.plan)
    BY <1>3 DEF Start, Apply, Retry, StartRollback
  <2>4. pos' \in Nat
    <3>1. 0 \in Nat
      BY SMT
    <3> QED BY <2>2, <2>3, <3>1, PlanParts DEF PlanSound
  <2>5. OneBatch(job.plan)' /\ Covers(job.plan, job.scope)'
    BY <2>2 DEF OneBatch, Covers
  <2> QED BY <2>1, <2>2, <2>4, <2>5 DEF PlanSound, Manual
<1>4. CASE Begin
  <2>1. pc = "begin" /\ pos' = 1 /\ ~Manual
    BY <1>4 DEF Begin, IndInv
  <2>2. PICK p \in Plans : /\ job' = [job EXCEPT !.plan = p] /\ OneBatch(p)
                           /\ ~job.resume => p = job.plan
    <3>1. job.plan \in Plans /\ OneBatch(job.plan)
      BY DEF PlanSound
    <3>2. ResumePlan(job.plan) \in Plans /\ OneBatch(ResumePlan(job.plan))
      BY <3>1, ResumeSound
    <3>3. job' = [job EXCEPT !.plan = IF job.resume THEN ResumePlan(job.plan) ELSE job.plan]
      BY <1>4 DEF Begin
    <3> QED BY <3>1, <3>2, <3>3
  <2>3. /\ job' \in [kind : {"none", "apply", "retry", "rollback"}, plan : Plans,
                     scope : SUBSET Hosts, resume : BOOLEAN]
        /\ job'.kind = job.kind /\ job'.scope = job.scope /\ job'.resume = job.resume
        /\ job'.plan = p
    BY <2>2 DEF PlanSound
  <2>4. OneBatch(job.plan)'
    BY <2>2, <2>3 DEF OneBatch
  <2>5. ~job.resume => Covers(job.plan, job.scope)'
    BY <2>1, <2>2, <2>3 DEF PlanSound, Covers
  <2> QED BY <2>1, <2>3, <2>4, <2>5 DEF PlanSound, Manual
<1>5. CASE Refuse \/ StartBatch \/ AbortBetween \/ EndBatch \/ PostApply \/ EndUndoBatch
           \/ Persist \/ LoseEvidence
  <2>1. job' = job /\ pc # "idle"
    BY <1>5 DEF Refuse, StartBatch, AbortBetween, EndBatch, Joined, PostApply, EndUndoBatch,
                Persist, LoseEvidence, OfBatch, OfEvidence
  <2>2. pos' \in Nat
    <3>1. CASE Refuse \/ StartBatch \/ Persist \/ LoseEvidence
      BY <3>1 DEF Refuse, StartBatch, Persist, LoseEvidence, OfEvidence, PlanSound
    <3>2. CASE AbortBetween \/ PostApply
      <4>1. pos' \in {pos, pos - 1} /\ pc = "batch"
        BY <3>2 DEF AbortBetween, PostApply, Unwind
      <4>2. pos \in Nat /\ pos >= 1
        BY SMT, <4>1 DEF ForwardInv, PlanSound
      <4> QED BY SMT, <4>1, <4>2
    <3>3. CASE EndBatch
      BY SMT, <3>3 DEF EndBatch, Unwind, PlanSound
    <3>4. CASE EndUndoBatch
      <4>1. pos' = pos \/ (pos > 1 /\ pos' = pos - 1)
        BY <3>4 DEF EndUndoBatch
      <4>2. pos \in Nat
        BY DEF PlanSound
      <4> QED BY SMT, <4>1, <4>2
    <3> QED BY <1>5, <3>1, <3>2, <3>3, <3>4
  <2> QED BY <2>1, <2>2 DEF PlanSound, Manual, OneBatch, Covers
<1>6. CASE End
  <2>1. job' = NoJob /\ pos' = 0 /\ pc' = "idle"
    BY <1>6 DEF End, Settle, ReturnRollback, Crash, EndJob
  <2>2. <<>> \in Plans
    BY SMT DEF Plans
  <2>3. /\ job' \in [kind : {"none", "apply", "retry", "rollback"}, plan : Plans,
                     scope : SUBSET Hosts, resume : BOOLEAN]
        /\ job'.kind = "none" /\ job'.plan = <<>>
    BY <2>1, <2>2 DEF NoJob
  <2>4. OneBatch(job.plan)'
    BY SMT, <2>3 DEF OneBatch
  <2> QED BY <2>1, <2>3, <2>4 DEF PlanSound, Manual
<1> QED BY <1>1, <1>3, <1>4, <1>5, <1>6, StepKinds DEF Step


\* The step a target is at has no result yet.
LEMMA CurrentPending ==
    ASSUME NEW h \in Hosts, Pending(h) # {}
    PROVE  Current(h) \in Range(Steps) /\ done[<<h, Current(h)>>] = "none"
<1>1. DOMAIN Steps \in SUBSET Nat
    BY SMT, PlanAssumption
<1>2. Pending(h) \in SUBSET Nat
    BY <1>1 DEF Pending
<1>3. Min(Pending(h)) \in Pending(h)
    BY <1>2, NatMin
<1> QED BY <1>3 DEF Current, Pending, Range

\* On the last step, only that one is left.
LEMMA LastLeft ==
    ASSUME NEW h \in Hosts, OnLast(h), NEW s \in Range(Steps), s # Current(h)
    PROVE  done[<<h, s>>] # "none"
<1>1. PICK i \in DOMAIN Steps : s = Steps[i]
    BY DEF Range
<1> QED BY <1>1 DEF OnLast, Pending

\* Before the last step, another is left.
LEMMA MoreLeft ==
    ASSUME NEW h \in Hosts, Pending(h) # {}, ~OnLast(h)
    PROVE  \E i \in Pending(h) : Steps[i] # Current(h)
BY DEF OnLast

\* The first batches: those before the current one, or that one.
LEMMA ReachedSplit ==
    ASSUME PlanSound, pos \in DOMAIN job.plan, NEW h
    PROVE  /\ Reached(h, pos) <=> Reached(h, pos - 1) \/ h \in Targets
           /\ h \in Targets => ~Reached(h, pos - 1)
<1>1. pos \in Nat /\ DOMAIN job.plan \in SUBSET Nat
    BY SMT, PlanParts DEF PlanSound
<1>2. \A i \in DOMAIN job.plan : i <= pos <=> i <= pos - 1 \/ i = pos
    BY SMT, <1>1
<1>3. \A i \in DOMAIN job.plan : i <= pos - 1 => i # pos
    BY SMT, <1>1
<1>4. Reached(h, pos) <=> Reached(h, pos - 1) \/ h \in Targets
    BY <1>2 DEF Reached, Targets
<1>5. h \in Targets => ~Reached(h, pos - 1)
    BY <1>3 DEF Reached, Targets, PlanSound, OneBatch
<1> QED BY <1>4, <1>5

\* A target's goroutine moves without a result.
LEMMA ForwardMove ==
    ASSUME IndInv, PlanSound, ForwardInv, NEW h \in Hosts,
           EnterTarget(h) \/ SkipTarget(h) \/ StartStep(h) \/ SendStep(h)
    PROVE  ForwardInv'
<1>1. UNCHANGED <<pc, job, pos, done, refused>>
    BY DEF EnterTarget, SkipTarget, StartStep, SendStep, Silent, OfTarget
<1>2. pc = "run" /\ at[h] \in {"wait", "ready", "cleared"}
    BY DEF EnterTarget, SkipTarget, StartStep, SendStep, IndInv
<1>3. PICK a \in {"ready", "cleared", "flight", "cancelled"} : at' = [at EXCEPT ![h] = a]
    BY DEF EnterTarget, SkipTarget, StartStep, SendStep
<1>4. at' \in [Hosts -> {"off", "wait", "ready", "cleared", "flight", "ok"} \cup Failures]
    BY <1>3 DEF ForwardInv, Failures
<1>5. \A p \in Pairs : done'[p] = "ok" => p \in applied'
  <2>1. CASE SendStep(h)
    <3>1. applied' = applied \ {<<h, Current(h)>>}
      BY <2>1 DEF SendStep
    <3>2. Pending(h) # {}
      BY <1>2 DEF ForwardInv
    <3>3. done[<<h, Current(h)>>] = "none"
      BY <3>2, CurrentPending
    <3> QED BY <1>1, <1>2, <3>1, <3>3 DEF ForwardInv
  <2>2. CASE ~SendStep(h)
    BY <1>1, <1>2, <2>2 DEF EnterTarget, SkipTarget, StartStep, Silent, target, ForwardInv
  <2> QED BY <2>1, <2>2
<1>6. LedgerFromBatchResults' = LedgerFromBatchResults
    BY <1>1 DEF LedgerFromBatchResults
<1>7. \A t \in Hosts : Pending(t)' = Pending(t)
    BY <1>1 DEF Pending
<1>8. Targets' = Targets
    BY <1>1 DEF Targets
<1>9. \A t \in Hosts : Reached(t, pos)' <=> Reached(t, pos)
    BY <1>1 DEF Reached
<1>10. \A t \in Hosts : Reached(t, pos - 1)' <=> Reached(t, pos - 1)
    BY <1>1 DEF Reached
<1>11. ASSUME NEW t \in Hosts
       PROVE  /\ at'[t] # "off" <=> t \in Targets
              /\ at'[t] \in {"wait", "ready", "cleared", "flight"} =>
                    /\ \A s \in Range(Steps) : done[<<t, s>>] # "failed"
                    /\ Pending(t) # {}
              /\ at'[t] = "ok" => \A s \in Range(Steps) : done[<<t, s>>] = "ok"
  <2>1. at'[t] = IF t = h THEN a ELSE at[t]
    BY <1>3 DEF ForwardInv
  <2> QED BY <1>2, <2>1 DEF ForwardInv
<1>12. \A p \in Pairs : p[1] \in Hosts
    BY DEF Pairs
<1>13. \A p \in LedgerFromBatchResults : p[1] \in Hosts
    BY <1>12 DEF LedgerFromBatchResults
<1> QED
    BY <1>1, <1>2, <1>4, <1>5, <1>6, <1>7, <1>8, <1>9, <1>10, <1>11, <1>12, <1>13
    DEF ForwardInv, Manual


\* A refused step: the target is one of the batch's.
LEMMA ForwardFenced ==
    ASSUME IndInv, PlanSound, ForwardInv, NEW h \in Hosts, FencedStep(h)
    PROVE  ForwardInv'
<1>1. UNCHANGED <<pc, job, pos, done, applied>>
    BY DEF FencedStep, Silent, OfTarget, target
<1>2. /\ at[h] = "ready" /\ pc = "run"
      /\ at' = [at EXCEPT ![h] = "fenced"]
      /\ refused' = refused \cup {<<h, Current(h)>>}
    BY DEF FencedStep, IndInv
<1>3. h \in Targets /\ Current(h) \in Range(Steps)
    BY <1>2, CurrentPending DEF ForwardInv
<1>4. at' \in [Hosts -> {"off", "wait", "ready", "cleared", "flight", "ok"} \cup Failures]
    BY <1>2 DEF ForwardInv, Failures
<1>5. refused' \subseteq Pairs
    BY <1>2, <1>3 DEF ForwardInv, Pairs
<1>6. \A t \in Hosts : (Reached(t, pos)' <=> Reached(t, pos)) /\ (Reached(t, pos - 1)' <=> Reached(t, pos - 1))
    BY <1>1 DEF Reached
<1>7. \A p \in Pairs : p[1] \in Hosts
    BY DEF Pairs
<1>8. \A p \in LedgerFromBatchResults' : Reached(p[1], pos)
  <2>1. LedgerFromBatchResults' \subseteq LedgerFromBatchResults \cup {<<h, Current(h)>>}
    BY <1>1, <1>2 DEF LedgerFromBatchResults
  <2>2. Reached(h, pos)
    BY <1>2, <1>3, ReachedSplit DEF ForwardInv
  <2>3. \A p \in LedgerFromBatchResults : Reached(p[1], pos)
    BY <1>2 DEF ForwardInv
  <2> QED BY SMT, <2>1, <2>2, <2>3
<1>9. \A t \in Hosts : Pending(t)' = Pending(t)
    BY <1>1 DEF Pending
<1>10. Targets' = Targets
    BY <1>1 DEF Targets
<1>11. ASSUME NEW t \in Hosts
       PROVE  /\ at'[t] # "off" <=> t \in Targets
              /\ at'[t] \in {"wait", "ready", "cleared", "flight"} =>
                    /\ \A s \in Range(Steps) : done[<<t, s>>] # "failed"
                    /\ Pending(t) # {}
              /\ at'[t] = "ok" => \A s \in Range(Steps) : done[<<t, s>>] = "ok"
  <2>1. at'[t] = IF t = h THEN "fenced" ELSE at[t]
    BY <1>2 DEF ForwardInv
  <2> QED BY <1>2, <1>3, <2>1 DEF ForwardInv
<1>12. \A p \in LedgerFromBatchResults' : p[1] \in Hosts
    BY <1>7 DEF LedgerFromBatchResults
<1>13. ~Manual
    BY <1>2 DEF IndInv
<1> QED
    BY <1>1, <1>2, <1>4, <1>5, <1>6, <1>7, <1>8, <1>9, <1>10, <1>11, <1>12, <1>13
    DEF ForwardInv, Manual

\* A result: ok only for a step in effect, and the target is done with the last.
LEMMA ForwardFinish ==
    ASSUME IndInv, PlanSound, ForwardInv, NEW h \in Hosts, FinishStep(h)
    PROVE  ForwardInv'
<1>1. UNCHANGED <<pc, job, pos, refused>>
    BY DEF FinishStep, OfTarget
<1>2. at[h] = "flight" /\ pc = "run"
    BY DEF FinishStep, IndInv
<1>3. /\ h \in Targets /\ Pending(h) # {}
      /\ Current(h) \in Range(Steps) /\ done[<<h, Current(h)>>] = "none"
      /\ \A s \in Range(Steps) : done[<<h, s>>] # "failed"
    BY <1>2, CurrentPending DEF ForwardInv
<1>4. PICK r \in {"ok", "failed"}, a \in {"ok", "ready", "failed"} :
         /\ done' = [done EXCEPT ![<<h, Current(h)>>] = r]
         /\ at' = [at EXCEPT ![h] = a]
         /\ r = "ok" => applied' = applied \cup {<<h, Current(h)>>} /\ a = IF OnLast(h) THEN "ok" ELSE "ready"
         /\ r = "failed" => applied' = applied /\ a = "failed"
  <2>1. CASE done' = [done EXCEPT ![<<h, Current(h)>>] = "ok"]
             /\ applied' = applied \cup {<<h, Current(h)>>}
             /\ at' = [at EXCEPT ![h] = IF OnLast(h) THEN "ok" ELSE "ready"]
    BY <2>1
  <2>2. CASE done' = [done EXCEPT ![<<h, Current(h)>>] = "failed"]
             /\ at' = [at EXCEPT ![h] = "failed"] /\ applied' = applied
    BY <2>2
  <2> QED BY <2>1, <2>2 DEF FinishStep
<1>5. <<h, Current(h)>> \in Pairs
    BY <1>3 DEF Pairs
<1>6. done' \in [Pairs -> {"none", "ok", "failed"}]
    BY <1>4 DEF ForwardInv
<1>7. at' \in [Hosts -> {"off", "wait", "ready", "cleared", "flight", "ok"} \cup Failures]
    BY <1>4 DEF ForwardInv, Failures
<1>8. \A p \in Pairs : done'[p] = IF p = <<h, Current(h)>> THEN r ELSE done[p]
    BY <1>4, <1>5 DEF ForwardInv
<1>9. \A t \in Hosts : (Reached(t, pos)' <=> Reached(t, pos)) /\ (Reached(t, pos - 1)' <=> Reached(t, pos - 1))
    BY <1>1 DEF Reached
<1>10. \A p \in Pairs : p[1] \in Hosts
    BY DEF Pairs
<1>11. Reached(h, pos) /\ ~Reached(h, pos - 1)
    BY <1>2, <1>3, ReachedSplit DEF ForwardInv
<1>12. \A p \in LedgerFromBatchResults' : p \in Pairs /\ Reached(p[1], pos)
  <2>1. LedgerFromBatchResults' \subseteq LedgerFromBatchResults \cup {<<h, Current(h)>>}
    BY <1>1, <1>8 DEF LedgerFromBatchResults
  <2>2. LedgerFromBatchResults' \subseteq Pairs
    BY DEF LedgerFromBatchResults
  <2>3. \A p \in LedgerFromBatchResults : Reached(p[1], pos)
    BY <1>2 DEF ForwardInv
  <2> QED BY SMT, <1>11, <2>1, <2>2, <2>3
<1>13. \A p \in Pairs : Reached(p[1], pos - 1) => done'[p] = "ok"
  <2>1. \A p \in Pairs : Reached(p[1], pos - 1) => done[p] = "ok"
    BY <1>2 DEF ForwardInv
  <2>2. <<h, Current(h)>>[1] = h
    OBVIOUS
  <2> QED BY <1>8, <1>11, <2>1, <2>2
<1>14. \A p \in Pairs : done'[p] = "ok" => p \in applied'
  <2>1. \A p \in Pairs : done[p] = "ok" => p \in applied
    BY <1>2 DEF ForwardInv
  <2> QED BY <1>4, <1>8, <2>1
<1>15. Targets' = Targets
    BY <1>1 DEF Targets
<1>16. ASSUME NEW t \in Hosts, t # h
       PROVE  /\ at'[t] = at[t]
              /\ \A s \in Range(Steps) : done'[<<t, s>>] = done[<<t, s>>]
              /\ Pending(t)' = Pending(t)
  <2>1. at'[t] = at[t]
    BY <1>4, <1>16 DEF ForwardInv
  <2>2. \A s \in Range(Steps) : <<t, s>> \in Pairs /\ <<t, s>> # <<h, Current(h)>>
    BY <1>16 DEF Pairs
  <2>3. \A s \in Range(Steps) : done'[<<t, s>>] = done[<<t, s>>]
    BY <1>8, <2>2
  <2>4. \A i \in DOMAIN Steps : Steps[i] \in Range(Steps)
    BY DEF Range
  <2>5. Pending(t)' = Pending(t)
    BY <2>3, <2>4 DEF Pending
  <2> QED BY <2>1, <2>3, <2>5
<1>17. /\ at'[h] = a /\ a # "off"
       /\ \A s \in Range(Steps) : done'[<<h, s>>] = IF s = Current(h) THEN r ELSE done[<<h, s>>]
  <2>1. at'[h] = a
    BY <1>4 DEF ForwardInv
  <2>2. \A s \in Range(Steps) : <<h, s>> \in Pairs
    BY DEF Pairs
  <2> QED BY <1>8, <2>1, <2>2
<1>18. a = "ok" => \A s \in Range(Steps) : done'[<<h, s>>] = "ok"
  <2> SUFFICES ASSUME a = "ok", NEW s \in Range(Steps), s # Current(h)
               PROVE  done[<<h, s>>] = "ok"
    BY <1>4, <1>17
  <2>1. OnLast(h)
    BY <1>4
  <2>2. done[<<h, s>>] # "none"
    BY <2>1, LastLeft
  <2>3. <<h, s>> \in Pairs
    BY DEF Pairs
  <2> QED BY <1>3, <2>2, <2>3 DEF ForwardInv
<1>19. a = "ready" => /\ \A s \in Range(Steps) : done'[<<h, s>>] # "failed"
                      /\ Pending(h)' # {}
  <2> SUFFICES ASSUME a = "ready"
               PROVE  /\ \A s \in Range(Steps) : done'[<<h, s>>] # "failed"
                      /\ Pending(h)' # {}
    OBVIOUS
  <2>1. r = "ok" /\ ~OnLast(h)
    BY <1>4
  <2>2. PICK i \in Pending(h) : Steps[i] # Current(h)
    BY <1>3, <2>1, MoreLeft
  <2>3. i \in DOMAIN Steps /\ Steps[i] \in Range(Steps) /\ done[<<h, Steps[i]>>] = "none"
    BY <2>2 DEF Pending, Range
  <2>4. i \in Pending(h)'
    BY <1>17, <2>2, <2>3 DEF Pending
  <2> QED BY <1>3, <1>17, <2>1, <2>4
<1>20. ASSUME NEW t \in Hosts
       PROVE  /\ at'[t] # "off" <=> t \in Targets
              /\ at'[t] \in {"wait", "ready", "cleared", "flight"} =>
                    /\ \A s \in Range(Steps) : done'[<<t, s>>] # "failed"
                    /\ Pending(t)' # {}
              /\ at'[t] = "ok" => \A s \in Range(Steps) : done'[<<t, s>>] = "ok"
  <2>1. CASE t = h
    BY <1>3, <1>17, <1>18, <1>19, <2>1
  <2>2. CASE t # h
    BY SMT, <1>2, <1>16, <2>2 DEF ForwardInv
  <2> QED BY <2>1, <2>2
<1>21. ~Manual
    BY <1>2 DEF IndInv
<1> QED
    BY <1>1, <1>2, <1>6, <1>7, <1>9, <1>10, <1>12, <1>13, <1>14, <1>15, <1>20, <1>21
    DEF ForwardInv, Manual


\* Between the batches: one has succeeded as a whole, or the forward pass is over.
LEMMA ForwardBatch ==
    ASSUME IndInv, PlanSound, ForwardInv, Begin \/ StartBatch \/ EndBatch
    PROVE  ForwardInv'
<1>1. \A p \in Pairs : p[1] \in Hosts
    BY DEF Pairs
<1>2. \A p \in LedgerFromBatchResults : p \in Pairs
    BY DEF LedgerFromBatchResults
<1>3. UNCHANGED <<done, refused, applied>> /\ LedgerFromBatchResults' = LedgerFromBatchResults
    BY DEF Begin, StartBatch, EndBatch, OfBatch, target, LedgerFromBatchResults
<1>4. ~Manual /\ Manual' = Manual
    BY DEF Begin, StartBatch, EndBatch, Joined, IndInv, Manual, OfBatch, PlanSound
<1>5. Len(job.plan) \in Nat /\ DOMAIN job.plan = 1..Len(job.plan) /\ pos \in Nat
    BY PlanParts DEF PlanSound
<1>6. CASE Begin
  <2>1. /\ pc = "begin" /\ pc' = "batch" /\ pos' = 1 /\ at' = at
        /\ job'.plan = IF job.resume THEN ResumePlan(job.plan) ELSE job.plan
    BY <1>6 DEF Begin, PlanSound
  <2>2. LedgerFromBatchResults = {} /\ \A p \in Pairs : done[p] = "none"
    BY <2>1 DEF ForwardInv, LedgerFromBatchResults
  <2>3. job'.plan \in Plans
    BY <2>1, ResumeSound DEF PlanSound
  <2>4. Len(job'.plan) \in Nat /\ DOMAIN job'.plan = 1..Len(job'.plan)
    BY <2>3, PlanParts
  <2>5. \A h : ~Reached(h, pos - 1)'
    BY SMT, <2>1, <2>4 DEF Reached
  <2>6. pos' \in 1..Len(job'.plan) + 1
    BY SMT, <2>1, <2>4
  <2>7. /\ done' \in [Pairs -> {"none", "ok", "failed"}] /\ refused' \subseteq Pairs
        /\ at' \in [Hosts -> {"off", "wait", "ready", "cleared", "flight", "ok"} \cup Failures]
    BY <1>3, <2>1 DEF ForwardInv
  <2> QED BY <1>3, <2>1, <2>2, <2>5, <2>6, <2>7 DEF ForwardInv
<1>7. CASE StartBatch
  <2>1. /\ pc = "batch" /\ pc' = "run" /\ pos \in DOMAIN job.plan
        /\ at' = [h \in Hosts |-> IF h \in Targets THEN "wait" ELSE "off"]
        /\ UNCHANGED <<job, pos>>
    BY <1>7 DEF StartBatch
  <2>2. at' \in [Hosts -> {"off", "wait", "ready", "cleared", "flight", "ok"} \cup Failures]
    BY <2>1
  <2>3. Targets' = Targets
    BY <2>1 DEF Targets
  <2>4. \A h \in Hosts : (Reached(h, pos)' <=> Reached(h, pos)) /\ (Reached(h, pos - 1)' <=> Reached(h, pos - 1))
    BY <2>1 DEF Reached
  <2>5. \A h \in Hosts : Reached(h, pos - 1) => Reached(h, pos)
    BY <2>1, ReachedSplit
  <2>6. ASSUME NEW h \in Targets, NEW s \in Range(Steps), h \in Hosts
        PROVE  done[<<h, s>>] = "none"
    <3>1. ~Reached(h, pos - 1)
      BY <2>1, ReachedSplit
    <3>2. <<h, s>> \in Pairs
      BY <2>6 DEF Pairs
    <3>3. <<h, s>> \notin LedgerFromBatchResults
      BY <2>1, <3>1 DEF ForwardInv
    <3> QED BY <3>2, <3>3 DEF LedgerFromBatchResults
  <2>7. ASSUME NEW h \in Targets, h \in Hosts
        PROVE  Pending(h)' # {}
    <3>1. 1 \in DOMAIN Steps /\ Steps[1] \in Range(Steps)
      BY SMT, PlanAssumption DEF Range
    <3>2. done'[<<h, Steps[1]>>] = "none"
      BY <1>3, <2>6, <2>7, <3>1
    <3> QED BY <3>1, <3>2 DEF Pending
  <2>8. ASSUME NEW h \in Hosts
        PROVE  /\ at'[h] # "off" <=> h \in Targets
               /\ at'[h] \in {"wait", "ready", "cleared", "flight"} =>
                     /\ \A s \in Range(Steps) : done[<<h, s>>] # "failed"
                     /\ Pending(h)' # {}
               /\ at'[h] # "ok"
    BY <2>1, <2>6, <2>7
  <2> QED BY <1>1, <1>2, <1>3, <1>4, <2>1, <2>2, <2>3, <2>4, <2>5, <2>8 DEF ForwardInv
<1>8. CASE EndBatch
  <2>1. /\ pc = "run" /\ pos \in DOMAIN job.plan /\ job' = job
        /\ at' = [h \in Hosts |-> "off"]
    BY <1>8 DEF EndBatch, Joined, OfBatch, ForwardInv
  <2>2. at' \in [Hosts -> {"off", "wait", "ready", "cleared", "flight", "ok"} \cup Failures]
    BY <2>1
  <2>3. CASE pc' = "batch"
    <3>1. Errors = {} /\ pos' = pos + 1
      BY <1>8, <2>3 DEF EndBatch, Unwind
    <3>2. ASSUME NEW h \in Targets, h \in Hosts PROVE at[h] = "ok"
      <4>1. at[h] \notin Failures
        BY <3>1, <3>2 DEF Errors, Targets, Range
      <4>2. at[h] # "off"
        BY <2>1, <3>2 DEF ForwardInv
      <4> QED BY <1>8, <3>2, <4>1, <4>2 DEF EndBatch, Joined
    <3>3. \A h \in Hosts : Reached(h, pos - 1)' <=> Reached(h, pos)
      <4>1. \A i \in DOMAIN job.plan : i <= pos' - 1 <=> i <= pos
        BY SMT, <1>5, <3>1
      <4>2. \A h \in Hosts : Reached(h, pos - 1)' <=> \E i \in DOMAIN job.plan : i <= pos' - 1 /\ h \in Range(job.plan[i].hosts)
        BY <2>1 DEF Reached
      <4> QED BY <4>1, <4>2 DEF Reached
    <3>4. ASSUME NEW p \in Pairs, Reached(p[1], pos) PROVE done[p] = "ok"
      <4>1. p[1] \in Hosts /\ p[2] \in Range(Steps) /\ p = <<p[1], p[2]>>
        BY SMT DEF Pairs
      <4>2. CASE Reached(p[1], pos - 1)
        BY <2>1, <4>2 DEF ForwardInv
      <4>3. CASE p[1] \in Targets
        BY <2>1, <3>2, <4>1, <4>3 DEF ForwardInv
      <4> QED BY <2>1, <3>4, <4>2, <4>3, ReachedSplit
    <3>5. pos' \in 1..Len(job'.plan) + 1
      BY SMT, <1>5, <2>1, <3>1
    <3> QED BY <1>1, <1>2, <1>3, <1>4, <2>1, <2>2, <2>3, <3>3, <3>4, <3>5 DEF ForwardInv
  <2>4. CASE pc' # "batch"
    <3>1. pc' \in {"undo", "evidence"}
      BY <1>8, <2>4 DEF EndBatch, Unwind
    <3> QED BY <1>3, <1>4, <2>2, <3>1 DEF ForwardInv
  <2> QED BY <2>3, <2>4
<1> QED BY <1>6, <1>7, <1>8

\* Every step keeps the forward part.
LEMMA ForwardKeeps ==
    ASSUME Alone, IndInv, PlanSound, ForwardInv, [Next]_vars, ~overlap'
    PROVE  ForwardInv'
<1>1. CASE Outside
  <2>1. UNCHANGED <<pc, job, pos, at, done, refused, applied>>
    BY <1>1, OutsideFrame
  <2>2. Targets' = Targets
    BY <2>1 DEF Targets
  <2>3. \A h \in Hosts : Pending(h)' = Pending(h)
    BY <2>1 DEF Pending
  <2>4. LedgerFromBatchResults' = LedgerFromBatchResults
    BY <2>1 DEF LedgerFromBatchResults
  <2> QED BY <2>1, <2>2, <2>3, <2>4 DEF ForwardInv, Manual, Reached
<1>2. CASE (pc = "idle" /\ Start) \/ End
  <2>1. /\ pc' \in {"begin", "undo", "idle"} /\ at' = [h \in Hosts |-> "off"]
        /\ done' = [p \in Pairs |-> "none"] /\ refused' = {}
    BY <1>2 DEF Start, Apply, Retry, StartRollback, Launch, End, Settle, ReturnRollback, Crash, EndJob, Fresh
  <2>2. LedgerFromBatchResults' = {}
    BY <2>1 DEF LedgerFromBatchResults
  <2>3. /\ at' \in [Hosts -> {"off", "wait", "ready", "cleared", "flight", "ok"} \cup Failures]
        /\ done' \in [Pairs -> {"none", "ok", "failed"}]
    BY <2>1
  <2> QED BY <2>1, <2>2, <2>3 DEF ForwardInv
<1>3. CASE Begin \/ StartBatch \/ EndBatch
    BY <1>3, ForwardBatch
<1>4. CASE \E h \in Hosts : TargetStep(h)
    BY <1>4, ForwardMove, ForwardFenced, ForwardFinish DEF TargetStep
<1>5. CASE Refuse \/ AbortBetween \/ PostApply \/ EndUndoBatch \/ Persist \/ LoseEvidence
           \/ \E h \in Hosts : ClearUndo(h) \/ RunUndo(h)
  <2>1. /\ pc' \in {"undo", "evidence", "settle"}
        /\ UNCHANGED <<job, done, refused>>
        /\ at' = at \/ \E h \in Hosts, a \in {"off", "cleared"} : at' = [at EXCEPT ![h] = a]
    BY <1>5 DEF Refuse, AbortBetween, PostApply, EndUndoBatch, Persist, LoseEvidence, ClearUndo, RunUndo,
                Unwind, OfBatch, OfEvidence, OfUndo
  <2>2. LedgerFromBatchResults' = LedgerFromBatchResults
    BY <2>1 DEF LedgerFromBatchResults
  <2>3. at' \in [Hosts -> {"off", "wait", "ready", "cleared", "flight", "ok"} \cup Failures]
    BY <2>1 DEF ForwardInv
  <2> QED BY <2>1, <2>2, <2>3 DEF ForwardInv, Manual
<1> QED BY <1>1, <1>2, <1>3, <1>4, <1>5, StepKinds DEF Step
=============================================================================
