--------------------------- MODULE HostLockProofs ----------------------------
(* What the host locks guarantee whatever the number of runs and hosts, the     *)
(* orders in which the runs lock, the TTL and the bound on the clock.           *)
EXTENDS HostLock, TLAPS

\* Most leaves are first-order; those that need more name another prover.
USE Zenon

\* The first state satisfies the inductive invariant.
LEMMA InitEstablishes == Init => IndInv
  BY SMT, TargetsAreHosts
  DEF Init, IndInv, TypeOK, Labels, Locking, Owns, HeldIsOwned, OwnedIsKnown, SeenIsCurrent

\* A failed statement on a host adds the host to what the run has stranded.
LEMMA StrandAdds ==
  ASSUME TypeOK, NEW r \in Runs, NEW h \in Hosts, Strand(r, h)
  PROVE  /\ stranded' \in [Runs -> SUBSET Hosts]
         /\ stranded'[r] = stranded[r] \cup {h}
         /\ \A s \in Runs \ {r} : stranded'[s] = stranded[s]
  <1>1. stranded[r] \cup {h} \in SUBSET Hosts
    BY DEF TypeOK
  <1> QED  BY <1>1 DEF TypeOK, Strand

(* A row is written for a run on a host that no run holds, or whose row has       *)
(* expired (CreateLock and UpdateLockOwnedBy), whether or not the reply arrives.  *)
LEMMA GrantKeeps ==
  ASSUME IndInv, NEW r \in Runs, UNCHANGED clock,
         todo[r] # <<>>, pc[r] # "dead",
         NEW h \in Hosts,
         locks[h] = NoLock \/ locks[h].expires <= clock,
         NEW row \in Row, row.scope = h, row.owner = r, row.expires = at[r] + TTL,
         locks' = [locks EXCEPT ![h] = row],
         Granted(r, h) \/ ReplyLost(r, h)
  PROVE  IndInv'
  <1>1. TypeOK'
    <2>1. Tail(todo[r]) \in Seq(Hosts)
      BY SMT DEF IndInv, TypeOK
    <2>2. at[r] + TTL \in Nat
      BY SMT, TTLPositive DEF IndInv, TypeOK
    <2>3. row # NoLock
      BY NoLockIsNoRow
    <2>4. CASE Granted(r, h)
      BY <2>1, <2>2, <2>3, <2>4 DEF IndInv, TypeOK, Granted, Goto, Return, Labels, Locking
    <2>5. CASE ReplyLost(r, h)
      BY <2>3, <2>5, SMT DEF IndInv, TypeOK, ReplyLost, GiveUp, Strand, Goto, Return, Labels, Locking
    <2> QED  BY <2>4, <2>5
  <1>2. /\ \A s \in Runs : at'[s] <= clock'
        /\ \A s \in Runs : pc'[s] = "done" => acquired'[s] = {}
    <2>1. \A s \in Runs : at'[s] = IF s = r THEN 0 ELSE at[s]
      BY DEF IndInv, TypeOK, Granted, ReplyLost, GiveUp, Return
    <2>2. pc'[r] # "done" /\ \A s \in Runs \ {r} : pc'[s] = pc[s] /\ acquired'[s] = acquired[s]
      BY DEF IndInv, TypeOK, Granted, ReplyLost, GiveUp, Goto
    <2>3. 0 <= clock /\ \A s \in Runs : at[s] <= clock
      BY SMT DEF IndInv, TypeOK
    <2> QED  BY <2>1, <2>2, <2>3 DEF IndInv
  <1>3. row # NoLock
    BY NoLockIsNoRow
  <1>4. /\ locks'[h] = row
        /\ \A k \in Hosts \ {h} : locks'[k] = locks[k]
        /\ pc'[r] \notin {"dead", "delete"}
        /\ \A s \in Runs \ {r} : /\ acquired'[s] = acquired[s] /\ until'[s] = until[s]
                                 /\ pc'[s] = pc[s] /\ seen'[s] = seen[s]
                                 /\ stranded'[s] = stranded[s]
    BY DEF IndInv, TypeOK, Granted, ReplyLost, GiveUp, Strand, Goto, Return
  <1>g. \/ /\ acquired'[r] = acquired[r] \cup {h} /\ stranded'[r] = stranded[r]
           /\ until'[r][h] = at[r] + TTL
           /\ \A k \in Hosts \ {h} : until'[r][k] = until[r][k]
        \/ /\ UNCHANGED <<acquired, until>>
           /\ stranded'[r] = stranded[r] \cup {h}
    <2>1. CASE Granted(r, h)
      BY <2>1 DEF IndInv, TypeOK, Granted
    <2>2. CASE ReplyLost(r, h)
      BY <2>2 DEF IndInv, TypeOK, ReplyLost, GiveUp, Strand
    <2> QED  BY <2>1, <2>2
  <1>e. \A k \in Hosts : locks'[k] # NoLock => locks'[k].expires <= clock' + TTL
    <2>1. at[r] + TTL <= clock + TTL
      BY SMT, TTLPositive DEF IndInv, TypeOK
    <2>2. locks'[h].expires <= clock' + TTL
      BY <1>4, <2>1
    <2>3. \A k \in Hosts \ {h} : locks'[k] # NoLock => locks'[k].expires <= clock' + TTL
      BY <1>4 DEF IndInv
    <2> QED  BY <2>2, <2>3
  <1>5. ASSUME NEW s \in Runs, NEW k \in Hosts
        PROVE  HeldIsOwned(s, k)' /\ OwnedIsKnown(s, k)' /\ SeenIsCurrent(s, k)'
    <2>1. /\ HeldIsOwned(s, k) /\ OwnedIsKnown(s, k) /\ SeenIsCurrent(s, k)
          /\ clock \in Nat /\ until[s][k] \in Nat
          /\ locks[k] # NoLock => locks[k].expires \in Nat
      BY SMT DEF IndInv, TypeOK, Row
    <2>2. CASE k = h /\ s = r
      BY SMT, <1>3, <1>4, <1>g, <2>1, <2>2 DEF Owns, HeldIsOwned, OwnedIsKnown, SeenIsCurrent
    <2>3. CASE k = h /\ s # r
      BY SMT, <1>3, <1>4, <2>1, <2>3 DEF Owns, HeldIsOwned, OwnedIsKnown, SeenIsCurrent
    <2>4. CASE k # h
      BY SMT, <1>4, <1>g, <2>1, <2>4 DEF Owns, HeldIsOwned, OwnedIsKnown, SeenIsCurrent
    <2> QED  BY <2>2, <2>3, <2>4
  <1> QED  BY <1>1, <1>2, <1>5, <1>e DEF IndInv

\* A step that leaves the table and the run's record of its locks alone.
Quiet(r) ==
    /\ UNCHANGED <<clock, locks, acquired, until, stranded>>
    /\ \A s \in Runs \ {r} : pc'[s] = pc[s] /\ at'[s] = at[s] /\ seen'[s] = seen[s]
    /\ at'[r] <= clock
    /\ pc[r] # "dead"
    /\ pc'[r] = "done" => acquired[r] = {}
    /\ pc'[r] = "delete" => \E h \in Hosts : seen'[r] = locks[h]

\* A quiet step keeps the inductive invariant.
LEMMA QuietKeeps ==
  ASSUME IndInv, NEW r \in Runs, TypeOK', Quiet(r)
  PROVE  IndInv'
  <1>1. /\ \A s \in Runs : at'[s] <= clock'
        /\ \A s \in Runs : pc'[s] = "done" => acquired'[s] = {}
        /\ \A k \in Hosts : locks'[k] # NoLock => locks'[k].expires <= clock' + TTL
    BY DEF IndInv, Quiet
  <1>2. ASSUME NEW s \in Runs, NEW k \in Hosts
        PROVE  HeldIsOwned(s, k)' /\ OwnedIsKnown(s, k)' /\ SeenIsCurrent(s, k)'
    <2>1. HeldIsOwned(s, k) /\ OwnedIsKnown(s, k) /\ SeenIsCurrent(s, k)
      BY DEF IndInv
    <2>2. CASE s = r
      BY SMT, <2>1, <2>2 DEF TypeOK, Owns, HeldIsOwned, OwnedIsKnown, SeenIsCurrent, Quiet
    <2>3. CASE s # r
      BY <2>1, <2>3 DEF Owns, HeldIsOwned, OwnedIsKnown, SeenIsCurrent, Quiet
    <2> QED  BY <2>2, <2>3
  <1> QED  BY <1>1, <1>2 DEF IndInv

(* A run that is through with a host: the row, if it was still the run's, is    *)
(* gone, or stranded there by a failed statement.                               *)
LEMMA LetGoKeeps ==
  ASSUME IndInv, NEW r \in Runs, NEW h \in Hosts, TypeOK', LetGo(r, h), UNCHANGED clock,
         pc[r] \in {"release", "delete"},
         \/ ~Owns(r, h) /\ UNCHANGED <<locks, stranded>>
         \/ Owns(r, h) /\ locks' = [locks EXCEPT ![h] = NoLock] /\ UNCHANGED stranded
         \/ Strand(r, h) /\ UNCHANGED locks,
         \/ UNCHANGED <<pc, at, seen>> /\ pc[r] = "release"
         \/ /\ pc' = [pc EXCEPT ![r] = "release"]
            /\ at' = [at EXCEPT ![r] = 0] /\ seen' = [seen EXCEPT ![r] = NoLock]
  PROVE  IndInv'
  <1>1. /\ pc'[r] = "release" /\ at'[r] <= clock
        /\ \A s \in Runs \ {r} : /\ pc'[s] = pc[s] /\ at'[s] = at[s] /\ seen'[s] = seen[s]
                                 /\ acquired'[s] = acquired[s] /\ until'[s] = until[s]
        /\ acquired'[r] = acquired[r] \ {h}
        /\ \A k \in Hosts \ {h} : locks'[k] = locks[k] /\ until'[r][k] = until[r][k]
    BY SMT DEF IndInv, TypeOK, LetGo
  <1>s. /\ stranded[r] \subseteq stranded'[r]
        /\ \A s \in Runs \ {r} : stranded'[s] = stranded[s]
    BY StrandAdds DEF IndInv
  <1>e. \A k \in Hosts : locks'[k] # NoLock => locks'[k].expires <= clock' + TTL
    <2>1. \A k \in Hosts : locks'[k] = locks[k] \/ locks'[k] = NoLock
      BY DEF IndInv, TypeOK
    <2> QED  BY <2>1 DEF IndInv
  <1>o. ~Owns(r, h)' \/ h \in stranded'[r]
    <2>1. CASE Strand(r, h)
      <3>1. stranded'[r] = stranded[r] \cup {h}
        BY <2>1, StrandAdds DEF IndInv
      <3> QED  BY <3>1
    <2>2. CASE ~Owns(r, h) /\ UNCHANGED locks
      BY <2>2 DEF Owns
    <2>3. CASE locks' = [locks EXCEPT ![h] = NoLock]
      BY <2>3 DEF Owns, IndInv, TypeOK
    <2> QED  BY <2>1, <2>2, <2>3
  <1>2. /\ \A s \in Runs \ {r} : Owns(s, h) => locks'[h] = locks[h]
        /\ \A s \in Runs \ {r} : Owns(s, h)' => locks'[h] = locks[h]
    BY DEF IndInv, TypeOK, Owns
  <1>3. /\ \A s \in Runs : at'[s] <= clock'
        /\ \A s \in Runs : pc'[s] = "done" => acquired'[s] = {}
    BY <1>1 DEF IndInv
  <1>4. ASSUME NEW s \in Runs, NEW k \in Hosts
        PROVE  HeldIsOwned(s, k)' /\ OwnedIsKnown(s, k)' /\ SeenIsCurrent(s, k)'
    <2>1. HeldIsOwned(s, k) /\ OwnedIsKnown(s, k) /\ SeenIsCurrent(s, k)
      BY DEF IndInv
    <2>2. CASE k # h
      BY <1>1, <1>s, <2>1, <2>2 DEF Owns, HeldIsOwned, OwnedIsKnown, SeenIsCurrent
    <2>3. CASE k = h /\ s = r
      <3>1. HeldIsOwned(r, h)' /\ SeenIsCurrent(r, h)'
        BY <1>1 DEF HeldIsOwned, SeenIsCurrent
      <3>2. OwnedIsKnown(r, h)'
        BY <1>o DEF OwnedIsKnown
      <3> QED  BY <2>3, <3>1, <3>2
    <2>4. CASE k = h /\ s # r
      <3>1. /\ pc'[s] = pc[s] /\ at'[s] = at[s] /\ seen'[s] = seen[s] /\ clock' = clock
            /\ acquired'[s] = acquired[s] /\ until'[s] = until[s] /\ stranded'[s] = stranded[s]
            /\ Owns(s, h) => locks'[h] = locks[h]
            /\ Owns(s, h)' => locks'[h] = locks[h]
        BY <1>1, <1>s, <1>2, <2>4
      <3> QED  BY <2>1, <2>4, <3>1 DEF Owns, HeldIsOwned, OwnedIsKnown, SeenIsCurrent
    <2> QED  BY <2>2, <2>3, <2>4
  <1> QED  BY <1>3, <1>4, <1>e DEF IndInv

\* Every step keeps the inductive invariant.
LEMMA NextKeeps == IndInv /\ [Next]_vars => IndInv'
  <1> SUFFICES ASSUME IndInv, [Next]_vars PROVE IndInv'
    OBVIOUS
  <1>t. /\ TypeOK /\ \A q \in Runs : at[q] <= clock
        /\ \A q \in Runs : pc[q] = "done" => acquired[q] = {}
        /\ \A k \in Hosts : locks[k] # NoLock => locks[k].expires <= clock + TTL
    BY DEF IndInv
  <1>a. ASSUME NEW r \in Runs, pc[r] # "dead", Abort(r), UNCHANGED clock PROVE IndInv'
    <2>1. TypeOK'
      BY SMT, <1>a, <1>t DEF TypeOK, Labels, Locking, Abort, GiveUp, Goto, Return
    <2>2. Quiet(r)
      BY SMT, <1>a, <1>t DEF TypeOK, Quiet, Abort, GiveUp, Goto, Return
    <2> QED  BY <2>1, <2>2, QuietKeeps
  <1>b. ASSUME NEW r \in Runs, pc[r] \in {"forceInsert", "update"},
               Goto(r, "force"), Return(r), UNCHANGED <<clock, locks, todo, acquired, until, stranded>>
        PROVE  IndInv'
    <2>1. TypeOK'
      BY <1>b, <1>t DEF TypeOK, Labels, Locking, Goto, Return
    <2>2. Quiet(r)
      BY SMT, <1>b, <1>t DEF TypeOK, Quiet, Goto, Return
    <2> QED  BY <2>1, <2>2, QuietKeeps
  <1>1. ASSUME NEW r \in Runs, Acquire(r) PROVE IndInv'
    <2>1. CASE /\ Goto(r, "create")
               /\ UNCHANGED <<clock, locks, todo, acquired, until, at, seen, stranded>>
      <3>1. TypeOK'
        BY <1>1, <1>t, <2>1 DEF TypeOK, Labels, Locking, Acquire, At, Goto
      <3>2. Quiet(r)
        BY <1>1, <1>t, <2>1 DEF TypeOK, Quiet, Acquire, At, Goto
      <3> QED  BY <3>1, <3>2, QuietKeeps
    <2>2. CASE Abort(r)
      BY <1>1, <2>2, <1>a DEF Acquire, At
    <2>3. CASE /\ Goto(r, "force")
               /\ UNCHANGED <<clock, locks, todo, acquired, until, at, seen, stranded>>
      <3>1. TypeOK'
        BY <1>1, <1>t, <2>3 DEF TypeOK, Labels, Locking, Acquire, At, Goto
      <3>2. Quiet(r)
        BY <1>1, <1>t, <2>3 DEF TypeOK, Quiet, Acquire, At, Goto
      <3> QED  BY <3>1, <3>2, QuietKeeps
    <2> QED  BY <1>1, <2>1, <2>2, <2>3 DEF Acquire
  <1>2. ASSUME NEW r \in Runs, Cancelled(r) PROVE IndInv'
    BY <1>2, <1>a DEF Cancelled, At
  <1>3. ASSUME NEW r \in Runs, StoreAcquire(r) PROVE IndInv'
    <2>1. CASE Abort(r)
      BY <1>3, <2>1, <1>a DEF StoreAcquire, At
    <2>2. CASE /\ Goto(r, "insert")
               /\ at' = [at EXCEPT ![r] = clock]
               /\ UNCHANGED <<clock, locks, todo, acquired, until, seen, stranded>>
      <3>1. TypeOK'
        BY <1>3, <1>t, <2>2 DEF TypeOK, Labels, Locking, StoreAcquire, At, Goto
      <3>2. Quiet(r)
        BY SMT, <1>3, <1>t, <2>2 DEF TypeOK, Quiet, StoreAcquire, At, Goto
      <3> QED  BY <3>1, <3>2, QuietKeeps
    <2> QED  BY <1>3, <2>1, <2>2 DEF StoreAcquire
  <1>4. ASSUME NEW r \in Runs, ForceAcquire(r) PROVE IndInv'
    <2>1. CASE /\ Goto(r, "forceInsert")
               /\ at' = [at EXCEPT ![r] = clock]
               /\ UNCHANGED <<clock, locks, todo, acquired, until, seen, stranded>>
      <3>1. TypeOK'
        BY <1>4, <1>t, <2>1 DEF TypeOK, Labels, Locking, ForceAcquire, At, Goto
      <3>2. Quiet(r)
        BY SMT, <1>4, <1>t, <2>1 DEF TypeOK, Quiet, ForceAcquire, At, Goto
      <3> QED  BY <3>1, <3>2, QuietKeeps
    <2>2. CASE Abort(r)
      BY <1>4, <2>2, <1>a DEF ForceAcquire, At
    <2>3. CASE /\ Goto(r, "update")
               /\ locks[Target(r)] # NoLock
               /\ at' = [at EXCEPT ![r] = clock]
               /\ seen' = [seen EXCEPT ![r] = locks[Target(r)]]
               /\ UNCHANGED <<clock, locks, todo, acquired, until, stranded>>
      <3>1. TypeOK'
        BY SMT, <1>4, <1>t, <2>3 DEF TypeOK, Labels, Locking, ForceAcquire, At, Goto, Target
      <3>2. Quiet(r)
        BY SMT, <1>4, <1>t, <2>3 DEF TypeOK, Quiet, ForceAcquire, At, Goto, Target
      <3> QED  BY <3>1, <3>2, QuietKeeps
    <2> QED  BY <1>4, <2>1, <2>2, <2>3 DEF ForceAcquire
  <1>5. ASSUME NEW r \in Runs, Finish(r) PROVE IndInv'
    <2>1. TypeOK'
      BY <1>5, <1>t DEF TypeOK, Labels, Locking, Finish, At, Goto
    <2>2. Quiet(r)
      BY <1>5, <1>t DEF TypeOK, Quiet, Finish, At, Goto
    <2> QED
      BY <2>1, <2>2, QuietKeeps
  <1>6. ASSUME NEW r \in Runs, Released(r) PROVE IndInv'
    <2>1. TypeOK'
      BY <1>6, <1>t DEF TypeOK, Labels, Locking, Released, At, Goto
    <2>2. Quiet(r)
      BY <1>6, <1>t DEF TypeOK, Quiet, Released, At, Goto
    <2> QED
      BY <2>1, <2>2, QuietKeeps
  <1>7. ASSUME NEW r \in Runs, CreateLock(r) PROVE IndInv'
    <2>1. CASE MayInsert(r) /\ locks' = [locks EXCEPT ![Target(r)] = NewRow(r)]
               /\ (Granted(r, Target(r)) \/ ReplyLost(r, Target(r)))
      <3>1. /\ Target(r) \in Hosts /\ todo[r] # <<>> /\ pc[r] # "dead"
            /\ locks[Target(r)] = NoLock /\ UNCHANGED clock
        <4>1. pc[r] \in Locking /\ pc[r] # "dead" /\ UNCHANGED clock /\ locks[Target(r)] = NoLock
          BY <1>7, <2>1 DEF CreateLock, MayInsert, At, Locking
        <4> QED  BY SMT, <1>t, <4>1 DEF TypeOK, Target
      <3>2. NewRow(r) \in Row /\ NewRow(r).scope = Target(r) /\ NewRow(r).owner = r
            /\ NewRow(r).expires = at[r] + TTL
        BY SMT, <1>t, <3>1, TTLPositive DEF NewRow, Row, TypeOK
      <3> QED  BY <2>1, <3>1, <3>2, GrantKeeps
    <2>2. CASE Abort(r)
      BY <1>7, <2>2, <1>a DEF CreateLock, At
    <2>3. CASE /\ At(r, "forceInsert") /\ Goto(r, "force") /\ Return(r)
               /\ UNCHANGED <<clock, locks, todo, acquired, until, stranded>>
      BY <1>7, <1>b, <2>3 DEF CreateLock, At
    <2> QED  BY <1>7, <2>1, <2>2, <2>3 DEF CreateLock
  <1>8. ASSUME NEW r \in Runs, UpdateLockOwnedBy(r) PROVE IndInv'
    <2> DEFINE row == [locks[Target(r)] EXCEPT !.owner = r, !.expires = at[r] + TTL]
    <2>1. CASE MayTakeOver(r) /\ locks' = [locks EXCEPT ![Target(r)] = row]
               /\ (Granted(r, Target(r)) \/ ReplyLost(r, Target(r)))
      <3>1. /\ Target(r) \in Hosts /\ todo[r] # <<>> /\ pc[r] # "dead"
            /\ locks[Target(r)] \in Row /\ locks[Target(r)].scope = Target(r)
            /\ UNCHANGED clock
        <4>1. /\ pc[r] \in Locking /\ pc[r] # "dead" /\ UNCHANGED clock
              /\ locks[Target(r)] # NoLock
          BY <1>8, <2>1 DEF UpdateLockOwnedBy, MayTakeOver, At, Locking
        <4> QED  BY SMT, <1>t, <4>1 DEF TypeOK, Target
      <3>2. locks[Target(r)].expires <= clock
        BY SMT, <1>t, <2>1, <3>1 DEF MayTakeOver, Expired, TypeOK, Row
      <3>3. at[r] + TTL \in Nat
        BY SMT, <1>t, TTLPositive DEF TypeOK
      <3>4. row \in Row /\ row.scope = Target(r) /\ row.owner = r
            /\ row.expires = at[r] + TTL
        BY <3>1, <3>3 DEF Row
      <3> HIDE DEF row
      <3> QED  BY <2>1, <3>1, <3>2, <3>4, GrantKeeps
    <2>2. CASE Goto(r, "force") /\ Return(r) /\ UNCHANGED <<clock, locks, todo, acquired, until, stranded>>
      BY <1>8, <1>b, <2>2 DEF UpdateLockOwnedBy, At
    <2> QED  BY <1>8, <2>1, <2>2 DEF UpdateLockOwnedBy
  <1>f. ASSUME NEW r \in Runs, StatementFails(r) PROVE IndInv'
    BY <1>f, <1>a DEF StatementFails, Locking
  <1>9. ASSUME NEW r \in Runs, NEW h \in Hosts, Release(r, h) PROVE IndInv'
    <2>1. CASE Goto(r, "delete") /\ Owns(r, h)
      <3>1. /\ pc[r] = "release"
            /\ seen' = [seen EXCEPT ![r] = locks[h]] /\ locks[h] # NoLock
            /\ pc' = [pc EXCEPT ![r] = "delete"]
            /\ UNCHANGED <<clock, locks, todo, acquired, until, at, stranded>>
        BY <1>9, <1>t, <2>1 DEF Release, At, Goto, Owns, TypeOK
      <3>2. TypeOK'
        BY <1>t, <3>1 DEF TypeOK, Labels, Locking
      <3>3. Quiet(r)
        BY <1>t, <3>1 DEF TypeOK, Quiet
      <3> QED  BY <3>2, <3>3, QuietKeeps
    <2>2. CASE /\ LetGo(r, h) /\ UNCHANGED <<pc, seen>>
               /\ \/ ~Owns(r, h) /\ UNCHANGED stranded
                  \/ Strand(r, h)
      <3>1. UNCHANGED <<clock, locks, todo, at>> /\ pc[r] = "release"
        BY <1>9, <2>2 DEF Release, At
      <3>2. TypeOK'
        <4>1. stranded' \in [Runs -> SUBSET Hosts]
          BY <1>t, <2>2, StrandAdds DEF TypeOK
        <4> QED  BY <1>t, <2>2, <3>1, <4>1 DEF TypeOK, LetGo
      <3> QED  BY <2>2, <3>1, <3>2, LetGoKeeps
    <2> QED  BY <1>9, <2>1, <2>2 DEF Release
  <1>10. ASSUME NEW r \in Runs, DeleteLock(r) PROVE IndInv'
    <2> DEFINE h == seen[r].scope
    <2>1. h \in Hosts /\ pc[r] = "delete" /\ seen[r] \in Row
      BY <1>10, <1>t DEF TypeOK, DeleteLock, At, Row
    <2>2. /\ \/ /\ locks' = [locks EXCEPT ![h] = IF MayDelete(r, h) THEN NoLock ELSE @]
                /\ UNCHANGED stranded
             \/ Strand(r, h) /\ UNCHANGED locks
          /\ LetGo(r, h) /\ Goto(r, "release") /\ Return(r) /\ UNCHANGED <<clock, todo>>
      BY <1>10 DEF DeleteLock
    <2>3. TypeOK'
      <3>1. stranded' \in [Runs -> SUBSET Hosts]
        BY <1>t, <2>1, <2>2, StrandAdds DEF TypeOK
      <3>2. locks' \in [Hosts -> Row \cup {NoLock}]
            /\ \A k \in Hosts : locks'[k] # NoLock => locks'[k].scope = k
        BY <1>t, <2>2 DEF TypeOK
      <3> QED
        BY <1>t, <2>1, <2>2, <3>1, <3>2 DEF TypeOK, Labels, Locking, LetGo, Goto, Return
    <2>4. MayDelete(r, h) <=> Owns(r, h)
      BY <2>1 DEF IndInv, SeenIsCurrent, MayDelete
    <2>5. /\ at' = [at EXCEPT ![r] = 0] /\ seen' = [seen EXCEPT ![r] = NoLock]
          /\ pc' = [pc EXCEPT ![r] = "release"]
      BY <2>2 DEF Goto, Return
    <2>6. \/ ~Owns(r, h) /\ UNCHANGED <<locks, stranded>>
          \/ Owns(r, h) /\ locks' = [locks EXCEPT ![h] = NoLock] /\ UNCHANGED stranded
          \/ Strand(r, h) /\ UNCHANGED locks
      BY <1>t, <2>1, <2>2, <2>4 DEF TypeOK
    <2> HIDE DEF h
    <2> QED  BY <2>1, <2>2, <2>3, <2>5, <2>6, LetGoKeeps
  <1>11. ASSUME NEW r \in Runs, Crash(r) PROVE IndInv'
    <2>1. TypeOK'
      BY SMT, <1>11, <1>t DEF TypeOK, Labels, Locking, Crash, Goto, Return
    <2>2. /\ pc'[r] = "dead" /\ acquired'[r] = {} /\ UNCHANGED <<clock, locks>>
          /\ \A s \in Runs \ {r} : /\ pc'[s] = pc[s] /\ acquired'[s] = acquired[s]
                                   /\ until'[s] = until[s] /\ seen'[s] = seen[s]
                                   /\ stranded'[s] = stranded[s]
          /\ \A s \in Runs : at'[s] <= clock
      BY SMT, <1>11, <1>t DEF TypeOK, Crash, Goto, Return
    <2>3. ASSUME NEW s \in Runs, NEW k \in Hosts
          PROVE  HeldIsOwned(s, k)' /\ OwnedIsKnown(s, k)' /\ SeenIsCurrent(s, k)'
      <3>1. HeldIsOwned(s, k) /\ OwnedIsKnown(s, k) /\ SeenIsCurrent(s, k)
        BY DEF IndInv
      <3> QED  BY <2>2, <3>1 DEF Owns, HeldIsOwned, OwnedIsKnown, SeenIsCurrent
    <2> QED  BY <1>t, <2>1, <2>2, <2>3 DEF IndInv
  <1>12. CASE CleanExpired
    <2>1. TypeOK'
      BY <1>12, <1>t DEF TypeOK, CleanExpired
    <2>2. /\ UNCHANGED <<clock, todo, acquired, until, pc, at, seen, stranded>>
          /\ \A k \in Hosts : \/ locks'[k] = locks[k]
                             \/ /\ locks'[k] = NoLock
                                /\ locks[k] # NoLock /\ locks[k].expires < clock
      BY <1>12, <1>t DEF TypeOK, CleanExpired
    <2>3. ASSUME NEW s \in Runs, NEW k \in Hosts
          PROVE  HeldIsOwned(s, k)' /\ OwnedIsKnown(s, k)' /\ SeenIsCurrent(s, k)'
      <3>1. /\ HeldIsOwned(s, k) /\ OwnedIsKnown(s, k) /\ SeenIsCurrent(s, k)
            /\ clock \in Nat /\ (locks[k] # NoLock => locks[k].expires \in Nat)
        BY <1>t DEF IndInv, TypeOK, Row
      <3> QED  BY SMT, <2>2, <3>1 DEF Owns, HeldIsOwned, OwnedIsKnown, SeenIsCurrent
    <2> QED  BY <1>t, <2>1, <2>2, <2>3 DEF IndInv
  <1>13. CASE Tick
    <2>1. /\ TypeOK' /\ (\A q \in Runs : at'[q] <= clock')
          /\ \A k \in Hosts : locks'[k] # NoLock => locks'[k].expires <= clock' + TTL
      BY SMT, <1>13, <1>t, TTLPositive DEF TypeOK, Tick, Row
    <2>2. ASSUME NEW s \in Runs, NEW k \in Hosts
          PROVE  HeldIsOwned(s, k)' /\ OwnedIsKnown(s, k)' /\ SeenIsCurrent(s, k)'
      <3>1. /\ HeldIsOwned(s, k) /\ OwnedIsKnown(s, k) /\ SeenIsCurrent(s, k)
            /\ clock \in Nat /\ until[s][k] \in Nat
        BY <1>t DEF IndInv, TypeOK
      <3> QED  BY SMT, <1>13, <3>1 DEF Tick, Owns, HeldIsOwned, OwnedIsKnown, SeenIsCurrent
    <2> QED  BY <1>13, <1>t, <2>1, <2>2 DEF IndInv, Tick
  <1>14. CASE UNCHANGED vars
    BY SMT, <1>14 DEF IndInv, TypeOK, Owns, vars, HeldIsOwned, OwnedIsKnown, SeenIsCurrent
  <1> QED
    BY <1>1, <1>2, <1>3, <1>4, <1>5, <1>6, <1>7, <1>8, <1>9, <1>10, <1>11, <1>12, <1>13, <1>14,
       <1>f DEF Next, Step

\* Every reachable state of the lock table and of the runs satisfies IndInv.
THEOREM Invariance == Spec => []IndInv
  BY InitEstablishes, NextKeeps, PTL DEF Spec

(* A run that Acquire answered owns the row of the host until the expiry it was  *)
(* given, whatever the inserts, takeovers, releases and sweeps of the others.    *)
THEOREM HoldersOwnTheirRows == Spec => []HolderOwnsRow
  <1>1. IndInv => HolderOwnsRow
    BY DEF IndInv, HeldIsOwned, HolderOwnsRow
  <1> QED  BY <1>1, Invariance, PTL

(* Two runs work on one host only after the TTL of one of them has run out.      *)
THEOREM LocksExclude == Spec => []WorkIsExclusive
  <1>1. ASSUME IndInv PROVE WorkIsExclusive
    <2> SUFFICES ASSUME NEW r \in Runs, NEW s \in Runs, NEW h \in Hosts, r # s,
                        h \in acquired[r] \cap acquired[s],
                        ~(until[r][h] <= clock), ~(until[s][h] <= clock)
                 PROVE  FALSE
      BY DEF WorkIsExclusive
    <2>1. clock < until[r][h] /\ clock < until[s][h]
      BY SMT, <1>1 DEF IndInv, TypeOK
    <2>2. HeldIsOwned(r, h) /\ HeldIsOwned(s, h)
      BY <1>1 DEF IndInv
    <2> QED  BY <2>1, <2>2 DEF HeldIsOwned, Owns
  <1> QED  BY <1>1, Invariance, PTL

(* A closure that has returned has left a lock of its own in the table only       *)
(* where a statement failed on that host, and for no more than a TTL.             *)
THEOREM ReturnedRunsLeaveNothing == Spec => []NothingLeftLocked
  <1>1. IndInv => NothingLeftLocked
    BY DEF IndInv, OwnedIsKnown, NothingLeftLocked, Owns
  <1> QED  BY <1>1, Invariance, PTL

(* A row that has not expired is deleted by its owner's release or not changed:  *)
(* no takeover, sweep or release of another run touches it.                      *)
THEOREM OnlyOwnersGiveUp == Spec => OnlyOwnerGivesUp
  <1> DEFINE Kept == \A h \in Hosts :
               locks[h] # NoLock /\ clock < locks[h].expires /\ locks'[h] # locks[h] =>
                  locks'[h] = NoLock /\ pc[locks[h].owner] = "delete"
  <1>1. ASSUME IndInv, [Next]_vars PROVE Kept
    <2> SUFFICES ASSUME NEW h \in Hosts, locks[h] # NoLock, clock < locks[h].expires,
                        locks'[h] # locks[h]
                 PROVE  locks'[h] = NoLock /\ pc[locks[h].owner] = "delete"
      OBVIOUS
    <2>t. TypeOK /\ (\A q \in Runs : at[q] <= clock) /\ locks[h].expires \in Nat
      BY <1>1 DEF IndInv, TypeOK, Row
    <2>1. ASSUME NEW r \in Runs, DeleteLock(r)
          PROVE  locks'[h] = NoLock /\ pc[locks[h].owner] = "delete"
      BY <2>1, <2>t DEF DeleteLock, MayDelete, Owns, At, TypeOK
    <2>2. ASSUME NEW r \in Runs, CreateLock(r) PROVE FALSE
      BY <2>2, <2>t DEF CreateLock, MayInsert, Abort, TypeOK
    <2>3. ASSUME NEW r \in Runs, UpdateLockOwnedBy(r) PROVE FALSE
      BY SMT, <2>3, <2>t DEF UpdateLockOwnedBy, MayTakeOver, Expired, TypeOK
    <2>4. CASE CleanExpired
      BY SMT, <2>4, <2>t DEF CleanExpired, TypeOK
    <2>5. CASE UNCHANGED locks
      BY <2>5
    <2> QED
      BY <1>1, <2>1, <2>2, <2>3, <2>4, <2>5
      DEF Next, Step, vars, Acquire, StoreAcquire, ForceAcquire, Finish, Release, Released,
          Cancelled, StatementFails, Crash, Tick, Abort
  <1> QED  BY <1>1, Invariance, PTL DEF Spec, OnlyOwnerGivesUp
==============================================================================
