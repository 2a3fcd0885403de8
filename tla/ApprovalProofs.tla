--------------------------- MODULE ApprovalProofs ----------------------------
(***************************************************************************)
(* For any number of records, approvers, callers, sweepers and kickoffs:   *)
(* the stored records are sound, acknowledged votes count, a settled       *)
(* record stays settled, and the service implements Ballot.                *)
(***************************************************************************)
EXTENDS Approval, FiniteSetTheorems, TLAPS

\* Most leaves are first-order; those that need more name another prover.
USE Zenon

Idx(ds) == {d \in 1..Len(ds) : ds[d].action = "approve"}

\* Counting the approvals of a longer list of decisions.
LEMMA CountAppend ==
    ASSUME NEW ds \in Seq(Decision), NEW d \in Decision
    PROVE  /\ countApproves(ds) \in Nat
           /\ countApproves(Append(ds, d)) =
                 countApproves(ds) + (IF d.action = "approve" THEN 1 ELSE 0)
<1> DEFINE n == Len(ds)
<1> DEFINE es == Append(ds, d)
<1>1. n \in Nat /\ Len(es) = n + 1 /\ es[n + 1] = d /\ \A e \in 1..n : es[e] = ds[e]
  BY SMT
<1>2. IsFiniteSet(1..n) /\ IsFiniteSet(Idx(ds))
  <2> HIDE DEF n
  <2>1. IsFiniteSet(1..n)
    BY SMT, <1>1, FS_Interval
  <2>2. Idx(ds) \subseteq 1..n
    BY DEF Idx, n
  <2> QED BY <2>1, <2>2, FS_Subset
<1>3. Cardinality(Idx(ds)) \in Nat
  BY <1>2, FS_CardinalityType
<1>4. Idx(es) = IF d.action = "approve" THEN Idx(ds) \cup {n + 1} ELSE Idx(ds)
  <2> HIDE DEF es
  <2>1. 1..Len(es) = (1..n) \cup {n + 1}
    BY SMT, <1>1
  <2>2. CASE d.action = "approve"
    BY <1>1, <2>1, <2>2 DEF Idx
  <2>3. CASE d.action # "approve"
    BY <1>1, <2>1, <2>3 DEF Idx
  <2> QED BY <2>2, <2>3
<1>5. n + 1 \notin Idx(ds)
  BY SMT, <1>1 DEF Idx
<1>6. Cardinality(Idx(ds) \cup {n + 1}) = Cardinality(Idx(ds)) + 1
  BY <1>2, <1>5, FS_AddElement
<1>7. countApproves(ds) = Cardinality(Idx(ds)) /\ countApproves(es) = Cardinality(Idx(es))
  BY DEF countApproves, Idx
<1> HIDE DEF es, n
<1>8. CASE d.action = "approve"
  BY <1>3, <1>4, <1>6, <1>7, <1>8 DEF es
<1>9. CASE d.action # "approve"
  BY SMT, <1>3, <1>4, <1>7, <1>9 DEF es
<1> QED BY <1>8, <1>9

\* The clamp of decide changes nothing a record stands for.
LEMMA ClampFacts ==
    ASSUME NEW r \in Rec
    PROVE  /\ clamp(r) \in Rec
           /\ clamp(r).min = Need(r) /\ clamp(r).min # 0 /\ Need(clamp(r)) = Need(r)
           /\ clamp(r).status = r.status /\ clamp(r).decisions = r.decisions
           /\ clamp(r).rev = r.rev /\ clamp(r).superseded = r.superseded
           /\ clamp(r).approvers = r.approvers /\ clamp(r).exclude = r.exclude
           /\ clamp(r).expires = r.expires
<1>1. CASE r.min = 0
  BY SMT, <1>1 DEF clamp, Need, Rec
<1>2. CASE r.min # 0
  BY <1>2 DEF clamp, Need, Rec
<1> QED BY <1>1, <1>2

\* Reading a record with its quorum clamped keeps it sound.
LEMMA ClampSound ==
    ASSUME NEW r \in Rec, Sound(r)
    PROVE  Sound(clamp(r))
BY ZenonT(30), ClampFacts DEF Sound, isAuthorized

\* The revision after a record's is a revision.
LEMMA RevNext == ASSUME NEW x \in Rec PROVE x.rev + 1 \in Nat
  BY SMT DEF Rec

\* A copy written back under a new revision is the same record otherwise.
LEMMA RevFacts ==
    ASSUME NEW r \in Rec, NEW n \in Nat, NEW q, q = [r EXCEPT !.rev = n]
    PROVE  /\ q \in Rec /\ q.rev = n
           /\ q.status = r.status /\ q.decisions = r.decisions /\ q.min = r.min
           /\ q.superseded = r.superseded /\ q.approvers = r.approvers
           /\ q.exclude = r.exclude /\ q.expires = r.expires
           /\ VotesOf(q) = VotesOf(r) /\ Need(q) = Need(r)
           /\ Sound(r) => Sound(q)
<1>1. /\ q \in Rec /\ q.rev = n
      /\ q.status = r.status /\ q.decisions = r.decisions /\ q.min = r.min
      /\ q.superseded = r.superseded /\ q.approvers = r.approvers
      /\ q.exclude = r.exclude /\ q.expires = r.expires
  BY DEF Rec
<1> QED BY SMT, <1>1 DEF Sound, Need, VotesOf, isAuthorized

\* What decide writes: one vote more, and the status that follows from it.
LEMMA DecidedFacts ==
    ASSUME NEW r \in Rec, NEW d \in Decision
    PROVE  /\ Decided(r, d) \in Rec
           /\ Decided(r, d).decisions = Append(r.decisions, d)
           /\ Decided(r, d).status =
                 IF d.action = "reject" THEN "rejected"
                 ELSE IF countApproves(Append(r.decisions, d)) >= r.min THEN "approved" ELSE r.status
           /\ Decided(r, d).rev = r.rev /\ Decided(r, d).min = r.min
           /\ Decided(r, d).superseded = r.superseded
           /\ Decided(r, d).approvers = r.approvers /\ Decided(r, d).exclude = r.exclude
<1>1. Append(r.decisions, d) \in Seq(Decision)
  BY SMT DEF Rec
<1> DEFINE ds == Append(r.decisions, d)
<1> DEFINE st == IF d.action = "reject" THEN "rejected"
                 ELSE IF countApproves(ds) >= r.min THEN "approved" ELSE r.status
<1>2. Decided(r, d) = [[r EXCEPT !.decisions = ds] EXCEPT !.status = st]
  BY DEF Decided, Rec
<1>3. st \in RecStatus
  BY DEF RecStatus, Rec
<1> HIDE DEF ds, st
<1>4. /\ Decided(r, d) \in Rec
      /\ Decided(r, d).decisions = ds /\ Decided(r, d).status = st
      /\ Decided(r, d).rev = r.rev /\ Decided(r, d).min = r.min
      /\ Decided(r, d).superseded = r.superseded
      /\ Decided(r, d).approvers = r.approvers /\ Decided(r, d).exclude = r.exclude
  BY <1>1, <1>2, <1>3 DEF Rec, ds
<1> QED BY <1>4 DEF ds, st

\* A decision that passes the checks of decide keeps the record sound and adds
\* exactly its vote.
LEMMA DecidedSound ==
    ASSUME NEW r \in Rec, NEW d \in Decision, Sound(r), r.min # 0, MayDecide(r, d.by)
    PROVE  /\ Sound(Decided(r, d))
           /\ VotesOf(Decided(r, d)) = VotesOf(r) \cup {d}
<1> DEFINE q == Decided(r, d)
<1> DEFINE n == Len(r.decisions)
<1>1. r.decisions \in Seq(Decision) /\ r.min \in Nat /\ r.status = "pending" /\ d.action \in Actions
  BY DEF Rec, Decision, MayDecide
<1>2. n \in Nat /\ q.decisions = Append(r.decisions, d)
  BY SMT, <1>1, DecidedFacts
<1>3. /\ Len(q.decisions) = n + 1 /\ q.decisions[n + 1] = d
      /\ \A e \in 1..n : q.decisions[e] = r.decisions[e]
  BY SMT, <1>1, <1>2
<1>4. q.min = r.min /\ q.superseded = r.superseded /\ q.approvers = r.approvers /\ q.exclude = r.exclude
  BY DecidedFacts
<1>5. q.status = IF d.action = "reject" THEN "rejected"
                 ELSE IF countApproves(q.decisions) >= r.min THEN "approved" ELSE "pending"
  BY <1>1, <1>2, DecidedFacts
<1>6. countApproves(q.decisions) \in Nat
  BY SMT, <1>1, <1>2, CountAppend
<1>7. Need(q) = r.min
  BY <1>4 DEF Need
<1> HIDE DEF q, n
<1>8. \A e \in 1..(n + 1) : e \in 1..n \/ e = n + 1
  BY SMT, <1>2
<1>9. \A e, f \in 1..Len(q.decisions) : q.decisions[e].by = q.decisions[f].by => e = f
  BY SMT, <1>3, <1>8 DEF Sound, MayDecide, hasDecided, n
<1>10. \A e \in 1..Len(q.decisions) :
          isAuthorized(q, q.decisions[e].by) /\ ~(q.exclude /\ q.decisions[e].by = Initiator)
  BY <1>3, <1>4, <1>8 DEF Sound, MayDecide, isAuthorized, n
<1>11. q.status \in {"pending", "approved"} =>
          \A e \in 1..Len(q.decisions) : q.decisions[e].action = "approve"
  BY <1>1, <1>3, <1>5, <1>8 DEF Sound, n, Actions
<1>12. q.status = "rejected" =>
          \E e \in 1..Len(q.decisions) : q.decisions[e].action = "reject"
  BY SMT, <1>2, <1>3, <1>5
<1>13. ~q.superseded
  BY <1>1, <1>4 DEF Sound
<1>14. /\ q.status = "pending" => countApproves(q.decisions) < Need(q)
       /\ q.status = "approved" => countApproves(q.decisions) >= Need(q)
  BY SMT, <1>1, <1>5, <1>6, <1>7
<1>15. Sound(q)
  BY <1>9, <1>10, <1>11, <1>12, <1>13, <1>14 DEF Sound
<1>16. VotesOf(q) = VotesOf(r) \cup {d}
  <2>1. 1..Len(q.decisions) = (1..n) \cup {n + 1}
    BY SMT, <1>2, <1>3
  <2> QED BY ZenonT(30), <1>3, <2>1 DEF VotesOf, n
<1> QED BY <1>15, <1>16 DEF q
------------------------------------------------------------------------------
\* A write that bumps the revision, and the insertion of a record, leave every
\* copy somebody holds faithful.
LEMMA WriteKeepsCopies ==
    ASSUME NEW R \in [Ids -> Rec \cup {NoRec}], NEW i \in Ids, NEW q \in Rec,
           R[i] # NoRec => q.rev = R[i].rev + 1 /\ Need(q) = Need(R[i]),
           NEW j \in Ids, NEW r \in Rec, Faithful(R, j, r)
    PROVE  Faithful([R EXCEPT ![i] = q], j, r)
<1>1. CASE j # i
  BY <1>1 DEF Faithful
<1>2. CASE j = i
  <2>1. R[i] \in Rec /\ R[i].rev \in Nat /\ r.rev \in Nat /\ q.rev = R[i].rev + 1
        /\ Need(q) = Need(R[i])
    BY <1>2 DEF Faithful, Rec
  <2> QED BY SMT, <1>2, <2>1, NoRecFresh DEF Faithful
<1> QED BY <1>1, <1>2

\* Reading a pending record gives a faithful copy, clamped or not.
LEMMA ReadIsFaithful ==
    ASSUME IndInv, NEW i \in Ids, IsPending(i)
    PROVE  /\ rec[i] \in Rec
           /\ Faithful(rec, i, rec[i])
           /\ Faithful(rec, i, clamp(rec[i]))
<1>1. rec[i] \in Rec /\ Sound(rec[i]) /\ rec[i].rev \in Nat
  BY NoRecFresh DEF IndInv, TypeOK, RecordsSound, IsPending, Rec
<1> QED BY SMT, <1>1, ClampFacts, ClampSound DEF Faithful, IsPending

\* The rows of an update: what is stored is the copy under the next revision.
LEMMA StoredFacts ==
    ASSUME rec \in [Ids -> Rec \cup {NoRec}], NEW i \in Ids, rec[i] # NoRec,
           NEW r \in Rec, NEW q, q = [r EXCEPT !.rev = rec[i].rev + 1]
    PROVE  /\ Stored(i, r) = [rec EXCEPT ![i] = q]
           /\ rec[i] \in Rec /\ rec[i].rev + 1 \in Nat
           /\ q \in Rec /\ q.rev = rec[i].rev + 1
BY SMT, RevFacts DEF Stored, Rec

\* What the rest of the invariant needs of a table after one row was written.
LEMMA TableAfterWrite ==
    ASSUME IndInv, NEW i \in Ids, NEW q \in Rec, Sound(q),
           rec[i] # NoRec => q.rev = rec[i].rev + 1 /\ Need(q) = Need(rec[i]),
           rec' = [rec EXCEPT ![i] = q]
    PROVE  /\ rec' \in [Ids -> Rec \cup {NoRec}]
           /\ RecordsSound'
           /\ \A j \in Ids : rec[j] # NoRec => rec'[j] # NoRec
           /\ \A j \in Ids, r \in Rec : Faithful(rec, j, r) => Faithful(rec', j, r)
<1>1. rec \in [Ids -> Rec \cup {NoRec}]
  BY DEF IndInv, TypeOK
<1>2. \A j \in Ids, r \in Rec : Faithful(rec, j, r) => Faithful(rec', j, r)
  BY <1>1, WriteKeepsCopies
<1>3. \A j \in Ids : rec[j] # NoRec => rec'[j] # NoRec
  BY <1>1, NoRecFresh
<1>4. RecordsSound'
  BY <1>1 DEF IndInv, RecordsSound
<1> QED BY <1>1, <1>2, <1>3, <1>4

\* A step that writes the table soundly and changes no copy, call or history
\* otherwise than by dropping copies keeps the invariant.
LEMMA KeepInv ==
    ASSUME IndInv,
           rec' \in [Ids -> Rec \cup {NoRec}], RecordsSound',
           \A j \in Ids : rec[j] # NoRec => rec'[j] # NoRec,
           \A j \in Ids, r \in Rec : Faithful(rec, j, r) => Faithful(rec', j, r),
           overdue' \subseteq Ids,
           call' \in [Callers -> {IdleCall}
                 \cup [at : {"read"}, id : Ids, by : Approvers, action : Actions, attempt : Nat]
                 \cup [at : {"write"}, id : Ids, by : Approvers, action : Actions, attempt : Nat, row : Rec]],
           \A c \in Callers : call'[c] = call[c] \/ call'[c].at # "write",
           todo' \in [Sweepers -> SUBSET Copy],
           \A s \in Sweepers : todo'[s] \subseteq todo[s],
           kick' \in [Kickoffs -> [at : {"idle", "supersede"}, old : SUBSET Copy]],
           \A k \in Kickoffs : kick'[k].old \subseteq kick[k].old,
           acked' \subseteq [id : Ids, vote : Decision],
           \A v \in acked' : v \in acked \/ rec'[v.id] # NoRec
    PROVE  IndInv'
<1>1. TypeOK'
  BY DEF TypeOK
<1>2. ASSUME NEW c \in Callers, call'[c].at = "write"
      PROVE  /\ Faithful(rec', call'[c].id, call'[c].row)
             /\ call'[c].row.min # 0
             /\ MayDecide(call'[c].row, call'[c].by)
  <2>1. call'[c] = call[c]
    BY <1>2
  <2>2. call[c].id \in Ids /\ call[c].row \in Rec
    BY SMT, <1>2, <2>1 DEF IndInv, TypeOK, IdleCall
  <2> QED BY <1>2, <2>1, <2>2 DEF IndInv
<1>3. \A s \in Sweepers : \A t \in todo'[s] : Faithful(rec', t.id, t.row)
  BY SMT DEF IndInv, TypeOK, Copy
<1>4. \A k \in Kickoffs : \A t \in kick'[k].old : Faithful(rec', t.id, t.row)
  BY SMT DEF IndInv, TypeOK, Copy
<1>5. \A v \in acked' : rec'[v.id] # NoRec
  BY DEF IndInv, TypeOK
<1> QED BY <1>1, <1>2, <1>3, <1>4, <1>5 DEF IndInv

\* With an untouched table, everything about it stands.
LEMMA SameTable ==
    ASSUME IndInv, rec' = rec
    PROVE  /\ rec' \in [Ids -> Rec \cup {NoRec}] /\ RecordsSound'
           /\ \A j \in Ids : rec[j] # NoRec => rec'[j] # NoRec
           /\ \A j \in Ids, r \in Rec : Faithful(rec, j, r) => Faithful(rec', j, r)
BY DEF IndInv, TypeOK, RecordsSound

\* A new record is open, empty and sound.
LEMMA NewRecFacts ==
    ASSUME NEW q \in Requests
    PROVE  NewRec(q) \in Rec /\ Sound(NewRec(q))
<1>1. NewRec(q) \in Rec
  BY SMT, RequestsType DEF NewRec, Rec, Request, RecStatus
<1>2. countApproves(<<>>) = 0
  <2>1. {d \in 1..Len(<<>>) : <<>>[d].action = "approve"} = {}
    BY SMT
  <2> QED BY <2>1, FS_EmptySet DEF countApproves
<1>3. Need(NewRec(q)) \in Nat /\ 0 < Need(NewRec(q))
  BY SMT, RequestsType DEF NewRec, Need, Request
<1>4. NewRec(q).decisions = <<>> /\ NewRec(q).status = "pending" /\ ~NewRec(q).superseded
  BY DEF NewRec
<1> QED BY SMT, <1>1, <1>2, <1>3, <1>4 DEF Sound

\* Expiring a record, superseded or not, keeps it sound.
ExpRow(r, b) == [r EXCEPT !.status = "expired", !.superseded = b]

\* ... and it keeps the votes and the quorum.
LEMMA ExpiredFacts ==
    ASSUME NEW r \in Rec, Sound(r), NEW b \in BOOLEAN
    PROVE  /\ ExpRow(r, b) \in Rec /\ Sound(ExpRow(r, b))
           /\ ExpRow(r, b).status = "expired" /\ ExpRow(r, b).superseded = b
           /\ ExpRow(r, b).decisions = r.decisions
           /\ VotesOf(ExpRow(r, b)) = VotesOf(r) /\ Need(ExpRow(r, b)) = Need(r)
<1> DEFINE e == ExpRow(r, b)
<1>1. e \in Rec /\ e.status = "expired" /\ e.decisions = r.decisions /\ e.superseded = b
      /\ e.approvers = r.approvers /\ e.exclude = r.exclude /\ e.min = r.min
  BY DEF Rec, RecStatus, ExpRow
<1> HIDE DEF e
<1>2. Sound(e) /\ VotesOf(e) = VotesOf(r) /\ Need(e) = Need(r)
  BY <1>1 DEF Sound, isAuthorized, Need, VotesOf
<1> QED BY <1>1, <1>2 DEF e

\* A pending record is not superseded, and expiring it leaves it so.
LEMMA SweepRow ==
    ASSUME NEW r \in Rec, Sound(r), r.status = "pending"
    PROVE  [r EXCEPT !.status = "expired"] = ExpRow(r, FALSE)
<1>1. r.superseded = FALSE
  BY DEF Sound, Rec
<1> QED BY <1>1 DEF Rec, ExpRow

\* The initial records are open, empty and sound.
LEMMA InitInv == Init => IndInv
<1> SUFFICES ASSUME Init PROVE IndInv
  OBVIOUS
<1>2. rec \in [Ids -> Rec \cup {NoRec}] /\ RecordsSound
  BY SMT, NewRecFacts DEF Init, RecordsSound
<1>3. TypeOK
  BY <1>2 DEF Init, TypeOK, IdleCall
<1>4. \A c \in Callers : call[c].at # "write"
  BY DEF Init, IdleCall
<1> QED BY <1>2, <1>3, <1>4 DEF Init, IndInv

\* One attempt of decide: the copy it takes is faithful and may be decided.
LEMMA AttemptInv ==
    ASSUME IndInv, NEW c \in Callers, NEW i \in Ids, NEW a \in Approvers,
           NEW action \in Actions, NEW n \in Nat, Attempt(c, i, a, action, n)
    PROVE  IndInv'
<1>1. rec' = rec /\ overdue' = overdue /\ todo' = todo /\ kick' = kick /\ acked' = acked
  BY DEF Attempt
<1>2. CASE call' = [call EXCEPT ![c] = IdleCall]
  <2>1. \A x \in Callers : call'[x] = call[x] \/ call'[x].at # "write"
    BY <1>2 DEF IndInv, TypeOK, IdleCall
  <2>2. call' \in [Callers -> {IdleCall}
            \cup [at : {"read"}, id : Ids, by : Approvers, action : Actions, attempt : Nat]
            \cup [at : {"write"}, id : Ids, by : Approvers, action : Actions, attempt : Nat, row : Rec]]
    BY <1>2 DEF IndInv, TypeOK
  <2> QED BY <1>1, <2>1, <2>2, SameTable, KeepInv DEF IndInv, TypeOK
<1>3. CASE ~(call' = [call EXCEPT ![c] = IdleCall])
  <2> DEFINE new == [at |-> "write", id |-> i, by |-> a, action |-> action, attempt |-> n,
                     row |-> clamp(rec[i])]
  <2>1. /\ rec[i] # NoRec /\ MayDecide(rec[i], a)
        /\ call' = [call EXCEPT ![c] = new]
    BY <1>3 DEF Attempt
  <2>2. IsPending(i)
    BY <2>1 DEF IsPending, MayDecide
  <2>3. rec[i] \in Rec /\ Faithful(rec, i, clamp(rec[i]))
    BY <2>2, ReadIsFaithful
  <2>4. clamp(rec[i]) \in Rec /\ clamp(rec[i]).min # 0 /\ MayDecide(clamp(rec[i]), a)
    BY SMT, <2>1, <2>3, ClampFacts DEF MayDecide, isAuthorized, hasDecided
  <2>5. new \in [at : {"write"}, id : Ids, by : Approvers, action : Actions, attempt : Nat, row : Rec]
    BY <2>4
  <2>6. new.at = "write" /\ new.id = i /\ new.by = a /\ new.row = clamp(rec[i])
    OBVIOUS
  <2> HIDE DEF new
  <2>7. TypeOK'
    BY <1>1, <2>1, <2>5 DEF IndInv, TypeOK
  <2>8. ASSUME NEW x \in Callers, call'[x].at = "write"
        PROVE  /\ Faithful(rec', call'[x].id, call'[x].row)
               /\ call'[x].row.min # 0
               /\ MayDecide(call'[x].row, call'[x].by)
    <3>1. CASE x = c
      <4>1. call'[x] = new
        BY <2>1, <3>1 DEF IndInv, TypeOK
      <4> QED BY <1>1, <2>3, <2>4, <2>6, <4>1
    <3>2. CASE x # c
      <4>1. call'[x] = call[x]
        BY <2>1, <3>2 DEF IndInv, TypeOK
      <4> QED BY <1>1, <2>8, <4>1 DEF IndInv
    <3> QED BY <3>1, <3>2
  <2> QED BY <1>1, <2>7, <2>8 DEF IndInv, RecordsSound
<1> QED BY <1>2, <1>3

\* The row a winning decision stores.
Won(c) == [Decided(call[c].row, VoteOf(c)) EXCEPT !.rev = rec[call[c].id].rev + 1]

\* A winning decision adds its vote to the record as it is stored now.
LEMMA WinFacts ==
    ASSUME IndInv, NEW c \in Callers, call[c].at = "write",
           StillPending(call[c].id, call[c].row)
    PROVE  /\ call[c].id \in Ids /\ VoteOf(c) \in Decision
           /\ rec[call[c].id] \in Rec /\ rec[call[c].id].status = "pending"
           /\ MayDecide(rec[call[c].id], VoteOf(c).by)
           /\ Stored(call[c].id, Decided(call[c].row, VoteOf(c))) =
                 [rec EXCEPT ![call[c].id] = Won(c)]
           /\ Won(c) \in Rec /\ Sound(Won(c)) /\ Won(c).rev = rec[call[c].id].rev + 1
           /\ VotesOf(Won(c)) = VotesOf(rec[call[c].id]) \cup {VoteOf(c)}
           /\ Won(c).decisions = Append(rec[call[c].id].decisions, VoteOf(c))
           /\ Won(c).min = Need(rec[call[c].id]) /\ Won(c).min # 0
           /\ Need(Won(c)) = Need(rec[call[c].id])
           /\ ~Won(c).superseded /\ ~rec[call[c].id].superseded
<1> DEFINE i == call[c].id
<1> DEFINE r == call[c].row
<1> DEFINE d == VoteOf(c)
<1>1. i \in Ids /\ r \in Rec /\ d \in Decision
  BY SMT DEF IndInv, TypeOK, IdleCall, VoteOf, Decision
<1>2. Faithful(rec, i, r) /\ r.min # 0 /\ MayDecide(r, d.by)
  BY DEF IndInv, VoteOf
<1>3. rec[i] # NoRec /\ rec[i] \in Rec /\ rec[i].status = "pending" /\ rec[i].rev = r.rev
  BY <1>1 DEF IndInv, TypeOK, StillPending, IsPending
<1> HIDE DEF i, r, d
<1>4. r \in {rec[i], clamp(rec[i])} /\ Sound(r) /\ Sound(rec[i])
  BY <1>1, <1>2, <1>3 DEF Faithful, IndInv, RecordsSound
<1>5. r.decisions = rec[i].decisions /\ r.status = "pending" /\ r.approvers = rec[i].approvers
      /\ r.exclude = rec[i].exclude /\ r.min = Need(rec[i])
  <2>1. CASE r = rec[i]
    BY <1>2, <1>3, <2>1 DEF Need
  <2>2. CASE r = clamp(rec[i])
    BY <1>3, <2>2, ClampFacts
  <2> QED BY <1>4, <2>1, <2>2
<1>6. MayDecide(rec[i], d.by)
  BY <1>2, <1>3, <1>5 DEF MayDecide, isAuthorized, hasDecided
<1>7. Decided(r, d) \in Rec /\ Sound(Decided(r, d)) /\ VotesOf(Decided(r, d)) = VotesOf(r) \cup {d}
  BY <1>1, <1>2, <1>4, DecidedFacts, DecidedSound
<1>8. /\ Decided(r, d).decisions = Append(rec[i].decisions, d)
      /\ Decided(r, d).min = Need(rec[i])
  BY SMT, <1>1, <1>5, DecidedFacts
<1>9. VotesOf(r) = VotesOf(rec[i])
  BY <1>5 DEF VotesOf
<1>10. rec[i].rev + 1 \in Nat
  BY SMT, <1>3 DEF Rec
<1>11. Won(c) = [Decided(r, d) EXCEPT !.rev = rec[i].rev + 1]
  BY DEF Won, i, r, d
<1>12. /\ Won(c) \in Rec /\ Sound(Won(c)) /\ Won(c).rev = rec[i].rev + 1
       /\ VotesOf(Won(c)) = VotesOf(Decided(r, d))
       /\ Won(c).decisions = Decided(r, d).decisions
       /\ Won(c).min = Decided(r, d).min /\ Won(c).superseded = Decided(r, d).superseded
  BY SMT, <1>7, <1>10, <1>11, RevFacts
<1>16. Need(Won(c)) = Need(rec[i])
  BY <1>2, <1>5, <1>8, <1>12 DEF Need
<1>13. ~rec[i].superseded
  BY <1>3, <1>4 DEF Sound
<1>14. ~Decided(r, d).superseded
  <2>1. ~r.superseded
    BY <1>4, <1>5 DEF Sound
  <2> QED BY <1>1, <2>1, DecidedFacts
<1>15. Stored(i, Decided(r, d)) = [rec EXCEPT ![i] = Won(c)]
  BY <1>11 DEF Stored
<1> QED
  BY <1>1, <1>2, <1>3, <1>5, <1>6, <1>7, <1>8, <1>9, <1>12, <1>13, <1>14, <1>15, <1>16 DEF i, r, d

\* The compare-and-set of a decision, won, lost or failed.
LEMMA DecideInv ==
    ASSUME IndInv, NEW c \in Callers, DecideWrite(c)
    PROVE  IndInv'
<1>1. call[c].at = "write" /\ overdue' = overdue /\ todo' = todo /\ kick' = kick
  BY DEF DecideWrite
<1>2. /\ call[c].id \in Ids /\ call[c].by \in Approvers /\ call[c].action \in Actions
      /\ call[c].attempt \in Nat
  BY SMT, <1>1 DEF IndInv, TypeOK, IdleCall
<1>3. /\ call' \in [Callers -> {IdleCall}
            \cup [at : {"read"}, id : Ids, by : Approvers, action : Actions, attempt : Nat]
            \cup [at : {"write"}, id : Ids, by : Approvers, action : Actions, attempt : Nat, row : Rec]]
      /\ \A x \in Callers : call'[x] = call[x] \/ call'[x].at # "write"
  <2>1. CASE call' = [call EXCEPT ![c] = IdleCall]
    BY <2>1 DEF IndInv, TypeOK, IdleCall
  <2>2. CASE call' = [call EXCEPT ![c] = [at |-> "read", id |-> call[c].id, by |-> call[c].by,
                            action |-> call[c].action, attempt |-> call[c].attempt + 1]]
    BY SMT, <1>2, <2>2 DEF IndInv, TypeOK
  <2>3. \/ call' = [call EXCEPT ![c] = IdleCall]
        \/ call' = [call EXCEPT ![c] = [at |-> "read", id |-> call[c].id, by |-> call[c].by,
                            action |-> call[c].action, attempt |-> call[c].attempt + 1]]
    BY DEF DecideWrite, IndInv, TypeOK
  <2> QED BY <2>1, <2>2, <2>3
<1>4. CASE rec' = rec /\ acked' = acked
  BY <1>1, <1>3, <1>4, SameTable, KeepInv DEF IndInv, TypeOK
<1>5. CASE ~(rec' = rec /\ acked' = acked)
  <2>1. /\ StillPending(call[c].id, call[c].row)
        /\ rec' = Stored(call[c].id, Decided(call[c].row, VoteOf(c)))
        /\ acked' \subseteq acked \cup {[id |-> call[c].id, vote |-> VoteOf(c)]}
    BY <1>5 DEF DecideWrite
  <2>2. rec' = [rec EXCEPT ![call[c].id] = Won(c)]
    BY <1>1, <2>1, WinFacts
  <2>3. /\ rec' \in [Ids -> Rec \cup {NoRec}] /\ RecordsSound'
        /\ \A j \in Ids : rec[j] # NoRec => rec'[j] # NoRec
        /\ \A j \in Ids, r \in Rec : Faithful(rec, j, r) => Faithful(rec', j, r)
    BY <1>1, <1>2, <2>1, <2>2, WinFacts, TableAfterWrite
  <2>4. rec'[call[c].id] # NoRec
    BY <1>1, <1>2, <2>1, <2>3, WinFacts, NoRecFresh
  <2>5. acked' \subseteq [id : Ids, vote : Decision] /\ \A v \in acked' : v \in acked \/ rec'[v.id] # NoRec
    <3>1. VoteOf(c) \in Decision
      BY <1>1, <2>1, WinFacts
    <3> DEFINE new == [id |-> call[c].id, vote |-> VoteOf(c)]
    <3>2. new \in [id : Ids, vote : Decision] /\ new.id = call[c].id
      BY <1>2, <3>1
    <3> HIDE DEF new
    <3>3. acked' \subseteq acked \cup {new}
      BY <2>1 DEF new
    <3> QED BY <2>4, <3>2, <3>3 DEF IndInv, TypeOK
  <2> QED BY <1>1, <1>3, <2>3, <2>5, KeepInv DEF IndInv, TypeOK
<1> QED BY <1>4, <1>5

\* What a sweep listed is a faithful copy.
LEMMA SweepCopy ==
    ASSUME IndInv, NEW s \in Sweepers, NEW t \in todo[s]
    PROVE  t.id \in Ids /\ t.row \in Rec /\ Faithful(rec, t.id, t.row)
<1>1. t \in Copy /\ Faithful(rec, t.id, t.row)
  BY DEF IndInv, TypeOK
<1> QED BY <1>1 DEF Copy

\* So is what a kickoff listed.
LEMMA KickCopy ==
    ASSUME IndInv, NEW k \in Kickoffs, NEW t \in kick[k].old
    PROVE  t.id \in Ids /\ t.row \in Rec /\ Faithful(rec, t.id, t.row)
<1>1. t \in Copy /\ Faithful(rec, t.id, t.row)
  BY DEF IndInv, TypeOK
<1> QED BY <1>1 DEF Copy

\* The sweep: listing, expiring one record by compare-and-set, giving up.
LEMMA SweepInv ==
    ASSUME IndInv, NEW s \in Sweepers, SweepList(s) \/ ExpireOne(s) \/ SweepFails(s)
    PROVE  IndInv'
<1>1. overdue' = overdue /\ call' = call /\ kick' = kick /\ acked' = acked
  BY DEF SweepList, ExpireOne, SweepFails
<1>2. CASE SweepList(s)
  <2> DEFINE L == {[id |-> i, row |-> rec[i]] : i \in {j \in overdue : IsPending(j)}}
  <2>1. rec' = rec /\ todo' = [todo EXCEPT ![s] = L]
    BY <1>2 DEF SweepList
  <2>2. \A t \in L : t \in Copy /\ Faithful(rec, t.id, t.row)
    <3>1. \A i \in Ids : IsPending(i) => rec[i] \in Rec /\ Faithful(rec, i, rec[i])
      BY ReadIsFaithful DEF IndInv, TypeOK
    <3>2. overdue \subseteq Ids
      BY DEF IndInv, TypeOK
    <3> QED BY SMT, <3>1, <3>2 DEF Copy
  <2> HIDE DEF L
  <2>3. TypeOK'
    BY <1>1, <2>1, <2>2 DEF IndInv, TypeOK
  <2>4. \A x \in Sweepers : \A t \in todo'[x] : Faithful(rec', t.id, t.row)
    BY <2>1, <2>2 DEF IndInv, TypeOK
  <2> QED BY <1>1, <2>1, <2>3, <2>4 DEF IndInv, RecordsSound
<1>3. CASE SweepFails(s)
  BY <1>1, <1>3, SameTable, KeepInv DEF SweepFails, IndInv, TypeOK
<1>4. CASE ExpireOne(s)
  <2>1. PICK t \in todo[s] :
           /\ todo' = [todo EXCEPT ![s] = @ \ {t}]
           /\ IF StillPending(t.id, t.row)
              THEN rec' = Stored(t.id, [t.row EXCEPT !.status = "expired"])
              ELSE UNCHANGED rec
    BY <1>4 DEF ExpireOne
  <2>2. todo' \in [Sweepers -> SUBSET Copy] /\ \A x \in Sweepers : todo'[x] \subseteq todo[x]
    BY <2>1 DEF IndInv, TypeOK
  <2>3. CASE rec' = rec
    BY <1>1, <2>2, <2>3, SameTable, KeepInv DEF IndInv, TypeOK
  <2>4. CASE StillPending(t.id, t.row)
    <3>1. /\ t.id \in Ids /\ t.row \in Rec /\ Sound(t.row) /\ rec[t.id] # NoRec
          /\ Need(t.row) = Need(rec[t.id])
      BY SweepCopy DEF Faithful
    <3> DEFINE e == [t.row EXCEPT !.status = "expired"]
    <3> DEFINE q == [e EXCEPT !.rev = rec[t.id].rev + 1]
    <3>2. e \in Rec /\ Sound(e) /\ Need(e) = Need(rec[t.id])
      <4>1. e = ExpRow(t.row, FALSE)
        BY <3>1, SweepRow DEF IndInv, Faithful
      <4>2. ExpRow(t.row, FALSE) \in Rec /\ Sound(ExpRow(t.row, FALSE)) /\ Need(ExpRow(t.row, FALSE)) = Need(t.row)
        BY <3>1, ExpiredFacts
      <4> HIDE DEF e
      <4> QED BY <3>1, <4>1, <4>2
    <3>3. rec' = Stored(t.id, e)
      BY <2>1, <2>4
    <3> HIDE DEF e
    <3>4. rec' = [rec EXCEPT ![t.id] = q] /\ q \in Rec /\ q.rev = rec[t.id].rev + 1 /\ rec[t.id].rev + 1 \in Nat
      BY <3>1, <3>2, <3>3, StoredFacts DEF IndInv, TypeOK
    <3>5. Sound(q) /\ Need(q) = Need(rec[t.id])
      BY SMT, <3>2, <3>4, RevFacts
    <3> HIDE DEF q
    <3> QED BY <1>1, <2>2, <3>1, <3>4, <3>5, TableAfterWrite, KeepInv DEF IndInv, TypeOK
  <2> QED BY <2>1, <2>3, <2>4
<1> QED BY <1>2, <1>3, <1>4

\* The kickoff: listing, superseding one record blindly, creating a record.
LEMMA KickoffInv ==
    ASSUME IndInv, NEW k \in Kickoffs, KickoffList(k) \/ SupersedeOne(k) \/ Create(k)
    PROVE  IndInv'
<1>1. overdue' = overdue /\ call' = call /\ todo' = todo /\ acked' = acked
  BY DEF KickoffList, SupersedeOne, Create
<1>2. CASE KickoffList(k)
  <2> DEFINE L == {[id |-> i, row |-> rec[i]] : i \in {j \in Ids : IsPending(j)}}
  <2>1. PICK old \in {{}, L} :
           rec' = rec /\ kick' = [kick EXCEPT ![k] = [at |-> "supersede", old |-> old]]
    BY <1>2 DEF KickoffList
  <2>2. \A t \in old : t \in Copy /\ Faithful(rec, t.id, t.row)
    BY SMT, ReadIsFaithful DEF Copy
  <2> HIDE DEF L
  <2>3. TypeOK'
    BY <1>1, <2>1, <2>2 DEF IndInv, TypeOK
  <2>4. \A x \in Kickoffs : \A t \in kick'[x].old : Faithful(rec', t.id, t.row)
    BY <2>1, <2>2 DEF IndInv, TypeOK
  <2> QED BY <1>1, <2>1, <2>3, <2>4 DEF IndInv, RecordsSound
<1>3. CASE SupersedeOne(k)
  <2>1. PICK t \in kick[k].old :
           /\ kick' = [kick EXCEPT ![k].old = @ \ {t}]
           /\ \/ rec' = Stored(t.id, [t.row EXCEPT !.status = "expired", !.superseded = TRUE])
              \/ UNCHANGED rec
    BY <1>3 DEF SupersedeOne
  <2>2. /\ kick' \in [Kickoffs -> [at : {"idle", "supersede"}, old : SUBSET Copy]]
        /\ \A x \in Kickoffs : kick'[x].old \subseteq kick[x].old
    BY <2>1 DEF IndInv, TypeOK
  <2>3. CASE rec' = rec
    BY <1>1, <2>2, <2>3, SameTable, KeepInv DEF IndInv, TypeOK
  <2>4. CASE rec' = Stored(t.id, [t.row EXCEPT !.status = "expired", !.superseded = TRUE])
    <3>1. /\ t.id \in Ids /\ t.row \in Rec /\ Sound(t.row) /\ rec[t.id] # NoRec
          /\ Need(t.row) = Need(rec[t.id])
      BY KickCopy DEF Faithful
    <3> DEFINE e == [t.row EXCEPT !.status = "expired", !.superseded = TRUE]
    <3> DEFINE q == [e EXCEPT !.rev = rec[t.id].rev + 1]
    <3>2. e \in Rec /\ Sound(e) /\ Need(e) = Need(rec[t.id])
      <4>1. e = ExpRow(t.row, TRUE)
        BY DEF ExpRow
      <4> HIDE DEF e
      <4> QED BY <3>1, <4>1, ExpiredFacts
    <3>3. rec' = Stored(t.id, e)
      BY <2>4
    <3> HIDE DEF e
    <3>4. rec' = [rec EXCEPT ![t.id] = q] /\ q \in Rec /\ q.rev = rec[t.id].rev + 1 /\ rec[t.id].rev + 1 \in Nat
      BY <3>1, <3>2, <3>3, StoredFacts DEF IndInv, TypeOK
    <3>5. Sound(q) /\ Need(q) = Need(rec[t.id])
      BY SMT, <3>2, <3>4, RevFacts
    <3> HIDE DEF q
    <3> QED BY <1>1, <2>2, <3>1, <3>4, <3>5, TableAfterWrite, KeepInv DEF IndInv, TypeOK
  <2> QED BY <2>1, <2>3, <2>4
<1>4. CASE Create(k)
  <2>1. kick' = [kick EXCEPT ![k].at = "idle"]
    BY <1>4 DEF Create
  <2>2. /\ kick' \in [Kickoffs -> [at : {"idle", "supersede"}, old : SUBSET Copy]]
        /\ \A x \in Kickoffs : kick'[x].old \subseteq kick[x].old
    BY <2>1 DEF IndInv, TypeOK
  <2>3. CASE rec' = rec
    BY <1>1, <2>2, <2>3, SameTable, KeepInv DEF IndInv, TypeOK
  <2>4. ASSUME NEW i \in Ids, NEW q \in Requests, rec[i] = NoRec,
               rec' = [rec EXCEPT ![i] = clamp(NewRec(q))]
        PROVE  IndInv'
    <3>1. clamp(NewRec(q)) \in Rec /\ Sound(clamp(NewRec(q)))
      BY NewRecFacts, ClampFacts, ClampSound
    <3> QED BY <1>1, <2>2, <2>4, <3>1, TableAfterWrite, KeepInv DEF IndInv, TypeOK
  <2> QED BY <1>4, <2>3, <2>4 DEF Create
<1> QED BY <1>2, <1>3, <1>4

\* Every step keeps the invariant.
LEMMA StepInv == IndInv /\ [Next]_vars => IndInv'
<1> SUFFICES ASSUME IndInv, [Next]_vars PROVE IndInv'
  OBVIOUS
<1>1. ASSUME NEW c \in Callers, NEW i \in Ids, NEW a \in Approvers, Approve(c, i, a) \/ Reject(c, i, a)
      PROVE  IndInv'
  BY <1>1, AttemptInv DEF Approve, Reject, Actions
<1>2. ASSUME NEW c \in Callers, Retry(c) PROVE IndInv'
  <2>1. call[c].id \in Ids /\ call[c].by \in Approvers /\ call[c].action \in Actions /\ call[c].attempt \in Nat
    BY SMT, <1>2 DEF Retry, IndInv, TypeOK, IdleCall
  <2> QED BY <1>2, <2>1, AttemptInv DEF Retry
<1>3. ASSUME NEW c \in Callers, DecideWrite(c) PROVE IndInv'
  BY <1>3, DecideInv
<1>4. ASSUME NEW i \in Ids, Deadline(i) PROVE IndInv'
  BY <1>4, SameTable, KeepInv DEF Deadline, IndInv, TypeOK
<1>5. ASSUME NEW s \in Sweepers, SweepList(s) \/ ExpireOne(s) \/ SweepFails(s) PROVE IndInv'
  BY <1>5, SweepInv
<1>6. ASSUME NEW k \in Kickoffs, KickoffList(k) \/ SupersedeOne(k) \/ Create(k) PROVE IndInv'
  BY <1>6, KickoffInv
<1>7. CASE UNCHANGED vars
  BY <1>7 DEF vars, IndInv, TypeOK, RecordsSound
<1> QED BY <1>1, <1>2, <1>3, <1>4, <1>5, <1>6, <1>7 DEF Next

\* The inductive invariant holds in every reachable state.
LEMMA Invariance == Spec => []IndInv
  BY InitInv, StepInv, PTL DEF Spec

\* In every reachable state each stored record is sound: one decision per
\* eligible person, and a status its decisions justify.
THEOREM RecordsAreSound == Spec => []RecordsSound
<1>1. IndInv => RecordsSound
  BY DEF IndInv
<1> QED BY <1>1, Invariance, PTL
------------------------------------------------------------------------------
(* What a step does to the table: nothing, a vote, an expiry, a supersession *)
(* or a new record.                                                          *)

Casts(c) ==
    /\ call[c].at = "write"
    /\ StillPending(call[c].id, call[c].row)
    /\ rec' = [rec EXCEPT ![call[c].id] = Won(c)]
    /\ acked' \subseteq acked \cup {[id |-> call[c].id, vote |-> VoteOf(c)]}

Expires(i, q) ==
    /\ IsPending(i)
    /\ rec' = [rec EXCEPT ![i] = q]
    /\ q.status = "expired" /\ ~q.superseded
    /\ VotesOf(q) = VotesOf(rec[i]) /\ Need(q) = Need(rec[i])

Supersedes(i, q) ==
    /\ rec[i] # NoRec
    /\ rec' = [rec EXCEPT ![i] = q]
    /\ q.superseded /\ Need(q) = Need(rec[i])

Inserts(i, q) ==
    /\ rec[i] = NoRec
    /\ rec' = [rec EXCEPT ![i] = q]
    /\ q.status = "pending" /\ ~q.superseded /\ q.decisions = <<>> /\ Need(q) \in Nat \ {0}

\* Every step leaves the table alone or is one of the four writes above.
LEMMA TableStep ==
    ASSUME IndInv, [Next]_vars
    PROVE  \/ rec' = rec /\ acked' = acked
           \/ \E c \in Callers : Casts(c)
           \/ acked' = acked /\ \E i \in Ids, q \in Rec : Expires(i, q) \/ Supersedes(i, q) \/ Inserts(i, q)
<1>1. ASSUME NEW c \in Callers, DecideWrite(c), ~(rec' = rec /\ acked' = acked) PROVE Casts(c)
  <2>1. /\ call[c].at = "write"
        /\ StillPending(call[c].id, call[c].row)
        /\ rec' = Stored(call[c].id, Decided(call[c].row, VoteOf(c)))
        /\ acked' \subseteq acked \cup {[id |-> call[c].id, vote |-> VoteOf(c)]}
    BY <1>1 DEF DecideWrite
  <2> QED BY <2>1, WinFacts DEF Casts
<1>2. ASSUME NEW s \in Sweepers, ExpireOne(s), rec' # rec
      PROVE  \E i \in Ids, q \in Rec : Expires(i, q)
  <2>1. PICK t \in todo[s] :
           /\ StillPending(t.id, t.row)
           /\ rec' = Stored(t.id, [t.row EXCEPT !.status = "expired"])
    BY <1>2 DEF ExpireOne
  <2>2. t.id \in Ids /\ t.row \in Rec /\ Faithful(rec, t.id, t.row)
    BY SMT DEF IndInv, TypeOK, Copy
  <2>3. rec[t.id] # NoRec /\ rec[t.id] \in Rec /\ t.row \in {rec[t.id], clamp(rec[t.id])} /\ IsPending(t.id)
    BY <2>1, <2>2 DEF Faithful, StillPending, IsPending, IndInv, TypeOK
  <2>4. VotesOf(t.row) = VotesOf(rec[t.id]) /\ Need(t.row) = Need(rec[t.id])
    BY SMT, <2>2, <2>3, ClampFacts DEF VotesOf, Faithful
  <2> DEFINE e == [t.row EXCEPT !.status = "expired"]
  <2> DEFINE q == [e EXCEPT !.rev = rec[t.id].rev + 1]
  <2>5. e = ExpRow(t.row, FALSE)
    BY <2>2, SweepRow DEF Faithful
  <2>6. e \in Rec /\ e.status = "expired" /\ ~e.superseded /\ VotesOf(e) = VotesOf(t.row) /\ Need(e) = Need(t.row)
    BY <2>2, <2>5, ExpiredFacts DEF Faithful
  <2>7. rec' = Stored(t.id, e)
    BY <2>1
  <2> HIDE DEF e
  <2>8. rec' = [rec EXCEPT ![t.id] = q] /\ rec[t.id].rev + 1 \in Nat
    BY <2>2, <2>3, <2>6, <2>7, StoredFacts DEF IndInv, TypeOK
  <2>9. q \in Rec /\ q.status = "expired" /\ ~q.superseded /\ VotesOf(q) = VotesOf(e) /\ Need(q) = Need(e)
    BY SMT, <2>6, <2>8, RevFacts
  <2> HIDE DEF q
  <2>10. Expires(t.id, q)
    BY <2>3, <2>4, <2>6, <2>8, <2>9 DEF Expires
  <2> QED BY <2>2, <2>9, <2>10
<1>3. ASSUME NEW k \in Kickoffs, SupersedeOne(k), rec' # rec
      PROVE  \E i \in Ids, q \in Rec : Supersedes(i, q)
  <2>1. PICK t \in kick[k].old :
           rec' = Stored(t.id, [t.row EXCEPT !.status = "expired", !.superseded = TRUE])
    BY <1>3 DEF SupersedeOne
  <2>2. t.id \in Ids /\ t.row \in Rec /\ Sound(t.row) /\ rec[t.id] # NoRec /\ Need(t.row) = Need(rec[t.id])
    BY KickCopy DEF Faithful
  <2>2a. rec[t.id] \in Rec
    BY <2>2 DEF IndInv, TypeOK
  <2> DEFINE e == ExpRow(t.row, TRUE)
  <2> DEFINE q == [e EXCEPT !.rev = rec[t.id].rev + 1]
  <2>3. e \in Rec /\ e.superseded /\ Need(e) = Need(t.row)
    BY <2>2, ExpiredFacts
  <2>4. rec' = Stored(t.id, e)
    BY <2>1 DEF ExpRow
  <2> HIDE DEF e
  <2>5. rec' = [rec EXCEPT ![t.id] = q] /\ rec[t.id].rev + 1 \in Nat
    BY SMT, <2>2a, <2>4 DEF Stored, Rec
  <2>6. q \in Rec /\ q.superseded /\ Need(q) = Need(e)
    BY SMT, <2>3, <2>5, RevFacts
  <2> HIDE DEF q
  <2>7. Supersedes(t.id, q)
    BY <2>2, <2>3, <2>5, <2>6 DEF Supersedes
  <2> QED BY <2>2, <2>6, <2>7
<1>4. ASSUME NEW k \in Kickoffs, Create(k), rec' # rec
      PROVE  \E i \in Ids, q \in Rec : Inserts(i, q)
  <2>1. PICK i \in Ids, req \in Requests : rec[i] = NoRec /\ rec' = [rec EXCEPT ![i] = clamp(NewRec(req))]
    BY <1>4 DEF Create
  <2>2. NewRec(req) \in Rec /\ NewRec(req).decisions = <<>> /\ NewRec(req).status = "pending" /\ ~NewRec(req).superseded
    BY NewRecFacts DEF NewRec
  <2>3. clamp(NewRec(req)) \in Rec /\ clamp(NewRec(req)).min \in Nat /\ clamp(NewRec(req)).min # 0
    BY <2>2, ClampFacts DEF Rec
  <2>4. Need(clamp(NewRec(req))) \in Nat \ {0}
    BY <2>3 DEF Need
  <2>5. Inserts(i, clamp(NewRec(req)))
    BY <2>1, <2>2, <2>4, ClampFacts DEF Inserts
  <2> QED BY <2>3, <2>5
<1>5. CASE UNCHANGED vars
  BY <1>5 DEF vars
<1>6. ASSUME NEW c \in Callers, NEW i \in Ids, NEW a \in Approvers, Approve(c, i, a) \/ Reject(c, i, a)
      PROVE  rec' = rec /\ acked' = acked
  BY <1>6 DEF Approve, Reject, Attempt
<1>7. ASSUME NEW c \in Callers, Retry(c) PROVE rec' = rec /\ acked' = acked
  BY <1>7 DEF Retry, Attempt
<1>8. ASSUME NEW s \in Sweepers, SweepList(s) \/ SweepFails(s) PROVE rec' = rec /\ acked' = acked
  BY <1>8 DEF SweepList, SweepFails
<1>9. ASSUME NEW k \in Kickoffs, KickoffList(k) PROVE rec' = rec /\ acked' = acked
  BY <1>9 DEF KickoffList
<1>10. ASSUME NEW i \in Ids, Deadline(i) PROVE rec' = rec /\ acked' = acked
  BY <1>10 DEF Deadline
<1>11. ASSUME NEW s \in Sweepers, ExpireOne(s) PROVE acked' = acked
  BY <1>11 DEF ExpireOne
<1>12. ASSUME NEW k \in Kickoffs, SupersedeOne(k) \/ Create(k) PROVE acked' = acked
  BY <1>12 DEF SupersedeOne, Create
<1> QED
  BY <1>1, <1>2, <1>3, <1>4, <1>5, <1>6, <1>7, <1>8, <1>9, <1>10, <1>11, <1>12 DEF Next
------------------------------------------------------------------------------
(* Votes and finality *)

\* In every reachable state a vote whose caller was told "recorded" is in its
\* record, unless a re-plan superseded the record.
THEOREM AckedVotesCount == Spec => []AckedVoteCounts
<1>1. Init => AckedVoteCounts
  BY DEF Init, AckedVoteCounts
<1>2. IndInv /\ AckedVoteCounts /\ [Next]_vars => AckedVoteCounts'
  <2> SUFFICES ASSUME IndInv, AckedVoteCounts, [Next]_vars, NEW v \in acked'
               PROVE  rec'[v.id].superseded \/ v.vote \in VotesOf(rec'[v.id])
    BY DEF AckedVoteCounts, VotesOf
  <2>0. rec \in [Ids -> Rec \cup {NoRec}] /\ \A w \in acked : w.id \in Ids /\ rec[w.id] # NoRec
    BY DEF IndInv, TypeOK
  <2>1. CASE rec' = rec /\ acked' = acked
    BY <2>1 DEF AckedVoteCounts
  <2>2. ASSUME NEW c \in Callers, Casts(c)
        PROVE  rec'[v.id].superseded \/ v.vote \in VotesOf(rec'[v.id])
    <3>1. /\ call[c].id \in Ids /\ rec' = [rec EXCEPT ![call[c].id] = Won(c)]
          /\ VotesOf(Won(c)) = VotesOf(rec[call[c].id]) \cup {VoteOf(c)}
          /\ ~rec[call[c].id].superseded
      BY <2>2, WinFacts DEF Casts
    <3>2. CASE v = [id |-> call[c].id, vote |-> VoteOf(c)]
      BY <2>0, <3>1, <3>2
    <3>3. CASE v \in acked
      <4>1. v.id \in Ids /\ (rec[v.id].superseded \/ v.vote \in VotesOf(rec[v.id]))
        BY <2>0, <3>3 DEF AckedVoteCounts
      <4>2. CASE v.id = call[c].id
        BY <2>0, <3>1, <4>1, <4>2
      <4>3. CASE v.id # call[c].id
        BY <2>0, <3>1, <4>1, <4>3
      <4> QED BY <4>2, <4>3
    <3> QED BY <2>2, <3>2, <3>3 DEF Casts
  <2>3. ASSUME acked' = acked, NEW i \in Ids, NEW q \in Rec, Expires(i, q) \/ Supersedes(i, q) \/ Inserts(i, q)
        PROVE  rec'[v.id].superseded \/ v.vote \in VotesOf(rec'[v.id])
    <3>1. v.id \in Ids /\ rec[v.id] # NoRec /\ (rec[v.id].superseded \/ v.vote \in VotesOf(rec[v.id]))
      BY <2>0, <2>3 DEF AckedVoteCounts
    <3>2. CASE v.id # i
      BY <2>0, <2>3, <3>1, <3>2 DEF Expires, Supersedes, Inserts
    <3>3. CASE v.id = i /\ Expires(i, q)
      <4>1. ~rec[i].superseded
        BY <2>0, <3>3 DEF Expires, IsPending, IndInv, RecordsSound, Sound
      <4> QED BY <2>0, <3>1, <3>3, <4>1 DEF Expires
    <3>4. CASE v.id = i /\ Supersedes(i, q)
      BY <2>0, <3>4 DEF Supersedes
    <3> QED BY <2>3, <3>1, <3>2, <3>3, <3>4 DEF Inserts
  <2> QED BY <2>1, <2>2, <2>3, TableStep
<1> QED BY <1>1, <1>2, Invariance, PTL DEF Spec

\* A record that left pending changes no more, except that a re-plan may
\* supersede it.
THEOREM SettledRecordsStay == Spec => SettledStays
<1>1. IndInv /\ [Next]_vars =>
         [\A i \in Ids : rec[i] # NoRec /\ rec[i].status # "pending" /\ rec'[i] # rec[i]
                         => rec'[i].superseded]_vars
  <2> SUFFICES ASSUME IndInv, [Next]_vars, NEW i \in Ids,
                      rec[i] # NoRec, rec[i].status # "pending", rec'[i] # rec[i]
               PROVE  rec'[i].superseded
    OBVIOUS
  <2>0. rec \in [Ids -> Rec \cup {NoRec}]
    BY DEF IndInv, TypeOK
  <2>1. ASSUME NEW c \in Callers, Casts(c) PROVE FALSE
    BY <2>0, <2>1, WinFacts DEF Casts
  <2>2. ASSUME NEW j \in Ids, NEW q \in Rec, Expires(j, q) \/ Inserts(j, q) PROVE FALSE
    BY <2>0, <2>2 DEF Expires, Inserts, IsPending
  <2>3. ASSUME NEW j \in Ids, NEW q \in Rec, Supersedes(j, q) PROVE rec'[i].superseded
    BY <2>0, <2>3 DEF Supersedes
  <2> QED BY <2>1, <2>2, <2>3, TableStep
<1> QED BY <1>1, Invariance, PTL DEF Spec, SettledStays
------------------------------------------------------------------------------
(* The refinement *)

\* As nobody decides twice, counting decisions is counting votes.
LEMMA CountIsVotes ==
    ASSUME NEW r \in Rec,
           \A d, e \in 1..Len(r.decisions) : r.decisions[d].by = r.decisions[e].by => d = e
    PROVE  countApproves(r.decisions) = Cardinality(Ballots!ApprovesIn(VotesOf(r)))
<1> DEFINE ds == r.decisions
<1> DEFINE n == Len(ds)
<1> DEFINE V == Ballots!ApprovesIn(VotesOf(r))
<1> DEFINE f == [d \in Idx(ds) |-> ds[d]]
<1>1. n \in Nat
  BY SMT DEF Rec
<1>2. Idx(ds) \subseteq 1..n
  BY DEF Idx
<1>3. IsFiniteSet(Idx(ds))
  <2> HIDE DEF n
  <2>1. IsFiniteSet(1..n)
    BY SMT, <1>1, FS_Interval
  <2> QED BY <1>2, <2>1, FS_Subset
<1>4. \A d \in Idx(ds) : f[d] \in V
  BY DEF Idx, VotesOf, Ballots!ApprovesIn
<1>5. \A v \in V : \E d \in Idx(ds) : f[d] = v
  BY DEF Idx, VotesOf, Ballots!ApprovesIn
<1>6. \A d, e \in Idx(ds) : f[d] = f[e] => d = e
  BY DEF Idx
<1>7. f \in [Idx(ds) -> V]
  BY <1>4
<1> HIDE DEF f, V
<1>8. f \in Bijection(Idx(ds), V)
  BY <1>5, <1>6, <1>7 DEF Bijection, Injection, Surjection, IsInjective
<1>9. ExistsBijection(Idx(ds), V)
  BY <1>8 DEF ExistsBijection
<1>10. Cardinality(V) = Cardinality(Idx(ds))
  <2> HIDE DEF ds
  <2> QED BY <1>3, <1>9, FS_Bijection
<1> QED BY <1>10 DEF V, countApproves, Idx

\* What a write of row i does to the ballots.
LEMMA BallotsAfterWrite ==
    ASSUME rec \in [Ids -> Rec \cup {NoRec}], NEW i \in Ids, NEW q \in Rec,
           rec' = [rec EXCEPT ![i] = q]
    PROVE  /\ outcomes' = [outcomes EXCEPT ![i] = OutcomeOf(q)]
           /\ needs' = [needs EXCEPT ![i] = Need(q)]
           /\ casts' = [casts EXCEPT ![i] = CastIn(q)]
<1>1. q # NoRec
  BY NoRecFresh
<1>2. rec'[i] = q /\ \A j \in Ids \ {i} : rec'[j] = rec[j]
  OBVIOUS
<1>3. NeedOf(q) = Need(q)
  BY <1>1 DEF NeedOf
<1>4. \A j \in Ids : OutcomeOf(rec'[j]) = IF j = i THEN OutcomeOf(q) ELSE OutcomeOf(rec[j])
  BY <1>2
<1>5. \A j \in Ids : NeedOf(rec'[j]) = IF j = i THEN Need(q) ELSE NeedOf(rec[j])
  BY <1>2, <1>3
<1>6. \A j \in Ids : CastIn(rec'[j]) = IF j = i THEN CastIn(q) ELSE CastIn(rec[j])
  BY <1>2
<1>7. /\ outcomes' = [j \in Ids |-> OutcomeOf(rec'[j])]
      /\ needs' = [j \in Ids |-> NeedOf(rec'[j])]
      /\ casts' = [j \in Ids |-> CastIn(rec'[j])]
  BY DEF outcomes, needs, casts, OutcomeOf, NeedOf, CastIn, Need, VotesOf
<1> QED BY <1>4, <1>5, <1>6, <1>7 DEF outcomes, needs, casts

\* A winning decision is a vote on the ballot.
LEMMA CastsIsCastVote ==
    ASSUME IndInv, NEW c \in Callers, Casts(c)
    PROVE  /\ VoteOf(c) \in Ballots!Vote
           /\ Ballots!CastVote(call[c].id, VoteOf(c))
<1> DEFINE i == call[c].id
<1> DEFINE d == VoteOf(c)
<1> DEFINE r == rec[i]
<1> DEFINE q == Won(c)
<1>1. /\ i \in Ids /\ d \in Decision /\ r \in Rec /\ r.status = "pending" /\ MayDecide(r, d.by)
      /\ q \in Rec /\ Sound(q) /\ VotesOf(q) = VotesOf(r) \cup {d}
      /\ q.decisions = Append(r.decisions, d) /\ Need(q) = Need(r)
      /\ q.min = Need(r) /\ q.min # 0 /\ ~q.superseded /\ ~r.superseded
  BY WinFacts DEF Casts
<1>2. rec \in [Ids -> Rec \cup {NoRec}] /\ rec' = [rec EXCEPT ![i] = q]
  BY DEF Casts, IndInv, TypeOK
<1>3. r # NoRec /\ q # NoRec
  BY <1>1, NoRecFresh
<1>4. OutcomeOf(r) = "pending" /\ OutcomeOf(q) = q.status /\ CastIn(r) = VotesOf(r) /\ CastIn(q) = VotesOf(r) \cup {d}
  BY <1>1, <1>3 DEF OutcomeOf, CastIn
<1>5. \A w \in VotesOf(r) : w.by # d.by
  BY <1>1 DEF MayDecide, hasDecided, VotesOf
<1>6. q.status = IF Ballots!VetoIn(VotesOf(q)) THEN "rejected"
                 ELSE IF Cardinality(Ballots!ApprovesIn(VotesOf(q))) >= Need(r)
                      THEN "approved" ELSE "pending"
  <2>1. countApproves(q.decisions) = Cardinality(Ballots!ApprovesIn(VotesOf(q)))
    BY <1>1, CountIsVotes DEF Sound
  <2>2. q.status \in {"pending", "approved", "rejected"}
    <3>1. call[c].row \in Rec /\ call[c].row.status = "pending"
      BY SMT DEF Casts, IndInv, TypeOK, IdleCall, Faithful
    <3>2. Decided(call[c].row, d) \in Rec /\ Decided(call[c].row, d).status \in {"pending", "approved", "rejected"}
      BY <1>1, <3>1, DecidedFacts
    <3>3. r.rev + 1 \in Nat
      BY <1>1, RevNext
    <3> QED BY SMT, <3>2, <3>3, RevFacts DEF Won
  <2>3. countApproves(q.decisions) \in Nat /\ Need(r) \in Nat
    BY <1>1, CountAppend DEF Rec
  <2>4. CASE q.status = "rejected"
    BY <1>1, <2>4 DEF Sound, VotesOf, Ballots!VetoIn
  <2>5. CASE q.status \in {"pending", "approved"}
    <3>1. ~Ballots!VetoIn(VotesOf(q))
      BY <1>1, <2>5 DEF Sound, VotesOf, Ballots!VetoIn
    <3>2. (q.status = "pending" => countApproves(q.decisions) < Need(r))
          /\ (q.status = "approved" => countApproves(q.decisions) >= Need(r))
      BY <1>1, <2>5 DEF Sound
    <3> QED BY <2>1, <2>3, <2>5, <3>1, <3>2, SMTT(30)
  <2> QED BY <2>2, <2>4, <2>5
<1>7. /\ outcomes' = [outcomes EXCEPT ![i] = q.status]
      /\ needs' = [needs EXCEPT ![i] = Need(r)]
      /\ casts' = [casts EXCEPT ![i] = VotesOf(r) \cup {d}]
  <2> HIDE DEF i, d, r, q
  <2>1. i \in Ids /\ q \in Rec
    BY <1>1
  <2>2. /\ outcomes' = [outcomes EXCEPT ![i] = OutcomeOf(q)]
        /\ needs' = [needs EXCEPT ![i] = Need(q)]
        /\ casts' = [casts EXCEPT ![i] = CastIn(q)]
    BY <1>2, <2>1, BallotsAfterWrite
  <2> QED BY <1>1, <1>4, <2>2
<1>8. /\ outcomes[i] = "pending" /\ needs[i] = Need(r) /\ casts[i] = VotesOf(r)
      /\ needs \in [Ids -> {NeedOf(rec[j]) : j \in Ids}]
  BY <1>1, <1>3, <1>4 DEF outcomes, needs, casts, NeedOf
<1>9. needs' = needs
  BY <1>1, <1>7, <1>8
<1>10. d \in Ballots!Vote
  BY <1>1 DEF Decision, Actions, Ballots!Vote
<1> HIDE DEF i, d, r, q
<1>11. Ballots!CastVote(i, d)
  <2>1. outcomes[i] = "pending" /\ \A w \in casts[i] : w.by # d.by
    BY <1>5, <1>8
  <2>2. casts' = [casts EXCEPT ![i] = casts[i] \cup {d}]
    BY <1>7, <1>8
  <2>3. Ballots!Verdict(i, casts[i] \cup {d}) = q.status
    <3> DEFINE V == casts[i] \cup {d}
    <3>1. VotesOf(q) = V /\ Need(r) = needs[i]
      BY <1>1, <1>8
    <3> HIDE DEF V
    <3>2. q.status = IF Ballots!VetoIn(V) THEN "rejected"
                     ELSE IF Cardinality(Ballots!ApprovesIn(V)) >= needs[i]
                          THEN "approved" ELSE "pending"
      BY <1>6, <3>1
    <3>3. \A S : Ballots!Cardinality(S) = Cardinality(S)
      BY DEF Ballots!Cardinality, Cardinality
    <3>4. Ballots!Verdict(i, V) = q.status
      BY <3>2, <3>3 DEF Ballots!Verdict
    <3> QED BY <3>4 DEF V
  <2>4. outcomes' = [outcomes EXCEPT ![i] = Ballots!Verdict(i, casts[i] \cup {d})]
    BY <1>7, <2>3
  <2> QED BY <1>9, <2>1, <2>2, <2>4 DEF Ballots!CastVote
<1> QED BY <1>10, <1>11 DEF i, d

\* The approval service implements the ballot: every interleaving of reads,
\* retries, expiry sweeps and kickoffs amounts to a sequence of single votes,
\* expiries, withdrawals and openings.
THEOREM ImplementsBallot == Spec => IsBallot
<1>1. Init => Ballots!BallotInit
  <2> SUFFICES ASSUME Init PROVE Ballots!BallotInit
    OBVIOUS
  <2>1. \A i \in Ids : /\ OutcomeOf(rec[i]) \in {"none", "pending"}
                       /\ NeedOf(rec[i]) \in Nat \ {0}
                       /\ CastIn(rec[i]) = {}
    <3> SUFFICES ASSUME NEW i \in Ids
                 PROVE  /\ OutcomeOf(rec[i]) \in {"none", "pending"}
                        /\ NeedOf(rec[i]) \in Nat \ {0}
                        /\ CastIn(rec[i]) = {}
      OBVIOUS
    <3>1. CASE rec[i] = NoRec
      BY SMT, <3>1 DEF OutcomeOf, NeedOf, CastIn
    <3>2. ASSUME NEW req \in Requests, rec[i] = NewRec(req)
          PROVE  /\ OutcomeOf(rec[i]) \in {"none", "pending"}
                 /\ NeedOf(rec[i]) \in Nat \ {0}
                 /\ CastIn(rec[i]) = {}
      <4>1. rec[i] # NoRec /\ rec[i].status = "pending" /\ ~rec[i].superseded
            /\ rec[i].decisions = <<>> /\ rec[i].min \in Nat
        BY SMT, <3>2, NewRecFacts, NoRecFresh, RequestsType DEF NewRec, Request
      <4> QED BY SMT, <4>1 DEF OutcomeOf, NeedOf, Need, CastIn, VotesOf
    <3> QED BY <3>1, <3>2 DEF Init
  <2> QED BY <2>1 DEF Ballots!BallotInit, outcomes, needs, casts
<1>2. IndInv /\ [Next]_vars => [Ballots!BallotNext]_(Ballots!ballotVars)
  <2> SUFFICES ASSUME IndInv, [Next]_vars
               PROVE  Ballots!BallotNext \/ UNCHANGED <<outcomes, needs, casts>>
    BY DEF Ballots!ballotVars
  <2>0. rec \in [Ids -> Rec \cup {NoRec}]
    BY DEF IndInv, TypeOK
  <2>1. CASE rec' = rec
    BY <2>1 DEF outcomes, needs, casts, OutcomeOf, NeedOf, CastIn, Need, VotesOf
  <2>2. ASSUME NEW c \in Callers, Casts(c) PROVE Ballots!BallotNext
    <3>1. call[c].id \in Ids
      BY <2>2, WinFacts DEF Casts
    <3> QED BY <2>2, <3>1, CastsIsCastVote DEF Ballots!BallotNext
  <2>3. ASSUME NEW i \in Ids, NEW q \in Rec, rec' = [rec EXCEPT ![i] = q],
               Expires(i, q) \/ Supersedes(i, q) \/ Inserts(i, q)
        PROVE  Ballots!BallotNext
    <3> DEFINE r == rec[i]
    <3>1. /\ outcomes' = [outcomes EXCEPT ![i] = OutcomeOf(q)]
          /\ needs' = [needs EXCEPT ![i] = Need(q)]
          /\ casts' = [casts EXCEPT ![i] = CastIn(q)]
      BY <2>0, <2>3, BallotsAfterWrite
    <3>2. /\ outcomes[i] = OutcomeOf(r) /\ needs[i] = NeedOf(r) /\ casts[i] = CastIn(r)
          /\ outcomes = [j \in Ids |-> outcomes[j]]
          /\ needs = [j \in Ids |-> needs[j]]
          /\ casts = [j \in Ids |-> casts[j]]
      BY DEF outcomes, needs, casts
    <3>3. q # NoRec
      BY NoRecFresh
    <3>4. CASE Expires(i, q)
      <4>1. r # NoRec /\ r.status = "pending" /\ ~r.superseded
        BY <3>4 DEF Expires, IsPending, IndInv, RecordsSound, Sound
      <4>2. /\ outcomes[i] = "pending" /\ OutcomeOf(q) = "expired"
            /\ Need(q) = needs[i] /\ CastIn(q) = casts[i]
        BY <3>2, <3>3, <3>4, <4>1 DEF Expires, OutcomeOf, NeedOf, CastIn
      <4>3. Ballots!Expire(i)
        BY <3>1, <3>2, <4>2 DEF Ballots!Expire
      <4> QED BY <4>3 DEF Ballots!BallotNext
    <3>5. CASE Supersedes(i, q)
      <4>1. outcomes[i] # "none"
        <5>1. r # NoRec /\ r \in Rec
          BY <2>0, <3>5 DEF Supersedes
        <5> QED BY <3>2, <5>1 DEF OutcomeOf, Rec, RecStatus
      <4>2. OutcomeOf(q) = "withdrawn" /\ Need(q) = needs[i] /\ CastIn(q) = {}
        BY <3>2, <3>3, <3>5 DEF Supersedes, OutcomeOf, NeedOf, CastIn
      <4>3. Ballots!Withdraw(i)
        BY <3>1, <3>2, <4>1, <4>2 DEF Ballots!Withdraw
      <4> QED BY <4>3 DEF Ballots!BallotNext
    <3>6. CASE Inserts(i, q)
      <4>1. outcomes[i] = "none" /\ OutcomeOf(q) = "pending" /\ CastIn(q) = {} /\ casts[i] = {}
        BY SMT, <3>2, <3>3, <3>6 DEF Inserts, OutcomeOf, CastIn, VotesOf
      <4>2. Need(q) \in Nat \ {0}
        BY <3>6 DEF Inserts
      <4>3. needs'[i] = Need(q) /\ casts' = casts
        BY <3>1, <3>2, <4>1
      <4>4. Ballots!Open(i)
        BY <3>1, <4>1, <4>2, <4>3 DEF Ballots!Open
      <4> QED BY <4>4 DEF Ballots!BallotNext
    <3> QED BY <2>3, <3>4, <3>5, <3>6
  <2>4. ASSUME NEW i \in Ids, NEW q \in Rec, Expires(i, q) \/ Supersedes(i, q) \/ Inserts(i, q)
        PROVE  Ballots!BallotNext
    BY <2>3, <2>4 DEF Expires, Supersedes, Inserts
  <2> QED BY <2>1, <2>2, <2>4, TableStep
<1> QED BY <1>1, <1>2, Invariance, PTL DEF Spec, IsBallot, Ballots!BallotSpec
==============================================================================
