-------------------------- MODULE AuditChainProofs --------------------------
(***************************************************************************)
(* The safety of the hash chains for any number of rows, any page size and *)
(* any number of edits: what seals leave behind, what they report, and     *)
(* that a walk nothing disturbs closes the chain.                          *)
(***************************************************************************)
EXTENDS AuditChain, SequenceTheorems, FiniteSetTheorems, WellFoundedInduction, TLAPS

\* Most leaves are first-order; those that need more name another prover.
USE Zenon

(* A digest is a hash, is not the empty one, and tells contents and        *)
(* encodings apart.                                                        *)
LEMMA Digest ==
    ASSUME NEW id \in Positions, NEW c \in Content, NEW before \in Hash
    PROVE  /\ ComputeHash(id, c, before) \in Hash
           /\ ComputeHash(id, c, before) # NoHash
           /\ Len(ComputeHash(id, c, before)) = Len(before) + 1
           /\ \A d \in Content :
                /\ ComputeHash(id, c, before) = ComputeHash(id, d, before) => c = d
                /\ LegacyHash(id, c, before) = LegacyHash(id, d, before) => c = d
                /\ ComputeHash(id, c, before) # LegacyHash(id, d, before)
  <1> DEFINE E == Positions \X Content \X Encoding
  <1>1. before \in Seq(E) /\ \A d \in Content, e \in Encoding : <<id, d, e>> \in E
    BY DEF Hash
  <1>5. "V1" \in Encoding /\ "V2" \in Encoding /\ "V1" # "V2"
    BY DEF Encoding
  <1> HIDE DEF E
  <1>2. /\ ComputeHash(id, c, before) \in Seq(E)
        /\ ComputeHash(id, c, before) # NoHash
        /\ Len(ComputeHash(id, c, before)) = Len(before) + 1
    BY <1>1, <1>5, AppendProperties DEF ComputeHash, NoHash
  <1>3. ASSUME NEW d \in Content, NEW x \in Encoding, NEW y \in Encoding,
               Append(before, <<id, c, x>>) = Append(before, <<id, d, y>>)
        PROVE  c = d /\ x = y
    <2>1. <<id, c, x>> = <<id, d, y>>
      BY SMT, <1>1, <1>3, AppendInjective
    <2>2. QED
      BY <2>1
  <1>4. QED
    BY <1>2, <1>3, <1>5 DEF Hash, E, ComputeHash, LegacyHash

(* The chain of k + 1 rows is the chain of k rows with one more stamped,   *)
(* in either encoding.                                                     *)
LEMMA ChainGrows ==
    ASSUME NEW enc \in Encoding, NEW k \in Nat
    PROVE  /\ ChainIn(enc, k) \in Seq(Nat \X Content \X Encoding)
           /\ Len(ChainIn(enc, k)) = k
           /\ ChainIn(enc, 0) = NoHash
           /\ ChainIn(enc, k + 1) = Append(ChainIn(enc, k), <<k + 1, "original", enc>>)
           /\ ChainIn(enc, k + 1) # NoHash
  <1>1. ASSUME NEW n \in Nat
        PROVE  /\ ChainIn(enc, n) \in Seq(Nat \X Content \X Encoding)
               /\ Len(ChainIn(enc, n)) = n
    <2>1. ChainIn(enc, n) \in [1 .. n -> Nat \X Content \X Encoding]
      BY SMT DEF ChainIn, Content
    <2>2. QED
      BY SMT, <2>1, SeqDef, LenProperties
  <1>2. ChainIn(enc, 0) = NoHash
    BY <1>1, EmptySeq DEF NoHash
  <1>3. ChainIn(enc, k + 1) = Append(ChainIn(enc, k), <<k + 1, "original", enc>>)
    <2> DEFINE D == Nat \X Content \X Encoding
               x == <<k + 1, "original", enc>>
               t == ChainIn(enc, k)
               u == ChainIn(enc, k + 1)
               s == Append(t, x)
    <2>0. x \in D
      BY SMT DEF Content
    <2>1. x \in D /\ t \in Seq(D) /\ u \in Seq(D)
      BY <1>1, <2>0
    <2>2. Len(t) = k /\ Len(u) = k + 1
      BY SMT, <1>1
    <2>3. /\ u[k + 1] = x
          /\ \A i \in 1 .. k : u[i] = t[i]
      BY SMT DEF ChainIn
    <2> HIDE DEF D, x, t, u
    <2>4. /\ s \in Seq(D)
          /\ Len(s) = Len(t) + 1
          /\ \A i \in 1 .. Len(t) : s[i] = t[i]
          /\ s[Len(t) + 1] = x
      BY SMT, <2>1, AppendProperties
    <2> HIDE DEF s
    <2>5. \A i \in 1 .. Len(s) : s[i] = u[i]
      BY SMT, <2>2, <2>3, <2>4
    <2>6. s = u
      BY <2>1, <2>2, <2>4, <2>5, SeqEqual
    <2>7. QED
      BY <2>6 DEF s, t, u, x
  <1>4. ChainIn(enc, k + 1) # NoHash
    <2>1. Len(ChainIn(enc, k + 1)) = k + 1
      BY SMT, <1>1
    <2>2. Len(NoHash) # k + 1
      BY SMT DEF NoHash
    <2>3. QED
      BY <2>1, <2>2
  <1>5. QED
    BY <1>1, <1>2, <1>3, <1>4

(* What a seal writes in a trace chain that grows in order.                *)
LEMMA ChainStep ==
    ASSUME NEW k \in Nat
    PROVE  /\ Len(Chain(k)) = k
           /\ Chain(0) = NoHash
           /\ Chain(k + 1) = ComputeHash(k + 1, "original", Chain(k))
           /\ Chain(k + 1) # NoHash
  BY ChainGrows DEF Chain, ComputeHash, Encoding

(* The facts about a row's hashes and content that the walks rely on hold  *)
(* of the initial table.                                                   *)
LEMMA InitInv == Init => IndInv
  <1> SUFFICES ASSUME Init PROVE IndInv
    OBVIOUS
  <1>1. NoHash \in Hash /\ Len(NoHash) = 0
    BY EmptySeq DEF NoHash, Hash
  <1>a. PICK old \in 0 .. N :
         /\ kind = "audit" => old = 0
         /\ rows = [p \in Positions |->
                      IF p <= old
                      THEN [there |-> TRUE, content |-> "original",
                            prev |-> ChainIn("V1", p - 1), curr |-> ChainIn("V1", p)]
                      ELSE [there |-> FALSE, content |-> "original",
                            prev |-> NoHash, curr |-> NoHash]]
         /\ pc = [w \in Positions |-> IF w <= old THEN "sealed" ELSE "new"]
         /\ regular = (old = 0)
    BY DEF Init
  <1>b. ASSUME NEW p \in Positions
        PROVE  /\ ChainIn("V1", p - 1) \in Hash /\ ChainIn("V1", p) \in Hash
               /\ ChainIn("V1", p) # NoHash
               /\ ChainIn("V1", p) = LegacyHash(p, "original", ChainIn("V1", p - 1))
    <2>1. p \in Nat /\ p - 1 \in Nat /\ p = (p - 1) + 1 /\ p <= N
      BY SMT, ChainSizes DEF Positions
    <2>2. \A n \in 0 .. N : ChainIn("V1", n) \in Hash
      <3>1. TAKE n \in 0 .. N
      <3>2. ChainIn("V1", n) \in [1 .. n -> Positions \X Content \X Encoding] /\ n \in Nat
        BY SMT, ChainSizes DEF ChainIn, Positions, Content, Encoding
      <3>3. QED
        BY SMT, <3>2, SeqDef DEF Hash
    <2>3. p \in 0 .. N /\ p - 1 \in 0 .. N
      BY SMT, <2>1, ChainSizes
    <2>4. /\ ChainIn("V1", (p - 1) + 1)
               = Append(ChainIn("V1", p - 1), <<(p - 1) + 1, "original", "V1">>)
          /\ ChainIn("V1", (p - 1) + 1) # NoHash
      BY <2>1, ChainGrows DEF Encoding
    <2>5. QED
      BY <2>1, <2>2, <2>3, <2>4 DEF LegacyHash
  <1>2. TypeOK
    <2>1. rows \in [Positions -> Row]
      BY <1>1, <1>a, <1>b DEF Row, Content
    <2>2. QED
      BY <1>1, <1>a, <2>1 DEF Init, TypeOK
  <1>c. \A p \in Positions : kind = "audit" => ~(p <= old)
    BY SMT, <1>a, ChainSizes DEF Positions
  <1>3. RowsCovered /\ PagesCovered /\ NoFalseAlarm
    <2>1. RowsCovered
      <3>1. SUFFICES ASSUME NEW p \in Positions
                     PROVE  /\ SealCovers(kind, p, rows[p].content, rows[p].prev, rows[p].curr)
                            /\ pc[p] # "new" <=> rows[p].there
                            /\ rows[p].curr # NoHash => rows[p].there
        BY DEF RowsCovered
      <3>2. CASE p <= old
        <4>1. kind = "trace"
          BY <1>c, <3>2 DEF Init
        <4>2. QED
          BY <1>a, <1>b, <3>2, <4>1 DEF SealCovers
      <3>3. CASE ~(p <= old)
        BY <1>a, <3>3 DEF SealCovers
      <3>4. QED
        BY <3>2, <3>3
    <2>2. PagesCovered /\ NoFalseAlarm
      BY <1>a DEF Init, PagesCovered, NoFalseAlarm
    <2>3. QED
      BY <2>1, <2>2
  <1>4. regular => InOrder
    <2>1. Chain(0) = NoHash
      BY ChainStep
    <2>2. regular => \A p \in Positions : ~(p <= old)
      <3>1. regular => old = 0
        BY <1>a
      <3>2. \A p \in Positions : ~(p <= 0)
        BY SMT, ChainSizes DEF Positions
      <3>3. QED
        BY <3>1, <3>2
    <2>3. ASSUME regular
          PROVE  \A p \in Positions : ~rows[p].there /\ rows[p].curr = NoHash
      BY <1>a, <2>2, <2>3
    <2>4. \A w \in Positions : /\ ~more[w] /\ cursor[w] = 0 /\ page[w] = {}
                               /\ prev[w] = NoHash /\ Len(prev[w]) = 0
      BY <1>1 DEF Init
    <2>5. QED
      BY <2>1, <2>3, <2>4 DEF InOrder
  <1>5. QED
    BY <1>2, <1>3, <1>4 DEF IndInv

(* What Seal needs to know of the row it is at.  A row it may stamp, or    *)
(* finds steady, has its original content.                                 *)
LEMMA Passed ==
    ASSUME IndInv, NEW w \in Positions, NEW a \in page[w],
           Steady(a, prev[w]) \/ MayStamp(a)
    PROVE  a.content = "original"
  <1> USE DEF IndInv
  <1>1. /\ a.id \in Positions /\ a.content \in Content
        /\ a.prev \in Hash /\ a.curr \in Hash
    BY SMT DEF TypeOK, Read
  <1>2. SealCovers(kind, a.id, a.content, a.prev, a.curr)
    BY DEF PagesCovered
  <1>3. "original" \in Content
    BY DEF Content
  <1>4. CASE a.curr = NoHash
    BY <1>2, <1>4 DEF SealCovers
  <1>5. CASE a.curr # NoHash
    <2>1. \/ a.curr = ComputeHash(a.id, "original", a.prev)
          \/ a.curr = LegacyHash(a.id, "original", a.prev)
      BY <1>2, <1>5 DEF SealCovers
    <2>2. a.curr = ComputeHash(a.id, a.content, a.prev)
      BY <1>5 DEF Steady, MayStamp, Relinkable
    <2>3. QED
      BY <1>1, <1>3, <2>1, <2>2, Digest
  <1>6. QED
    BY <1>4, <1>5

(* In a trace chain that grew in order the row a walk is at is the next    *)
(* one of the chain it has passed, so it is refused only for its content.  *)
LEMMA NextInChain ==
    ASSUME IndInv, kind = "trace", regular, NEW w \in Positions, NEW a \in page[w],
           Current(w, a)
    PROVE  /\ a.id = Len(prev[w]) + 1
           /\ ComputeHash(a.id, "original", prev[w]) = Chain(a.id)
           /\ prev[w] = Chain(a.id - 1)
  <1>1. /\ InOrder /\ TypeOK
        /\ a.id \in Positions /\ prev[w] \in Hash
    BY SMT DEF IndInv, TypeOK, Read
  <1>2. Len(prev[w]) \in Nat
    BY <1>1, LenProperties DEF Hash
  <1>3. Len(prev[w]) < a.id /\ prev[w] = Chain(Len(prev[w]))
    BY <1>1 DEF InOrder
  <1>4. a.id \in Nat
    BY SMT, <1>1, ChainSizes DEF Positions
  <1>5. a.id = Len(prev[w]) + 1
    <2>1. Len(prev[w]) + 1 \in Len(prev[w]) + 1 .. a.id
      BY SMT, <1>2, <1>3, <1>4
    <2>2. PICK b \in page[w] : b.id = Len(prev[w]) + 1
      BY SMT, <1>1, <2>1 DEF InOrder
    <2>3. a.id <= b.id
      BY DEF Current
    <2>4. QED
      BY SMT, <1>2, <1>3, <1>4, <2>2, <2>3
  <1>6. QED
    BY SMT, <1>2, <1>3, <1>5, ChainStep

(* Every step keeps the invariant: the walks only ever stamp original      *)
(* content, and an edit never touches the hashes.                          *)
LEMMA StepInv == IndInv /\ [Next]_vars => IndInv'
  <1> SUFFICES ASSUME IndInv, [Next]_vars PROVE IndInv'
    OBVIOUS
  <1>0. /\ TypeOK /\ RowsCovered /\ PagesCovered /\ NoFalseAlarm
        /\ kind = "trace" /\ regular => InOrder
    BY DEF IndInv
  <1>1. ASSUME NEW w \in Positions, Insert(w) PROVE IndInv'
    <2>1. TypeOK'
      BY <1>0, <1>1 DEF Insert, TypeOK, Row
    <2>2. RowsCovered'
      BY SMT, <1>0, <1>1 DEF Insert, TypeOK, Row, RowsCovered
    <2>3. PagesCovered'
      <3>1. \A p \in Positions : /\ rows[p].there => rows'[p].there
                                 /\ rows'[p].curr = rows[p].curr
                                 /\ rows'[p].content = rows[p].content
        BY <1>0, <1>1 DEF Insert, TypeOK, Row
      <3>2. \A v \in Positions : \A a \in page[v] : a.id \in Positions
        BY SMT, <1>0 DEF TypeOK, Read
      <3>3. QED
        BY SMT, <1>0, <1>1, <3>1, <3>2 DEF Insert, PagesCovered
    <2>4. NoFalseAlarm'
      BY <1>0, <1>1 DEF Insert, TypeOK, Row, NoFalseAlarm, Altered
    <2>5. ASSUME kind' = "trace", regular' PROVE InOrder'
      <3>1. InOrder /\ kind = "trace" /\ \A p \in 1 .. w - 1 : rows[p].there
        BY <1>0, <1>1, <2>5 DEF Insert, TypeOK
      <3>2. \A p \in Positions : /\ p # w => rows'[p] = rows[p]
                                 /\ rows'[p].curr = rows[p].curr
                                 /\ rows'[p].prev = rows[p].prev
        BY <1>0, <1>1 DEF Insert, TypeOK, Row
      <3>10. rows'[w].there
        <4>1. rows' = [rows EXCEPT ![w].there = TRUE] /\ rows \in [Positions -> Row]
          BY <1>0, <1>1 DEF Insert, TypeOK
        <4>2. rows'[w] = [rows[w] EXCEPT !.there = TRUE] /\ rows[w] \in Row
          BY <4>1
        <4>3. QED
          BY <4>2 DEF Row
      <3>3. \A v \in Positions :
              pc'[v] = pc[v] \/ (pc'[v] = "list" /\ pc[v] = "new")
        <4>1. pc[w] = "new" /\ pc' = [pc EXCEPT ![w] = "list"]
          BY <1>1 DEF Insert
        <4>2. DOMAIN pc = Positions
          BY <1>0 DEF TypeOK
        <4>3. QED
          BY <4>1, <4>2
      <3>9. prev' = prev /\ page' = page /\ more' = more /\ cursor' = cursor
        BY <1>1 DEF Insert
      <3>4. \A p \in Positions :
              rows'[p].there => \A q \in 1 .. p - 1 : rows'[q].there
        <4>1. \A p \in Positions : rows[p].there => \A q \in 1 .. p - 1 : rows[q].there
          BY <3>1 DEF InOrder
        <4>2. \A p \in Positions : \A q \in 1 .. p - 1 : q \in Positions
          BY SMT, ChainSizes DEF Positions
        <4>3. \A p \in Positions : rows[p].there => rows'[p].there
          BY <3>2, <3>10
        <4>4. SUFFICES ASSUME NEW p \in Positions, rows'[p].there, NEW q \in 1 .. p - 1
                       PROVE  rows[q].there
          BY <4>2, <4>3
        <4>5. CASE p = w
          BY <3>1, <4>5
        <4>6. CASE p # w
          <5>1. rows[p].there
            BY <3>2, <4>4, <4>6
          <5>2. QED
            BY <4>1, <5>1
        <4>7. QED
          BY <4>5, <4>6
      <3>5. QED
        BY SMT, <3>1, <3>2, <3>3, <3>4, <3>9 DEF InOrder
    <2>6. QED
      BY <2>1, <2>2, <2>3, <2>4, <2>5 DEF IndInv
  <1>2. ASSUME NEW w \in Positions, List(w) PROVE IndInv'
    <2> DEFINE read == InPage(cursor[w])
    <2>1. read \subseteq Listed(cursor[w]) /\ read \subseteq Positions
      BY DEF InPage, Listed
    <2>2. \A p \in read : rows[p].there /\ p \in Positions
      BY <2>1 DEF Listed
    <2>3. /\ page' = [page EXCEPT ![w] = {Snapshot(p) : p \in read}]
          /\ more' = [more EXCEPT ![w] = PageFull(Cardinality(read))]
          /\ pc[w] = "list" /\ pc' = [pc EXCEPT ![w] = "walk"]
          /\ UNCHANGED <<kind, rows, prev, quiet, regular>>
      BY <1>2 DEF List
    <2> HIDE DEF read
    <2>4. {Snapshot(p) : p \in read} \subseteq Read
      BY SMT, <1>0, <2>2 DEF Snapshot, Read, TypeOK, Row
    <2>5. TypeOK'
      BY <1>0, <2>3, <2>4 DEF TypeOK, PageFull
    <2>6. RowsCovered'
      BY <1>0, <2>3 DEF TypeOK, RowsCovered
    <2>7. PagesCovered'
      <3>1. ASSUME NEW v \in Positions, NEW a \in page'[v]
            PROVE  /\ SealCovers(kind, a.id, a.content, a.prev, a.curr)
                   /\ rows'[a.id].there
                   /\ a.curr # NoHash => rows'[a.id].curr # NoHash
                   /\ a.content = "altered" => rows'[a.id].content = "altered"
                   /\ \A b \in page'[v] : a.id = b.id => a = b
        <4>1. CASE v = w
          <5>1. page'[v] = {Snapshot(p) : p \in read}
            BY <1>0, <2>3, <4>1 DEF TypeOK
          <5>2. PICK p \in read : a = Snapshot(p)
            BY <5>1
          <5>3. a.id = p /\ a.content = rows[p].content /\ a.prev = rows[p].prev
                /\ a.curr = rows[p].curr
            BY <5>2 DEF Snapshot
          <5>4. \A b \in page'[v] : a.id = b.id => a = b
            BY SMT, <5>1, <5>2 DEF Snapshot
          <5>5. QED
            BY <1>0, <2>2, <2>3, <5>3, <5>4 DEF RowsCovered
        <4>2. CASE v # w
          BY <1>0, <2>3, <4>2 DEF TypeOK, PagesCovered
        <4>3. QED
          BY <4>1, <4>2
      <3>2. QED
        BY <2>3, <3>1 DEF PagesCovered
    <2>8. NoFalseAlarm'
      BY <1>0, <2>3 DEF TypeOK, NoFalseAlarm, Altered
    <2>9. ASSUME kind' = "trace", regular' PROVE InOrder'
      <3>1. InOrder /\ kind = "trace"
        BY <1>0, <2>3, <2>9
      <3>2. cursor[w] = 0 /\ prev[w] = NoHash /\ Len(prev[w]) = 0
        BY <2>3, <3>1, EmptySeq DEF InOrder, NoHash
      <3>3. read = {p \in Positions : rows[p].there}
        BY SMT, <3>1, <3>2, ChainSizes DEF read, InPage, Listed, Positions
      <3>5. \A v \in Positions : ~more'[v]
        BY <1>0, <2>3, <3>1 DEF TypeOK, InOrder, PageFull
      <3>6. page'[w] = {Snapshot(p) : p \in read} /\ pc'[w] = "walk"
        BY <1>0, <2>3 DEF TypeOK
      <3>7. \A a \in page'[w] :
              /\ Len(prev[w]) < a.id
              /\ \A q \in Len(prev[w]) + 1 .. a.id : \E b \in page'[w] : b.id = q
              /\ a.curr # NoHash => a.prev = Chain(a.id - 1) /\ a.curr = Chain(a.id)
        <4>1. TAKE a \in page'[w]
        <4>2. PICK p \in read : a = Snapshot(p)
          BY <3>6
        <4>3. a.id = p /\ a.prev = rows[p].prev /\ a.curr = rows[p].curr
          BY <4>2 DEF Snapshot
        <4>4. p \in Positions /\ p \in Nat /\ 0 < p
          BY SMT, <2>2, ChainSizes DEF Positions
        <4>5. \A q \in 1 .. p : q \in read
          BY SMT, <2>2, <3>1, <3>3, <4>4, ChainSizes DEF InOrder, Positions
        <4>6. \A q \in 1 .. p : Snapshot(q) \in page'[w] /\ Snapshot(q).id = q
          BY <3>6, <4>5 DEF Snapshot
        <4>7. QED
          BY SMT, <3>1, <3>2, <4>3, <4>4, <4>6 DEF InOrder
      <3>9. \A v \in Positions : v # w =>
              pc'[v] = pc[v] /\ page'[v] = page[v] /\ cursor'[v] = cursor[v]
        BY SMT, <1>0, <1>2 DEF TypeOK, List
      <3>10. QED
        BY SMT, <2>3, <3>1, <3>5, <3>6, <3>7, <3>9 DEF InOrder
    <2>10. QED
      BY <2>5, <2>6, <2>7, <2>8, <2>9 DEF IndInv
  <1>3. ASSUME NEW w \in Positions, Seal(w) PROVE IndInv'
    <2>1. PICK a \in page[w] :
            /\ Current(w, a)
            /\ Steady(a, prev[w]) \/ MayStamp(a)
            /\ \/ Steady(a, prev[w]) /\ rows' = rows
               \/ UpdateChain(a.id, prev[w], ComputeHash(a.id, a.content, prev[w]))
            /\ prev' = [prev EXCEPT ![w] = Carried(a, @)]
            /\ page' = [page EXCEPT ![w] = @ \ {a}]
      BY <1>3 DEF Seal
    <2>2. a.id \in Positions /\ a \in Read /\ prev[w] \in Hash /\ "original" \in Content
      BY SMT, <1>0 DEF TypeOK, Read, Content
    <2>3. a.content = "original"
      BY <2>1, Passed
    <2> DEFINE want == ComputeHash(a.id, "original", prev[w])
    <2>4. want \in Hash /\ want # NoHash
      BY <2>2, Digest
    <2>5. prev' = [prev EXCEPT ![w] = want]
      BY <2>1, <2>3 DEF Carried
    <2> HIDE DEF want
    <2>6. /\ rows' \in [Positions -> Row]
          /\ \A p \in Positions :
               /\ rows'[p].there = rows[p].there
               /\ rows'[p].content = rows[p].content
               /\ \/ rows'[p] = rows[p]
                  \/ p = a.id /\ rows'[p].prev = prev[w] /\ rows'[p].curr = want
          /\ rows'[a.id].curr # NoHash
      <3>1. CASE Steady(a, prev[w]) /\ rows' = rows
        <4>1. a.curr # NoHash
          BY <2>3, <2>4, <3>1 DEF Steady, want
        <4>2. rows[a.id].curr # NoHash
          BY <1>0, <4>1 DEF PagesCovered
        <4>3. QED
          BY <1>0, <3>1, <4>2 DEF TypeOK
      <3>2. CASE UpdateChain(a.id, prev[w], ComputeHash(a.id, a.content, prev[w]))
        <4>1. rows' = [rows EXCEPT ![a.id].prev = prev[w], ![a.id].curr = want]
          BY <2>3, <3>2 DEF UpdateChain, want
        <4>2. rows \in [Positions -> Row]
          BY <1>0 DEF TypeOK
        <4>3. QED
          BY <2>2, <2>4, <4>1, <4>2 DEF Row
      <3>3. QED
        BY <2>1, <3>1, <3>2
    <2>7. /\ \A v \in Positions : page'[v] \subseteq page[v]
          /\ \A v \in Positions : v # w => page'[v] = page[v] /\ prev'[v] = prev[v]
          /\ page'[w] = page[w] \ {a} /\ prev'[w] = want
          /\ UNCHANGED <<kind, pc, more, cursor, quiet, regular>>
      BY <1>0, <1>3, <2>1, <2>5 DEF Seal, TypeOK
    <2>8. TypeOK'
      <3>1. page' \in [Positions -> SUBSET Read] /\ prev' \in [Positions -> Hash]
        BY <1>0, <2>1, <2>4, <2>5 DEF TypeOK
      <3>2. QED
        BY <1>0, <2>6, <2>7, <3>1 DEF TypeOK
    <2>9. RowsCovered'
      <3>1. SUFFICES ASSUME NEW p \in Positions
                     PROVE  /\ SealCovers(kind, p, rows'[p].content, rows'[p].prev, rows'[p].curr)
                            /\ pc'[p] # "new" <=> rows'[p].there
                            /\ rows'[p].curr # NoHash => rows'[p].there
        BY <2>7 DEF RowsCovered
      <3>2. CASE rows'[p] = rows[p]
        BY <1>0, <2>7, <3>2 DEF RowsCovered
      <3>3. CASE p = a.id /\ rows'[p].prev = prev[w] /\ rows'[p].curr = want
        <4>1. SealCovers(kind, p, rows'[p].content, rows'[p].prev, rows'[p].curr)
          BY <2>4, <3>3 DEF SealCovers, want
        <4>2. rows[p].there /\ rows'[p].there = rows[p].there
          BY <1>0, <2>6, <3>3 DEF PagesCovered
        <4>3. QED
          BY <1>0, <2>7, <4>1, <4>2 DEF RowsCovered
      <3>4. QED
        BY <2>6, <3>2, <3>3
    <2>10. \A p \in Positions : rows[p].curr # NoHash => rows'[p].curr # NoHash
      BY <2>6
    <2>11. PagesCovered'
      <3>1. \A v \in Positions : \A b \in page[v] : b.id \in Positions
        BY SMT, <1>0 DEF TypeOK, Read
      <3>2. QED
        BY SMT, <1>0, <2>6, <2>7, <2>10, <3>1 DEF PagesCovered
    <2>12. NoFalseAlarm'
      BY <1>0, <2>6, <2>7 DEF NoFalseAlarm, Altered
    <2>13. ASSUME kind' = "trace", regular' PROVE InOrder'
      <3>1. InOrder /\ kind = "trace"
        BY <1>0, <2>7, <2>13
      <3>r. regular
        BY <2>7, <2>13
      <3>2. /\ a.id = Len(prev[w]) + 1 /\ want = Chain(a.id)
            /\ prev[w] = Chain(a.id - 1)
        BY <2>1, <3>1, <3>r, NextInChain DEF want
      <3>3. a.id \in Nat /\ 0 < a.id /\ a.id <= N /\ Len(want) = a.id
        <4>1. a.id \in Nat /\ 0 < a.id /\ a.id <= N
          BY SMT, <2>2, ChainSizes DEF Positions
        <4>2. Len(Chain(a.id)) = a.id
          BY <4>1, ChainStep
        <4>3. QED
          BY <3>2, <4>1, <4>2
      <3>4. \A p \in Positions : rows'[p].curr # NoHash =>
              rows'[p].prev = Chain(p - 1) /\ rows'[p].curr = Chain(p)
        BY SMT, <2>6, <3>1, <3>2 DEF InOrder
      <3>7. Len(prev[w]) \in Nat
        BY <1>0, LenProperties DEF TypeOK, Hash
      <3>9. \A b \in page'[w] :
              /\ a.id < b.id
              /\ \A q \in a.id + 1 .. b.id : \E c \in page'[w] : c.id = q
              /\ b.curr # NoHash => b.prev = Chain(b.id - 1) /\ b.curr = Chain(b.id)
        <4>1. TAKE b \in page'[w]
        <4>2. b \in page[w] /\ b # a /\ b.id \in Nat
          BY SMT, <1>0, <2>7, ChainSizes DEF TypeOK, Read, Positions
        <4>3. a.id <= b.id /\ a.id # b.id
          BY <1>0, <2>1, <4>2 DEF Current, PagesCovered
        <4>4. ASSUME NEW q \in a.id + 1 .. b.id PROVE \E c \in page'[w] : c.id = q
          <5>1. q \in Len(prev[w]) + 1 .. b.id /\ q # a.id
            BY SMT, <3>2, <3>3, <3>7, <4>2
          <5>2. PICK c \in page[w] : c.id = q
            BY SMT, <3>1, <4>2, <5>1 DEF InOrder
          <5>3. QED
            BY <2>7, <5>1, <5>2
        <4>5. QED
          BY SMT, <3>1, <3>3, <4>2, <4>3, <4>4 DEF InOrder
      <3>11. pc[w] = "walk"
        BY <1>3 DEF Seal
      <3>12. \A p \in Positions : rows'[p].there =>
               \A q \in 1 .. p - 1 : rows'[q].there
        BY SMT, <2>6, <3>1, ChainSizes DEF InOrder, Positions
      <3>13. QED
        BY SMT, <2>7, <3>1, <3>2, <3>3, <3>4, <3>9, <3>11, <3>12 DEF InOrder
    <2>14. QED
      BY <2>8, <2>9, <2>11, <2>12, <2>13 DEF IndInv
  <1>4. ASSUME NEW w \in Positions, Refuse(w) PROVE IndInv'
    <2>1. PICK a \in page[w] : Current(w, a) /\ ~Steady(a, prev[w]) /\ ~MayStamp(a)
      BY <1>4 DEF Refuse
    <2>2. /\ a.id \in Positions /\ a.content \in Content
          /\ SealCovers(kind, a.id, a.content, a.prev, a.curr) /\ a.curr # NoHash
      BY SMT, <1>0, <2>1 DEF TypeOK, Read, PagesCovered, MayStamp
    <2>3. a.content = "altered" \/ (kind = "trace" /\ ~regular)
      <3>1. SUFFICES ASSUME a.content = "original", kind = "trace" => regular PROVE FALSE
        BY <1>0, <2>2 DEF Content, TypeOK
      <3>3. kind = "trace" /\ regular
        BY <1>0, <2>1, <2>2, <3>1 DEF MayStamp, Relinkable, SealCovers, TypeOK
      <3>4. a.prev = Chain(a.id - 1) /\ a.curr = Chain(a.id)
        BY <1>0, <2>2, <3>3 DEF InOrder
      <3>5. ComputeHash(a.id, "original", prev[w]) = Chain(a.id)
            /\ prev[w] = Chain(a.id - 1)
        BY <2>1, <3>3, NextInChain
      <3>6. QED
        BY <2>1, <3>1, <3>4, <3>5 DEF Steady
    <2>4. a.id \in Altered \/ (kind = "trace" /\ ~regular)
      BY <1>0, <2>2, <2>3 DEF PagesCovered, Altered
    <2>5. /\ pc' = [pc EXCEPT ![w] = "refused"] /\ pc[w] = "walk"
          /\ page' = [page EXCEPT ![w] = {}]
          /\ UNCHANGED <<kind, rows, more, cursor, prev, quiet, regular>>
      BY <1>4 DEF Refuse
    <2>6. TypeOK' /\ RowsCovered' /\ PagesCovered'
      BY <1>0, <2>5 DEF TypeOK, RowsCovered, PagesCovered
    <2>7. NoFalseAlarm'
      BY <2>4, <2>5 DEF NoFalseAlarm, Altered
    <2>8. ASSUME kind' = "trace", regular' PROVE InOrder'
      <3>1. InOrder
        BY <1>0, <2>5, <2>8
      <3>2. \A v \in Positions : \/ pc'[v] = pc[v] /\ page'[v] = page[v]
                                 \/ pc'[v] = "refused" /\ page'[v] = {}
        BY <1>0, <2>5 DEF TypeOK
      <3>3. QED
        BY SMT, <2>5, <3>1, <3>2 DEF InOrder
    <2>9. QED
      BY <2>6, <2>7, <2>8 DEF IndInv
  <1>5. ASSUME NEW w \in Positions, EndPage(w) PROVE IndInv'
    <2>1. /\ pc[w] = "walk" /\ page[w] = {}
          /\ pc' = [pc EXCEPT ![w] = IF more[w] THEN "list" ELSE "sealed"]
          /\ UNCHANGED <<kind, rows, page, more, cursor, prev, quiet, regular>>
      BY <1>5 DEF EndPage
    <2>2. TypeOK' /\ RowsCovered' /\ PagesCovered' /\ NoFalseAlarm'
      BY <1>0, <2>1 DEF TypeOK, RowsCovered, PagesCovered, NoFalseAlarm, Altered
    <2>3. ASSUME kind' = "trace", regular' PROVE InOrder'
      <3>1. InOrder /\ pc' = [pc EXCEPT ![w] = "sealed"]
        BY <1>0, <2>1, <2>3 DEF InOrder
      <3>3. QED
        BY SMT, <1>0, <2>1, <3>1 DEF InOrder, TypeOK
    <2>4. QED
      BY <2>2, <2>3 DEF IndInv
  <1>6. ASSUME NEW w \in Positions, Fail(w) PROVE IndInv'
    <2>1. /\ pc[w] \in {"list", "walk"} /\ pc' = [pc EXCEPT ![w] = "failed"]
          /\ page' = [page EXCEPT ![w] = {}]
          /\ UNCHANGED <<kind, rows, more, cursor, prev, quiet, regular>>
      BY <1>6 DEF Fail, Walking
    <2>2. TypeOK' /\ RowsCovered' /\ PagesCovered' /\ NoFalseAlarm'
      BY <1>0, <2>1 DEF TypeOK, RowsCovered, PagesCovered, NoFalseAlarm, Altered
    <2>3. ASSUME kind' = "trace", regular' PROVE InOrder'
      BY SMT, <1>0, <2>1, <2>3 DEF InOrder, TypeOK
    <2>4. QED
      BY <2>2, <2>3 DEF IndInv
  <1>7. ASSUME NEW w \in Positions, Alter(w) PROVE IndInv'
    <2>1. /\ rows[w].curr # NoHash
          /\ rows' = [rows EXCEPT ![w].content = "altered"]
          /\ quiet' = [v \in Positions |-> FALSE]
          /\ UNCHANGED <<kind, pc, page, more, cursor, prev, regular>>
      BY <1>7 DEF Alter
    <2>2. TypeOK'
      BY <1>0, <2>1 DEF TypeOK, Row, Content
    <2>3. \A p \in Positions :
            /\ rows'[p].there = rows[p].there
            /\ rows'[p].prev = rows[p].prev /\ rows'[p].curr = rows[p].curr
            /\ rows'[p].content = IF p = w THEN "altered" ELSE rows[p].content
      BY <1>0, <2>1 DEF TypeOK, Row
    <2>4. RowsCovered'
      BY ZenonT(30), <1>0, <2>1, <2>3 DEF RowsCovered, SealCovers
    <2>5. PagesCovered'
      <3>1. \A v \in Positions : \A a \in page[v] : a.id \in Positions
        BY SMT, <1>0 DEF TypeOK, Read
      <3>2. QED
        BY SMT, <1>0, <2>1, <2>3, <3>1 DEF PagesCovered
    <2>6. NoFalseAlarm'
      BY <2>3 DEF NoFalseAlarm, Altered
    <2>7. ASSUME kind' = "trace", regular' PROVE InOrder'
      <3>1. InOrder
        BY <1>0, <2>1, <2>7
      <3>3. \A p \in Positions : \A q \in 1 .. p - 1 : q \in Positions
        BY SMT, ChainSizes DEF Positions
      <3>4. QED
        BY SMT, <2>1, <2>3, <3>1, <3>3 DEF InOrder
    <2>8. QED
      BY <2>2, <2>4, <2>5, <2>6, <2>7 DEF IndInv
  <1>8. CASE UNCHANGED vars
    BY <1>0, <1>8, SMTT(30) DEF vars, IndInv, TypeOK, RowsCovered, PagesCovered, NoFalseAlarm,
                      Altered, InOrder
  <1>9. QED
    BY <1>1, <1>2, <1>3, <1>4, <1>5, <1>6, <1>7, <1>8 DEF Next

(* Inductive invariance of the chain's invariant.                          *)
THEOREM Invariance == Spec => []IndInv
  BY InitInv, StepInv, PTL DEF Spec

(* No interleaving of walks ever gives edited content a hash that verifies.*)
THEOREM EditsStayVisible == Spec => []AlteredNeverVerifies
  <1>1. IndInv => AlteredNeverVerifies
    <2> SUFFICES ASSUME IndInv, NEW p \in Positions, rows[p].content = "altered"
                 PROVE  rows[p].there /\ FailsAt(p)
      BY DEF AlteredNeverVerifies, Altered, Failures
    <2>0. /\ SealCovers(kind, p, rows[p].content, rows[p].prev, rows[p].curr)
          /\ rows[p].curr # NoHash => rows[p].there
      BY DEF IndInv, RowsCovered
    <2>4. rows[p].there
      BY <2>0 DEF SealCovers
    <2> SUFFICES ASSUME ~FailsAt(p) PROVE FALSE
      BY <2>4
    <2>1. /\ \/ rows[p].curr = ComputeHash(p, "original", rows[p].prev)
             \/ rows[p].curr = LegacyHash(p, "original", rows[p].prev)
          /\ rows[p].prev \in Hash
      BY DEF IndInv, RowsCovered, SealCovers, TypeOK, Row, FailsAt
    <2>2. \/ rows[p].curr = ComputeHash(p, "altered", rows[p].prev)
          \/ rows[p].curr = LegacyHash(p, "altered", rows[p].prev)
      BY DEF FailsAt
    <2>3. QED
      BY <2>1, <2>2, Digest DEF Content
  <1>2. QED
    BY <1>1, Invariance, PTL

(* Legal writes never make a seal of the audit chain refuse, and one of a  *)
(* trace chain only after a row came late or was sealed before V2.         *)
THEOREM OnlyEditsAreRefused == Spec => []NoFalseAlarm
  <1>1. IndInv => NoFalseAlarm
    BY DEF IndInv
  <1>2. QED
    BY <1>1, Invariance, PTL

----------------------------------------------------------------------------
(* Undisturbed walks.                                                      *)

(* Every non-empty set of naturals has a least member.                     *)
LEMMA LeastNumber ==
    ASSUME NEW S \in SUBSET Nat, S # {}
    PROVE  \E x \in S : \A y \in S : x <= y
  <1>1. OpToRel(<, Nat) = {ss \in Nat \X Nat : ss[1] < ss[2]}
    BY DEF OpToRel
  <1>2. PICK x \in S : \A y \in S : ~(<<y, x>> \in {ss \in Nat \X Nat : ss[1] < ss[2]})
    BY <1>1, WFMin, NatLessThanWellFounded, Zenon
  <1>3. ASSUME NEW y \in S PROVE x <= y
    <2>1. <<y, x>> \in Nat \X Nat
      OBVIOUS
    <2>2. ~(<<y, x>>[1] < <<y, x>>[2])
      BY <1>2, <2>1
    <2>3. QED
      BY SMT, <2>2
  <1>4. QED
    BY <1>3

(* ... and a non-empty set of positions a last one.                        *)
LEMMA LastPosition ==
    ASSUME NEW S \in SUBSET Positions, S # {}
    PROVE  Max(S) \in S /\ \A y \in S : y <= Max(S)
  <1> DEFINE T == {k \in Nat : \E x \in S : k = N - x}
  <1>0. \A x \in S : x \in Nat /\ x <= N /\ N \in Nat
    BY SMT, ChainSizes DEF Positions
  <1>1. T \in SUBSET Nat /\ T # {}
    <2>1. \A x \in S : N - x \in T
      BY SMT, <1>0
    <2>2. QED
      BY <2>1
  <1>2. PICK k \in T : \A l \in T : k <= l
    BY <1>1, LeastNumber
  <1>3. PICK x \in S : k = N - x
    OBVIOUS
  <1>4. \A y \in S : x >= y
    <2>1. TAKE y \in S
    <2>2. N - y \in T
      BY SMT, <1>0
    <2>3. N - x <= N - y
      BY <1>2, <1>3, <2>2
    <2>4. QED
      BY SMT, <1>0, <2>3
  <1>5. Max(S) \in S /\ \A y \in S : Max(S) >= y
    BY <1>4 DEF Max
  <1>6. QED
    BY <1>0, <1>5

(* A page is an initial part of the rows after the cursor, and one that is *)
(* not full is all of them.                                                *)
LEMMA PageOfRows ==
    ASSUME kind \in {"audit", "trace"}, NEW c \in 0 .. N
    PROVE  /\ InPage(c) \subseteq Listed(c)
           /\ \A p \in InPage(c), q \in Listed(c) : q < p => q \in InPage(c)
           /\ ~PageFull(Cardinality(InPage(c))) => InPage(c) = Listed(c)
  <1> DEFINE L == Listed(c)
             R == InPage(c)
             Below(p) == {q \in L : q < p}
  <1>0. L \in SUBSET Positions /\ \A p \in L : p \in Nat
    BY SMT, ChainSizes DEF Listed, Positions
  <1>1. CASE kind = "trace"
    BY <1>1 DEF InPage
  <1>2. CASE kind = "audit"
    <2>1. R = {p \in L : Cardinality(Below(p)) < PageSize}
      BY <1>2 DEF InPage
    <2> HIDE DEF L, R
    <2>2. IsFiniteSet(L)
      <3>1. IsFiniteSet(Positions)
        BY SMT, ChainSizes, FS_Interval DEF Positions
      <3>2. QED
        BY <1>0, <3>1, FS_Subset
    <2>3. \A p \in L : IsFiniteSet(Below(p)) /\ Cardinality(Below(p)) \in Nat
      BY <2>2, FS_Subset, FS_CardinalityType
    <2>4. ASSUME NEW p \in L, NEW q \in L, q <= p
          PROVE  Cardinality(Below(q)) <= Cardinality(Below(p))
      <3>1. Below(q) \in SUBSET Below(p)
        BY SMT, <1>0, <2>4
      <3>2. QED
        BY <2>3, <3>1, FS_Subset
    <2>5. ASSUME NEW p \in R, NEW q \in L, q < p PROVE q \in R
      <3>1. p \in L /\ q <= p
        BY SMT, <1>0, <2>1, <2>5
      <3>2. Cardinality(Below(q)) <= Cardinality(Below(p))
        BY <2>4, <3>1
      <3>3. Cardinality(Below(p)) < PageSize
        BY <2>1
      <3>4. Cardinality(Below(p)) \in Nat /\ Cardinality(Below(q)) \in Nat
        BY <2>3, <3>1
      <3> HIDE DEF Below
      <3>5. Cardinality(Below(q)) < PageSize
        BY SMT, <3>2, <3>3, <3>4, ChainSizes
      <3>6. QED
        BY <2>1, <3>5
    <2>6. ASSUME R # L PROVE PageFull(Cardinality(R))
      <3>1. (L \ R) \in SUBSET Nat /\ L \ R # {}
        BY <1>0, <2>1, <2>6
      <3>2. PICK m \in L \ R : \A q \in L \ R : m <= q
        BY <3>1, LeastNumber
      <3>3. R = Below(m)
        <4>1. \A q \in L : q < m => q \in R
          BY SMT, <1>0, <3>2
        <4>2. ASSUME NEW q \in R PROVE q < m
          <5>1. q \in L /\ q # m /\ ~(m < q)
            BY <2>1, <2>5, <3>2
          <5>2. QED
            BY SMT, <1>0, <5>1
        <4>3. QED
          BY <2>1, <4>1, <4>2
      <3>4. Cardinality(R) \in Nat /\ Cardinality(R) >= PageSize
        <4>1. Cardinality(Below(m)) \in Nat /\ ~(Cardinality(Below(m)) < PageSize)
          BY <2>1, <2>3, <3>2
        <4> HIDE DEF Below
        <4>2. QED
          BY SMT, <3>3, <4>1, ChainSizes
      <3>5. R # {}
        BY SMT, <3>4, FS_EmptySet, ChainSizes
      <3>6. /\ R \in SUBSET Positions /\ Max(R) \in R /\ \A y \in R : y <= Max(R)
        BY <1>0, <2>1, <3>5, LastPosition
      <3>7. R = Below(Max(R)) \cup {Max(R)} /\ Max(R) \notin Below(Max(R))
        <4>1. Max(R) \in L /\ Max(R) \in Nat
          BY <1>0, <2>1, <3>6
        <4>2. \A q \in L : q < Max(R) => q \in R
          BY <2>5, <3>6
        <4>0. \A q \in R : q \in L
          BY <2>1
        <4>3. \A q \in R : q \in L /\ q \in Nat /\ (q < Max(R) \/ q = Max(R))
          BY SMT, <1>0, <3>6, <4>0, <4>1
        <4>4. QED
          BY SMT, <3>6, <4>1, <4>2, <4>3
      <3>8. Cardinality(R) = Cardinality(Below(Max(R))) + 1
        BY <2>1, <2>3, <3>6, <3>7, FS_AddElement
      <3>9. Cardinality(Below(Max(R))) < PageSize /\ Cardinality(Below(Max(R))) \in Nat
        BY <2>1, <2>3, <3>6
      <3>10. Cardinality(R) = PageSize
        BY SMT, <3>4, <3>8, <3>9, ChainSizes
      <3>11. QED
        BY <1>2, <3>10 DEF PageFull
    <2>7. QED
      BY <2>1, <2>5, <2>6 DEF L, R
  <1>3. QED
    BY <1>1, <1>2

(* A page that an undisturbed walk reads leaves the passed rows as they    *)
(* were, and the last page leaves no row unread.                           *)
LEMMA QuietList ==
    ASSUME TypeOK, QuietInv, NEW w \in Positions, QuietWalk(w), List(w)
    PROVE  QuietWalk(w)' /\ cursor' \in [Positions -> 0 .. N]
  <1> DEFINE R == InPage(cursor[w])
             L == Listed(cursor[w])
  <1>1. /\ cursor[w] \in 0 .. N /\ cursor \in [Positions -> 0 .. N] /\ N \in Nat
        /\ kind \in {"audit", "trace"}
    BY ChainSizes DEF QuietInv, TypeOK
  <1>2. /\ R \subseteq L
        /\ \A p \in R, q \in L : q < p => q \in R
        /\ ~PageFull(Cardinality(R)) => R = L
    BY <1>1, PageOfRows
  <1>3. /\ L \subseteq Positions
        /\ \A p \in Positions : p \in Nat /\ 0 < p /\ p <= N
        /\ \A p \in Positions : p \in L <=> p > cursor[w] /\ rows[p].there
    BY SMT, ChainSizes DEF Listed, Positions
  <1>4. /\ page'[w] = {Snapshot(p) : p \in R} /\ more'[w] = PageFull(Cardinality(R))
        /\ cursor' = [cursor EXCEPT ![w] = IF R = {} THEN @ ELSE Max(R)]
        /\ pc'[w] = "walk" /\ \A v \in Positions : v # w => pc'[v] = pc[v]
        /\ pc[w] = "list"
        /\ UNCHANGED <<kind, rows, prev>>
    BY DEF List, TypeOK
  <1>5. page[w] = {} /\ \A v \in Positions : v # w => ~Walking(v)
    BY <1>4 DEF QuietWalk
  <1> HIDE DEF R, L
  <1>6. R # {} => Max(R) \in R /\ (\A y \in R : y <= Max(R)) /\ Max(R) \in Positions
    BY <1>2, <1>3, LastPosition
  <1>7. cursor'[w] = (IF R = {} THEN cursor[w] ELSE Max(R))
        /\ cursor' \in [Positions -> 0 .. N]
    BY SMT, <1>1, <1>3, <1>4, <1>6
  <1>8. \A p \in Positions : Snapshot(p)' = Snapshot(p) /\ Snapshot(p).id = p
    BY <1>4 DEF Snapshot
  <1>9. \A a \in page'[w] : a = Snapshot(a.id)' /\ a.id \in R /\ a.id <= cursor'[w]
    BY SMT, <1>2, <1>3, <1>4, <1>6, <1>7, <1>8
  <1>10. ASSUME NEW a \in page'[w], NEW p \in Positions,
                rows'[p].there, a.id <= p, p <= cursor'[w]
         PROVE  Snapshot(p)' \in page'[w]
    <2>1. a.id \in R /\ a.id \in Positions /\ a.id > cursor[w] /\ R # {}
      BY <1>2, <1>3, <1>9
    <2>2. p \in L
      BY SMT, <1>1, <1>3, <1>4, <1>10, <2>1
    <2>3. p \in R
      BY SMT, <1>2, <1>3, <1>6, <1>7, <1>10, <2>1, <2>2
    <2>4. QED
      BY <1>4, <1>8, <2>3
  <1>11. PassedRows(w)' = PassedRows(w)
    <2>1. \A p \in Positions : p \in PassedRows(w) <=> rows[p].there /\ p <= cursor[w]
      BY <1>5 DEF PassedRows
    <2>2. \A p \in Positions : p \in PassedRows(w)' <=>
            rows[p].there /\ p <= cursor'[w] /\ \A a \in page'[w] : p < a.id
      BY <1>4 DEF PassedRows
    <2>3. \A p \in Positions : (\A a \in page'[w] : p < a.id) <=> \A q \in R : p < q
      BY SMT, <1>2, <1>3, <1>4, <1>8, <1>9
    <2>4. ASSUME NEW p \in Positions, rows[p].there, p <= cursor'[w], \A q \in R : p < q
          PROVE  p <= cursor[w]
      <3>1. CASE R = {}
        BY <1>7, <2>4, <3>1
      <3>2. CASE R # {}
        <4>1. p < Max(R) /\ Max(R) \in R /\ p \notin R
          BY SMT, <1>3, <1>6, <2>4, <3>2
        <4>2. p \notin L
          BY <1>2, <4>1
        <4>3. QED
          BY SMT, <1>1, <1>3, <2>4, <4>2
      <3>3. QED
        BY <3>1, <3>2
    <2>5. ASSUME NEW p \in Positions, p <= cursor[w]
          PROVE  p <= cursor'[w] /\ \A q \in R : p < q
      <3>1. \A q \in R : q \in Nat /\ q > cursor[w]
        BY <1>2, <1>3
      <3>2. QED
        BY SMT, <1>1, <1>3, <1>6, <1>7, <2>5, <3>1
    <2>6. PassedRows(w) \subseteq Positions /\ PassedRows(w)' \subseteq Positions
      BY DEF PassedRows
    <2>7. QED
      BY <2>1, <2>2, <2>3, <2>4, <2>5, <2>6
  <1>12. ~more'[w] => Listed(cursor[w])' = {}
    <2>1. SUFFICES ASSUME ~more'[w], NEW p \in Positions, p > cursor'[w], rows'[p].there
                   PROVE  FALSE
      BY DEF Listed
    <2>2. R = L
      BY <1>2, <1>4, <2>1
    <2>3. p > cursor[w]
      BY SMT, <1>1, <1>2, <1>3, <1>6, <1>7, <2>1
    <2>4. p \in R
      BY <1>3, <1>4, <2>1, <2>2, <2>3
    <2>5. QED
      BY SMT, <1>3, <1>6, <1>7, <2>1, <2>4
  <1>13. Failures' = Failures
    BY <1>4 DEF Failures, FailsAt, Before
  <1>14. /\ PassedRows(w)' \cap Failures' = {}
         /\ prev'[w] = IF PassedRows(w)' = {} THEN NoHash ELSE rows'[Max(PassedRows(w)')].curr
    BY <1>4, <1>11, <1>13 DEF QuietWalk
  <1>15. \A v \in Positions \ {w} : ~Walking(v)'
    BY <1>4, <1>5 DEF Walking
  <1>16. QED
    BY <1>4, <1>7, <1>9, <1>10, <1>12, <1>14, <1>15 DEF QuietWalk

(* A row that an undisturbed walk passes follows the row passed before it, *)
(* and verifies from then on.                                              *)
LEMMA QuietSeal ==
    ASSUME IndInv, QuietInv, NEW w \in Positions, QuietWalk(w), Seal(w)
    PROVE  QuietWalk(w)'
  <1>1. PICK a \in page[w] :
          /\ Current(w, a)
          /\ \/ Steady(a, prev[w]) /\ rows' = rows
             \/ UpdateChain(a.id, prev[w], ComputeHash(a.id, a.content, prev[w]))
          /\ prev' = [prev EXCEPT ![w] = Carried(a, @)]
          /\ page' = [page EXCEPT ![w] = @ \ {a}]
    BY DEF Seal
  <1> DEFINE id == a.id
             want == ComputeHash(a.id, a.content, prev[w])
             P == PassedRows(w)
  <1>2. /\ TypeOK /\ PagesCovered
        /\ id \in Positions /\ a.content \in Content /\ prev[w] \in Hash
        /\ \A b \in page[w] : b.id \in Positions
        /\ \A p \in Positions : p \in Nat /\ 0 < p
        /\ cursor[w] \in Nat
    BY SMT, ChainSizes DEF IndInv, TypeOK, Read, QuietInv, Positions
  <1>3. /\ a = Snapshot(id) /\ id <= cursor[w] /\ rows[id].there
        /\ \A b \in page[w] : id <= b.id /\ (b.id = id => b = a)
    BY <1>1, <1>2 DEF QuietWalk, PagesCovered, Current
  <1>4. a.content = rows[id].content /\ a.prev = rows[id].prev /\ a.curr = rows[id].curr
    BY SMT, <1>3 DEF Snapshot
  <1>5. want \in Hash /\ want # NoHash
    BY <1>2, Digest
  <1>6. /\ page'[w] = page[w] \ {a} /\ prev'[w] = want
        /\ pc' = pc /\ more' = more /\ cursor' = cursor /\ pc[w] = "walk" /\ kind' = kind
    BY <1>1, <1>2 DEF Seal, TypeOK, Carried
  <1>7. /\ \A p \in Positions :
             /\ rows'[p].there = rows[p].there /\ rows'[p].content = rows[p].content
             /\ p # id => rows'[p] = rows[p]
        /\ rows'[id].prev = prev[w] /\ rows'[id].curr = want
    <2>1. CASE Steady(a, prev[w]) /\ rows' = rows
      BY <1>4, <2>1 DEF Steady
    <2>2. CASE rows' = [rows EXCEPT ![id].prev = prev[w], ![id].curr = want]
      <3>1. rows \in [Positions -> Row]
        BY <1>2 DEF TypeOK
      <3> HIDE DEF id, want
      <3>2. QED
        BY <1>2, <2>2, <3>1 DEF Row
    <2>3. QED
      BY <1>1, <2>1, <2>2 DEF UpdateChain
  <1> HIDE DEF id, want
  \* What precedes the row is what was passed.
  <1>8. \A p \in Positions : p \in P <=> rows[p].there /\ p < id
    <2>1. ASSUME NEW p \in Positions, rows[p].there, p < id PROVE p \in P
      <3>1. \A b \in page[w] : p < b.id
        BY SMT, <1>2, <1>3, <2>1
      <3>2. QED
        BY SMT, <1>2, <1>3, <2>1, <3>1 DEF PassedRows
    <2>2. ASSUME NEW p \in P PROVE rows[p].there /\ p < id
      BY <2>2 DEF PassedRows, id
    <2>3. QED
      BY <2>1, <2>2
  <1>9. P \subseteq Positions
    BY DEF PassedRows
  <1>10. \A p \in 1 .. id - 1 : p \in Positions
    BY SMT, <1>2, ChainSizes DEF Positions
  <1>11. P = {q \in 1 .. id - 1 : rows[q].there}
    <2>1. \A p \in P : p \in 1 .. id - 1
      BY SMT, <1>2, <1>8, <1>9
    <2>2. \A p \in 1 .. id - 1 : p < id
      BY SMT, <1>2
    <2>3. QED
      BY <1>8, <1>9, <1>10, <2>1, <2>2
  <1>12. P # {} => Max(P) \in P /\ Max(P) \in Positions /\ Max(P) # id
    <2>1. P # {} => Max(P) \in P
      BY <1>9, LastPosition
    <2>2. QED
      BY SMT, <1>2, <1>8, <1>9, <2>1
  <1>13. prev[w] = IF P = {} THEN NoHash ELSE rows[Max(P)].curr
    BY DEF QuietWalk
  <1>14. {q \in 1 .. id - 1 : rows'[q].there} = P
    BY <1>7, <1>10, <1>11
  <1> HIDE DEF P
  <1>15. Before(id)' = prev[w]
    <2>1. Before(id)' = IF P = {} THEN NoHash ELSE rows'[Max(P)].curr
      BY <1>14 DEF Before
    <2>2. QED
      BY <1>7, <1>12, <1>13, <2>1
  <1>16. ~FailsAt(id)'
    <2>1. rows'[id].curr = ComputeHash(id, rows'[id].content, prev[w])
      BY <1>2, <1>4, <1>7 DEF want, id
    <2>2. QED
      BY <1>5, <1>7, <1>15, <2>1 DEF FailsAt
  <1>17. ASSUME NEW p \in P PROVE ~FailsAt(p)'
    <2>1. p \in Positions /\ p < id /\ rows[p].there /\ ~FailsAt(p)
      BY <1>8, <1>9 DEF QuietWalk, Failures, P
    <2>2. Before(p)' = Before(p)
      <3> DEFINE e == {q \in 1 .. p - 1 : rows[q].there}
      <3>1. \A q \in 1 .. p - 1 : q \in Positions /\ q # id
        BY SMT, <1>2, <2>1, ChainSizes DEF Positions
      <3>2. e \in SUBSET Positions /\ {q \in 1 .. p - 1 : rows'[q].there} = e
        BY <1>7, <3>1
      <3>3. e # {} => rows'[Max(e)] = rows[Max(e)]
        <4>1. e # {} => Max(e) \in e
          BY <3>2, LastPosition
        <4>2. QED
          BY <1>7, <3>1, <4>1
      <3> HIDE DEF e
      <3>4. QED
        BY <3>2, <3>3 DEF Before, e
    <2>3. rows'[p] = rows[p]
      BY SMT, <1>2, <1>7, <2>1
    <2>4. QED
      BY <1>6, <2>1, <2>2, <2>3 DEF FailsAt
  <1>18. PassedRows(w)' = P \cup {id}
    <2>0. \A b \in page'[w] : b \in page[w] /\ b.id \in Positions /\ id < b.id
      <3>1. \A b \in page[w] : b # a => id <= b.id /\ id # b.id
        BY <1>3
      <3>2. QED
        BY SMT, <1>2, <1>6, <3>1
    <2>1. ASSUME NEW p \in Positions, rows'[p].there, p <= cursor'[w],
                 \A b \in page'[w] : p < b.id
          PROVE  p \in P \cup {id}
      <3>1. CASE p < id
        BY <1>7, <1>8, <2>1, <3>1
      <3>2. CASE id <= p
        <4>1. Snapshot(p) \in page[w] /\ Snapshot(p).id = p
          BY <1>6, <1>7, <2>1, <3>2 DEF QuietWalk, id, Snapshot
        <4>2. Snapshot(p) = a
          BY SMT, <1>2, <1>6, <2>1, <4>1
        <4>3. QED
          BY <4>1, <4>2 DEF id
      <3>3. QED
        BY SMT, <1>2, <3>1, <3>2
    <2>2. ASSUME NEW p \in P \cup {id}
          PROVE  /\ p \in Positions /\ rows'[p].there /\ p <= cursor'[w]
                 /\ \A b \in page'[w] : p < b.id
      <3>1. p \in Positions /\ p <= id /\ rows[p].there
        BY SMT, <1>2, <1>3, <1>8, <1>9
      <3>2. QED
        BY SMT, <1>2, <1>3, <1>6, <1>7, <2>0, <3>1
    <2>3. QED
      BY <2>1, <2>2 DEF PassedRows
  <1>19. Max(PassedRows(w)') = id
    <2>1. \A y \in P \cup {id} : y \in Nat /\ id >= y
      BY SMT, <1>2, <1>8, <1>9
    <2>2. QED
      BY SMT, <1>18, <2>1 DEF Max
  <1>20. PassedRows(w)' \cap Failures' = {}
    BY <1>16, <1>17, <1>18 DEF Failures
  <1>21. prev'[w] = IF PassedRows(w)' = {} THEN NoHash ELSE rows'[Max(PassedRows(w)')].curr
    BY <1>6, <1>7, <1>18, <1>19
  <1>22. \A p \in Positions : p # id => Snapshot(p)' = Snapshot(p)
    BY <1>7 DEF Snapshot
  <1>23. \A b \in page'[w] : b = Snapshot(b.id)' /\ b.id <= cursor'[w]
    BY <1>2, <1>3, <1>6, <1>22 DEF QuietWalk
  <1>24. ASSUME NEW b \in page'[w], NEW p \in Positions,
                rows'[p].there, b.id <= p, p <= cursor'[w]
         PROVE  Snapshot(p)' \in page'[w]
    <2>1. Snapshot(p) \in page[w] /\ Snapshot(p).id = p
      BY <1>6, <1>7, <1>24 DEF QuietWalk, Snapshot
    <2>2. b \in page[w] /\ id <= b.id /\ id # b.id
      BY <1>3, <1>6
    <2>3. p # id /\ Snapshot(p) # a
      BY SMT, <1>2, <1>24, <2>1, <2>2 DEF id
    <2>4. QED
      BY <1>6, <1>22, <2>1, <2>3
  <1>25. Listed(cursor[w])' = Listed(cursor[w])
    BY <1>6, <1>7 DEF Listed
  <1>26. /\ \A v \in Positions \ {w} : ~Walking(v)'
         /\ pc'[w] = "walk" /\ ~more'[w] => Listed(cursor[w])' = {}
    BY <1>6, <1>25 DEF QuietWalk, Walking
  <1>27. QED
    BY <1>6, <1>20, <1>21, <1>23, <1>24, <1>26 DEF QuietWalk

(* Every step keeps what an undisturbed walk relies on: while it is under  *)
(* way only the walk itself may have taken a step.                         *)
LEMMA QuietStep == IndInv /\ QuietInv /\ [Next]_vars => QuietInv'
  <1> SUFFICES ASSUME IndInv, QuietInv, [Next]_vars PROVE QuietInv'
    OBVIOUS
  <1>0. /\ TypeOK /\ cursor \in [Positions -> 0 .. N]
        /\ \A w \in Positions : pc[w] = "new" =>
              cursor[w] = 0 /\ prev[w] = NoHash /\ page[w] = {}
        /\ \A w \in Positions : quiet[w] /\ Walking(w) => QuietWalk(w)
    BY DEF IndInv, QuietInv
  \* A walk that goes on undisturbed is the one that took the step.
  <1>w. \A v, w \in Positions : quiet[w] /\ Walking(w) /\ Walking(v) => v = w
    BY <1>0 DEF QuietWalk
  <1>1. ASSUME NEW v \in Positions, Insert(v) PROVE QuietInv'
    <2>1. /\ UNCHANGED <<page, more, cursor, prev>> /\ pc[v] = "new"
          /\ pc'[v] = "list" /\ \A w \in Positions : w # v => pc'[w] = pc[w]
          /\ \A w \in Positions : quiet'[w] => w = v /\ \A u \in Positions : ~Walking(u)
      BY <1>0, <1>1 DEF Insert, TypeOK
    <2>2. ASSUME quiet'[v] PROVE QuietWalk(v)'
      <3>1. cursor'[v] = 0 /\ prev'[v] = NoHash /\ page'[v] = {}
        BY <1>0, <2>1
      <3>2. PassedRows(v)' = {}
        BY SMT, <3>1, ChainSizes DEF PassedRows, Positions
      <3>3. \A w \in Positions \ {v} : ~Walking(w)'
        BY <2>1, <2>2 DEF Walking
      <3>4. QED
        BY <2>1, <3>1, <3>2, <3>3 DEF QuietWalk
    <2>3. QED
      BY <1>0, <2>1, <2>2 DEF QuietInv
  <1>2. ASSUME NEW v \in Positions, List(v) PROVE QuietInv'
    <2>1. /\ UNCHANGED <<quiet, prev>> /\ pc[v] = "list" /\ pc'[v] = "walk" /\ Walking(v)
          /\ \A w \in Positions : w # v =>
                pc'[w] = pc[w] /\ cursor'[w] = cursor[w] /\ page'[w] = page[w]
      BY <1>0, <1>2 DEF List, TypeOK, Walking
    <2>2. ASSUME NEW w \in Positions, quiet'[w], Walking(w)' PROVE QuietWalk(w)'
      <3>1. quiet[w] /\ Walking(w)
        BY <2>1, <2>2 DEF Walking
      <3>2. w = v /\ QuietWalk(v)
        BY <1>0, <1>w, <2>1, <3>1
      <3>3. QED
        BY <1>0, <1>2, <3>2, QuietList
    <2>3. cursor' \in [Positions -> 0 .. N]
      <3>1. cursor' = [cursor EXCEPT ![v] = IF InPage(cursor[v]) = {} THEN @
                                             ELSE Max(InPage(cursor[v]))]
        BY <1>2 DEF List
      <3>2. InPage(cursor[v]) \in SUBSET Positions
        BY DEF InPage, Listed
      <3>3. InPage(cursor[v]) # {} => Max(InPage(cursor[v])) \in 0 .. N
        <4>1. InPage(cursor[v]) # {} => Max(InPage(cursor[v])) \in Positions
          BY <3>2, LastPosition
        <4>2. QED
          BY SMT, <4>1, ChainSizes DEF Positions
      <3>4. QED
        BY <1>0, <3>1, <3>3
    <2>4. QED
      BY <1>0, <2>1, <2>2, <2>3 DEF QuietInv
  <1>3. ASSUME NEW v \in Positions, Seal(v) PROVE QuietInv'
    <2>1. /\ UNCHANGED <<quiet, pc, cursor>> /\ pc[v] = "walk" /\ Walking(v)
          /\ \A w \in Positions : w # v => prev'[w] = prev[w] /\ page'[w] = page[w]
      BY <1>0, <1>3 DEF Seal, TypeOK, Walking
    <2>2. ASSUME NEW w \in Positions, quiet'[w], Walking(w)' PROVE QuietWalk(w)'
      <3>1. w = v /\ QuietWalk(v)
        BY <1>0, <1>w, <2>1, <2>2 DEF Walking
      <3>2. QED
        BY <1>3, <3>1, QuietSeal
    <2>3. QED
      BY <1>0, <2>1, <2>2 DEF QuietInv
  <1>4. ASSUME NEW v \in Positions, Refuse(v) \/ Fail(v) PROVE QuietInv'
    <2>1. /\ UNCHANGED <<quiet, cursor, prev>> /\ Walking(v) /\ ~Walking(v)'
          /\ pc'[v] # "new"
          /\ \A w \in Positions : w # v => pc'[w] = pc[w] /\ page'[w] = page[w]
      BY <1>0, <1>4 DEF Refuse, Fail, TypeOK, Walking
    <2>2. ASSUME NEW w \in Positions, quiet'[w], Walking(w)' PROVE FALSE
      BY <1>w, <2>1, <2>2 DEF Walking
    <2>3. QED
      BY <1>0, <2>1, <2>2 DEF QuietInv
  <1>5. ASSUME NEW v \in Positions, EndPage(v) PROVE QuietInv'
    <2>1. /\ UNCHANGED <<kind, rows, page, more, cursor, prev, quiet, regular>>
          /\ Walking(v) /\ page[v] = {} /\ pc'[v] \in {"list", "sealed"}
          /\ \A w \in Positions : w # v => pc'[w] = pc[w]
      BY <1>0, <1>5 DEF EndPage, TypeOK, Walking
    <2>2. ASSUME NEW w \in Positions, quiet'[w], Walking(w)' PROVE QuietWalk(w)'
      <3>1. w = v /\ QuietWalk(v)
        BY <1>0, <1>w, <2>1, <2>2 DEF Walking
      <3>2. PassedRows(w)' = PassedRows(w) /\ Failures' = Failures
        BY <2>1 DEF PassedRows, Failures, FailsAt, Before
      <3>3. QED
        BY <2>1, <3>1, <3>2 DEF QuietWalk, Walking, Snapshot
    <2>3. QED
      BY <1>0, <2>1, <2>2 DEF QuietInv
  <1>6. ASSUME NEW v \in Positions, Alter(v) PROVE QuietInv'
    BY <1>0, <1>6 DEF Alter, QuietInv
  <1>7. CASE UNCHANGED vars
    <2>1. ASSUME NEW w \in Positions, QuietWalk(w) PROVE QuietWalk(w)'
      <3>1. PassedRows(w)' = PassedRows(w) /\ Failures' = Failures
        BY <1>7 DEF vars, PassedRows, Failures, FailsAt, Before
      <3>2. QED
        BY <1>7, <2>1, <3>1 DEF vars, QuietWalk, Walking, Snapshot, Listed
    <2>2. QED
      BY <1>0, <1>7, <2>1 DEF vars, QuietInv, Walking
  <1>8. QED
    BY <1>1, <1>2, <1>3, <1>4, <1>5, <1>6, <1>7 DEF Next

(* However many rows and pages there are, and whatever earlier walks left  *)
(* behind, an undisturbed walk of Seal leaves a chain that verifies.       *)
THEOREM QuietSealsClose == Spec => QuietSealCloses
  <1>1. Init => QuietInv
    <2>1. ASSUME Init PROVE \A w \in Positions : ~Walking(w)
      BY <2>1 DEF Init, Walking
    <2>2. QED
      BY SMT, <2>1, ChainSizes DEF Init, QuietInv
  <1>2. ASSUME IndInv, QuietInv, Next, NEW w \in Positions,
               pc[w] = "walk", pc'[w] = "sealed", quiet[w]
        PROVE  Failures = {}
    <2>1. QuietWalk(w) /\ cursor[w] \in 0 .. N /\ TypeOK
      BY <1>2 DEF QuietInv, Walking, IndInv
    <2>2. page[w] = {} /\ ~more[w]
      BY <1>2, <2>1 DEF Next, Insert, List, Seal, Refuse, EndPage, Fail, Alter, TypeOK
    <2>3. \A p \in Positions : rows[p].there => p <= cursor[w]
      <3>1. Listed(cursor[w]) = {}
        BY <1>2, <2>1, <2>2 DEF QuietWalk
      <3>2. QED
        BY SMT, <2>1, <3>1, ChainSizes DEF Listed, Positions
    <2>4. Failures \subseteq PassedRows(w)
      BY <2>2, <2>3 DEF Failures, PassedRows
    <2>5. QED
      BY <2>1, <2>4 DEF QuietWalk
  <1>3. IndInv /\ QuietInv /\ [Next]_vars
        => [\A w \in Positions :
              pc[w] = "walk" /\ pc'[w] = "sealed" /\ quiet[w] => Failures = {}]_vars
    BY <1>2
  <1>4. QED
    BY <1>1, <1>3, Invariance, QuietStep, PTL DEF Spec, QuietSealCloses

(* An undisturbed walk compares the row it is at with the row before it in *)
(* the table.                                                              *)
LEMMA QuietBefore ==
    ASSUME IndInv, QuietInv, NEW w \in Positions, QuietWalk(w),
           NEW a \in page[w], Current(w, a)
    PROVE  /\ a.id \in Positions /\ a = Snapshot(a.id) /\ rows[a.id].there
           /\ Before(a.id) = prev[w]
  <1> DEFINE id == a.id
             P == PassedRows(w)
  <1>1. /\ TypeOK /\ PagesCovered /\ id \in Positions
        /\ \A b \in page[w] : b.id \in Positions
        /\ \A p \in Positions : p \in Nat /\ 0 < p
        /\ cursor[w] \in Nat
    BY SMT, ChainSizes DEF IndInv, TypeOK, Read, QuietInv, Positions
  <1>2. /\ a = Snapshot(id) /\ id <= cursor[w] /\ rows[id].there
        /\ \A b \in page[w] : id <= b.id
    BY <1>1 DEF QuietWalk, PagesCovered, Current
  <1>3. \A p \in 1 .. id - 1 : p \in Positions /\ p < id /\ p <= cursor[w]
    BY SMT, <1>1, <1>2, ChainSizes DEF Positions
  <1>4. ASSUME NEW p \in 1 .. id - 1, rows[p].there PROVE p \in P
    <2>1. \A b \in page[w] : p < b.id
      BY SMT, <1>1, <1>2, <1>3
    <2>2. QED
      BY <1>3, <1>4, <2>1 DEF PassedRows
  <1>5. ASSUME NEW p \in P PROVE p \in 1 .. id - 1 /\ rows[p].there
    <2>1. p \in Positions /\ rows[p].there /\ p < a.id
      BY <1>5 DEF PassedRows
    <2>2. QED
      BY SMT, <1>1, <2>1
  <1>6. P = {q \in 1 .. id - 1 : rows[q].there}
    BY <1>4, <1>5
  <1>7. QED
    BY <1>1, <1>2, <1>6 DEF QuietWalk, Before

(* What an undisturbed seal refuses, verification reports too, or it was   *)
(* sealed under V1: in either chain, for any number of rows and pages.     *)
THEOREM RefusalsAreVisible == Spec => RefusedRowFails
  <1> DEFINE Shown == \A w \in Positions :
                pc[w] = "walk" /\ pc'[w] = "refused" /\ quiet[w] =>
                   \E p \in Positions :
                      /\ rows[p].curr # NoHash
                      /\ \/ p \in Failures
                         \/ rows[p].curr = LegacyHash(p, rows[p].content, rows[p].prev)
  <1>1. Init => QuietInv
    <2>1. ASSUME Init PROVE \A w \in Positions : ~Walking(w)
      BY <2>1 DEF Init, Walking
    <2>2. QED
      BY SMT, <2>1, ChainSizes DEF Init, QuietInv
  <1>2. ASSUME IndInv, QuietInv, Next PROVE Shown
    <2> SUFFICES ASSUME NEW w \in Positions,
                        pc[w] = "walk", pc'[w] = "refused", quiet[w]
                 PROVE  \E p \in Positions :
                           /\ rows[p].curr # NoHash
                           /\ \/ p \in Failures
                              \/ rows[p].curr = LegacyHash(p, rows[p].content, rows[p].prev)
      OBVIOUS
    <2>1. QuietWalk(w) /\ TypeOK
      BY <1>2 DEF QuietInv, Walking, IndInv
    <2>2. PICK a \in page[w] : Current(w, a) /\ ~Steady(a, prev[w]) /\ ~MayStamp(a)
      BY <1>2, <2>1 DEF Next, Insert, List, Seal, Refuse, EndPage, Fail, Alter, TypeOK
    <2>3. /\ a.id \in Positions /\ a = Snapshot(a.id) /\ rows[a.id].there
          /\ Before(a.id) = prev[w]
      BY <1>2, <2>1, <2>2, QuietBefore
    <2>4. /\ a.content = rows[a.id].content /\ a.prev = rows[a.id].prev
          /\ a.curr = rows[a.id].curr
      BY SMT, <2>3 DEF Snapshot
    <2>5. rows[a.id].curr # NoHash
      BY <2>2, <2>4 DEF MayStamp
    <2>6. CASE rows[a.id].prev # Before(a.id)
      BY <2>3, <2>5, <2>6 DEF Failures, FailsAt
    <2>7. CASE rows[a.id].prev = Before(a.id)
      <3>1. rows[a.id].curr # ComputeHash(a.id, rows[a.id].content, Before(a.id))
        BY <2>2, <2>3, <2>4, <2>7 DEF Steady
      <3>2. QED
        BY <2>3, <2>5, <2>7, <3>1 DEF Failures, FailsAt
    <2>8. QED
      BY <2>6, <2>7
  <1>3. QED
    BY <1>1, <1>2, Invariance, QuietStep, PTL DEF Spec, RefusedRowFails

=============================================================================
