----------------------------- MODULE AuditChain -----------------------------
(***************************************************************************)
(* The two hash chains of internal/audit.  Every audit or trace write      *)
(* inserts its row without hashes (CreateAudit, CreateTrace) and then      *)
(* seals the whole chain: it walks the stored order (timestamp, id) from   *)
(* the oldest row, carries the running predecessor hash, and stamps each   *)
(* row that needs it with an UPDATE by id that tests nothing.  Walks of    *)
(* different writers overlap freely, and a walk works from the page it     *)
(* read, not from the table.                                               *)
(*                                                                         *)
(* A position of the chain order stands for the row that sorts there, and  *)
(* for the write that inserts it.  Rows arrive in any order: the timestamp *)
(* and the id are taken before the insert, by many callers for the audit   *)
(* table and by the RPCs, executors and takeovers of every node for the    *)
(* traces of a run.  A run may have traces sealed before the V2 encoding.  *)
(***************************************************************************)
EXTENDS Naturals, Sequences, FiniteSets, FiniteSetsExt

CONSTANTS N,            \* rows, in chain order
          PageSize,     \* rows per ListAuditChainPage
          MaxAlters     \* bound: rows edited with the WORM triggers dropped

ASSUME ChainSizes == N \in Nat /\ PageSize \in Nat \ {0} /\ MaxAlters \in Nat

VARIABLES kind,     \* which of the two chains this is
          rows,     \* the table, by position
          pc,       \* per write: where Record is
          page,     \* the rest of the page the walk read
          more,     \* that page was full, so another one follows
          cursor,   \* the last position read
          prev,     \* the walk's running predecessor hash
          quiet,    \* history: nothing else happened since the walk began
          regular   \* history: rows came in chain order, and none is from before V2

vars == <<kind, rows, pc, page, more, cursor, prev, quiet, regular>>

Positions == 1 .. N
Content == {"original", "altered"}

Encoding == {"V1", "V2"}

(* A digest is its preimage: the predecessor's digest, then this row's id  *)
(* and content and how they were encoded.  The empty string is <<>>.       *)
Hash == Seq(Positions \X Content \X Encoding)
NoHash == << >>

(* canonicalV2 gives each field its length and hashes the lot.             *)
ComputeHash(id, content, before) == Append(before, <<id, content, "V2">>)

(* canonicalV1 joins the fields with a separator; only verification of     *)
(* traces still computes it.                                               *)
LegacyHash(id, content, before) == Append(before, <<id, content, "V1">>)

Row == [there : BOOLEAN, content : Content, prev : Hash, curr : Hash]
Read == [id : Positions, content : Content, prev : Hash, curr : Hash]

Walking(w) == pc[w] \in {"list", "walk"}

(* The chain of the first k rows as they were written.                     *)
ChainIn(enc, k) == [i \in 1 .. k |-> <<i, "original", enc>>]

(* A run may start out with its first traces sealed under V1; the audit    *)
(* chain was introduced with V2.                                           *)
Init ==
    /\ kind \in {"audit", "trace"}
    /\ \E old \in 0 .. N :
         /\ kind = "audit" => old = 0
         /\ rows = [p \in Positions |->
                      IF p <= old
                      THEN [there |-> TRUE, content |-> "original",
                            prev |-> ChainIn("V1", p - 1), curr |-> ChainIn("V1", p)]
                      ELSE [there |-> FALSE, content |-> "original",
                            prev |-> NoHash, curr |-> NoHash]]
         /\ pc = [w \in Positions |-> IF w <= old THEN "sealed" ELSE "new"]
         /\ regular = (old = 0)
    /\ page = [w \in Positions |-> {}]
    /\ more = [w \in Positions |-> FALSE]
    /\ cursor = [w \in Positions |-> 0]
    /\ prev = [w \in Positions |-> NoHash]
    /\ quiet = [w \in Positions |-> FALSE]

----------------------------------------------------------------------------
(* Record: the insert, wherever the row sorts, and the walk begins.        *)
Insert(w) ==
    /\ pc[w] = "new"
    /\ rows' = [rows EXCEPT ![w].there = TRUE]
    /\ pc' = [pc EXCEPT ![w] = "list"]
    /\ quiet' = [v \in Positions |-> v = w /\ \A u \in Positions : ~Walking(u)]
    /\ regular' = (regular /\ \A p \in 1 .. w - 1 : rows[p].there)
    /\ UNCHANGED <<kind, page, more, cursor, prev>>

(* ListAuditChainPage reads at most PageSize rows strictly after the       *)
(* cursor; ListTraces reads all of them.                                   *)
Listed(c) == {p \in Positions : p > c /\ rows[p].there}

InPage(c) ==
    IF kind = "trace" THEN Listed(c)
    ELSE {p \in Listed(c) : Cardinality({q \in Listed(c) : q < p}) < PageSize}

Snapshot(p) == [id |-> p, content |-> rows[p].content,
                prev |-> rows[p].prev, curr |-> rows[p].curr]

(* Mutant: the walk ends with its first full page.                         *)
PageFullNever(n) == kind = "audit" /\ n > PageSize

(* Fewer rows than asked for end the walk.                                 *)
PageFull(n) == kind = "audit" /\ n = PageSize

List(w) ==
    LET read == InPage(cursor[w])
    IN  /\ pc[w] = "list"
        /\ page' = [page EXCEPT ![w] = {Snapshot(p) : p \in read}]
        /\ more' = [more EXCEPT ![w] = PageFull(Cardinality(read))]
        /\ cursor' = [cursor EXCEPT ![w] = IF read = {} THEN @ ELSE Max(read)]
        /\ pc' = [pc EXCEPT ![w] = "walk"]
        /\ UNCHANGED <<kind, rows, prev, quiet, regular>>

(* The three answers of Seal to a row it read: leave it, stamp it, refuse. *)
Steady(a, before) ==
    a.prev = before /\ a.curr = ComputeHash(a.id, a.content, before)

(* Mutants: every row that moved is relinked, and none is.                 *)
RelinkableAny(a) == kind = "audit"
RelinkableNever(a) == FALSE

(* The audit chain relinks a row that is intact by its own hashes; the     *)
(* trace chain never rewrites a sealed row.                                *)
Relinkable(a) ==
    kind = "audit" /\ ComputeHash(a.id, a.content, a.prev) = a.curr

(* Mutant: only the last row is appended, a hole is never filled.          *)
MayStampTail(a) ==
    \/ a.curr = NoHash /\ \A p \in Positions : p > a.id => ~rows[p].there
    \/ Relinkable(a)

MayStamp(a) == a.curr = NoHash \/ Relinkable(a)

(* What the walk carries on to the next row.                               *)
Carried(a, before) == ComputeHash(a.id, a.content, before)

UpdateChain(id, before, want) ==
    rows' = [rows EXCEPT ![id].prev = before, ![id].curr = want]

(* The row the walk is at: the rows of a page are taken in chain order.    *)
Current(w, a) == a \in page[w] /\ \A b \in page[w] : a.id <= b.id

Seal(w) ==
    /\ pc[w] = "walk"
    /\ \E a \in page[w] :
          /\ Current(w, a)
          /\ \/ /\ Steady(a, prev[w])
                /\ UNCHANGED rows
             \/ /\ ~Steady(a, prev[w])
                /\ MayStamp(a)
                /\ UpdateChain(a.id, prev[w], ComputeHash(a.id, a.content, prev[w]))
          /\ prev' = [prev EXCEPT ![w] = Carried(a, @)]
          /\ page' = [page EXCEPT ![w] = @ \ {a}]
    /\ UNCHANGED <<kind, pc, more, cursor, quiet, regular>>

(* ErrChainBroken: the walk stops at the row and writes nothing.           *)
Refuse(w) ==
    /\ pc[w] = "walk"
    /\ \E a \in page[w] :
          Current(w, a) /\ ~Steady(a, prev[w]) /\ ~MayStamp(a)
    /\ pc' = [pc EXCEPT ![w] = "refused"]
    /\ page' = [page EXCEPT ![w] = {}]
    /\ UNCHANGED <<kind, rows, more, cursor, prev, quiet, regular>>

(* The page is used up: read the next one, or the walk is over.            *)
EndPage(w) ==
    /\ pc[w] = "walk"
    /\ page[w] = {}
    /\ pc' = [pc EXCEPT ![w] = IF more[w] THEN "list" ELSE "sealed"]
    /\ UNCHANGED <<kind, rows, page, more, cursor, prev, quiet, regular>>

(* A read or an update fails, the context is cancelled or the process      *)
(* dies: what is stamped stays, the rest is left for a later walk.         *)
Fail(w) ==
    /\ Walking(w)
    /\ pc' = [pc EXCEPT ![w] = "failed"]
    /\ page' = [page EXCEPT ![w] = {}]
    /\ UNCHANGED <<kind, rows, more, cursor, prev, quiet, regular>>

(* What the chain is there to show: the content of a sealed row changes.   *)
Alter(p) ==
    /\ rows[p].curr # NoHash
    /\ rows[p].content = "original"
    /\ Cardinality({q \in Positions : rows[q].content = "altered"}) < MaxAlters
    /\ rows' = [rows EXCEPT ![p].content = "altered"]
    /\ quiet' = [v \in Positions |-> FALSE]
    /\ UNCHANGED <<kind, pc, page, more, cursor, prev, regular>>

Next ==
    \E w \in Positions :
        \/ Insert(w) \/ List(w) \/ Seal(w) \/ Refuse(w) \/ EndPage(w)
        \/ Fail(w) \/ Alter(w)

Spec == Init /\ [][Next]_vars

----------------------------------------------------------------------------
(* Verify: the rows that do not link up.  It advances on the stored hash,  *)
(* so that one altered row is one failure.  checkTrace accepts V1.         *)
Before(p) ==
    LET earlier == {q \in 1 .. p - 1 : rows[q].there}
    IN  IF earlier = {} THEN NoHash ELSE rows[Max(earlier)].curr

FailsAt(p) ==
    \/ rows[p].curr = NoHash
    \/ rows[p].prev # Before(p)
    \/ /\ rows[p].curr # ComputeHash(p, rows[p].content, Before(p))
       /\ kind = "trace" => rows[p].curr # LegacyHash(p, rows[p].content, Before(p))

Failures == {p \in Positions : rows[p].there /\ FailsAt(p)}

Altered == {p \in Positions : rows[p].content = "altered"}

----------------------------------------------------------------------------
TypeOK ==
    /\ kind \in {"audit", "trace"}
    /\ rows \in [Positions -> Row]
    /\ pc \in [Positions -> {"new", "list", "walk", "sealed", "refused", "failed"}]
    /\ page \in [Positions -> SUBSET Read]
    /\ more \in [Positions -> BOOLEAN]
    /\ prev \in [Positions -> Hash]
    /\ quiet \in [Positions -> BOOLEAN]
    /\ regular \in BOOLEAN

(* A sealed pair always covers the row's original content, in the table    *)
(* and in what a walk has read, and an unsealed row still has it.          *)
SealCovers(k, id, content, before, curr) ==
    IF curr = NoHash THEN content = "original" /\ before = NoHash
    ELSE \/ curr = ComputeHash(id, "original", before)
         \/ k = "trace" /\ curr = LegacyHash(id, "original", before)

Chain(k) == ChainIn("V2", k)

(* In a trace chain that grew in order there is one value a row can be     *)
(* sealed with, and the length of the hash a walk carries is the number of *)
(* rows it has passed.                                                     *)
InOrder ==
    /\ \A p \in Positions : rows[p].there => \A q \in 1 .. p - 1 : rows[q].there
    /\ \A p \in Positions : rows[p].curr # NoHash =>
          rows[p].prev = Chain(p - 1) /\ rows[p].curr = Chain(p)
    /\ \A w \in Positions :
          /\ ~more[w]
          /\ pc[w] \in {"new", "list"} => cursor[w] = 0 /\ prev[w] = NoHash
          /\ prev[w] = Chain(Len(prev[w]))
          /\ \A a \in page[w] :
                /\ Len(prev[w]) < a.id
                /\ \A q \in Len(prev[w]) + 1 .. a.id :
                      \E b \in page[w] : b.id = q
                /\ a.curr # NoHash =>
                      a.prev = Chain(a.id - 1) /\ a.curr = Chain(a.id)

(* A seal of the audit chain reports a broken chain only when some row was *)
(* edited: late rows, overlapping walks, failed walks and the holes they   *)
(* leave are legal writes and never make it refuse (auditchain.go          *)
(* 207-213).  A trace chain is refused as well when a row came late, or is *)
(* from before V2, but for no other legal write.                           *)
NoFalseAlarm ==
    (\E w \in Positions : pc[w] = "refused") =>
        Altered # {} \/ (kind = "trace" /\ ~regular)

(* A row is there once its write has inserted it, and covered; what a walk *)
(* has read of it was covered too, and the row has only moved on since.    *)
RowsCovered ==
    \A p \in Positions :
        /\ SealCovers(kind, p, rows[p].content, rows[p].prev, rows[p].curr)
        /\ pc[p] # "new" <=> rows[p].there
        /\ rows[p].curr # NoHash => rows[p].there

PagesCovered ==
    \A w \in Positions : \A a \in page[w] :
        /\ SealCovers(kind, a.id, a.content, a.prev, a.curr)
        /\ rows[a.id].there
        /\ a.curr # NoHash => rows[a.id].curr # NoHash
        /\ a.content = "altered" => rows[a.id].content = "altered"
        /\ \A b \in page[w] : a.id = b.id => a = b

(* The inductive invariant: what a sealed pair covers, that only an edited *)
(* row is ever refused, and the order of the trace chain.                  *)
IndInv ==
    /\ TypeOK
    /\ RowsCovered
    /\ PagesCovered
    /\ NoFalseAlarm
    /\ kind = "trace" /\ regular => InOrder

(* The rows a walk has passed: before everything left of its page.         *)
PassedRows(w) ==
    {p \in Positions : /\ rows[p].there /\ p <= cursor[w]
                       /\ \A a \in page[w] : p < a.id}

(* An undisturbed walk is alone, its page is what the table holds, what it *)
(* has passed verifies, and it carries the hash of the last row passed.    *)
QuietWalk(w) ==
    /\ \A v \in Positions \ {w} : ~Walking(v)
    /\ \A a \in page[w] : a = Snapshot(a.id) /\ a.id <= cursor[w]
    /\ \A a \in page[w], p \in Positions :
          rows[p].there /\ a.id <= p /\ p <= cursor[w] => Snapshot(p) \in page[w]
    /\ PassedRows(w) \cap Failures = {}
    /\ prev[w] = IF PassedRows(w) = {} THEN NoHash ELSE rows[Max(PassedRows(w))].curr
    /\ pc[w] = "list" => page[w] = {}
    /\ pc[w] = "walk" /\ ~more[w] => Listed(cursor[w]) = {}

(* The inductive invariant behind QuietSealCloses.                         *)
QuietInv ==
    /\ cursor \in [Positions -> 0 .. N]
    /\ \A w \in Positions : pc[w] = "new" =>
          cursor[w] = 0 /\ prev[w] = NoHash /\ page[w] = {}
    /\ \A w \in Positions : quiet[w] /\ Walking(w) => QuietWalk(w)

(* An edited row fails every verification from then on, whatever walks     *)
(* were under way when it was edited and whatever is written and sealed    *)
(* afterwards: no seal gives the new content a hash.                       *)
(* auditchain.go 194-202.                                                  *)
AlteredNeverVerifies == Altered \subseteq Failures

(* Whatever holes, late rows and stale links earlier walks left, a walk    *)
(* that ends with nothing else having happened since it began leaves a     *)
(* chain that verifies, however many pages it took.  record.go 23-24: "the *)
(* next successful Seal closes it".                                        *)
QuietSealCloses ==
    [][\A w \in Positions :
          pc[w] = "walk" /\ pc'[w] = "sealed" /\ quiet[w] => Failures = {}]_vars

(* An undisturbed walk refuses only what verification reports as well, in  *)
(* a sealed row, or a row sealed under V1, which checkTrace accepts and    *)
(* HashChainBuilder.Seal does not.                                         *)
RefusedRowFails ==
    [][\A w \in Positions :
          pc[w] = "walk" /\ pc'[w] = "refused" /\ quiet[w] =>
             \E p \in Positions :
                /\ rows[p].curr # NoHash
                /\ \/ p \in Failures
                   \/ rows[p].curr = LegacyHash(p, rows[p].content, rows[p].prev)]_vars

=============================================================================
