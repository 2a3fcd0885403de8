------------------------------ MODULE Approval -------------------------------
(***************************************************************************)
(* The approval service (internal/approval) and the kickoff that creates   *)
(* and supersedes its records (change_service.go, kickoffApproval), for    *)
(* the records of one change.                                              *)
(*                                                                         *)
(* Deciders, expiry sweeps and kickoffs read records, and write them back  *)
(* some steps later: a decision and an expiry by UpdateApprovalIfPending,  *)
(* a compare-and-set on the status and the revision; a supersession by     *)
(* UpdateApproval, which compares nothing.  A statement may fail, and a    *)
(* decision may be recorded although its reply is lost.                    *)
(***************************************************************************)
EXTENDS Naturals, Sequences, FiniteSets

CONSTANTS
    Ids,            \* the records this change may get (a bound)
    Approvers,      \* the people who may try to vote
    Initiator,      \* the one among them who created the change
    Requests,       \* the CreateRequests of its kickoffs
    Callers,        \* concurrent calls of Approve or Reject
    Sweepers,       \* replicas running the expiry sweep
    Kickoffs,       \* concurrent PlanChange calls
    CasMaxAttempts, \* casMaxAttempts (4 in the code)
    NoRec

Actions == {"approve", "reject"}
RecStatus == {"pending", "approved", "rejected", "expired"}

\* CreateRequest: the parts of it that decide looks at.
Request == [min : Nat, approvers : SUBSET Approvers, exclude : BOOLEAN, expires : BOOLEAN]

ASSUME RequestsType == Requests \subseteq Request
ASSUME AttemptsType == CasMaxAttempts \in Nat \ {0}
\* A record as stored.  The chain JSON carries everything but status and
\* revision; superseded is its SupersededReason.
Decision == [by : Approvers, action : Actions]
Rec == [status : RecStatus, decisions : Seq(Decision), rev : Nat, min : Nat,
        approvers : SUBSET Approvers, exclude : BOOLEAN, expires : BOOLEAN,
        superseded : BOOLEAN]

ASSUME NoRecFresh == NoRec \notin Rec

VARIABLES
    rec,     \* the approvals table
    overdue, \* the records whose ExpiresAt has passed
    call,    \* per caller: its step, its vote, its attempt and what it read
    todo,    \* per sweeper: the overdue records it listed and has not treated
    kick,    \* per kickoff: its step and the pending records it listed
    acked    \* history: the votes whose callers were told "recorded"

vars == <<rec, overdue, call, todo, kick, acked>>

IdleCall == [at |-> "idle"]
VoteOf(c) == [by |-> call[c].by, action |-> call[c].action]

NewRec(req) ==
    [status |-> "pending", decisions |-> <<>>, rev |-> 0, min |-> req.min,
     approvers |-> req.approvers, exclude |-> req.exclude, expires |-> req.expires,
     superseded |-> FALSE]

\* Records may exist already, from versions that did not clamp the quorum.
Init ==
    /\ rec \in [Ids -> {NoRec} \cup {NewRec(r) : r \in Requests}]
    /\ overdue = {}
    /\ call = [c \in Callers |-> IdleCall]
    /\ todo = [s \in Sweepers |-> {}]
    /\ kick = [k \in Kickoffs |-> [at |-> "idle", old |-> {}]]
    /\ acked = {}
------------------------------------------------------------------------------
(* Approve and Reject *)

isAuthorized(r, a) == r.approvers = {} \/ a \in r.approvers
hasDecided(r, a) == \E d \in 1..Len(r.decisions) : r.decisions[d].by = a
countApproves(ds) == Cardinality({d \in 1..Len(ds) : ds[d].action = "approve"})
clamp(r) == IF r.min = 0 THEN [r EXCEPT !.min = 1] ELSE r

\* Mutant: nobody asks whether the approver has decided already.
MayDecideAgain(r, a) ==
    /\ r.status = "pending"
    /\ isAuthorized(r, a)
    /\ ~(r.exclude /\ a = Initiator)

\* The checks of one attempt, after the record was found.
MayDecide(r, a) ==
    /\ r.status = "pending"
    /\ isAuthorized(r, a)
    /\ ~(r.exclude /\ a = Initiator)
    /\ ~hasDecided(r, a)

\* store.Get and the checks of the n-th attempt.  The call returns without a
\* vote when the read fails, the policy guard denies it or a check refuses it.
Attempt(c, i, a, action, n) ==
    /\ \/ /\ rec[i] # NoRec
          /\ MayDecide(rec[i], a)
          /\ call' = [call EXCEPT ![c] =
                [at |-> "write", id |-> i, by |-> a, action |-> action, attempt |-> n,
                 row |-> clamp(rec[i])]]
       \/ call' = [call EXCEPT ![c] = IdleCall]
    /\ UNCHANGED <<rec, overdue, todo, kick, acked>>

\* Approve(id, approver) and Reject(id, approver, reason).
Approve(c, i, a) == call[c].at = "idle" /\ Attempt(c, i, a, "approve", 1)
Reject(c, i, a) == call[c].at = "idle" /\ Attempt(c, i, a, "reject", 1)

\* The loop comes round after a lost compare-and-set.
Retry(c) ==
    /\ call[c].at = "read"
    /\ Attempt(c, call[c].id, call[c].by, call[c].action, call[c].attempt)

IsPending(i) == rec[i] # NoRec /\ rec[i].status = "pending"

\* The record with the vote appended, and settled if the vote settles it.
Decided(r, d) ==
    LET ds == Append(r.decisions, d)
    IN  [r EXCEPT !.decisions = ds,
                  !.status = IF d.action = "reject" THEN "rejected"
                             ELSE IF countApproves(ds) >= r.min THEN "approved" ELSE @]

\* Mutant: the compare-and-set looks at the status alone.
StillPendingAnyRev(i, r) == IsPending(i)

\* UpdateApprovalIfPending: does the row still match what was read?
StillPending(i, r) == IsPending(i) /\ rec[i].rev = r.rev

\* Either update bumps the revision of the row, not of the copy.
Stored(i, r) == [rec EXCEPT ![i] = [r EXCEPT !.rev = rec[i].rev + 1]]

\* The compare-and-set: won, it is acknowledged unless the reply is lost;
\* lost, the call starts over until its attempts are used up.
DecideWrite(c) ==
    /\ call[c].at = "write"
    /\ \/ /\ StillPending(call[c].id, call[c].row)
          /\ rec' = Stored(call[c].id, Decided(call[c].row, VoteOf(c)))
          /\ call' = [call EXCEPT ![c] = IdleCall]
          /\ \/ acked' = acked \cup {[id |-> call[c].id, vote |-> VoteOf(c)]}
             \/ UNCHANGED acked
       \/ /\ ~StillPending(call[c].id, call[c].row)
          /\ call' = [call EXCEPT ![c] =
                IF @.attempt < CasMaxAttempts
                THEN [at |-> "read", id |-> @.id, by |-> @.by, action |-> @.action,
                      attempt |-> @.attempt + 1]
                ELSE IdleCall]
          /\ UNCHANGED <<rec, acked>>
       \/ /\ call' = [call EXCEPT ![c] = IdleCall]
          /\ UNCHANGED <<rec, acked>>
    /\ UNCHANGED <<overdue, todo, kick>>
------------------------------------------------------------------------------
(* CheckExpiry *)

\* Time passes an ExpiresAt.  Records without one never become overdue.
Deadline(i) ==
    /\ rec[i] # NoRec /\ rec[i].expires
    /\ overdue' = overdue \cup {i}
    /\ UNCHANGED <<rec, call, todo, kick, acked>>

\* Mutant: the sweep passes over records that have votes.
SweepListUntouched(s) ==
    /\ todo[s] = {}
    /\ todo' = [todo EXCEPT ![s] =
          {[id |-> i, row |-> rec[i]] :
             i \in {j \in overdue : IsPending(j) /\ rec[j].decisions = <<>>}}]
    /\ UNCHANGED <<rec, overdue, call, kick, acked>>

\* ListPending, and the records whose deadline has passed among them.
SweepList(s) ==
    /\ todo[s] = {}
    /\ todo' = [todo EXCEPT ![s] =
          {[id |-> i, row |-> rec[i]] :
             i \in {j \in overdue : IsPending(j)}}]
    /\ UNCHANGED <<rec, overdue, call, kick, acked>>

\* Mutant: the sweep writes the record back without comparing.
ExpireBlind(s) ==
    /\ \E t \in todo[s] :
          /\ todo' = [todo EXCEPT ![s] = @ \ {t}]
          /\ rec' = Stored(t.id, [t.row EXCEPT !.status = "expired"])
    /\ UNCHANGED <<overdue, call, kick, acked>>

\* One record of the list: expired by the same compare-and-set, or skipped
\* because somebody settled or changed it.
ExpireOne(s) ==
    /\ \E t \in todo[s] :
          /\ todo' = [todo EXCEPT ![s] = @ \ {t}]
          /\ IF StillPending(t.id, t.row)
             THEN rec' = Stored(t.id, [t.row EXCEPT !.status = "expired"])
             ELSE UNCHANGED rec
    /\ UNCHANGED <<overdue, call, kick, acked>>

\* A failing update ends the pass; the next tick lists again.
SweepFails(s) ==
    /\ todo[s] # {}
    /\ todo' = [todo EXCEPT ![s] = {}]
    /\ UNCHANGED <<rec, overdue, call, kick, acked>>
------------------------------------------------------------------------------
(* kickoffApproval *)

\* The pending records of the change; a failing list supersedes nothing.
KickoffList(k) ==
    /\ kick[k].at = "idle"
    /\ \E old \in {{}, {[id |-> i, row |-> rec[i]] :
                          i \in {j \in Ids : IsPending(j)}}} :
          kick' = [kick EXCEPT ![k] = [at |-> "supersede", old |-> old]]
    /\ UNCHANGED <<rec, overdue, call, todo, acked>>

\* One of them is written back as expired, over whatever the row is now; a
\* failing write is logged.
SupersedeOne(k) ==
    /\ kick[k].at = "supersede"
    /\ \E t \in kick[k].old :
          /\ kick' = [kick EXCEPT ![k].old = @ \ {t}]
          /\ \/ rec' = Stored(t.id, [t.row EXCEPT !.status = "expired", !.superseded = TRUE])
             \/ UNCHANGED rec
    /\ UNCHANGED <<overdue, call, todo, acked>>

\* Create's validation and its default for the quorum.
Valid(req) == req.approvers = {} \/ req.min <= Cardinality(req.approvers)

\* Service.Create under a fresh id, or its failure, ends the kickoff.
Create(k) ==
    /\ kick[k].at = "supersede" /\ kick[k].old = {}
    /\ kick' = [kick EXCEPT ![k].at = "idle"]
    /\ \/ \E i \in Ids, req \in Requests :
             /\ rec[i] = NoRec
             /\ Valid(req)
             /\ rec' = [rec EXCEPT ![i] = clamp(NewRec(req))]
       \/ UNCHANGED rec
    /\ UNCHANGED <<overdue, call, todo, acked>>
------------------------------------------------------------------------------
Next ==
    \/ \E c \in Callers :
          \/ \E i \in Ids, a \in Approvers : Approve(c, i, a) \/ Reject(c, i, a)
          \/ Retry(c) \/ DecideWrite(c)
    \/ \E i \in Ids : Deadline(i)
    \/ \E s \in Sweepers : SweepList(s) \/ ExpireOne(s) \/ SweepFails(s)
    \/ \E k \in Kickoffs : KickoffList(k) \/ SupersedeOne(k) \/ Create(k)

Spec == Init /\ [][Next]_vars

\* The sweep keeps ticking (a failed pass does not stop the next), and its
\* updates do not fail forever.
SweepFairness ==
    \A s \in Sweepers : WF_vars(SweepList(s)) /\ SF_vars(ExpireOne(s))

SweepSpec == Spec /\ SweepFairness
------------------------------------------------------------------------------
(* Properties *)

\* The quorum a record stands for, before and after it was clamped.
Need(r) == IF r.min = 0 THEN 1 ELSE r.min

VotesOf(r) == {r.decisions[d] : d \in 1..Len(r.decisions)}

\* The ballot a record amounts to: its outcome, its quorum and its votes.
OutcomeOf(r) == IF r = NoRec THEN "none" ELSE IF r.superseded THEN "withdrawn" ELSE r.status
NeedOf(r) == IF r = NoRec THEN 1 ELSE Need(r)
CastIn(r) == IF r = NoRec \/ r.superseded THEN {} ELSE VotesOf(r)

outcomes == [i \in Ids |-> OutcomeOf(rec[i])]
needs == [i \in Ids |-> NeedOf(rec[i])]
casts == [i \in Ids |-> CastIn(rec[i])]

Ballots == INSTANCE Ballot WITH outcome <- outcomes, need <- needs, votes <- casts

\* The service implements the ballot: its reads, retries and competing writers
\* amount to single votes, expiries and withdrawals.
IsBallot == Ballots!BallotSpec

\* What every copy of a record satisfies, stored or read: nobody decided
\* twice, only eligible people decided, a rejected record holds the veto that
\* closed it, an approved one a quorum of approvals and no veto, and an open
\* one neither.
Sound(r) ==
    /\ \A d, e \in 1..Len(r.decisions) : r.decisions[d].by = r.decisions[e].by => d = e
    /\ \A d \in 1..Len(r.decisions) :
          isAuthorized(r, r.decisions[d].by) /\ ~(r.exclude /\ r.decisions[d].by = Initiator)
    /\ r.status = "pending" => countApproves(r.decisions) < Need(r)
    /\ r.status = "approved" => countApproves(r.decisions) >= Need(r)
    /\ r.status \in {"pending", "approved"} =>
          \A d \in 1..Len(r.decisions) : r.decisions[d].action = "approve"
    /\ r.status = "rejected" =>
          \E d \in 1..Len(r.decisions) : r.decisions[d].action = "reject"
    /\ r.superseded => r.status = "expired"

RecordsSound == \A i \in Ids : rec[i] # NoRec => Sound(rec[i])

Copy == [id : Ids, row : Rec]

TypeOK ==
    /\ rec \in [Ids -> Rec \cup {NoRec}]
    /\ overdue \subseteq Ids
    /\ call \in [Callers -> {IdleCall}
                 \cup [at : {"read"}, id : Ids, by : Approvers, action : Actions, attempt : Nat]
                 \cup [at : {"write"}, id : Ids, by : Approvers, action : Actions, attempt : Nat, row : Rec]]
    /\ todo \in [Sweepers -> SUBSET Copy]
    /\ kick \in [Kickoffs -> [at : {"idle", "supersede"}, old : SUBSET Copy]]
    /\ acked \subseteq [id : Ids, vote : Decision]

\* A copy somebody holds: sound, read while pending, with the quorum of the
\* stored record (of the table R), not from the future, and identical to it
\* while the revisions agree.
Faithful(R, i, r) ==
    /\ R[i] # NoRec
    /\ r.status = "pending"
    /\ Sound(r)
    /\ Need(r) = Need(R[i])
    /\ r.rev <= R[i].rev
    /\ r.rev = R[i].rev => r \in {R[i], clamp(R[i])}

\* The strengthening of RecordsSound and AckedVoteCounts that every step keeps.
IndInv ==
    /\ TypeOK
    /\ RecordsSound
    /\ \A c \in Callers : call[c].at = "write" =>
          /\ Faithful(rec, call[c].id, call[c].row)
          /\ call[c].row.min # 0
          /\ MayDecide(call[c].row, call[c].by)
    /\ \A s \in Sweepers : \A t \in todo[s] : Faithful(rec, t.id, t.row)
    /\ \A k \in Kickoffs : \A t \in kick[k].old : Faithful(rec, t.id, t.row)
    /\ \A v \in acked : rec[v.id] # NoRec

\* A vote whose caller was told "recorded" is in its record, for as long as
\* the record is not superseded: no concurrent decision, expiry or retry
\* overwrites it ("no silent overwrite", service.go:216-217).
AckedVoteCounts ==
    \A v \in acked : rec[v.id].superseded \/ v.vote \in VotesOf(rec[v.id])

\* A record that left pending changes no more, unless a re-plan supersedes it:
\* a sweep never undoes a decision, nor a decision an expiry.
SettledStays ==
    [][\A i \in Ids : rec[i] # NoRec /\ rec[i].status # "pending" /\ rec'[i] # rec[i]
                      => rec'[i].superseded]_vars

\* An approval that is past its deadline does not stay pending, however votes
\* and re-plans disturb the sweeps (expiry.go:1-8).
OverdueSettles == \A i \in Ids : IsPending(i) /\ i \in overdue ~> ~IsPending(i)
==============================================================================
