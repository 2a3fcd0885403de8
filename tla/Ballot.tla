------------------------------- MODULE Ballot --------------------------------
(***************************************************************************)
(* What the approval service promises its callers, without revisions,      *)
(* retries or stale reads: every approval record is a ballot on which each *)
(* approver votes at most once, which closes with the first veto or with   *)
(* the vote that makes the quorum, and which then does not change.         *)
(*                                                                         *)
(* The one exception is withdrawal (change_service.go, kickoffApproval): a *)
(* re-plan supersedes the ballots of the change, and as it writes back the *)
(* row it read earlier, a ballot that has closed since is withdrawn too.   *)
(***************************************************************************)
EXTENDS Naturals, FiniteSets

CONSTANTS Ids, Approvers

Vote == [by : Approvers, action : {"approve", "reject"}]

VARIABLES
    outcome, \* "none" before the record exists, then its status
    need,    \* the number of approving votes that approves it
    votes    \* the votes cast

ballotVars == <<outcome, need, votes>>

ApprovesIn(V) == {v \in V : v.action = "approve"}
VetoIn(V) == \E v \in V : v.action = "reject"

BallotInit ==
    /\ outcome \in [Ids -> {"none", "pending"}]
    /\ need \in [Ids -> Nat \ {0}]
    /\ votes = [i \in Ids |-> {}]

Open(i) ==
    /\ outcome[i] = "none"
    /\ outcome' = [outcome EXCEPT ![i] = "pending"]
    /\ need'[i] \in Nat \ {0}
    /\ need' = [need EXCEPT ![i] = need'[i]]
    /\ UNCHANGED votes

\* Where the ballot stands with the votes V: a veto or a full quorum closes it.
Verdict(i, V) ==
    IF VetoIn(V) THEN "rejected"
    ELSE IF Cardinality(ApprovesIn(V)) >= need[i] THEN "approved" ELSE "pending"

CastVote(i, v) ==
    /\ outcome[i] = "pending"
    /\ \A w \in votes[i] : w.by # v.by
    /\ votes' = [votes EXCEPT ![i] = @ \cup {v}]
    /\ outcome' = [outcome EXCEPT ![i] = Verdict(i, votes[i] \cup {v})]
    /\ UNCHANGED need

Expire(i) ==
    /\ outcome[i] = "pending"
    /\ outcome' = [outcome EXCEPT ![i] = "expired"]
    /\ UNCHANGED <<need, votes>>

Withdraw(i) ==
    /\ outcome[i] # "none"
    /\ outcome' = [outcome EXCEPT ![i] = "withdrawn"]
    /\ votes' = [votes EXCEPT ![i] = {}]
    /\ UNCHANGED need

BallotNext ==
    \E i \in Ids :
        \/ Open(i) \/ Expire(i) \/ Withdraw(i)
        \/ \E v \in Vote : CastVote(i, v)

BallotSpec == BallotInit /\ [][BallotNext]_ballotVars
==============================================================================
