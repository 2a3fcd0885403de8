--------------------------- MODULE GovernanceProofs ---------------------------
(* Proofs about Governance, for any number of clients and plans: an approved   *)
(* apply executes alone while nothing overrides the run, no plan passes the    *)
(* approval check without consent to it, a closed run stands, and a decision   *)
(* is mirrored onto the run it is about.                                       *)
EXTENDS Governance, TLAPS

\* Most leaves are first-order; those that need more name another prover.
USE Zenon

-------------------------------------------------------------------------------
(* Frame facts.                                                                *)

\* A function on an initial segment is a sequence.
LEMMA FiniteSequence ==
    ASSUME NEW S, NEW n \in Nat, NEW f \in [1..n -> S]
    PROVE  f \in Seq(S)
BY SMT

\* Consent only grows, and what was remembered stays true.
LEMMA ConsentGrows ==
    ASSUME NEW C, NEW D, C \subseteq D, D \subseteq Plans, NEW m, Remembers(m, C)
    PROVE  Remembers(m, D)
<1>1. \A r : Consented(r, C) => Consented(r, D)
    BY DEF Consented
<1> QED BY <1>1 DEF Remembers

\* What a call that moves on leaves of the others.
LEMMA GotoOne ==
    ASSUME IndInv, NEW c \in Callers, NEW r, Goto(c, r)
    PROVE  /\ DOMAIN rpc' = Callers
           /\ rpc'[c] = r
           /\ \A d \in Callers : d # c => rpc'[d] = rpc[d]
BY DEF IndInv, Goto

\* The run stays with its execution when the call overrides it and says so,
\* when no execution begins and the status is not taken from one, when the
\* execution ends, and when one begins on a run nobody executes.
LEMMA AloneKept ==
    ASSUME IndInv, NEW c \in Callers, NEW r, Goto(c, r),
           overridden => overridden',
           \/ overridden'
           \/ /\ r.at \in {"load", "exec", "gate"} => ExecutingNow(c)
              /\ run'.status = run.status \/ run.status # "running"
           \/ r.at \notin {"load", "exec", "gate"} /\ ExecutingNow(c)
           \/ run.status # "running" /\ run'.status = "running"
    PROVE  Alone'
<1>1. CASE overridden'
    BY <1>1 DEF Alone
<1>2. CASE ~overridden'
  <2>1. \A d \in Callers : ExecutingNow(d) =>
            run.status = "running" /\ \A e \in Callers : ExecutingNow(e) => d = e
    BY <1>2 DEF IndInv, Alone
  <2>2. \A d \in Callers : d # c => (ExecutingNow(d)' <=> ExecutingNow(d))
    BY GotoOne DEF ExecutingNow
  <2>3. ExecutingNow(c)' <=> r.at \in {"load", "exec", "gate"}
    BY GotoOne DEF ExecutingNow
  <2> QED BY <1>2, <2>1, <2>2, <2>3 DEF Alone
<1> QED BY <1>1, <1>2

\* A step of one call that consents to nothing.
LEMMA CallKeeps ==
    ASSUME IndInv, NEW c \in Callers, NEW r, Goto(c, r), Remembers(r, consented),
           consented' = consented, overridden' \in BOOLEAN, Alone',
           run' \in Run, run'.status = "approved" => consented # {},
           rows' \in Seq(Row),
           \A i \in DOMAIN rows' : Consented(rows'[i], consented) /\ (rows'[i].plan = NoPlan => Legacy(i)')
    PROVE  IndInv'
<1>1. DOMAIN rpc' = Callers /\ \A d \in Callers : Remembers(rpc'[d], consented)
    BY ZenonT(30), GotoOne DEF IndInv
<1> QED BY <1>1 DEF IndInv

\* The same, when the run and the records stay.
LEMMA QuietKeeps ==
    ASSUME IndInv, NEW c \in Callers, NEW r, Goto(c, r), Remembers(r, consented),
           UNCHANGED <<run, rows, consented, overridden>>,
           r.at \in {"load", "exec", "gate"} => ExecutingNow(c)
    PROVE  IndInv'
<1>1. Alone'
    BY AloneKept
<1>2. \A i \in DOMAIN rows' : Consented(rows'[i], consented) /\ (rows'[i].plan = NoPlan => Legacy(i)')
    BY DEF IndInv, Legacy
<1> QED BY <1>1, <1>2, CallKeeps DEF IndInv

\* The same, when only the run is written.
LEMMA RunKeeps ==
    ASSUME IndInv, NEW c \in Callers, NEW r, Goto(c, r), Remembers(r, consented),
           UNCHANGED <<rows, consented>>, overridden' \in BOOLEAN, Alone',
           run' \in Run, run'.status = "approved" => consented # {}
    PROVE  IndInv'
<1>1. \A i \in DOMAIN rows' : Consented(rows'[i], consented) /\ (rows'[i].plan = NoPlan => Legacy(i)')
    BY DEF IndInv, Legacy
<1> QED BY <1>1, CallKeeps DEF IndInv

\* A call that returned remembers nothing.
LEMMA IdleRemembers ==
    ASSUME NEW C
    PROVE  Remembers(Idle, C) /\ Idle.at \notin {"load", "exec", "gate"}
BY DEF Idle, Remembers, Holding

\* An approved record that matches a plan shows consent to it.
LEMMA AttestedConsents ==
    ASSUME IndInv, NEW p \in Plans, Attested(p)
    PROVE  p \in consented
<1>1. PICK i \in DOMAIN rows : rows[i].status = "approved" /\ MatchesPlan(rows[i], p)
    BY DEF Attested
<1> QED BY <1>1, PlansFresh DEF IndInv, Consented, MatchesPlan

\* The store's conditional write.
LEMMA CasTyped ==
    ASSUME IndInv, NEW from, NEW to \in RunStatus, UpdateRunStatusIf(from, to)
    PROVE  /\ run' \in Run
           /\ run.status = from => run'.status = to
           /\ run.status # from => run' = run
BY DEF IndInv, UpdateRunStatusIf, Run

-------------------------------------------------------------------------------
(* The calls, phase by phase.                                                  *)

\* The steps of a call that only read.
LEMMA ReadKeeps ==
    ASSUME IndInv, NEW c \in Callers,
           \/ \E p \in Plans : PlanRead(c, p) \/ RetryLoad(c, p)
           \/ Kickoff(c) \/ SettleRows(c) \/ SettleRun(c)
           \/ (\E auto \in BOOLEAN : ApplyGate(c, auto)) \/ ApplyRows(c) \/ Load(c) \/ PassGate(c)
           \/ \E how \in {"retry", "retry_host", "replan"} : Retry(c, how)
           \/ ReplanRows(c) \/ ReplanRead(c) \/ ReplanLoad(c) \/ ReenterList(c) \/ ReenterDone(c)
           \/ RetryRead(c)
           \/ \E to \in RowTargets, force \in BOOLEAN : RowRead(c, to, force)
    PROVE  IndInv'
<1>1. UNCHANGED <<run, rows, consented, overridden>>
    BY DEF PlanRead, RetryLoad, Kickoff, SettleRows, SettleRun, ApplyGate, ApplyRows, Load, PassGate,
           Retry, ReplanRows, ReplanRead, ReplanLoad, ReenterList, ReenterDone, RetryRead, RowRead
<1> DEFINE Fine(r) == Remembers(r, consented) /\ (r.at \in {"load", "exec", "gate"} => ExecutingNow(c))
<1>2. SUFFICES \E r : Goto(c, r) /\ Fine(r)
    BY <1>1, QuietKeeps DEF Fine
<1> HIDE DEF Fine
<1>3. Fine(Idle)
    BY IdleRemembers DEF Fine
<1>4. run \in Run /\ (run.status = "approved" => consented # {}) /\ Remembers(rpc[c], consented)
    BY DEF IndInv
<1>5. ASSUME NEW p \in Plans, PlanRead(c, p) PROVE \E r : Goto(c, r) /\ Fine(r)
  <2> DEFINE r == [at |-> "plan_write", seen |-> run, plan |-> p]
  <2>1. Goto(c, r)
    BY <1>5 DEF PlanRead
  <2>2. Fine(r)
    BY <1>4 DEF Remembers, Holding, Fine
  <2> QED BY <2>1, <2>2
<1>6. ASSUME NEW p \in Plans, RetryLoad(c, p) PROVE \E r : Goto(c, r) /\ Fine(r)
  <2>1. CASE run.plan = NoPlan
    BY <1>3, <1>6, <2>1 DEF RetryLoad, Return
  <2>2. CASE run.plan # NoPlan /\ rpc[c].how = "replan"
    <3>1. Goto(c, [at |-> "replan_rows", plan |-> p])
      BY <1>6, <2>2 DEF RetryLoad
    <3>2. Fine([at |-> "replan_rows", plan |-> p])
      BY DEF Remembers, Holding, Fine
    <3> QED BY <3>1, <3>2
  <2>3. CASE run.plan # NoPlan /\ rpc[c].how # "replan"
    <3> DEFINE r == [at |-> "retry_read", how |-> rpc[c].how, plan |-> run.plan]
    <3>1. Goto(c, r)
      BY <1>6, <2>3 DEF RetryLoad
    <3>2. Fine(r)
      BY DEF Remembers, Holding, Fine
    <3> QED BY <3>1, <3>2
  <2> QED BY <2>1, <2>2, <2>3
<1>7. ASSUME Kickoff(c) PROVE \E r : Goto(c, r) /\ Fine(r)
  <2>1. CASE rpc[c].seen.plan \in Votable
    <3> DEFINE r == [at |-> "supersede", seen |-> rpc[c].seen, old |-> PendingRows]
    <3>1. Goto(c, r) /\ rpc[c].at = "kick"
      BY <1>7, <2>1 DEF Kickoff, At
    <3>2. Fine(r)
      BY <1>4, <2>1, <3>1, PlansFresh DEF Remembers, Holding, Fine
    <3> QED BY <3>1, <3>2
  <2>2. CASE rpc[c].seen.plan \notin Votable
    BY <1>3, <1>7, <2>2 DEF Kickoff, Return
  <2> QED BY <2>1, <2>2
<1>8. ASSUME SettleRows(c) PROVE \E r : Goto(c, r) /\ Fine(r)
  <2> DEFINE r == [at |-> "settle_run", rows |-> rows]
  <2>1. Goto(c, r)
    BY <1>8 DEF SettleRows
  <2>2. \A i \in DOMAIN rows : rows[i] \in Row /\ Consented(rows[i], consented)
    BY SMT DEF IndInv
  <2>3. Fine(r)
    BY <2>2 DEF Remembers, Holding, Fine
  <2> QED BY <2>1, <2>3
<1>9. ASSUME SettleRun(c) PROVE \E r : Goto(c, r) /\ Fine(r)
  <2> DEFINE to == Settled(rpc[c].rows, run.plan)
             r == [at |-> "settle_cas", from |-> run.status, to |-> to]
  <2>1. CASE to = "open" \/ run.status \in terminalRunStatuses
    BY <1>3, <1>9, <2>1 DEF SettleRun, Return
  <2>2. CASE ~(to = "open" \/ run.status \in terminalRunStatuses)
    <3>1. Goto(c, r)
      BY <1>9, <2>2 DEF SettleRun
    <3>2. to \in {"approved", "rejected"}
      BY <2>2 DEF Settled
    <3>3. to = "approved" => consented # {}
      <4> HAVE to = "approved"
      <4>1. PICK j \in DOMAIN rpc[c].rows :
                rpc[c].rows[j].status = "approved" /\ MatchesPlan(rpc[c].rows[j], run.plan)
        BY DEF Settled
      <4>2. rpc[c].rows[j] \in Row /\ Consented(rpc[c].rows[j], consented)
        BY <1>4, <1>9, <4>1 DEF SettleRun, At, Remembers
      <4> QED BY <1>4, <4>1, <4>2, PlansFresh DEF Consented, MatchesPlan, Run
    <3>4. Fine(r)
      BY <2>2, <3>2, <3>3 DEF Remembers, Holding, Fine
    <3> QED BY <3>1, <3>4
  <2> QED BY <2>1, <2>2
<1>10. ASSUME NEW auto \in BOOLEAN, ApplyGate(c, auto) PROVE \E r : Goto(c, r) /\ Fine(r)
  <2> DEFINE r == [at |-> IF auto THEN "apply_cas" ELSE "apply_rows", seen |-> run,
                   how |-> IF auto THEN "auto" ELSE "apply"]
  <2>1. Goto(c, r) /\ run.plan \in Plans
    BY <1>4, <1>10 DEF ApplyGate, Run
  <2>2. Fine(r)
    <3>1. CASE auto
      BY <1>4, <2>1, <3>1 DEF Remembers, Holding, Fine
    <3>2. CASE ~auto
      BY <1>4, <2>1, <3>2 DEF Remembers, Holding, Fine
    <3> QED BY <3>1, <3>2
  <2> QED BY <2>1, <2>2
<1>11. ASSUME ApplyRows(c) PROVE \E r : Goto(c, r) /\ Fine(r)
  <2>1. CASE Attested(rpc[c].seen.plan)
    <3> DEFINE r == [rpc[c] EXCEPT !.at = "apply_cas"]
    <3>1. Goto(c, r) /\ rpc[c].at = "apply_rows"
      BY <1>11, <2>1 DEF ApplyRows, Move, At
    <3>2. rpc[c].seen.plan \in consented
      BY <1>4, <2>1, <3>1, AttestedConsents DEF Remembers
    <3>3. /\ "at" \in DOMAIN r /\ "seen" \in DOMAIN r /\ "how" \in DOMAIN r
          /\ r.at = "apply_cas" /\ r.seen = rpc[c].seen
      BY <1>4, <3>1 DEF Remembers, Holding
    <3>4. Fine(r)
      <4> HIDE DEF r
      <4> QED BY <1>4, <3>1, <3>2, <3>3 DEF Remembers, Holding, Fine
    <3> QED BY <3>1, <3>4
  <2>2. CASE ~Attested(rpc[c].seen.plan)
    BY <1>3, <1>11, <2>2 DEF ApplyRows, Return
  <2> QED BY <2>1, <2>2
<1>12. ASSUME Load(c) PROVE \E r : Goto(c, r) /\ Fine(r)
  <2> DEFINE r == [at |-> "exec", how |-> rpc[c].how, plan |-> run.plan]
  <2>1. Goto(c, r) /\ ExecutingNow(c)
    BY <1>12 DEF Load, Executing, At, ExecutingNow
  <2>2. Fine(r)
    BY <2>1 DEF Remembers, Holding, Fine
  <2> QED BY <2>1, <2>2
<1>13. ASSUME PassGate(c) PROVE \E r : Goto(c, r) /\ Fine(r)
  <2> DEFINE r == [rpc[c] EXCEPT !.at = "exec"]
  <2>1. Goto(c, r) /\ ExecutingNow(c)
    BY <1>13 DEF PassGate, Move, At, ExecutingNow
  <2>2. "at" \in DOMAIN r /\ r.at = "exec"
    BY <1>4 DEF Remembers
  <2>3. Fine(r)
    <3> HIDE DEF r
    <3> QED BY <2>1, <2>2 DEF Remembers, Holding, Fine
  <2> QED BY <2>1, <2>3
<1>14. ASSUME NEW how, Retry(c, how) PROVE \E r : Goto(c, r) /\ Fine(r)
  <2>1. Goto(c, [at |-> "retry_load", how |-> how])
    BY <1>14 DEF Retry
  <2>2. Fine([at |-> "retry_load", how |-> how])
    BY DEF Remembers, Holding, Fine
  <2> QED BY <2>1, <2>2
<1>15. ASSUME ReplanRows(c) PROVE \E r : Goto(c, r) /\ Fine(r)
  <2> DEFINE r == [at |-> "replan_read", plan |-> rpc[c].plan, ok |-> Attested(rpc[c].plan)]
  <2>1. Goto(c, r) /\ rpc[c].plan \in Plans
    BY <1>4, <1>15 DEF ReplanRows, At, Remembers
  <2>2. Attested(rpc[c].plan) => rpc[c].plan \in consented
    BY <2>1, AttestedConsents
  <2>3. Fine(r)
    BY <2>1, <2>2 DEF Remembers, Holding, Fine
  <2> QED BY <2>1, <2>3
<1>16. ASSUME ReplanRead(c) PROVE \E r : Goto(c, r) /\ Fine(r)
  <2> DEFINE r == [at |-> "replan_write", seen |-> run, plan |-> rpc[c].plan, ok |-> rpc[c].ok]
  <2>1. Goto(c, r) /\ rpc[c].plan \in Plans /\ (rpc[c].ok => rpc[c].plan \in consented)
    BY <1>4, <1>16 DEF ReplanRead, At, Remembers
  <2>2. Fine(r)
    BY <1>4, <2>1 DEF Remembers, Holding, Fine
  <2> QED BY <2>1, <2>2
<1>17. ASSUME ReplanLoad(c) \/ RetryRead(c) PROVE \E r : Goto(c, r) /\ Fine(r)
  <2> DEFINE r == [at |-> "retry_read", how |-> "replan", plan |-> run.plan]
             q == [at |-> "retry_cas", how |-> rpc[c].how, plan |-> rpc[c].plan, from |-> run.status]
  <2>1. Goto(c, r) \/ Goto(c, q)
    BY <1>17 DEF ReplanLoad, RetryRead
  <2>2. Fine(r) /\ Fine(q)
    BY DEF Remembers, Holding, Fine
  <2> QED BY <2>1, <2>2
<1>18. ASSUME ReenterList(c) \/ ReenterDone(c) PROVE \E r : Goto(c, r) /\ Fine(r)
  <2>1. CASE ReenterDone(c)
    BY <1>3, <2>1 DEF ReenterDone, Return
  <2>2. CASE ReenterList(c)
    <3>1. Goto(c, [at |-> "expire", old |-> PendingRows])
      BY <2>2 DEF ReenterList
    <3>2. Fine([at |-> "expire", old |-> PendingRows])
      BY DEF Remembers, Holding, Fine
    <3> QED BY <3>1, <3>2
  <2> QED BY <1>18, <2>1, <2>2
<1>19. ASSUME NEW to \in RowTargets, NEW force, RowRead(c, to, force) PROVE \E r : Goto(c, r) /\ Fine(r)
  <2> DEFINE r == [at |-> "row_write", seen |-> run, to |-> to]
  <2>1. Goto(c, r)
    BY <1>19 DEF RowRead
  <2>2. Fine(r)
    BY <1>4 DEF Remembers, Holding, Fine
  <2> QED BY <2>1, <2>2
<1> QED BY <1>5, <1>6, <1>7, <1>8, <1>9, <1>10, <1>11, <1>12, <1>13, <1>14, <1>15, <1>16,
           <1>17, <1>18, <1>19

\* The conditional writes: PlanReset, SettleCas, ApplyCas, RetryCas and Finish.
LEMMA CasKeeps ==
    ASSUME IndInv, NEW c \in Callers,
           PlanReset(c) \/ SettleCas(c) \/ ApplyCas(c) \/ RetryCas(c) \/ Finish(c)
    PROVE  IndInv'
<1>1. run \in Run /\ (run.status = "approved" => consented # {}) /\ Remembers(rpc[c], consented)
      /\ overridden \in BOOLEAN
    BY DEF IndInv
<1>2. CASE PlanReset(c)
  <2> DEFINE r == [at |-> "kick", seen |-> IF run.status = "approved" THEN [rpc[c].seen EXCEPT !.status = "draft"]
                                           ELSE rpc[c].seen]
  <2>1. /\ Goto(c, r) /\ UpdateRunStatusIf("approved", "draft") /\ rpc[c].at = "plan_reset"
        /\ UNCHANGED <<rows, consented, overridden>>
    BY <1>2 DEF PlanReset, At
  <2>2. rpc[c].seen \in Run /\ (rpc[c].seen.status = "approved" => consented # {})
    BY <1>1, <2>1 DEF Remembers, Holding
  <2>3. Remembers(r, consented)
    <3>1. CASE run.status = "approved"
      BY <2>2, <3>1 DEF Remembers, Holding, Run, RunStatus
    <3>2. CASE run.status # "approved"
      BY <2>2, <3>2 DEF Remembers, Holding
    <3> QED BY <3>1, <3>2
  <2>4. /\ run' \in Run /\ (run.status = "approved" => run'.status = "draft")
        /\ run.status # "approved" => run' = run
    BY <2>1, CasTyped DEF RunStatus
  <2>5. Alone'
    <3>1. r.at \notin {"load", "exec", "gate"}
      OBVIOUS
    <3>2. run'.status = run.status \/ run.status # "running"
      BY <2>4
    <3> HIDE DEF r
    <3> QED BY <2>1, <3>1, <3>2, AloneKept
  <2> HIDE DEF r
  <2> QED BY <1>1, <2>1, <2>3, <2>4, <2>5, RunKeeps
<1>3. CASE SettleCas(c)
  <2>1. /\ Goto(c, Idle) /\ UpdateRunStatusIf(rpc[c].from, rpc[c].to) /\ rpc[c].at = "settle_cas"
        /\ UNCHANGED <<rows, consented, overridden>>
    BY <1>3 DEF SettleCas, At, Return
  <2>2. /\ rpc[c].from \notin terminalRunStatuses
        /\ rpc[c].to \in {"approved", "rejected"}
        /\ rpc[c].to = "approved" => consented # {}
    BY <1>1, <2>1 DEF Remembers
  <2>3. /\ run' \in Run
        /\ run.status = rpc[c].from => run'.status = rpc[c].to
        /\ run.status # rpc[c].from => run' = run
    BY <2>1, <2>2, CasTyped DEF RunStatus
  <2>4. run'.status = run.status \/ run.status # "running"
    BY <2>2, <2>3 DEF terminalRunStatuses, RunStatus
  <2>5. Alone'
    BY <2>1, <2>4, AloneKept, IdleRemembers
  <2> QED BY <1>1, <2>1, <2>2, <2>3, <2>5, RunKeeps, IdleRemembers
<1>4. CASE ApplyCas(c)
  <2>1. /\ UpdateRunStatusIf(rpc[c].seen.status, "running")
        /\ overridden' = (overridden \/ (run.status = "running" /\ rpc[c].seen.status = "running"))
        /\ UNCHANGED <<rows, consented>>
    BY <1>4 DEF ApplyCas
  <2>2. /\ run' \in Run
        /\ run.status = rpc[c].seen.status => run'.status = "running"
        /\ run.status # rpc[c].seen.status => run' = run
    BY <2>1, CasTyped DEF RunStatus
  <2>3. CASE run.status = rpc[c].seen.status
    <3> DEFINE r == [at |-> "load", how |-> rpc[c].how]
    <3>1. Goto(c, r)
      BY <1>4, <2>3 DEF ApplyCas
    <3>2. Remembers(r, consented)
      BY DEF Remembers, Holding
    <3>3. Alone'
      BY <1>1, <2>1, <2>2, <2>3, <3>1, AloneKept
    <3> HIDE DEF r
    <3> QED BY <1>1, <2>1, <2>2, <2>3, <3>1, <3>2, <3>3, RunKeeps
  <2>4. CASE run.status # rpc[c].seen.status
    <3>1. Goto(c, Idle)
      BY <1>4, <2>4 DEF ApplyCas, Return
    <3>2. Alone'
      BY <1>1, <2>1, <2>2, <2>4, <3>1, AloneKept, IdleRemembers
    <3> QED BY <1>1, <2>1, <2>2, <2>4, <3>1, <3>2, RunKeeps, IdleRemembers
  <2> QED BY <2>3, <2>4
<1>5. CASE RetryCas(c)
  <2>1. /\ UpdateRunStatusIf(rpc[c].from, "running")
        /\ overridden' = (overridden \/ (run.status = "running" /\ rpc[c].from = "running"))
        /\ UNCHANGED <<rows, consented>>
    BY <1>5 DEF RetryCas
  <2>2. /\ run' \in Run
        /\ run.status = rpc[c].from => run'.status = "running"
        /\ run.status # rpc[c].from => run' = run
    BY <2>1, CasTyped DEF RunStatus
  <2>3. CASE run.status = rpc[c].from
    <3> DEFINE r == [at |-> "exec", how |-> rpc[c].how, plan |-> rpc[c].plan]
    <3>1. Goto(c, r)
      BY <1>5, <2>3 DEF RetryCas, Executing
    <3>2. Remembers(r, consented)
      BY DEF Remembers, Holding
    <3>3. Alone'
      BY <1>1, <2>1, <2>2, <2>3, <3>1, AloneKept
    <3> HIDE DEF r
    <3> QED BY <1>1, <2>1, <2>2, <2>3, <3>1, <3>2, <3>3, RunKeeps
  <2>4. CASE run.status # rpc[c].from
    <3>1. Goto(c, Idle)
      BY <1>5, <2>4 DEF RetryCas, Return
    <3>2. Alone'
      BY <1>1, <2>1, <2>2, <2>4, <3>1, AloneKept, IdleRemembers
    <3> QED BY <1>1, <2>1, <2>2, <2>4, <3>1, <3>2, RunKeeps, IdleRemembers
  <2> QED BY <2>3, <2>4
<1>6. CASE Finish(c)
  <2>1. /\ Goto(c, Idle) /\ ExecutingNow(c)
        /\ UNCHANGED <<rows, consented, overridden>>
    BY <1>6 DEF Finish, Return, ExecutingNow
  <2>2. PICK v \in Verdicts : UpdateRunStatusIf("running", v)
    BY <1>6 DEF Finish, Verdicts, At
  <2>3. /\ run' \in Run
        /\ run.status = "running" => run'.status = v
        /\ run.status # "running" => run' = run
    BY <2>2, CasTyped DEF RunStatus
  <2>4. Alone'
    BY <2>1, AloneKept, IdleRemembers
  <2>5. run'.status = "approved" => consented # {}
    BY <1>1, <2>2, <2>3 DEF Verdicts
  <2> QED BY <1>1, <2>1, <2>3, <2>4, <2>5, RunKeeps, IdleRemembers
<1> QED BY <1>2, <1>3, <1>4, <1>5, <1>6

\* The writes that compare nothing: the plan columns, and the whole row.
LEMMA RowWriteKeeps ==
    ASSUME IndInv, NEW c \in Callers,
           PlanWrite(c) \/ TierWrite(c) \/ ReplanWrite(c) \/ Reenter(c) \/ RowWrite(c)
    PROVE  IndInv'
<1> DEFINE seen == rpc[c].seen
<1>1. run \in Run /\ (run.status = "approved" => consented # {}) /\ Remembers(rpc[c], consented)
      /\ overridden \in BOOLEAN
    BY DEF IndInv
<1>2. rpc[c].at \in Holding
    BY DEF PlanWrite, TierWrite, ReplanWrite, Reenter, RowWrite, At, Holding
<1>3. seen \in Run /\ (seen.status = "approved" => consented # {})
    BY <1>1, <1>2 DEF Remembers
<1>4. UNCHANGED <<rows, consented>>
    BY DEF PlanWrite, TierWrite, ReplanWrite, Reenter, RowWrite
<1>5. CASE PlanWrite(c)
  <2> DEFINE r == [at |-> IF seen.status = "approved" /\ seen.plan # rpc[c].plan THEN "plan_reset" ELSE "kick",
                   seen |-> [seen EXCEPT !.plan = rpc[c].plan]]
  <2>1. /\ Goto(c, r) /\ rpc[c].at = "plan_write" /\ overridden' = overridden
        /\ run' = [run EXCEPT !.plan = rpc[c].plan]
    BY <1>5 DEF PlanWrite, At
  <2>2. rpc[c].plan \in Plans
    BY <1>1, <2>1 DEF Remembers
  <2>3. run' \in Run /\ run'.status = run.status
    BY <1>1, <2>1, <2>2 DEF Run
  <2>4. r.seen \in Run /\ r.seen.status = seen.status /\ r.at \in {"plan_reset", "kick"}
        /\ "at" \in DOMAIN r /\ "seen" \in DOMAIN r
    BY <1>3, <2>2 DEF Run
  <2> HIDE DEF r
  <2>5. Remembers(r, consented)
    BY <1>3, <2>4 DEF Remembers, Holding
  <2>6. Alone'
    BY <2>1, <2>3, <2>4, AloneKept
  <2> QED BY <1>1, <1>4, <2>1, <2>3, <2>5, <2>6, RunKeeps
<1>6. CASE TierWrite(c) \/ RowWrite(c)
  <2>1. Goto(c, Idle) /\ overridden' = (overridden \/ Overrides(seen))
    BY <1>6 DEF TierWrite, RowWrite, UpdateRun, Return
  <2>2. run' \in Run /\ (run'.status = "approved" => consented # {})
    <3>1. CASE TierWrite(c)
      BY <1>3, <3>1 DEF TierWrite, UpdateRun, derivedTier, Run, Tiers
    <3>2. CASE RowWrite(c)
      <4>1. rpc[c].to \in RowTargets
        BY <1>1, <3>2 DEF RowWrite, At, Remembers
      <4> QED BY <1>3, <3>2, <4>1 DEF RowWrite, UpdateRun, Run, RowTargets, RunStatus, Verdicts
    <3> QED BY <1>6, <3>1, <3>2
  <2>3. Alone'
    BY <1>1, <2>1, AloneKept, IdleRemembers DEF Overrides
  <2> QED BY <1>1, <1>4, <2>1, <2>2, <2>3, RunKeeps, IdleRemembers DEF Overrides
<1>7. CASE ReplanWrite(c)
  <2> DEFINE new == [seen EXCEPT !.plan = rpc[c].plan]
  <2>1. /\ overridden' = (overridden \/ Overrides(seen))
        /\ run' = new /\ rpc[c].at = "replan_write"
        /\ Goto(c, IF rpc[c].ok THEN [at |-> "replan_load"] ELSE [at |-> "reenter", seen |-> new])
    BY <1>7 DEF ReplanWrite, UpdateRun, At
  <2>2. new \in Run /\ new.status = seen.status
    BY <1>1, <1>3, <2>1 DEF Remembers, Run
  <2> HIDE DEF new
  <2>3. \E r : /\ Goto(c, r) /\ Remembers(r, consented)
               /\ r.at \notin {"load", "exec", "gate"}
    <3>1. Remembers([at |-> "replan_load"], consented)
      BY DEF Remembers, Holding
    <3>2. Remembers([at |-> "reenter", seen |-> new], consented)
      BY <1>3, <2>2 DEF Remembers, Holding
    <3> QED BY SMT, <2>1, <3>1, <3>2
  <2>4. PICK r : /\ Goto(c, r) /\ Remembers(r, consented)
                 /\ r.at \notin {"load", "exec", "gate"}
    BY <2>3
  <2>5. Alone'
    BY <1>1, <2>1, <2>4, AloneKept DEF Overrides
  <2> QED BY <1>1, <1>3, <1>4, <2>1, <2>2, <2>4, <2>5, RunKeeps DEF Overrides
<1>8. CASE Reenter(c)
  <2> DEFINE r == [at |-> "reenter_list"]
  <2>1. /\ overridden' = (overridden \/ Overrides(seen) \/ Attested(seen.plan))
        /\ run' = [seen EXCEPT !.status = "draft"] /\ Goto(c, r)
    BY <1>8 DEF Reenter
  <2>2. run' \in Run /\ run'.status = "draft"
    BY <1>3, <2>1 DEF Run, RunStatus
  <2>3. Remembers(r, consented) /\ r.at \notin {"load", "exec", "gate"}
    BY DEF Remembers, Holding
  <2> HIDE DEF r
  <2>4. Alone'
    BY <1>1, <2>1, <2>3, AloneKept DEF Overrides
  <2>5. overridden' \in BOOLEAN
    BY <1>1, <2>1 DEF Overrides, Attested
  <2> QED BY <1>1, <1>4, <2>1, <2>2, <2>3, <2>4, <2>5, RunKeeps
<1> QED BY <1>5, <1>6, <1>7, <1>8

\* A record's status changes; only a vote makes it approved.
LEMMA RowStatus ==
    ASSUME IndInv, NEW i, NEW s \in {"pending", "rejected", "expired"},
           rows' = [rows EXCEPT ![i].status = s]
    PROVE  /\ rows' \in Seq(Row)
           /\ \A j \in DOMAIN rows' : /\ Consented(rows'[j], consented)
                                      /\ rows'[j].plan = NoPlan => Legacy(j)'
<1>1. rows \in Seq(Row) /\ DOMAIN rows = 1..Len(rows) /\ \A j \in DOMAIN rows : rows[j] \in Row
    BY SMT DEF IndInv
<1>2. DOMAIN rows' = DOMAIN rows
    BY <1>1
<1>3. \A j \in DOMAIN rows : j # i => rows'[j] = rows[j]
    BY <1>1
<1>4. i \in DOMAIN rows => rows'[i] \in Row /\ rows'[i].plan = rows[i].plan /\ rows'[i].status = s
    BY <1>1 DEF Row
<1>5. rows' \in Seq(Row)
  <2>1. rows' = [j \in 1..Len(rows) |-> rows'[j]]
    BY <1>1
  <2>2. \A j \in 1..Len(rows) : rows'[j] \in Row
    BY <1>1, <1>3, <1>4
  <2>3. Len(rows) \in Nat
    BY SMT, <1>1
  <2>4. rows' \in [1..Len(rows) -> Row]
    BY <2>1, <2>2
  <2> QED BY <2>3, <2>4, FiniteSequence
<1>6. ASSUME NEW j \in DOMAIN rows'
      PROVE  Consented(rows'[j], consented) /\ (rows'[j].plan = NoPlan => Legacy(j)')
    BY <1>2, <1>3, <1>4 DEF IndInv, Consented, Legacy
<1> QED BY <1>5, <1>6

\* A record is added, pending, for a plan or for a gate.
LEMMA RowAdded ==
    ASSUME IndInv, NEW p \in Plans \cup {Gate}, rows' = Append(rows, [status |-> "pending", plan |-> p])
    PROVE  /\ rows' \in Seq(Row)
           /\ \A j \in DOMAIN rows' : /\ Consented(rows'[j], consented)
                                      /\ rows'[j].plan = NoPlan => Legacy(j)'
<1> DEFINE new == [status |-> "pending", plan |-> p]
<1>1. new \in Row /\ new.plan # NoPlan /\ new.status = "pending"
    BY PlansFresh DEF Row
<1>2. rows \in Seq(Row) /\ rows' = Append(rows, new)
    BY DEF IndInv
<1> HIDE DEF new
<1>3. /\ rows' \in Seq(Row) /\ Len(rows') = Len(rows) + 1
      /\ \A j \in 1..Len(rows) : rows'[j] = rows[j]
      /\ rows'[Len(rows) + 1] = new
    BY SMT, <1>1, <1>2
<1>4. ASSUME NEW j \in DOMAIN rows'
      PROVE  Consented(rows'[j], consented) /\ (rows'[j].plan = NoPlan => Legacy(j)')
  <2>1. CASE j \in 1..Len(rows)
    BY SMT, <1>2, <1>3, <2>1 DEF IndInv, Legacy
  <2>2. CASE j = Len(rows) + 1
    BY <1>1, <1>3, <2>2 DEF Consented
  <2> QED BY SMT, <1>2, <1>3, <2>1, <2>2
<1> QED BY <1>3, <1>4

\* The steps that write the records, votes for approval apart.
LEMMA RecordKeeps ==
    ASSUME IndInv, NEW c \in Callers, Supersede(c) \/ CreateRow(c) \/ OpenGate(c) \/ RejectChange(c)
    PROVE  IndInv'
<1>1. UNCHANGED <<run, consented, overridden>>
    BY DEF Supersede, CreateRow, OpenGate, RejectChange
<1>2. Remembers(rpc[c], consented) /\ rows \in Seq(Row) /\ run \in Run /\ overridden \in BOOLEAN
      /\ (run.status = "approved" => consented # {})
    BY DEF IndInv
<1> DEFINE Fine(r) == Remembers(r, consented) /\ (r.at \in {"load", "exec", "gate"} => ExecutingNow(c))
           RowsFine == /\ rows' \in Seq(Row)
                       /\ \A j \in DOMAIN rows' : /\ Consented(rows'[j], consented)
                                                  /\ rows'[j].plan = NoPlan => Legacy(j)'
<1>3. SUFFICES RowsFine /\ \E r : Goto(c, r) /\ Fine(r)
  <2>1. PICK r : Goto(c, r) /\ Fine(r)
    BY <1>3
  <2>2. Alone'
    BY <1>1, <2>1, AloneKept
  <2> QED BY <1>1, <1>2, <1>3, <2>1, <2>2, CallKeeps
<1>4. CASE Supersede(c)
  <2>1. PICK i \in rpc[c].old : /\ rows' = [rows EXCEPT ![i].status = "expired"]
                                /\ Goto(c, [rpc[c] EXCEPT !.old = @ \ {i}])
    BY <1>4 DEF Supersede
  <2> DEFINE r == [rpc[c] EXCEPT !.old = @ \ {i}]
  <2>2. rpc[c].at \in {"supersede", "expire"}
    BY <1>4 DEF Supersede
  <2>3. /\ DOMAIN r = DOMAIN rpc[c] /\ r.at = rpc[c].at
        /\ rpc[c].at = "supersede" => r.seen = rpc[c].seen
    BY <1>2, <2>2 DEF Remembers, Holding
  <2>4. Goto(c, r)
    BY <2>1
  <2> HIDE DEF r
  <2>5. Fine(r)
    BY <1>2, <2>2, <2>3 DEF Remembers, Holding
  <2>6. RowsFine
    BY <2>1, RowStatus
  <2> QED BY <2>4, <2>5, <2>6
<1>5. CASE CreateRow(c)
  <2>1. rpc[c].at = "supersede" /\ rows' = Append(rows, [status |-> "pending", plan |-> rpc[c].seen.plan])
    BY <1>5 DEF CreateRow, At
  <2>2. /\ rpc[c].seen \in Run /\ rpc[c].seen.plan \in Plans
        /\ rpc[c].seen.status = "approved" => consented # {}
    BY <1>2, <2>1 DEF Remembers, Holding
  <2>3. RowsFine
    BY <2>1, <2>2, RowAdded
  <2>4. Goto(c, Idle) \/ Goto(c, [at |-> "tier", seen |-> rpc[c].seen])
    BY <1>5 DEF CreateRow, Return
  <2>5. Fine([at |-> "tier", seen |-> rpc[c].seen])
    BY <2>2 DEF Remembers, Holding
  <2>6. Fine(Idle)
    BY IdleRemembers
  <2> HIDE DEF Fine
  <2> QED BY <2>3, <2>4, <2>5, <2>6
<1>6. CASE OpenGate(c)
  <2> DEFINE r == [rpc[c] EXCEPT !.at = "gate"]
  <2>1. Goto(c, r) /\ ExecutingNow(c)
    BY <1>6 DEF OpenGate, Move, At, ExecutingNow
  <2>2. "at" \in DOMAIN r /\ r.at = "gate"
    BY <1>2 DEF Remembers
  <2> HIDE DEF r
  <2>3. Fine(r)
    BY <2>1, <2>2 DEF Remembers, Holding
  <2>4. RowsFine
    <3>1. CASE rows' = rows
      BY <1>1, <3>1 DEF IndInv, Legacy
    <3>2. CASE rows' = Append(rows, [status |-> "pending", plan |-> Gate])
      BY <3>2, RowAdded
    <3> QED BY <1>6, <3>1, <3>2 DEF OpenGate
  <2> QED BY <2>1, <2>3, <2>4
<1>7. CASE RejectChange(c)
  <2>1. PICK i \in PendingRows : rows' = [rows EXCEPT ![i].status = "rejected"]
    BY <1>7 DEF RejectChange
  <2>2. RowsFine
    BY <2>1, RowStatus
  <2>3. Goto(c, [at |-> "settle"])
    BY <1>7 DEF RejectChange
  <2>4. Fine([at |-> "settle"])
    BY DEF Remembers, Holding
  <2> QED BY <2>2, <2>3, <2>4
<1> QED BY <1>4, <1>5, <1>6, <1>7

\* A vote: the plan of a record that becomes approved is consented to.
LEMMA VoteKeeps ==
    ASSUME IndInv, NEW c \in Callers, ApproveChange(c)
    PROVE  IndInv'
<1> DEFINE r == [at |-> "settle"]
<1>1. Goto(c, r) /\ UNCHANGED <<run, overridden>>
    BY DEF ApproveChange
<1>2. Alone'
    BY <1>1, AloneKept
<1>3. PICK i \in PendingRows, s \in {"pending", "approved"} :
          /\ rows' = [rows EXCEPT ![i].status = s]
          /\ consented' = IF s = "pending" THEN consented
                          ELSE consented \cup (IF Legacy(i) THEN Plans ELSE {rows[i].plan} \cap Plans)
    BY DEF ApproveChange
<1>4. consented \subseteq consented' /\ consented' \subseteq Plans
    BY <1>3 DEF IndInv
<1>5. /\ rows \in Seq(Row) /\ DOMAIN rows = 1..Len(rows) /\ Len(rows) \in Nat
      /\ \A j \in DOMAIN rows : rows[j] \in Row
      /\ i \in DOMAIN rows /\ rows[i].status = "pending"
    BY SMT DEF IndInv, PendingRows
<1>6. /\ DOMAIN rows' = DOMAIN rows
      /\ \A j \in DOMAIN rows : j # i => rows'[j] = rows[j]
    BY <1>3, <1>5
<1>7. rows'[i] \in Row /\ rows'[i].plan = rows[i].plan /\ rows'[i].status = s
    BY <1>3, <1>5 DEF Row
<1>8. rows' \in Seq(Row)
  <2>1. rows' = [j \in 1..Len(rows) |-> rows'[j]]
    BY <1>3, <1>5
  <2>2. \A j \in 1..Len(rows) : rows'[j] \in Row
    BY <1>5, <1>6, <1>7
  <2>3. rows' \in [1..Len(rows) -> Row]
    BY <2>1, <2>2
  <2> QED BY <1>5, <2>3, FiniteSequence
<1>9. ASSUME NEW j \in DOMAIN rows'
      PROVE  Consented(rows'[j], consented') /\ (rows'[j].plan = NoPlan => Legacy(j)')
  <2>1. Consented(rows[j], consented) /\ (rows[j].plan = NoPlan => Legacy(j))
    BY <1>6 DEF IndInv
  <2>2. CASE j # i
    BY <1>4, <1>6, <2>1, <2>2 DEF Consented, Legacy
  <2>3. CASE j = i
    <3>1. rows'[j].plan = NoPlan => Legacy(j)'
      BY <1>7, <2>1, <2>3 DEF Legacy
    <3>2. CASE s = "pending"
      BY <1>7, <2>3, <3>1, <3>2 DEF Consented
    <3>3. CASE s = "approved" /\ Legacy(i)
      BY <1>3, <1>4, <1>7, <2>3, <3>1, <3>3 DEF Consented, Legacy
    <3>4. CASE s = "approved" /\ ~Legacy(i)
      BY <1>3, <1>5, <1>7, <2>1, <2>3, <3>1, <3>4 DEF Consented, Row
    <3> QED BY <3>2, <3>3, <3>4
  <2> QED BY <2>2, <2>3
<1>10. DOMAIN rpc' = Callers /\ \A d \in Callers : Remembers(rpc'[d], consented')
  <2>1. Remembers(r, consented')
    BY DEF Remembers, Holding
  <2>2. \A d \in Callers : Remembers(rpc[d], consented')
    BY <1>4, ConsentGrows DEF IndInv
  <2> QED BY <1>1, <2>1, <2>2, GotoOne
<1>11. run' \in Run /\ overridden' \in BOOLEAN /\ (run'.status = "approved" => consented' # {})
    BY <1>1, <1>4 DEF IndInv
<1> QED BY <1>2, <1>4, <1>8, <1>9, <1>10, <1>11 DEF IndInv

\* The takeover, the sweep, a call that breaks off, and a stuttering step.
LEMMA RestKeeps ==
    ASSUME IndInv, Interrupt \/ Expire \/ (\E c \in Callers : BreakOff(c)) \/ UNCHANGED vars
    PROVE  IndInv'
<1>1. CASE Interrupt
  <2>1. /\ overridden' = TRUE /\ UNCHANGED <<rows, rpc, consented>>
        /\ run' = [run EXCEPT !.status = "interrupted"]
    BY <1>1 DEF Interrupt
  <2>2. run' \in Run /\ run'.status = "interrupted"
    BY <2>1 DEF IndInv, Run, RunStatus
  <2> QED BY <2>1, <2>2 DEF IndInv, Alone, Legacy
<1>2. CASE Expire
  <2>1. UNCHANGED <<run, rpc, consented, overridden>>
    BY <1>2 DEF Expire
  <2>2. PICK i \in PendingRows : rows' = [rows EXCEPT ![i].status = "expired"]
    BY <1>2 DEF Expire
  <2>3. /\ rows' \in Seq(Row)
        /\ \A j \in DOMAIN rows' : Consented(rows'[j], consented) /\ (rows'[j].plan = NoPlan => Legacy(j)')
    BY <2>2, RowStatus
  <2> QED BY <2>1, <2>3 DEF IndInv, Alone, ExecutingNow
<1>3. ASSUME NEW c \in Callers, BreakOff(c) PROVE IndInv'
  <2>1. Goto(c, Idle) /\ overridden' = TRUE /\ UNCHANGED <<run, rows, consented>>
    BY <1>3 DEF BreakOff, Return
  <2>2. Alone'
    BY <2>1 DEF Alone
  <2> QED BY <2>1, <2>2, RunKeeps, IdleRemembers DEF IndInv
<1>4. CASE UNCHANGED vars
    BY <1>4 DEF vars, IndInv, Alone, ExecutingNow, Legacy
<1> QED BY <1>1, <1>2, <1>3, <1>4

\* The initial state: nothing approved, nobody executing.
LEMMA InitInv == Init => IndInv
<1> SUFFICES ASSUME Init PROVE IndInv
    OBVIOUS
<1>1. run \in Run /\ run.status # "approved" /\ consented = {} /\ overridden = FALSE
    BY DEF Init, Run, RunStatus, Tiers
<1>2. rpc = [c \in Callers |-> Idle]
    BY DEF Init
<1>3. /\ rows \in Seq(Row)
      /\ \A i \in DOMAIN rows : Consented(rows[i], consented) /\ (rows[i].plan = NoPlan => Legacy(i))
  <2>1. CASE rows = <<>>
    BY SMT, <2>1
  <2>2. CASE Seeded /\ rows = <<[status |-> "pending", plan |-> NoPlan]>>
    <3> DEFINE r == [status |-> "pending", plan |-> NoPlan]
    <3>1. r \in Row /\ r.status = "pending"
      BY DEF Row
    <3>2. rows = <<r>>
      BY <2>2
    <3> HIDE DEF r
    <3>3. DOMAIN rows = {1} /\ rows[1] = r
      BY SMT, <3>2
    <3> QED BY SMT, <2>2, <3>1, <3>2, <3>3 DEF Consented, Legacy
  <2> QED BY <2>1, <2>2, PlansFresh DEF Init
<1>4. Alone /\ \A c \in Callers : Remembers(rpc[c], consented)
    BY <1>2, IdleRemembers DEF Alone, ExecutingNow
<1> QED BY <1>1, <1>2, <1>3, <1>4 DEF IndInv

-------------------------------------------------------------------------------
\* The invariant is inductive.
THEOREM Invariance == Spec => []IndInv
<1>1. IndInv /\ [Next]_vars => IndInv'
  <2> SUFFICES ASSUME IndInv, [Next]_vars PROVE IndInv'
    OBVIOUS
  <2>1. ASSUME NEW c \in Callers, Call(c) PROVE IndInv'
    BY <2>1, ReadKeeps, CasKeeps, RowWriteKeeps, RecordKeeps, VoteKeeps, RestKeeps DEF Call
  <2> QED BY <2>1, RestKeeps DEF Next
<1> QED BY <1>1, InitInv, PTL DEF Spec

\* For any number of clients: while no write overrides the run, at most one
\* approved apply of it executes.
THEOREM ApplyIsExclusive == Spec => []OneApply
<1>1. IndInv => OneApply
    BY DEF IndInv, Alone, OneApply, Applying, ExecutingNow
<1> QED BY <1>1, Invariance, PTL

\* For any number of clients and plans: no plan passes the approval check
\* without a quorum's consent to that very plan, whatever the status says.
THEOREM ConsentComesFirst == Spec => []ConsentBeforeStart
<1>1. IndInv => ConsentBeforeStart
    BY DEF IndInv, ConsentBeforeStart, Remembers, At
<1> QED BY <1>1, Invariance, PTL

\* For any number of clients: a closed run is moved only by a call that asks
\* for it or writes the whole row.
THEOREM ClosedRunsStand == Spec => ClosedStands
<1> DEFINE Moved == run.status \in Closed /\ run'.status # run.status
           By(c) == ReopensOrOverwrites(c) /\ rpc'[c] # rpc[c]
<1>1. IndInv /\ [Next]_vars => [Moved => \E c \in Callers : By(c)]_vars
  <2> SUFFICES ASSUME IndInv, Next, Moved PROVE \E c \in Callers : By(c)
    OBVIOUS
  <2>1. ~Interrupt /\ ~Expire
    BY DEF Interrupt, Expire, Closed, Verdicts
  <2>2. PICK c \in Callers : Call(c)
    BY <2>1 DEF Next
  <2>3. ASSUME NEW from \in {"approved", "running"}, NEW to, UpdateRunStatusIf(from, to) PROVE FALSE
    BY <2>3 DEF UpdateRunStatusIf, Closed, Verdicts
  <2>4. ~SettleCas(c)
    BY DEF SettleCas, UpdateRunStatusIf, At, IndInv, Remembers, terminalRunStatuses, Closed, Verdicts, RunStatus, Run
  <2>5. ~PlanReset(c) /\ ~Finish(c)
    BY <2>3 DEF PlanReset, Finish
  <2>6. ~PlanWrite(c)
    BY DEF PlanWrite, IndInv, Run
  <2>7. ApplyCas(c) \/ RetryCas(c) \/ RowWrite(c) \/ TierWrite(c) \/ ReplanWrite(c) \/ Reenter(c)
    BY <2>2, <2>4, <2>5, <2>6
       DEF Call, PlanRead, RetryLoad, Kickoff, SettleRows, SettleRun, ApplyGate, ApplyRows, Load, PassGate,
           Retry, ReplanRows, ReplanRead, ReplanLoad, ReenterList, ReenterDone, RetryRead, RowRead,
           Supersede, CreateRow, OpenGate, ApproveChange, RejectChange, BreakOff
  <2>8. ReopensOrOverwrites(c)
    BY <2>7 DEF ReopensOrOverwrites, ApplyCas, RetryCas, RowWrite, TierWrite, ReplanWrite, Reenter, At
  <2>9. \E r : Goto(c, r) /\ r.at \in {"load", "exec", "idle", "replan_load", "reenter_list"} \cup
                                       (IF rpc[c].at = "reenter" THEN {} ELSE {"reenter"})
    <3>1. CASE ApplyCas(c) \/ RetryCas(c) \/ RowWrite(c) \/ TierWrite(c)
      BY SMT, <3>1 DEF ApplyCas, RetryCas, RowWrite, TierWrite, Executing, Return, Idle
    <3>2. CASE ReplanWrite(c)
      BY SMT, <3>2 DEF ReplanWrite, At
    <3>3. CASE Reenter(c)
      BY SMT, <3>3 DEF Reenter
    <3> QED BY <2>7, <3>1, <3>2, <3>3
  <2>10. rpc'[c] # rpc[c]
    BY <2>8, <2>9, GotoOne DEF ReopensOrOverwrites
  <2> QED BY <2>8, <2>10
<1> QED BY <1>1, Invariance, PTL DEF Spec, ClosedStands

-------------------------------------------------------------------------------
(* Decisions are mirrored: the invariant MirrorInv.                            *)

\* What a call c that moves on to r owes: that it is a planner if it stores a
\* plan, that it opens its record as it should, and that a plan changes and a
\* record of a plan becomes pending only by a call that stores plans.
LEMMA MirrorStep ==
    ASSUME OnePlanner, IndInv, MirrorInv, NEW c \in Callers, NEW r, Goto(c, r),
           overridden => overridden',
           Storing(r) => Stores(c),
           Opening(r, run', rows', overridden'),
           run'.plan = run.plan \/ overridden' \/ Storing(rpc[c]),
           \A i \in DOMAIN rows' : rows'[i].status = "pending" =>
               \/ rows'[i].plan = Gate \/ Storing(rpc[c])
               \/ i \in DOMAIN rows /\ rows[i].status = "pending" /\ rows'[i].plan = rows[i].plan,
           \A i \in DOMAIN rows' : rows'[i].plan \in Votable \cup {NoPlan, Gate},
           PendingIsNewest',
           Waiting' /\ ~overridden' => \E d \in Callers : Resolving(rpc'[d], run')
    PROVE  MirrorInv'
<1>1. \A d \in Callers : Storing(rpc[d]) => Stores(d)
    BY DEF MirrorInv
<1>2. \A d \in Callers : Storing(rpc'[d]) => Stores(d)
    BY <1>1, GotoOne
<1>3. ASSUME NEW d \in Callers PROVE Opening(rpc'[d], run', rows', overridden')
  <2>1. CASE d = c
    BY <2>1, GotoOne
  <2>2. CASE d # c
    <3>1. rpc'[d] = rpc[d] /\ Opening(rpc[d], run, rows, overridden)
      BY <2>2, GotoOne DEF MirrorInv
    <3>2. rpc[d].at \in {"plan_reset", "kick", "supersede"} => ~Storing(rpc[c])
      BY <1>1, <2>2 DEF OnePlanner, Storing
    <3> QED BY <3>1, <3>2 DEF Opening
  <2> QED BY <2>1, <2>2
<1> QED BY <1>2, <1>3 DEF MirrorInv

\* Somebody still resolves the run when the plan and the status stay, unless
\* the call that moves was the one and no longer does.
LEMMA StillResolving ==
    ASSUME IndInv, MirrorInv, NEW c \in Callers, NEW r, Goto(c, r),
           run'.plan = run.plan, run'.status = run.status, overridden => overridden',
           Waiting' => Waiting,
           Waiting /\ ~overridden /\ Resolving(rpc[c], run) => Resolving(r, run)
    PROVE  Waiting' /\ ~overridden' => \E d \in Callers : Resolving(rpc'[d], run')
<1> SUFFICES ASSUME Waiting', ~overridden' PROVE \E d \in Callers : Resolving(rpc'[d], run')
    OBVIOUS
<1>1. PICK d \in Callers : Resolving(rpc[d], run)
    BY DEF MirrorInv
<1>2. Resolving(rpc'[d], run)
    BY <1>1, GotoOne
<1> QED BY <1>2 DEF Resolving

\* The call resolves the run by itself.
LEMMA ResolvingNow ==
    ASSUME IndInv, NEW c \in Callers, NEW r, Goto(c, r),
           r.at \in {"plan_reset", "kick", "supersede", "settle", "replan_load", "reenter", "retry_read"}
    PROVE  \E d \in Callers : Resolving(rpc'[d], run')
<1>1. Resolving(rpc'[c], run')
    BY GotoOne DEF Resolving
<1> QED BY <1>1

\* The records stay.
LEMMA SameRows ==
    ASSUME OnePlanner, IndInv, MirrorInv, NEW c \in Callers, NEW r, Goto(c, r),
           rows' = rows, overridden => overridden',
           Storing(r) => Stores(c),
           Opening(r, run', rows, overridden'),
           run'.plan = run.plan \/ overridden' \/ Storing(rpc[c]),
           Waiting' /\ ~overridden' => \E d \in Callers : Resolving(rpc'[d], run')
    PROVE  MirrorInv'
<1>1. PendingIsNewest' /\ \A i \in DOMAIN rows' : rows'[i].plan \in Votable \cup {NoPlan, Gate}
    BY DEF MirrorInv, PendingIsNewest
<1>2. \A i \in DOMAIN rows' : rows'[i].status = "pending" =>
          i \in DOMAIN rows /\ rows[i].status = "pending" /\ rows'[i].plan = rows[i].plan
    OBVIOUS
<1>3. Opening(r, run', rows', overridden')
    OBVIOUS
<1> QED BY <1>1, <1>2, <1>3, MirrorStep

\* The run and the records stay.
LEMMA SameState ==
    ASSUME OnePlanner, IndInv, MirrorInv, NEW c \in Callers, NEW r, Goto(c, r),
           UNCHANGED <<run, rows, overridden>>,
           Storing(r) => Stores(c),
           Opening(r, run, rows, overridden),
           Waiting /\ ~overridden /\ Resolving(rpc[c], run) => Resolving(r, run)
    PROVE  MirrorInv'
<1>1. Waiting' => Waiting
    BY DEF Waiting, LastFor
<1>2. Waiting' /\ ~overridden' => \E d \in Callers : Resolving(rpc'[d], run')
    BY <1>1, StillResolving
<1>3. Opening(r, run', rows, overridden')
    OBVIOUS
<1> QED BY <1>2, <1>3, SameRows

\* A call that returned stores, opens and resolves nothing.
LEMMA IdleOwes ==
    ASSUME NEW s, NEW R, NEW o
    PROVE  ~Storing(Idle) /\ Opening(Idle, s, R, o) /\ ~Resolving(Idle, s)
BY DEF Idle, Storing, Opening, Resolving

\* Once nobody's vote is outstanding, the records settle an approved plan: no
\* pending record of the plan is older than the approved one.
LEMMA WaitingSettles ==
    ASSUME IndInv, MirrorInv, Waiting
    PROVE  Settled(rows, run.plan) # "open"
<1>1. PICK i \in LastFor(run.plan) : rows[i].status = "approved"
    BY DEF Waiting
<1>2. /\ i \in DOMAIN rows /\ MatchesPlan(rows[i], run.plan)
      /\ \A j \in DOMAIN rows : j > i => ~MatchesPlan(rows[j], run.plan)
    BY <1>1 DEF LastFor
<1>3. run.plan # Gate /\ DOMAIN rows \subseteq Nat
    BY SMT, PlansFresh DEF IndInv, Run
<1>4. ASSUME NEW j \in DOMAIN rows, MatchesPlan(rows[j], run.plan), rows[j].status = "pending" PROVE FALSE
  <2>1. rows[j].plan # Gate /\ rows[i].plan # Gate
    BY <1>2, <1>3, <1>4, PlansFresh DEF MatchesPlan
  <2>2. j # i /\ ~(j > i)
    BY <1>1, <1>2, <1>4
  <2>3. j < i
    BY SMT, <1>2, <1>3, <2>2
  <2> QED BY <1>2, <1>4, <2>1, <2>3 DEF MirrorInv, PendingIsNewest
<1> DEFINE S == {rows[k].status : k \in {j \in DOMAIN rows : MatchesPlan(rows[j], run.plan)}}
<1>5. "pending" \notin S
    BY <1>4
<1>6. "approved" \in S
    BY <1>1, <1>2
<1>7. Settled(rows, run.plan) = IF "pending" \in S THEN "open"
                                ELSE IF "rejected" \in S THEN "rejected"
                                ELSE IF "approved" \in S THEN "approved" ELSE "open"
    BY DEF Settled
<1> HIDE DEF S
<1> QED BY <1>5, <1>6, <1>7

\* A run whose plan cannot be approved has no approved record.
LEMMA VotableOnly ==
    ASSUME Seeded => Votable = Plans, IndInv, MirrorInv, Waiting, run.plan \in Plans
    PROVE  run.plan \in Votable
<1>1. PICK i \in DOMAIN rows : MatchesPlan(rows[i], run.plan)
    BY DEF Waiting, LastFor
<1>2. rows[i].plan \in Votable \cup {NoPlan, Gate} /\ (rows[i].plan = NoPlan => Seeded)
    BY <1>1 DEF MirrorInv, IndInv, Legacy
<1> QED BY <1>1, <1>2, PlansFresh DEF MatchesPlan

\* The steps of a call that only read.
LEMMA ReadMirrors ==
    ASSUME OnePlanner, Seeded => Votable = Plans, IndInv, MirrorInv, NEW c \in Callers,
           \/ \E p \in Plans : PlanRead(c, p) \/ RetryLoad(c, p)
           \/ Kickoff(c) \/ SettleRows(c) \/ SettleRun(c)
           \/ (\E auto \in BOOLEAN : ApplyGate(c, auto)) \/ ApplyRows(c) \/ Load(c) \/ PassGate(c)
           \/ \E how \in {"retry", "retry_host", "replan"} : Retry(c, how)
           \/ ReplanRows(c) \/ ReplanRead(c) \/ ReplanLoad(c) \/ ReenterList(c) \/ ReenterDone(c)
           \/ RetryRead(c)
           \/ \E to \in RowTargets, force \in BOOLEAN : RowRead(c, to, force)
    PROVE  MirrorInv'
<1>1. UNCHANGED <<run, rows, overridden>>
    BY DEF PlanRead, RetryLoad, Kickoff, SettleRows, SettleRun, ApplyGate, ApplyRows, Load, PassGate,
           Retry, ReplanRows, ReplanRead, ReplanLoad, ReenterList, ReenterDone, RetryRead, RowRead
<1> DEFINE Owed(r) == /\ Storing(r) => Stores(c)
                      /\ Opening(r, run, rows, overridden)
                      /\ Waiting /\ ~overridden /\ Resolving(rpc[c], run) => Resolving(r, run)
<1>2. SUFFICES \E r : Goto(c, r) /\ Owed(r)
    BY <1>1, SameState DEF Owed
<1> HIDE DEF Owed
<1>3. /\ Storing(rpc[c]) => Stores(c)
      /\ Opening(rpc[c], run, rows, overridden)
      /\ "at" \in DOMAIN rpc[c]
    BY DEF MirrorInv, IndInv, Remembers
<1>4. CASE \E p \in Plans : PlanRead(c, p)
  <2>1. PICK p \in Plans : PlanRead(c, p)
    BY <1>4
  <2> DEFINE r == [at |-> "plan_write", seen |-> run, plan |-> p]
  <2>2. Goto(c, r) /\ rpc[c] = Idle /\ "plan" \in Does[c]
    BY <2>1 DEF PlanRead, Calls
  <2>3. Stores(c)
    BY <2>2 DEF Stores
  <2>4. Opening(r, run, rows, overridden)
    BY DEF Opening
  <2> QED BY <2>2, <2>3, <2>4, IdleOwes DEF Owed
<1>5. CASE \E p \in Plans : RetryLoad(c, p)
  <2>1. PICK p \in Plans : RetryLoad(c, p)
    BY <1>5
  <2>2. rpc[c].at = "retry_load" /\ ~Resolving(rpc[c], run)
    BY <2>1 DEF RetryLoad, At, Resolving
  <2>3. CASE run.plan = NoPlan
    BY <2>1, <2>2, <2>3, IdleOwes DEF RetryLoad, Return, Owed
  <2>4. CASE run.plan # NoPlan /\ rpc[c].how = "replan"
    <3> DEFINE r == [at |-> "replan_rows", plan |-> p]
    <3>1. Goto(c, r)
      BY <2>1, <2>4 DEF RetryLoad
    <3>2. Stores(c) /\ Opening(r, run, rows, overridden)
      BY <1>3, <2>2, <2>4 DEF Storing, Opening
    <3> QED BY <2>2, <3>1, <3>2 DEF Owed
  <2>5. CASE run.plan # NoPlan /\ rpc[c].how # "replan"
    <3> DEFINE r == [at |-> "retry_read", how |-> rpc[c].how, plan |-> run.plan]
    <3>1. Goto(c, r)
      BY <2>1, <2>5 DEF RetryLoad
    <3>2. ~Storing(r) /\ Opening(r, run, rows, overridden)
      BY DEF Storing, Opening
    <3> QED BY <2>2, <3>1, <3>2 DEF Owed
  <2> QED BY <2>3, <2>4, <2>5
<1>6. CASE Kickoff(c)
  <2>1. rpc[c].at = "kick" /\ Stores(c)
    BY <1>3, <1>6 DEF Kickoff, At, Storing
  <2>2. rpc[c].seen.plan \in Plans /\ (overridden \/ rpc[c].seen.plan = run.plan)
    BY <1>3, <2>1 DEF Opening
  <2>3. CASE rpc[c].seen.plan \in Votable
    <3> DEFINE r == [at |-> "supersede", seen |-> rpc[c].seen, old |-> PendingRows]
    <3>1. Goto(c, r)
      BY <1>6, <2>3 DEF Kickoff
    <3>2. Opening(r, run, rows, overridden)
      BY <2>2, <2>3 DEF Opening, PendingRows
    <3>3. Resolving(r, run)
      BY DEF Resolving
    <3> QED BY <2>1, <3>1, <3>2, <3>3 DEF Owed
  <2>4. CASE rpc[c].seen.plan \notin Votable
    <3>1. Goto(c, Idle)
      BY <1>6, <2>4 DEF Kickoff, Return
    <3>2. ~(Waiting /\ ~overridden)
      BY <2>2, <2>4, VotableOnly
    <3> QED BY <3>1, <3>2, IdleOwes DEF Owed
  <2> QED BY <2>3, <2>4
<1>7. CASE SettleRows(c)
  <2> DEFINE r == [at |-> "settle_run", rows |-> rows]
  <2>1. Goto(c, r)
    BY <1>7 DEF SettleRows
  <2>2. ~Storing(r) /\ Opening(r, run, rows, overridden)
    BY DEF Storing, Opening
  <2>3. Waiting => Resolving(r, run)
    BY WaitingSettles DEF Resolving
  <2> QED BY <2>1, <2>2, <2>3 DEF Owed
<1>8. CASE SettleRun(c)
  <2> DEFINE to == Settled(rpc[c].rows, run.plan)
             r == [at |-> "settle_cas", from |-> run.status, to |-> to]
  <2>1. rpc[c].at = "settle_run"
    BY <1>8 DEF SettleRun, At
  <2>2. CASE to = "open" \/ run.status \in terminalRunStatuses
    <3>1. Goto(c, Idle)
      BY <1>8, <2>2 DEF SettleRun, Return
    <3>2. ~(Waiting /\ Resolving(rpc[c], run))
      BY <2>1, <2>2 DEF Waiting, Resolving, terminalRunStatuses
    <3> QED BY <3>1, <3>2, IdleOwes DEF Owed
  <2>3. CASE ~(to = "open" \/ run.status \in terminalRunStatuses)
    <3>1. Goto(c, r)
      BY <1>8, <2>3 DEF SettleRun
    <3>2. ~Storing(r) /\ Opening(r, run, rows, overridden) /\ Resolving(r, run)
      BY DEF Storing, Opening, Resolving
    <3> QED BY <3>1, <3>2 DEF Owed
  <2> QED BY <2>2, <2>3
<1>9. CASE \E auto \in BOOLEAN : ApplyGate(c, auto)
  <2>1. PICK auto \in BOOLEAN : ApplyGate(c, auto)
    BY <1>9
  <2> DEFINE r == [at |-> IF auto THEN "apply_cas" ELSE "apply_rows", seen |-> run,
                   how |-> IF auto THEN "auto" ELSE "apply"]
  <2>2. Goto(c, r) /\ rpc[c] = Idle
    BY <2>1 DEF ApplyGate, Calls
  <2>3. r.at \in {"apply_cas", "apply_rows"}
    OBVIOUS
  <2> HIDE DEF r
  <2>4. ~Storing(r) /\ Opening(r, run, rows, overridden)
    BY <2>3 DEF Storing, Opening
  <2> QED BY <2>2, <2>4, IdleOwes DEF Owed
<1>10. CASE ApplyRows(c)
  <2>1. rpc[c].at = "apply_rows" /\ ~Resolving(rpc[c], run)
    BY <1>10 DEF ApplyRows, At, Resolving
  <2> DEFINE r == [rpc[c] EXCEPT !.at = "apply_cas"]
  <2>2. Goto(c, r) \/ Goto(c, Idle)
    BY <1>10 DEF ApplyRows, Move, Return
  <2>3. r.at = "apply_cas"
    BY <1>3
  <2> HIDE DEF r
  <2>4. ~Storing(r) /\ Opening(r, run, rows, overridden)
    BY <2>3 DEF Storing, Opening
  <2> QED BY <2>1, <2>2, <2>4, IdleOwes DEF Owed
<1>11. CASE Load(c)
  <2> DEFINE r == [at |-> "exec", how |-> rpc[c].how, plan |-> run.plan]
  <2>1. Goto(c, r) /\ ~Resolving(rpc[c], run)
    BY <1>11 DEF Load, Executing, At, Resolving
  <2>2. ~Storing(r) /\ Opening(r, run, rows, overridden)
    BY DEF Storing, Opening
  <2> QED BY <2>1, <2>2 DEF Owed
<1>12. CASE PassGate(c)
  <2> DEFINE r == [rpc[c] EXCEPT !.at = "exec"]
  <2>1. Goto(c, r) /\ ~Resolving(rpc[c], run)
    BY <1>12 DEF PassGate, Move, At, Resolving
  <2>2. r.at = "exec"
    BY <1>3
  <2> HIDE DEF r
  <2>3. ~Storing(r) /\ Opening(r, run, rows, overridden)
    BY <2>2 DEF Storing, Opening
  <2> QED BY <2>1, <2>3 DEF Owed
<1>13. CASE \E how \in {"retry", "retry_host", "replan"} : Retry(c, how)
  <2>1. PICK how \in {"retry", "retry_host", "replan"} : Retry(c, how)
    BY <1>13
  <2> DEFINE r == [at |-> "retry_load", how |-> how]
  <2>2. Goto(c, r) /\ rpc[c] = Idle /\ how \in Does[c]
    BY <2>1 DEF Retry, Calls
  <2>3. (Storing(r) => Stores(c)) /\ Opening(r, run, rows, overridden)
    BY <2>2 DEF Storing, Stores, Opening
  <2> QED BY <2>2, <2>3, IdleOwes DEF Owed
<1>14. CASE ReplanRows(c)
  <2> DEFINE r == [at |-> "replan_read", plan |-> rpc[c].plan, ok |-> Attested(rpc[c].plan)]
  <2>1. Goto(c, r) /\ ~Resolving(rpc[c], run) /\ Stores(c)
    BY <1>3, <1>14 DEF ReplanRows, At, Resolving, Storing
  <2>2. Opening(r, run, rows, overridden)
    BY DEF Opening
  <2> QED BY <2>1, <2>2 DEF Owed
<1>15. CASE ReplanRead(c)
  <2> DEFINE r == [at |-> "replan_write", seen |-> run, plan |-> rpc[c].plan, ok |-> rpc[c].ok]
  <2>1. Goto(c, r) /\ ~Resolving(rpc[c], run) /\ Stores(c)
    BY <1>3, <1>15 DEF ReplanRead, At, Resolving, Storing
  <2>2. Opening(r, run, rows, overridden)
    BY DEF Opening
  <2> QED BY <2>1, <2>2 DEF Owed
<1>16. CASE ReplanLoad(c)
  <2> DEFINE r == [at |-> "retry_read", how |-> "replan", plan |-> run.plan]
  <2>1. Goto(c, r)
    BY <1>16 DEF ReplanLoad
  <2>2. ~Storing(r) /\ Opening(r, run, rows, overridden) /\ Resolving(r, run)
    BY DEF Storing, Opening, Resolving
  <2> QED BY <2>1, <2>2 DEF Owed
<1>17. CASE RetryRead(c)
  <2> DEFINE r == [at |-> "retry_cas", how |-> rpc[c].how, plan |-> rpc[c].plan, from |-> run.status]
  <2>1. Goto(c, r)
    BY <1>17 DEF RetryRead
  <2>2. ~Storing(r) /\ Opening(r, run, rows, overridden) /\ Resolving(r, run)
    BY DEF Storing, Opening, Resolving
  <2> QED BY <2>1, <2>2 DEF Owed
<1>18. CASE ReenterList(c)
  <2> DEFINE r == [at |-> "expire", old |-> PendingRows]
  <2>1. Goto(c, r) /\ ~Resolving(rpc[c], run) /\ Stores(c)
    BY <1>3, <1>18 DEF ReenterList, At, Resolving, Storing
  <2>2. Opening(r, run, rows, overridden)
    BY DEF Opening
  <2> QED BY <2>1, <2>2 DEF Owed
<1>19. CASE ReenterDone(c)
  <2>1. Goto(c, Idle) /\ ~Resolving(rpc[c], run)
    BY <1>19 DEF ReenterDone, Return, At, Resolving
  <2> QED BY <2>1, IdleOwes DEF Owed
<1>20. CASE \E to \in RowTargets, force \in BOOLEAN : RowRead(c, to, force)
  <2>1. PICK to \in RowTargets, force \in BOOLEAN : RowRead(c, to, force)
    BY <1>20
  <2> DEFINE r == [at |-> "row_write", seen |-> run, to |-> to]
  <2>2. Goto(c, r) /\ rpc[c] = Idle
    BY <2>1 DEF RowRead, Calls
  <2>3. ~Storing(r) /\ Opening(r, run, rows, overridden)
    BY DEF Storing, Opening
  <2> QED BY <2>2, <2>3, IdleOwes DEF Owed
<1> QED BY <1>4, <1>5, <1>6, <1>7, <1>8, <1>9, <1>10, <1>11, <1>12, <1>13, <1>14, <1>15, <1>16,
           <1>17, <1>18, <1>19, <1>20

\* The conditional writes: a call that returns without a write owed nothing,
\* and a write takes the run out of draft and pending.
LEMMA CasMirrors ==
    ASSUME OnePlanner, IndInv, MirrorInv, NEW c \in Callers,
           PlanReset(c) \/ SettleCas(c) \/ ApplyCas(c) \/ RetryCas(c) \/ Finish(c)
    PROVE  MirrorInv'
<1>1. run \in Run /\ Remembers(rpc[c], consented) /\ overridden \in BOOLEAN
    BY DEF IndInv
<1>2. rows' = rows /\ (overridden => overridden')
  <2>1. CASE PlanReset(c) \/ SettleCas(c) \/ Finish(c)
    BY SMT, <2>1 DEF PlanReset, SettleCas, Finish
  <2>2. CASE ApplyCas(c) \/ RetryCas(c)
    BY <1>1, <2>2 DEF ApplyCas, RetryCas
  <2> QED BY <2>1, <2>2
<1>3. CASE PlanReset(c)
  <2> DEFINE r == [at |-> "kick", seen |-> IF run.status = "approved" THEN [rpc[c].seen EXCEPT !.status = "draft"]
                                           ELSE rpc[c].seen]
  <2>1. /\ Goto(c, r) /\ rpc[c].at = "plan_reset" /\ overridden' = overridden
        /\ UpdateRunStatusIf("approved", "draft")
    BY <1>3 DEF PlanReset, At
  <2>2. run'.plan = run.plan
    BY <1>1, <2>1 DEF UpdateRunStatusIf, Run
  <2>3. Stores(c) /\ Opening(rpc[c], run, rows, overridden)
    BY <2>1 DEF MirrorInv, Storing
  <2>4. rpc[c].seen.plan \in Plans /\ (overridden \/ rpc[c].seen.plan = run.plan) /\ rpc[c].seen \in Run
    BY <1>1, <2>1, <2>3 DEF Opening, Remembers, Holding
  <2>5. r.at = "kick" /\ r.seen.plan = rpc[c].seen.plan
    BY <2>4 DEF Run
  <2> HIDE DEF r
  <2>6. Opening(r, run', rows, overridden')
    BY <2>1, <2>2, <2>4, <2>5 DEF Opening
  <2>7. \E d \in Callers : Resolving(rpc'[d], run')
    BY <2>1, <2>5, ResolvingNow
  <2> QED BY <1>2, <2>1, <2>2, <2>3, <2>6, <2>7, SameRows
<1>4. ASSUME NEW from, NEW to \in RunStatus \ {"draft", "pending"}, NEW r, Goto(c, r),
             UpdateRunStatusIf(from, to), ~overridden' => overridden' = overridden,
             ~Storing(r), r.at \notin {"plan_reset", "kick", "supersede"},
             run.status = from \/ ~Resolving(rpc[c], run)
      PROVE  MirrorInv'
  <2>1. run'.plan = run.plan
    BY <1>1, <1>4 DEF UpdateRunStatusIf, Run
  <2>2. Opening(r, run', rows, overridden')
    BY <1>4 DEF Opening
  <2>3. Waiting' /\ ~overridden' => \E d \in Callers : Resolving(rpc'[d], run')
    <3>1. CASE run.status = from
      BY <1>1, <1>4, <3>1 DEF UpdateRunStatusIf, Run, Waiting
    <3>2. CASE run.status # from
      <4>1. run' = run
        BY <1>4, <3>2 DEF UpdateRunStatusIf
      <4>2. Waiting' => Waiting
        BY <1>2, <4>1 DEF Waiting, LastFor
      <4> QED BY <1>2, <1>4, <3>2, <4>1, <4>2, StillResolving
    <3> QED BY <3>1, <3>2
  <2> QED BY <1>2, <1>4, <2>1, <2>2, <2>3, SameRows
<1>5. CASE SettleCas(c)
  <2>1. /\ Goto(c, Idle) /\ rpc[c].at = "settle_cas" /\ overridden' = overridden
        /\ UpdateRunStatusIf(rpc[c].from, rpc[c].to)
    BY <1>5 DEF SettleCas, At, Return
  <2>2. rpc[c].to \in RunStatus \ {"draft", "pending"}
    BY <1>1, <2>1 DEF Remembers, RunStatus
  <2>3. run.status = rpc[c].from \/ ~Resolving(rpc[c], run)
    BY <2>1 DEF Resolving
  <2>4. ~Storing(Idle) /\ Idle.at \notin {"plan_reset", "kick", "supersede"}
    BY DEF Idle, Storing
  <2> QED BY <1>4, <2>1, <2>2, <2>3, <2>4
<1>6. CASE ApplyCas(c)
  <2>1. /\ rpc[c].at = "apply_cas" /\ (~overridden' => overridden' = overridden)
        /\ UpdateRunStatusIf(rpc[c].seen.status, "running")
    BY <1>1, <1>6 DEF ApplyCas, At
  <2>2. ~Resolving(rpc[c], run) /\ "running" \in RunStatus \ {"draft", "pending"}
    BY <2>1 DEF Resolving, RunStatus
  <2>3. PICK r : Goto(c, r) /\ r.at \in {"load", "idle"}
    BY SMT, <1>6 DEF ApplyCas, Return, Idle
  <2>4. ~Storing(r)
    BY <2>3 DEF Storing
  <2> QED BY <1>4, <2>1, <2>2, <2>3, <2>4
<1>7. CASE RetryCas(c)
  <2>1. /\ rpc[c].at = "retry_cas" /\ (~overridden' => overridden' = overridden)
        /\ UpdateRunStatusIf(rpc[c].from, "running")
    BY <1>1, <1>7 DEF RetryCas, At
  <2>2. run.status = rpc[c].from \/ ~Resolving(rpc[c], run)
    BY <2>1 DEF Resolving
  <2>3. PICK r : Goto(c, r) /\ r.at \in {"exec", "idle"}
    BY SMT, <1>7 DEF RetryCas, Return, Idle, Executing
  <2>4. ~Storing(r) /\ "running" \in RunStatus \ {"draft", "pending"}
    BY <2>3 DEF Storing, RunStatus
  <2> QED BY <1>4, <2>1, <2>2, <2>3, <2>4
<1>8. CASE Finish(c)
  <2>1. Goto(c, Idle) /\ overridden' = overridden /\ ~Resolving(rpc[c], run)
    BY <1>8 DEF Finish, Return, Resolving
  <2>2. PICK v \in Verdicts : UpdateRunStatusIf("running", v)
    BY <1>8 DEF Finish, Verdicts, At
  <2>3. v \in RunStatus \ {"draft", "pending"}
    BY DEF Verdicts, RunStatus
  <2>4. ~Storing(Idle) /\ Idle.at \notin {"plan_reset", "kick", "supersede"}
    BY DEF Idle, Storing
  <2> QED BY <1>4, <2>1, <2>2, <2>3, <2>4
<1> QED BY <1>3, <1>5, <1>6, <1>7, <1>8

\* The writes that compare nothing: a plan is stored by a call that goes on to
\* resolve the run, and the whole row overrides or changes nothing but its own.
LEMMA RowWriteMirrors ==
    ASSUME OnePlanner, IndInv, MirrorInv, NEW c \in Callers,
           PlanWrite(c) \/ TierWrite(c) \/ ReplanWrite(c) \/ Reenter(c) \/ RowWrite(c)
    PROVE  MirrorInv'
<1> DEFINE seen == rpc[c].seen
<1>1. run \in Run /\ Remembers(rpc[c], consented) /\ overridden \in BOOLEAN
      /\ (Storing(rpc[c]) => Stores(c))
    BY DEF IndInv, MirrorInv
<1>2. rows' = rows /\ (overridden => overridden')
    BY <1>1 DEF PlanWrite, TierWrite, ReplanWrite, Reenter, RowWrite, UpdateRun
<1>3. seen \in Run
  <2>1. rpc[c].at \in Holding
    BY DEF PlanWrite, TierWrite, ReplanWrite, Reenter, RowWrite, At, Holding
  <2> QED BY <1>1, <2>1 DEF Remembers
<1>4. CASE PlanWrite(c)
  <2> DEFINE r == [at |-> IF seen.status = "approved" /\ seen.plan # rpc[c].plan THEN "plan_reset" ELSE "kick",
                   seen |-> [seen EXCEPT !.plan = rpc[c].plan]]
  <2>1. /\ Goto(c, r) /\ rpc[c].at = "plan_write" /\ overridden' = overridden
        /\ run' = [run EXCEPT !.plan = rpc[c].plan]
    BY <1>4 DEF PlanWrite, At
  <2>2. rpc[c].plan \in Plans /\ Storing(rpc[c])
    BY <1>1, <2>1 DEF Remembers, Storing
  <2>3. r.at \in {"plan_reset", "kick"} /\ r.seen.plan = rpc[c].plan /\ run'.plan = rpc[c].plan
    BY <1>1, <1>3, <2>1 DEF Run
  <2> HIDE DEF r
  <2>4. Opening(r, run', rows, overridden')
    BY <2>2, <2>3 DEF Opening
  <2>5. \E d \in Callers : Resolving(rpc'[d], run')
    BY <2>1, <2>3, ResolvingNow
  <2> QED BY <1>1, <1>2, <2>1, <2>2, <2>4, <2>5, SameRows
<1>5. CASE TierWrite(c)
  <2>1. /\ Goto(c, Idle) /\ rpc[c].at = "tier" /\ overridden' = (overridden \/ Overrides(seen))
        /\ run' = [seen EXCEPT !.level = derivedTier(seen.plan)]
    BY <1>5 DEF TierWrite, UpdateRun, At, Return
  <2>2. ~overridden' => run'.plan = run.plan /\ run'.status = run.status
    BY <1>1, <1>3, <2>1 DEF Overrides, Run
  <2>3. ~Resolving(rpc[c], run)
    BY <2>1 DEF Resolving
  <2>4. Waiting' /\ ~overridden' => \E d \in Callers : Resolving(rpc'[d], run')
    <3>1. CASE ~overridden'
      <4>1. Waiting' => Waiting
        BY <1>2, <2>2, <3>1 DEF Waiting, LastFor
      <4> QED BY <1>2, <2>1, <2>2, <2>3, <3>1, <4>1, StillResolving
    <3> QED BY <3>1
  <2> QED BY <1>2, <2>1, <2>2, <2>4, IdleOwes, SameRows
<1>6. CASE RowWrite(c)
  <2>1. /\ Goto(c, Idle) /\ rpc[c].at = "row_write" /\ overridden' = (overridden \/ Overrides(seen))
        /\ run' = [seen EXCEPT !.status = rpc[c].to]
    BY <1>6 DEF RowWrite, UpdateRun, At, Return
  <2>2. rpc[c].to \in RowTargets
    BY <1>1, <2>1 DEF Remembers
  <2>3. /\ ~overridden' => run'.plan = run.plan
        /\ run'.status \notin {"draft", "pending"}
    BY <1>1, <1>3, <2>1, <2>2 DEF Overrides, Run, RowTargets
  <2>4. ~Waiting'
    BY <2>3 DEF Waiting
  <2> QED BY <1>2, <2>1, <2>3, <2>4, IdleOwes, SameRows
<1>7. CASE ReplanWrite(c)
  <2> DEFINE new == [seen EXCEPT !.plan = rpc[c].plan]
  <2>1. /\ Storing(rpc[c])
        /\ Goto(c, IF rpc[c].ok THEN [at |-> "replan_load"] ELSE [at |-> "reenter", seen |-> new])
    BY <1>7 DEF ReplanWrite, At, Storing
  <2>2. PICK r : Goto(c, r) /\ r.at \in {"replan_load", "reenter"}
    BY SMT, <2>1
  <2>3. Opening(r, run', rows, overridden')
    BY <2>2 DEF Opening
  <2>4. \E d \in Callers : Resolving(rpc'[d], run')
    BY <2>2, ResolvingNow
  <2> QED BY <1>1, <1>2, <2>1, <2>2, <2>3, <2>4, SameRows
<1>8. CASE Reenter(c)
  <2> DEFINE r == [at |-> "reenter_list"]
  <2>1. /\ Goto(c, r) /\ rpc[c].at = "reenter" /\ run' = [seen EXCEPT !.status = "draft"]
        /\ overridden' = (overridden \/ Overrides(seen) \/ Attested(seen.plan))
    BY <1>8 DEF Reenter, At
  <2>2. run'.plan = seen.plan /\ (~overridden' => run'.plan = run.plan)
    BY <1>1, <1>3, <2>1 DEF Overrides, Run
  <2>3. Waiting' => overridden'
    <3> HAVE Waiting'
    <3>1. PICK i \in DOMAIN rows : rows[i].status = "approved" /\ MatchesPlan(rows[i], seen.plan)
      BY <1>2, <2>2 DEF Waiting, LastFor
    <3> QED BY <2>1, <3>1 DEF Attested
  <2>4. Stores(c) /\ Opening(r, run', rows, overridden')
    BY <1>1, <2>1 DEF Storing, Opening
  <2> HIDE DEF r
  <2> QED BY <1>2, <2>1, <2>2, <2>3, <2>4, SameRows
<1> QED BY <1>4, <1>5, <1>6, <1>7, <1>8

\* The status of a record changes, and not to pending.
LEMMA RecordMoved ==
    ASSUME IndInv, MirrorInv, NEW i, NEW s \in {"pending", "approved", "rejected", "expired"},
           s # "pending" \/ (i \in DOMAIN rows /\ rows[i].status = "pending"),
           rows' = [rows EXCEPT ![i].status = s]
    PROVE  /\ DOMAIN rows' = DOMAIN rows
           /\ \A j \in DOMAIN rows : /\ rows'[j].plan = rows[j].plan
                                     /\ rows'[j].status = IF j = i THEN s ELSE rows[j].status
           /\ PendingIsNewest'
           /\ \A j \in DOMAIN rows' : rows'[j].plan \in Votable \cup {NoPlan, Gate}
           /\ run' = run /\ s # "approved" => (Waiting' => Waiting)
<1>1. \A j \in DOMAIN rows : rows[j] \in Row
    BY SMT DEF IndInv
<1>2. DOMAIN rows' = DOMAIN rows
    OBVIOUS
<1>3. \A j \in DOMAIN rows : /\ rows'[j].plan = rows[j].plan
                             /\ rows'[j].status = IF j = i THEN s ELSE rows[j].status
    BY <1>1 DEF Row
<1>4. PendingIsNewest'
  <2>1. \A j \in DOMAIN rows : rows'[j].status = "pending" => rows[j].status = "pending"
    BY <1>3
  <2> QED BY SMT, <1>2, <1>3, <2>1 DEF MirrorInv, PendingIsNewest
<1>5. \A j \in DOMAIN rows' : rows'[j].plan \in Votable \cup {NoPlan, Gate}
    BY <1>2, <1>3 DEF MirrorInv
<1>6. ASSUME run' = run, s # "approved", Waiting' PROVE Waiting
  <2>1. PICK j \in DOMAIN rows' : /\ rows'[j].status = "approved" /\ MatchesPlan(rows'[j], run.plan)
                                  /\ \A k \in DOMAIN rows' : k > j => ~MatchesPlan(rows'[k], run.plan)
    BY <1>6 DEF Waiting, LastFor
  <2>2. rows[j].status = "approved" /\ j \in DOMAIN rows
    BY <1>2, <1>3, <1>6, <2>1
  <2>3. MatchesPlan(rows[j], run.plan) /\ \A k \in DOMAIN rows : k > j => ~MatchesPlan(rows[k], run.plan)
    BY <1>2, <1>3, <2>1 DEF MatchesPlan
  <2>4. j \in LastFor(run.plan)
    BY <2>2, <2>3 DEF LastFor
  <2> QED BY <1>6, <2>2, <2>4 DEF Waiting
<1> QED BY <1>2, <1>3, <1>4, <1>5, <1>6

\* A record is added for a plan nobody waits for, or for a gate.
LEMMA RecordAdded ==
    ASSUME IndInv, MirrorInv, NEW p \in Votable \cup {Gate}, run' = run,
           rows' = Append(rows, [status |-> "pending", plan |-> p]),
           p = Gate \/ \A i \in DOMAIN rows : rows[i].status = "pending" => rows[i].plan = Gate
    PROVE  /\ \A i \in DOMAIN rows' : rows'[i].status = "pending" /\ p = Gate =>
                  \/ rows'[i].plan = Gate
                  \/ i \in DOMAIN rows /\ rows[i].status = "pending" /\ rows'[i].plan = rows[i].plan
           /\ PendingIsNewest'
           /\ \A i \in DOMAIN rows' : rows'[i].plan \in Votable \cup {NoPlan, Gate}
           /\ p = Gate => (Waiting' => Waiting)
           /\ p = run.plan => ~Waiting'
<1> DEFINE new == [status |-> "pending", plan |-> p]
           n == Len(rows) + 1
<1>1. new \in Row /\ new.plan = p /\ new.status = "pending"
    BY PlansFresh DEF Row
<1>2. rows \in Seq(Row) /\ rows' = Append(rows, new) /\ run.plan # Gate
    BY PlansFresh DEF IndInv, Run
<1> HIDE DEF new
<1>3. /\ DOMAIN rows = 1..Len(rows) /\ Len(rows) \in Nat /\ DOMAIN rows' = 1..n
      /\ \A j \in DOMAIN rows : rows'[j] = rows[j]
      /\ rows'[n] = new
    BY SMT, <1>1, <1>2
<1>4. \A j \in DOMAIN rows' : j \in DOMAIN rows \/ j = n
    BY SMT, <1>3
<1>5. PendingIsNewest'
  <2> SUFFICES ASSUME NEW i \in DOMAIN rows', NEW j \in DOMAIN rows', rows'[i].status = "pending", i < j
               PROVE  Gate \in {rows'[i].plan, rows'[j].plan}
    BY DEF PendingIsNewest
  <2>1. i \in DOMAIN rows
    BY SMT, <1>3
  <2>2. CASE j \in DOMAIN rows
    BY <1>3, <2>1, <2>2 DEF MirrorInv, PendingIsNewest
  <2>3. CASE j = n
    BY <1>1, <1>3, <2>1, <2>3
  <2> QED BY <1>4, <2>2, <2>3
<1>6. \A i \in DOMAIN rows' : rows'[i].plan \in Votable \cup {NoPlan, Gate}
    BY <1>1, <1>3, <1>4 DEF MirrorInv
<1>7. ASSUME Waiting'
      PROVE  p # run.plan /\ (p = Gate => Waiting)
  <2>1. PICK j \in DOMAIN rows' : /\ rows'[j].status = "approved" /\ MatchesPlan(rows'[j], run.plan)
                                  /\ \A k \in DOMAIN rows' : k > j => ~MatchesPlan(rows'[k], run.plan)
    BY <1>7 DEF Waiting, LastFor
  <2>2. j \in DOMAIN rows /\ n > j /\ n \in DOMAIN rows'
    BY SMT, <1>1, <1>3, <1>4, <2>1
  <2>3. ~MatchesPlan(new, run.plan)
    BY <1>3, <2>1, <2>2
  <2>4. p # run.plan
    BY <1>1, <2>3, PlansFresh DEF MatchesPlan
  <2>5. j \in LastFor(run.plan) /\ rows[j].status = "approved"
    BY SMT, <1>3, <2>1, <2>2 DEF LastFor
  <2> QED BY <1>7, <2>4, <2>5 DEF Waiting
<1>8. \A i \in DOMAIN rows' : rows'[i].status = "pending" /\ p = Gate =>
          \/ rows'[i].plan = Gate
          \/ i \in DOMAIN rows /\ rows[i].status = "pending" /\ rows'[i].plan = rows[i].plan
    BY <1>1, <1>3, <1>4
<1> QED BY <1>5, <1>6, <1>7, <1>8

\* The steps that write the records.
LEMMA RecordMirrors ==
    ASSUME OnePlanner, IndInv, MirrorInv, NEW c \in Callers,
           Supersede(c) \/ CreateRow(c) \/ OpenGate(c) \/ ApproveChange(c) \/ RejectChange(c)
    PROVE  MirrorInv'
<1>1. run' = run /\ overridden' = overridden
    BY DEF Supersede, CreateRow, OpenGate, ApproveChange, RejectChange
<1>2. /\ Storing(rpc[c]) => Stores(c)
      /\ Opening(rpc[c], run, rows, overridden)
      /\ "at" \in DOMAIN rpc[c]
    BY DEF MirrorInv, IndInv, Remembers
<1>3. CASE Supersede(c)
  <2>1. PICK i \in rpc[c].old : /\ rows' = [rows EXCEPT ![i].status = "expired"]
                                /\ Goto(c, [rpc[c] EXCEPT !.old = @ \ {i}])
    BY <1>3 DEF Supersede
  <2> DEFINE r == [rpc[c] EXCEPT !.old = @ \ {i}]
  <2>2. rpc[c].at \in {"supersede", "expire"} /\ Storing(rpc[c])
    BY <1>3 DEF Supersede, Storing
  <2>3. Goto(c, r) /\ r.at = rpc[c].at
    BY <1>2, <2>1
  <2>4. /\ DOMAIN rows' = DOMAIN rows
        /\ \A j \in DOMAIN rows : /\ rows'[j].plan = rows[j].plan
                                  /\ rows'[j].status = IF j = i THEN "expired" ELSE rows[j].status
        /\ PendingIsNewest'
        /\ \A j \in DOMAIN rows' : rows'[j].plan \in Votable \cup {NoPlan, Gate}
        /\ Waiting' => Waiting
    BY <1>1, <2>1, RecordMoved
  <2>5. Opening(r, run', rows', overridden')
    <3>1. CASE rpc[c].at = "expire"
      <4> HIDE DEF r
      <4> QED BY <2>3, <3>1 DEF Opening
    <3>2. CASE rpc[c].at = "supersede"
      <4>1. rpc[c].seen.plan \in Votable /\ rpc[c].seen.plan \in Plans /\ (overridden \/ rpc[c].seen.plan = run.plan)
        BY <1>2, <3>2 DEF Opening
      <4>2. \A j \in DOMAIN rows : rows[j].status = "pending" => rows[j].plan = Gate \/ j \in rpc[c].old
        BY <1>2, <3>2 DEF Opening
      <4>3. r.seen = rpc[c].seen /\ "old" \in DOMAIN r /\ \A j \in rpc[c].old : j # i => j \in r.old
        <5>1. "seen" \in DOMAIN rpc[c]
          BY <3>2 DEF IndInv, Remembers, Holding
        <5>2. "old" \in DOMAIN rpc[c]
          BY <1>2, <3>2 DEF Opening
        <5> QED BY <5>1, <5>2
      <4> HIDE DEF r
      <4> QED BY <1>1, <2>3, <2>4, <4>1, <4>2, <4>3 DEF Opening
    <3> QED BY <2>2, <3>1, <3>2
  <2> HIDE DEF r
  <2>6. Resolving(rpc[c], run) => Resolving(r, run)
    BY <2>2, <2>3 DEF Resolving
  <2>7. Waiting' /\ ~overridden' => \E d \in Callers : Resolving(rpc'[d], run')
    BY <1>1, <2>3, <2>4, <2>6, StillResolving
  <2> QED BY <1>1, <1>2, <2>2, <2>3, <2>4, <2>5, <2>7, MirrorStep
<1>4. CASE CreateRow(c)
  <2> DEFINE p == rpc[c].seen.plan
  <2>1. /\ rpc[c].at = "supersede" /\ rpc[c].old = {}
        /\ rows' = Append(rows, [status |-> "pending", plan |-> p])
    BY <1>4 DEF CreateRow, At
  <2>2. /\ p \in Votable /\ (overridden \/ p = run.plan)
        /\ \A i \in DOMAIN rows : rows[i].status = "pending" => rows[i].plan = Gate
    BY <1>2, <2>1 DEF Opening
  <2>3. PICK r : Goto(c, r) /\ r.at \in {"tier", "idle"}
    BY SMT, <1>4 DEF CreateRow, Return, Idle
  <2>4. Storing(rpc[c]) /\ Opening(r, run', rows', overridden')
    BY <2>1, <2>3 DEF Storing, Opening
  <2> HIDE DEF p
  <2>5. /\ PendingIsNewest' /\ (p = run.plan => ~Waiting')
        /\ \A i \in DOMAIN rows' : rows'[i].plan \in Votable \cup {NoPlan, Gate}
    BY <1>1, <2>1, <2>2, RecordAdded
  <2> QED BY <1>1, <1>2, <2>2, <2>3, <2>4, <2>5, MirrorStep
<1>5. CASE OpenGate(c)
  <2> DEFINE r == [rpc[c] EXCEPT !.at = "gate"]
  <2>1. Goto(c, r) /\ ~Resolving(rpc[c], run) /\ r.at = "gate"
    BY <1>2, <1>5 DEF OpenGate, Move, At, Resolving
  <2> HIDE DEF r
  <2>2. ~Storing(r) /\ Opening(r, run', rows', overridden')
    BY <2>1 DEF Storing, Opening
  <2>3. CASE rows' = rows
    <3>1. Opening(r, run, rows, overridden)
      BY <2>1 DEF Opening
    <3> QED BY <1>1, <2>1, <2>2, <2>3, <3>1, SameState
  <2>4. CASE rows' = Append(rows, [status |-> "pending", plan |-> Gate])
    <3>1. /\ \A i \in DOMAIN rows' : rows'[i].status = "pending" =>
                 \/ rows'[i].plan = Gate
                 \/ i \in DOMAIN rows /\ rows[i].status = "pending" /\ rows'[i].plan = rows[i].plan
          /\ PendingIsNewest' /\ (Waiting' => Waiting)
          /\ \A i \in DOMAIN rows' : rows'[i].plan \in Votable \cup {NoPlan, Gate}
      BY <1>1, <2>4, RecordAdded
    <3>2. Waiting' /\ ~overridden' => \E d \in Callers : Resolving(rpc'[d], run')
      BY <1>1, <2>1, <3>1, StillResolving
    <3> QED BY <1>1, <2>1, <2>2, <3>1, <3>2, MirrorStep
  <2> QED BY <1>5, <2>3, <2>4 DEF OpenGate
<1>6. CASE ApproveChange(c) \/ RejectChange(c)
  <2> DEFINE r == [at |-> "settle"]
  <2>1. Goto(c, r)
    BY <1>6 DEF ApproveChange, RejectChange
  <2>2. PICK i \in PendingRows, s \in {"pending", "approved", "rejected", "expired"} : rows' = [rows EXCEPT ![i].status = s]
    BY <1>6 DEF ApproveChange, RejectChange
  <2>3. i \in DOMAIN rows /\ rows[i].status = "pending"
    BY DEF PendingRows
  <2>4. /\ DOMAIN rows' = DOMAIN rows
        /\ \A j \in DOMAIN rows : /\ rows'[j].plan = rows[j].plan
                                  /\ rows'[j].status = IF j = i THEN s ELSE rows[j].status
        /\ PendingIsNewest'
        /\ \A j \in DOMAIN rows' : rows'[j].plan \in Votable \cup {NoPlan, Gate}
    BY ZenonT(30), <2>2, <2>3, RecordMoved
  <2>5. \A j \in DOMAIN rows' : rows'[j].status = "pending" =>
            j \in DOMAIN rows /\ rows[j].status = "pending" /\ rows'[j].plan = rows[j].plan
    BY <2>3, <2>4
  <2>6. ~Storing(r) /\ Opening(r, run', rows', overridden')
    BY DEF Storing, Opening
  <2>7. \E d \in Callers : Resolving(rpc'[d], run')
    BY <2>1, ResolvingNow
  <2> HIDE DEF r
  <2> QED BY <1>1, <2>1, <2>4, <2>5, <2>6, <2>7, MirrorStep
<1> QED BY <1>3, <1>4, <1>5, <1>6

\* The takeover, the sweep, a call that breaks off, and a stuttering step.
LEMMA RestMirrors ==
    ASSUME OnePlanner, IndInv, MirrorInv, Interrupt \/ Expire \/ (\E c \in Callers : BreakOff(c)) \/ UNCHANGED vars
    PROVE  MirrorInv'
<1>1. CASE Interrupt
  <2>1. rpc' = rpc /\ rows' = rows /\ overridden' = TRUE
    BY <1>1 DEF Interrupt
  <2>2. PendingIsNewest'
    BY <2>1 DEF MirrorInv, PendingIsNewest
  <2>3. \A c \in Callers : Opening(rpc'[c], run', rows', overridden')
    BY <2>1 DEF MirrorInv, Opening
  <2> QED BY <2>1, <2>2, <2>3 DEF MirrorInv
<1>2. CASE Expire
  <2>1. run' = run /\ rpc' = rpc /\ overridden' = overridden
    BY <1>2 DEF Expire
  <2>2. PICK i \in PendingRows : rows' = [rows EXCEPT ![i].status = "expired"]
    BY <1>2 DEF Expire
  <2>3. /\ DOMAIN rows' = DOMAIN rows
        /\ \A j \in DOMAIN rows : /\ rows'[j].plan = rows[j].plan
                                  /\ rows'[j].status = IF j = i THEN "expired" ELSE rows[j].status
        /\ PendingIsNewest'
        /\ \A j \in DOMAIN rows' : rows'[j].plan \in Votable \cup {NoPlan, Gate}
        /\ Waiting' => Waiting
    BY <2>1, <2>2, RecordMoved
  <2>4. \A j \in DOMAIN rows' : rows'[j].status = "pending" => rows[j].status = "pending"
    BY <2>3
  <2>5. \A c \in Callers : Opening(rpc'[c], run', rows', overridden')
    BY <2>1, <2>3, <2>4 DEF MirrorInv, Opening
  <2>6. Waiting' /\ ~overridden' => \E c \in Callers : Resolving(rpc'[c], run')
    BY <2>1, <2>3 DEF MirrorInv
  <2>7. \A c \in Callers : Storing(rpc'[c]) => Stores(c)
    BY <2>1 DEF MirrorInv
  <2> QED BY <2>3, <2>5, <2>6, <2>7 DEF MirrorInv
<1>3. ASSUME NEW c \in Callers, BreakOff(c) PROVE MirrorInv'
  <2>1. Goto(c, Idle) /\ overridden' = TRUE /\ run' = run /\ rows' = rows
    BY <1>3 DEF BreakOff, Return
  <2> QED BY <2>1, IdleOwes, SameRows
<1>4. CASE UNCHANGED vars
  <2>1. run' = run /\ rpc' = rpc /\ rows' = rows /\ overridden' = overridden
    BY <1>4 DEF vars
  <2>2. PendingIsNewest' /\ (Waiting' => Waiting)
    BY <2>1 DEF MirrorInv, PendingIsNewest, Waiting, LastFor
  <2> QED BY <2>1, <2>2 DEF MirrorInv
<1> QED BY <1>1, <1>2, <1>3, <1>4

\* The initial state: no record is approved and nobody stores a plan.
LEMMA InitMirrors == Init => MirrorInv
<1> SUFFICES ASSUME Init PROVE MirrorInv
    OBVIOUS
<1>1. \A c \in Callers : rpc[c] = Idle
    BY DEF Init
<1>2. rows = <<>> \/ rows = <<[status |-> "pending", plan |-> NoPlan]>>
    BY DEF Init
<1>3. \A i \in DOMAIN rows : i = 1 /\ rows[i].status = "pending" /\ rows[i].plan = NoPlan
  <2>1. CASE rows = <<>>
    BY SMT, <2>1
  <2>2. CASE rows = <<[status |-> "pending", plan |-> NoPlan]>>
    BY SMT, <2>2
  <2> QED BY <1>2, <2>1, <2>2
<1>4. PendingIsNewest
    BY SMT, <1>3 DEF PendingIsNewest
<1>5. ~Waiting
    BY <1>3 DEF Waiting, LastFor
<1> QED BY <1>1, <1>3, <1>4, <1>5, IdleOwes DEF MirrorInv

\* For any number of clients of which one stores plans, and any number of
\* plans: once every call has returned, the newest record of the plan of a run
\* that waits for approval is not an approved one.
THEOREM DecisionsAreMirrored ==
    ASSUME OnePlanner, Seeded => Votable = Plans
    PROVE  Spec => []DecisionMirrored
<1>1. IndInv /\ MirrorInv /\ [Next]_vars => MirrorInv'
  <2> SUFFICES ASSUME IndInv, MirrorInv, [Next]_vars PROVE MirrorInv'
    OBVIOUS
  <2>1. ASSUME NEW c \in Callers, Call(c) PROVE MirrorInv'
    BY <2>1, ReadMirrors, CasMirrors, RowWriteMirrors, RecordMirrors, RestMirrors DEF Call
  <2> QED BY <2>1, RestMirrors DEF Next
<1>2. MirrorInv => DecisionMirrored
  <2> SUFFICES ASSUME MirrorInv, \A c \in Callers : At(c, "idle"), ~overridden,
                      run.status \in {"draft", "pending"}
               PROVE  \A i \in LastFor(run.plan) : rows[i].status # "approved"
    BY DEF DecisionMirrored
  <2>1. \A c \in Callers : ~Resolving(rpc[c], run)
    BY DEF At, Resolving
  <2> QED BY <2>1 DEF MirrorInv, Waiting
<1> QED BY <1>1, <1>2, InitMirrors, Invariance, PTL DEF Spec
=============================================================================
