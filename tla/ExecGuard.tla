------------------------------ MODULE ExecGuard ------------------------------
(***************************************************************************)
(* The execution lease of one run: the row of table run_execution and the  *)
(* statements internal/cluster/exec_guard.go runs against it.              *)
(*                                                                         *)
(* An execution x (one call of executePlan) registers once on its node     *)
(* NodeOf[x], passes the Owns gate any number of times, renews by          *)
(* heartbeat and ends.  Each statement is atomic, as in PostgreSQL; a      *)
(* statement whose reply is lost has taken effect although the client sees *)
(* an error.  Runs share nothing but the sequence, whose gaps are          *)
(* harmless, so the module is about one run.                               *)
(***************************************************************************)
EXTENDS Integers

CONSTANTS
    Nodes,    \* node ids: the owner column
    Execs,    \* executions of the run, each on one node
    NodeOf,   \* the node an execution runs on
    TTL,      \* lease TTL in ticks of the database clock
    NoRow     \* the run has no run_execution row

ASSUME NodeOfType == NodeOf \in [Execs -> Nodes]
ASSUME TTLPositive == TTL \in Nat \ {0}

\* A row: lease_expires is kept as the ticks left until it, so that a lease
\* is expired (lease_expires < NOW()) exactly when left < 0.
Row == [owner : Nodes, epoch : Nat, left : -1 .. TTL]

ASSUME NoRowIsNoRow == NoRow \notin Row

VARIABLES
    row,        \* the run_execution row, or NoRow
    seq,        \* last value drawn from run_execution_epoch_seq
    phase,      \* "new" before Begin, "held" with a lease handle, then "done"
    epoch,      \* the epoch in the lease handle of each execution
    age,        \* history: ticks since a handle's Register or Owns last succeeded, capped
    lastWrite   \* history: the epoch that last passed the Owns gate

vars == <<row, seq, phase, epoch, age, lastWrite>>

TypeOK ==
    /\ row \in Row \cup {NoRow}
    /\ seq \in Nat
    /\ phase \in [Execs -> {"new", "held", "done"}]
    /\ epoch \in [Execs -> Nat]
    /\ age \in [Execs -> 0 .. TTL + 1]
    /\ lastWrite \in Nat

Init ==
    /\ row = NoRow
    /\ seq = 0
    /\ phase = [x \in Execs |-> "new"]
    /\ epoch = [x \in Execs |-> 0]
    /\ age = [x \in Execs |-> TTL + 1]
    /\ lastWrite = 0
------------------------------------------------------------------------------
Expired == row # NoRow /\ row.left < 0

\* The WHERE clause of Owns and End without the expiry: owner and epoch match.
Matches(x) == row # NoRow /\ row.owner = NodeOf[x] /\ row.epoch = epoch[x]

\* The executions whose handle is the registration the row stands for.
Holders == {x \in Execs : phase[x] = "held" /\ Matches(x)}

\* What Begin leaves in memory: with the reply, the handle; without it
\* executePlan has an error and no lease, whatever the database did.
Granted(x, e, reply) ==
    IF reply
    THEN /\ phase' = [phase EXCEPT ![x] = "held"]
         /\ epoch' = [epoch EXCEPT ![x] = e]
         /\ age' = [age EXCEPT ![x] = 0]
    ELSE /\ phase' = [phase EXCEPT ![x] = "done"]
         /\ UNCHANGED <<epoch, age>>

\* Mutant: the epoch counted per row instead of drawn from the sequence.
RegisterInsertFromOne(x, reply) ==
    /\ phase[x] = "new"
    /\ row = NoRow
    /\ seq' = seq + 1
    /\ row' = [owner |-> NodeOf[x], epoch |-> 1, left |-> TTL]
    /\ Granted(x, 1, reply)
    /\ UNCHANGED lastWrite

\* registerExecSQL, INSERT path: no row, a fresh epoch.
RegisterInsert(x, reply) ==
    /\ phase[x] = "new"
    /\ row = NoRow
    /\ seq' = seq + 1
    /\ row' = [owner |-> NodeOf[x], epoch |-> seq + 1, left |-> TTL]
    /\ Granted(x, seq + 1, reply)
    /\ UNCHANGED lastWrite

\* ON CONFLICT, same owner: the lease is refreshed and the epoch KEPT, expired
\* or not.  The VALUES clause has consumed a sequence value all the same.
RegisterRefresh(x, reply) ==
    /\ phase[x] = "new"
    /\ row # NoRow /\ row.owner = NodeOf[x]
    /\ seq' = seq + 1
    /\ row' = [row EXCEPT !.left = TTL]
    /\ Granted(x, row.epoch, reply)
    /\ UNCHANGED lastWrite

\* Mutant: the epoch is kept whoever re-registers.
RegisterReclaimKeeps(x, reply) ==
    /\ phase[x] = "new"
    /\ row # NoRow /\ row.owner # NodeOf[x] /\ Expired
    /\ seq' = seq + 2
    /\ row' = [row EXCEPT !.owner = NodeOf[x], !.left = TTL]
    /\ Granted(x, row.epoch, reply)
    /\ UNCHANGED lastWrite

\* Mutant: lease_expires <= NOW() in the WHERE clause of the reclaim.
RegisterReclaimEarly(x, reply) ==
    /\ phase[x] = "new"
    /\ row # NoRow /\ row.owner # NodeOf[x] /\ row.left <= 0
    /\ seq' = seq + 2
    /\ row' = [owner |-> NodeOf[x], epoch |-> seq + 2, left |-> TTL]
    /\ Granted(x, seq + 2, reply)
    /\ UNCHANGED lastWrite

\* ON CONFLICT, another owner's expired lease: reclaimed with a fresh epoch
\* (the second nextval of the statement).
RegisterReclaim(x, reply) ==
    /\ phase[x] = "new"
    /\ row # NoRow /\ row.owner # NodeOf[x] /\ Expired
    /\ seq' = seq + 2
    /\ row' = [owner |-> NodeOf[x], epoch |-> seq + 2, left |-> TTL]
    /\ Granted(x, seq + 2, reply)
    /\ UNCHANGED lastWrite

\* No row returned: another live owner; Register answers ErrFencedOut.
RegisterRefused(x) ==
    /\ phase[x] = "new"
    /\ row # NoRow /\ row.owner # NodeOf[x] /\ ~Expired
    /\ seq' = seq + 1
    /\ phase' = [phase EXCEPT ![x] = "done"]
    /\ UNCHANGED <<row, epoch, age, lastWrite>>

\* The statement never ran (connection error): Begin fails, nothing changed.
RegisterFailed(x) ==
    /\ phase[x] = "new"
    /\ phase' = [phase EXCEPT ![x] = "done"]
    /\ UNCHANGED <<row, seq, epoch, age, lastWrite>>

Register(x) ==
    \/ \E reply \in BOOLEAN :
          RegisterInsert(x, reply) \/ RegisterRefresh(x, reply) \/ RegisterReclaim(x, reply)
    \/ RegisterRefused(x)
    \/ RegisterFailed(x)

\* Mutant: Owns without the epoch in its WHERE clause.
OwnsAnyEpoch(x) ==
    /\ phase[x] = "held"
    /\ row # NoRow /\ row.owner = NodeOf[x] /\ ~Expired
    /\ row' = [row EXCEPT !.left = TTL]
    /\ age' = [age EXCEPT ![x] = 0]
    /\ lastWrite' = epoch[x]
    /\ UNCHANGED <<seq, phase, epoch>>

\* Mutant: an Owns that checks without renewing.
OwnsReadOnly(x) ==
    /\ phase[x] = "held"
    /\ Matches(x) /\ ~Expired
    /\ age' = [age EXCEPT ![x] = 0]
    /\ lastWrite' = epoch[x]
    /\ UNCHANGED <<row, seq, phase, epoch>>

\* Owns: one UPDATE that checks owner, epoch and expiry and renews the lease.
Owns(x) ==
    /\ phase[x] = "held"
    /\ Matches(x) /\ ~Expired
    /\ row' = [row EXCEPT !.left = TTL]
    /\ age' = [age EXCEPT ![x] = 0]
    /\ lastWrite' = epoch[x]
    /\ UNCHANGED <<seq, phase, epoch>>

\* Heartbeat: like Owns, but the WHERE clause names no epoch.  Also what an
\* Owns whose reply is lost does to the row of its own registration.
Heartbeat(x) ==
    /\ phase[x] = "held"
    /\ row # NoRow /\ row.owner = NodeOf[x] /\ ~Expired
    /\ row' = [row EXCEPT !.left = TTL]
    /\ UNCHANGED <<seq, phase, epoch, age, lastWrite>>

\* End: delete the row if owner and epoch still match, whoever else on this
\* node holds the same epoch.  The error of a failed End is discarded.
End(x) ==
    /\ phase[x] = "held"
    /\ phase' = [phase EXCEPT ![x] = "done"]
    /\ (Matches(x) /\ row' = NoRow) \/ UNCHANGED row
    /\ age' = [age EXCEPT ![x] = TTL + 1]
    /\ UNCHANGED <<seq, epoch, lastWrite>>

\* DeleteExecution: the takeover's unconditional delete.
DeleteExecution ==
    /\ row # NoRow
    /\ row' = NoRow
    /\ UNCHANGED <<seq, phase, epoch, age, lastWrite>>

\* A process dies with the handles of its node; the row stays behind.
Crash(n) ==
    /\ phase' = [x \in Execs |-> IF NodeOf[x] = n /\ phase[x] = "held"
                                 THEN "done" ELSE phase[x]]
    /\ age' = [x \in Execs |-> IF NodeOf[x] = n THEN TTL + 1 ELSE age[x]]
    /\ UNCHANGED <<row, seq, epoch, lastWrite>>

\* The database clock.
Tick ==
    /\ row' = IF row = NoRow \/ Expired THEN row ELSE [row EXCEPT !.left = @ - 1]
    /\ age' = [x \in Execs |-> IF age[x] > TTL THEN age[x] ELSE age[x] + 1]
    /\ UNCHANGED <<seq, phase, epoch, lastWrite>>

Next ==
    \/ \E x \in Execs : Register(x) \/ Owns(x) \/ Heartbeat(x) \/ End(x)
    \/ DeleteExecution
    \/ \E n \in Nodes : Crash(n)
    \/ Tick

Spec == Init /\ [][Next]_vars
------------------------------------------------------------------------------
(* Properties *)

\* A fencing epoch belongs to one node: executions that hold the same epoch
\* run on the same node, and the row is owned by that node ("re-registration
\* by a different owner always mints a NEW epoch", exec_guard.go:6-8).  So
\* executions of two nodes never pass the Owns gate in the same row state.
EpochBelongsToOneNode ==
    \A x, y \in Execs : phase[x] = "held" /\ phase[y] = "held" /\ epoch[x] = epoch[y]
                         => NodeOf[x] = NodeOf[y]

\* An execution whose row is gone or carries another epoch never matches the
\* row again, whatever is registered later: losing ownership is permanent.
LostStaysLost ==
    [][\A x \in Execs : phase[x] = "held" /\ ~Matches(x) => ~Matches(x)']_vars

\* Writes admitted by the Owns gate come in epoch order: once an execution
\* of a newer epoch has passed the gate, no execution of an older one does.
WritesInEpochOrder == [][lastWrite' >= lastWrite]_vars

\* The renewing Owns closes the check-to-write window (comment of Owns): for a
\* whole TTL after an execution passed Owns or registered, no other node can
\* re-register the run.
NoReclaimWithinTTL ==
    [][\A x \in Holders : (row' # NoRow /\ row'.epoch # row.epoch) => age[x] > TTL]_vars

\* Every epoch in use was drawn from the sequence.
EpochsIssued ==
    /\ row # NoRow => row.epoch \in 1 .. seq
    /\ \A x \in Execs : phase[x] = "held" => epoch[x] \in 1 .. seq

\* A row with the epoch of a handle belongs to the node of that handle.
RowOfItsNode ==
    row # NoRow => \A x \in Execs : phase[x] = "held" /\ epoch[x] = row.epoch
                                     => NodeOf[x] = row.owner

\* No write is ahead of the row, nor of the sequence.
WritesBehindRow == lastWrite <= seq /\ (row # NoRow => lastWrite <= row.epoch)

\* A holder's lease lasts for what remains of a TTL since it last passed.
LeaseCoversHolders == \A x \in Holders : row.left >= TTL - age[x]

\* The inductive invariant behind the four properties above: the epochs in
\* Register's rows and handles come from one growing sequence, and Owns,
\* Register and Heartbeat never shorten a lease.
IndInv ==
    /\ TypeOK
    /\ EpochsIssued
    /\ EpochBelongsToOneNode
    /\ RowOfItsNode
    /\ WritesBehindRow
    /\ LeaseCoversHolders
==============================================================================
