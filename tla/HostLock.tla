------------------------------ MODULE HostLock -------------------------------
(* Target-host locks with a TTL (internal/lock/lock.go) as the executions of   *)
(* several changes use them: ClosureRunner.Run (internal/engine/closure.go)    *)
(* locks every target of its plan in plan order, works, and releases what it   *)
(* acquired.  Every access to the locks table is a statement of its own, so    *)
(* an acquisition, a takeover of an expired lock and a release interleave with *)
(* those of the other runs between any two of them.  A statement may fail, and  *)
(* a write may take effect although its reply is lost.                         *)
(*                                                                             *)
(* A row expires by the clock alone: nothing renews it.  Clock is bounded by   *)
(* MaxClock; all nodes are taken to read the same clock.                       *)
EXTENDS Naturals, Sequences

CONSTANTS
    Runs,      \* executions; the run id is the owner of its locks
    Hosts,
    Targets,   \* collectTargets: the hosts of each run's plan, in order
    TTL,       \* defaultTTL of the LockManager
    MaxClock,  \* bound on the clock
    NoLock     \* no row for the scope

ASSUME TargetsAreHosts == Targets \in [Runs -> Seq(Hosts) \ {<<>>}]
ASSUME TTLPositive == TTL \in Nat \ {0}
ASSUME BoundIsNat == MaxClock \in Nat

VARIABLES
    clock,
    locks,     \* the locks table: at most one row per scope (UNIQUE)
    todo,      \* targets the run has still to lock
    acquired,  \* the run's map of the locks it has to release
    until,     \* history: ExpiresAt of the lock the run was last given for a host
    pc,        \* where the run is
    at,        \* "now" as the run read it before its next write
    seen,      \* the row the run read before its next write
    stranded   \* history: hosts on which a failed statement left a row of the run

vars == <<clock, locks, todo, acquired, until, pc, at, seen, stranded>>

Row == [id : Runs, scope : Hosts, owner : Runs, expires : Nat]

ASSUME NoLockIsNoRow == NoLock \notin Row

Init ==
    /\ clock = 0
    /\ locks = [h \in Hosts |-> NoLock]
    /\ todo = Targets
    /\ acquired = [r \in Runs |-> {}]
    /\ until = [r \in Runs |-> [h \in Hosts |-> 0]]
    /\ pc = [r \in Runs |-> "acquire"]
    /\ at = [r \in Runs |-> 0]
    /\ seen = [r \in Runs |-> NoLock]
    /\ stranded = [r \in Runs |-> {}]

\* Lock.Expired: at or after ExpiresAt.
Expired(row, now) == row.expires <= now

At(r, label) == pc[r] = label
Goto(r, label) == pc' = [pc EXCEPT ![r] = label]
Target(r) == Head(todo[r])

\* The locals of a store call end with it.
Return(r) ==
    /\ at' = [at EXCEPT ![r] = 0]
    /\ seen' = [seen EXCEPT ![r] = NoLock]

\* The lock is granted: the run records it and goes on to the next target, or to work.
Granted(r, h) ==
    /\ acquired' = [acquired EXCEPT ![r] = @ \cup {h}]
    /\ until' = [until EXCEPT ![r][h] = at[r] + TTL]
    /\ todo' = [todo EXCEPT ![r] = Tail(@)]
    /\ Goto(r, IF Tail(todo[r]) = <<>> THEN "work" ELSE "acquire")
    /\ Return(r)
    /\ UNCHANGED stranded

\* An error of Acquire, or a cancelled context: release what is held and give up.
GiveUp(r) ==
    /\ Goto(r, "release")
    /\ todo' = [todo EXCEPT ![r] = <<>>]
    /\ Return(r)
    /\ UNCHANGED <<acquired, until>>

Abort(r) == GiveUp(r) /\ UNCHANGED <<locks, stranded>>

\* A row of the run stays behind that the run does not know of, or has given up.
Strand(r, h) == stranded' = [stranded EXCEPT ![r] = @ \cup {h}]

\* A write of Acquire that took effect and lost its reply is an error to the run.
ReplyLost(r, h) == GiveUp(r) /\ Strand(r, h)
-----------------------------------------------------------------------------
\* A mutant of Acquire: a held lock is waited for.
AcquireWaits(r) ==
    /\ At(r, "acquire")
    /\ locks[Target(r)] = NoLock
    /\ Goto(r, "create")
    /\ UNCHANGED <<clock, locks, todo, acquired, until, at, seen, stranded>>

(* LockManager.Acquire reads the row of the target.                            *)
Acquire(r) ==
    /\ At(r, "acquire")
    /\ LET row == locks[Target(r)] IN
       \/ /\ row = NoLock
          /\ Goto(r, "create")
          /\ UNCHANGED <<locks, todo, acquired, until, at, seen, stranded>>
       \/ /\ row # NoLock /\ ~Expired(row, clock)
          /\ Abort(r)
       \/ /\ row # NoLock /\ Expired(row, clock)
          /\ Goto(r, "force")
          /\ UNCHANGED <<locks, todo, acquired, until, at, seen, stranded>>
    /\ UNCHANGED clock

\* The context is cancelled before the next target is locked.
Cancelled(r) ==
    /\ At(r, "acquire")
    /\ Abort(r)
    /\ UNCHANGED clock

\* stateLockStore.Acquire looks again, and reads the time for the row it will insert.
StoreAcquire(r) ==
    /\ At(r, "create")
    /\ \/ /\ locks[Target(r)] # NoLock
          /\ Abort(r)
       \/ /\ locks[Target(r)] = NoLock
          /\ at' = [at EXCEPT ![r] = clock]
          /\ Goto(r, "insert")
          /\ UNCHANGED <<locks, todo, acquired, until, seen, stranded>>
    /\ UNCHANGED clock

\* The row a run inserts; its id is fresh, and a run inserts at most one row per scope.
NewRow(r) == [id |-> r, scope |-> Target(r), owner |-> r, expires |-> at[r] + TTL]

\* UNIQUE(scope): the insert fails when a concurrent acquirer's row is there.
MayInsert(r) == locks[Target(r)] = NoLock

(* CreateLock.  Losing the insert is ErrLockHeld to Acquire and a retry to     *)
(* ForceAcquire.                                                               *)
CreateLock(r) ==
    /\ At(r, "insert") \/ At(r, "forceInsert")
    /\ \/ /\ MayInsert(r)
          /\ locks' = [locks EXCEPT ![Target(r)] = NewRow(r)]
          /\ Granted(r, Target(r)) \/ ReplyLost(r, Target(r))
       \/ /\ ~MayInsert(r) /\ At(r, "insert")
          /\ Abort(r)
       \/ /\ ~MayInsert(r) /\ At(r, "forceInsert")
          /\ Goto(r, "force")
          /\ Return(r)
          /\ UNCHANGED <<locks, todo, acquired, until, stranded>>
    /\ UNCHANGED clock

\* ForceAcquire reads the time and the row; a lock that has not expired is not taken.
ForceAcquire(r) ==
    /\ At(r, "force")
    /\ LET row == locks[Target(r)] IN
       \/ /\ row = NoLock
          /\ at' = [at EXCEPT ![r] = clock]
          /\ Goto(r, "forceInsert")
          /\ UNCHANGED <<locks, todo, acquired, until, seen, stranded>>
       \/ /\ row # NoLock /\ ~Expired(row, clock)
          /\ Abort(r)
       \/ /\ row # NoLock /\ Expired(row, clock)
          /\ at' = [at EXCEPT ![r] = clock]
          /\ seen' = [seen EXCEPT ![r] = row]
          /\ Goto(r, "update")
          /\ UNCHANGED <<locks, todo, acquired, until, stranded>>
    /\ UNCHANGED clock

\* A mutant of MayTakeOver: the update is by id alone.
MayTakeOverById(r) ==
    LET row == locks[Target(r)] IN
    row # NoLock /\ row.id = seen[r].id

\* UpdateLockOwnedBy: WHERE id = ? AND expires_at <= now.
MayTakeOver(r) ==
    LET row == locks[Target(r)] IN
    /\ row # NoLock
    /\ row.id = seen[r].id
    /\ Expired(row, at[r])

\* The takeover keeps the row's id; no row affected means a retry from scratch.
\* The row is read again afterwards: that failing is a lost reply, too.
UpdateLockOwnedBy(r) ==
    /\ At(r, "update")
    /\ \/ /\ MayTakeOver(r)
          /\ locks' = [locks EXCEPT ![Target(r)] =
                         [@ EXCEPT !.owner = r, !.expires = at[r] + TTL]]
          /\ Granted(r, Target(r)) \/ ReplyLost(r, Target(r))
       \/ /\ ~MayTakeOver(r)
          /\ Goto(r, "force")
          /\ Return(r)
          /\ UNCHANGED <<locks, todo, acquired, until, stranded>>
    /\ UNCHANGED clock

Locking == {"acquire", "create", "insert", "force", "forceInsert", "update"}

\* A statement of the acquisition fails without effect.
StatementFails(r) ==
    /\ pc[r] \in Locking
    /\ Abort(r)
    /\ UNCHANGED clock
-----------------------------------------------------------------------------
\* The closure returns; its deferred releaseLocks runs.
Finish(r) ==
    /\ At(r, "work")
    /\ Goto(r, "release")
    /\ UNCHANGED <<clock, locks, todo, acquired, until, at, seen, stranded>>

\* The run is through with a lock it held.
LetGo(r, h) ==
    /\ acquired' = [acquired EXCEPT ![r] = @ \ {h}]
    /\ until' = [until EXCEPT ![r][h] = 0]

Owns(r, h) == locks[h] # NoLock /\ locks[h].owner = r

\* Release reads the row and ignores one that is gone or another's.  When the
\* read fails, releaseLocks ignores the error: a row of the run is left to its TTL.
Release(r, h) ==
    /\ At(r, "release")
    /\ h \in acquired[r]
    /\ \/ /\ ~Owns(r, h)
          /\ LetGo(r, h)
          /\ UNCHANGED <<pc, seen, stranded>>
       \/ /\ Owns(r, h)
          /\ seen' = [seen EXCEPT ![r] = locks[h]]
          /\ Goto(r, "delete")
          /\ UNCHANGED <<acquired, until, stranded>>
       \/ /\ Owns(r, h)
          /\ LetGo(r, h)
          /\ Strand(r, h)
          /\ UNCHANGED <<pc, seen>>
    /\ UNCHANGED <<clock, locks, todo, at>>

\* A mutant of MayDelete: the delete is by id alone.
MayDeleteById(r, h) == locks[h] # NoLock /\ locks[h].id = seen[r].id

\* DeleteLockByIDAndOwner: a takeover reuses the id under a new owner.
MayDelete(r, h) == Owns(r, h) /\ locks[h].id = seen[r].id

\* The row goes if it is still the run's; either way the release is done.  The
\* error of a failed delete is ignored like that of a failed read.
DeleteLock(r) ==
    /\ At(r, "delete")
    /\ LET h == seen[r].scope IN
       /\ LetGo(r, h)
       /\ \/ /\ locks' = [locks EXCEPT ![h] = IF MayDelete(r, h) THEN NoLock ELSE @]
             /\ UNCHANGED stranded
          \/ /\ Owns(r, h)
             /\ Strand(r, h)
             /\ UNCHANGED locks
    /\ Goto(r, "release")
    /\ Return(r)
    /\ UNCHANGED <<clock, todo>>

\* A mutant of Released: the releases stop at the first lock.
ReleasedEarly(r) ==
    /\ At(r, "release")
    /\ Goto(r, "done")
    /\ UNCHANGED <<clock, locks, todo, acquired, until, at, seen, stranded>>

\* releaseLocks has been through the whole map.
Released(r) ==
    /\ At(r, "release")
    /\ acquired[r] = {}
    /\ Goto(r, "done")
    /\ UNCHANGED <<clock, locks, todo, acquired, until, at, seen, stranded>>

\* The process dies with its memory; its rows stay until they expire.
Crash(r) ==
    /\ pc[r] \notin {"done", "dead"}
    /\ Goto(r, "dead")
    /\ todo' = [todo EXCEPT ![r] = <<>>]
    /\ acquired' = [acquired EXCEPT ![r] = {}]
    /\ until' = [until EXCEPT ![r] = [h \in Hosts |-> 0]]
    /\ stranded' = [stranded EXCEPT ![r] = {}]
    /\ Return(r)
    /\ UNCHANGED <<clock, locks>>

\* LockManager.CleanExpired: DELETE ... WHERE expires_at < now.
CleanExpired ==
    /\ \E h \in Hosts : locks[h] # NoLock /\ locks[h].expires < clock
    /\ locks' = [h \in Hosts |->
                   IF locks[h] # NoLock /\ locks[h].expires < clock THEN NoLock ELSE locks[h]]
    /\ UNCHANGED <<clock, todo, acquired, until, pc, at, seen, stranded>>

Tick ==
    /\ clock < MaxClock
    /\ clock' = clock + 1
    /\ UNCHANGED <<locks, todo, acquired, until, pc, at, seen, stranded>>

\* A step of the run itself; only its context and its process fail it from outside.
Step(r) ==
    \/ Acquire(r) \/ StoreAcquire(r) \/ CreateLock(r)
    \/ ForceAcquire(r) \/ UpdateLockOwnedBy(r)
    \/ Finish(r) \/ (\E h \in Hosts : Release(r, h)) \/ DeleteLock(r) \/ Released(r)

Next ==
    \/ \E r \in Runs : Step(r) \/ Cancelled(r) \/ StatementFails(r) \/ Crash(r)
    \/ CleanExpired
    \/ Tick

Spec == Init /\ [][Next]_vars

\* A goroutine that can take a step eventually does; the clock need not advance.
LiveSpec == Spec /\ \A r \in Runs : WF_vars(Step(r))
-----------------------------------------------------------------------------
Labels == {"acquire", "create", "insert", "force", "forceInsert", "update",
           "work", "release", "delete", "done", "dead"}

\* Types; a row is filed under its scope, a run that locks has a target left.
TypeOK ==
    /\ clock \in Nat
    /\ locks \in [Hosts -> Row \cup {NoLock}]
    /\ todo \in [Runs -> Seq(Hosts)]
    /\ acquired \in [Runs -> SUBSET Hosts]
    /\ until \in [Runs -> [Hosts -> Nat]]
    /\ pc \in [Runs -> Labels]
    /\ at \in [Runs -> Nat]
    /\ seen \in [Runs -> Row \cup {NoLock}]
    /\ stranded \in [Runs -> SUBSET Hosts]
    /\ \A h \in Hosts : locks[h] # NoLock => locks[h].scope = h
    /\ \A r \in Runs :
         /\ pc[r] \in Locking => todo[r] # <<>>
         /\ pc[r] \in {"update", "delete"} => seen[r] # NoLock

\* The row of a lock that has not expired is the run's, with the expiry it was given.
HeldIsOwned(r, h) ==
    h \in acquired[r] /\ clock < until[r][h] =>
        Owns(r, h) /\ locks[h].expires = until[r][h]

\* A live run knows of every row it owns, unless a statement failed on it.
OwnedIsKnown(r, h) == Owns(r, h) /\ pc[r] # "dead" => h \in acquired[r] \cup stranded[r]

\* The row a run is about to delete has not changed id if it is still the run's.
SeenIsCurrent(r, h) ==
    Owns(r, h) /\ pc[r] = "delete" /\ seen[r].scope = h => locks[h].id = seen[r].id

\* What the steps keep: besides these, that a clock reading is past.
IndInv ==
    /\ TypeOK
    /\ \A r \in Runs : at[r] <= clock
    /\ \A h \in Hosts : locks[h] # NoLock => locks[h].expires <= clock + TTL
    /\ \A r \in Runs : pc[r] = "done" => acquired[r] = {}
    /\ \A r \in Runs, h \in Hosts :
         HeldIsOwned(r, h) /\ OwnedIsKnown(r, h) /\ SeenIsCurrent(r, h)

(* While a lock has not expired, the table shows it to be the run's: whatever  *)
(* the inserts, takeovers, releases and sweeps of the others did in between,   *)
(* the run that Acquire answered still owns the row.                           *)
HolderOwnsRow ==
    \A r \in Runs, h \in Hosts :
        h \in acquired[r] /\ clock < until[r][h] =>
            Owns(r, h)

(* No two runs work on one host unless the TTL of one of them has run out      *)
(* (lock.go: "Locks prevent two concurrent runs from operating on the same     *)
(* target host simultaneously").                                               *)
WorkIsExclusive ==
    \A r, s \in Runs, h \in Hosts :
        /\ r # s
        /\ pc[r] = "work" /\ pc[s] = "work"
        /\ h \in acquired[r] \cap acquired[s]
        => until[r][h] <= clock \/ until[s][h] <= clock

(* A run that has returned, however it ended, leaves no lock of its own behind, *)
(* except where a statement on that very host failed (releaseLocks: "the lock   *)
(* will expire via its TTL"), and then for no longer than a TTL.                *)
NothingLeftLocked ==
    \A r \in Runs, h \in Hosts :
        pc[r] = "done" /\ Owns(r, h) =>
            h \in stranded[r] /\ locks[h].expires <= clock + TTL

(* A lock that has not expired leaves the table only by its owner's release.   *)
OnlyOwnerGivesUp ==
    [][\A h \in Hosts :
         locks[h] # NoLock /\ clock < locks[h].expires /\ locks'[h] # locks[h] =>
            locks'[h] = NoLock /\ pc[locks[h].owner] = "delete"]_vars

(* Runs that lock the same hosts in opposite orders do not wait for each other: *)
(* every execution returns, or its process has died.                           *)
EveryRunEnds == \A r \in Runs : <>(pc[r] \in {"done", "dead"})
=============================================================================
