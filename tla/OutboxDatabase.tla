--------------------------- MODULE OutboxDatabase ---------------------------
(***************************************************************************)
(* AsyncConnectionOutboxDatabase of storage/outbox.py: one connection      *)
(* shared by asyncio tasks, a task-reentrant lock, and savepoint           *)
(* transactions.  Every await is a point where another task runs, where    *)
(* the statement may raise, and where the task may be cancelled.           *)
(*                                                                         *)
(* A writer runs one transaction the way OutboxStore.enqueue does: take    *)
(* the lock, SAVEPOINT, a nested fetch_one (the capacity check), a write,  *)
(* RELEASE.  A reader runs one fetch_one or fetch_all of its own.          *)
(*                                                                         *)
(* Every await may raise, and a statement that raises, or whose await is   *)
(* cancelled, may have been executed or not.  "failed" remembers which     *)
(* statements have, because some promises do not survive some failures.    *)
(***************************************************************************)
EXTENDS Naturals, Sequences, FiniteSets

CONSTANTS
    Writers, Readers,   \* tasks that run a transaction, tasks that only read
    NoTask              \* None

Tasks == Writers \cup Readers

\* What a task may be awaiting: the lock, or a statement.
Awaits == {"waiting", "savepoint", "fetch", "write", "release", "rollback", "undo"}

\* Where a task is inside transaction() or a fetch, lock in hand.
Inside == (Awaits \ {"waiting"}) \cup {"body"}

ASSUME DatabaseAssumption ==
    /\ Writers \cap Readers = {}
    /\ NoTask \notin Tasks

VARIABLES
    locked,   \* asyncio.Lock: held
    waiters,  \* asyncio.Lock: tasks waiting, first come first served
    owner,    \* _owner
    depth,    \* _depth
    pc,       \* task -> where it is
    stack,    \* SQLite: open savepoints, outermost first, with their writes
    durable,  \* SQLite: writers whose write is committed
    failed    \* history: the statements that have raised

vars == <<locked, waiters, owner, depth, pc, stack, durable, failed>>

Go(t, l) == pc' = [pc EXCEPT ![t] = l]

\* The statement a task is awaiting raises, or succeeds.
Raises(t) == failed' = failed \cup {pc[t]}
Succeeds == UNCHANGED failed

-----------------------------------------------------------------------------
(***************************************************************************)
(* The lock.  asyncio.Lock is external: it is free for a newcomer only     *)
(* when nobody waits, and a release wakes the longest waiter.              *)
(***************************************************************************)
Free == ~locked /\ waiters = <<>>

\* The statement after a first-level _acquire.
First(t) == IF t \in Writers THEN "savepoint" ELSE "fetch"

Take(t) ==
    /\ locked' = TRUE
    /\ owner' = t
    /\ depth' = 1
    /\ Go(t, First(t))

\* Fault: a held lock counts as reentrant whoever asks.
AnyReentrant(t) == owner # NoTask

\* Fault: no call is reentrant.
NeverReentrant(t) == FALSE

Reentrant(t) == owner = t

\* _acquire: the call of transaction() or a fetch ("idle"), and the nested
\* fetch inside a transaction ("body").
Acquire(t) ==
    /\ pc[t] \in {"idle", "body"}
    /\ \/ /\ Reentrant(t)
          /\ depth' = depth + 1
          /\ Go(t, "fetch")
          /\ UNCHANGED <<locked, owner, waiters>>
       \/ /\ ~Reentrant(t) /\ Free
          /\ Take(t)
          /\ UNCHANGED waiters
       \/ /\ ~Reentrant(t) /\ ~Free
          /\ waiters' = Append(waiters, t)
          /\ Go(t, "waiting")
          /\ UNCHANGED <<locked, owner, depth>>
    /\ Succeeds
    /\ UNCHANGED <<stack, durable>>

Granted(t) ==
    /\ pc[t] = "waiting"
    /\ ~locked
    /\ Head(waiters) = t
    /\ waiters' = Tail(waiters)
    /\ Take(t)
    /\ Succeeds
    /\ UNCHANGED <<stack, durable>>

\* A queue without its entry i.
LessOne(q, i) == [j \in 1..(Len(q) - 1) |-> q[IF j < i THEN j ELSE j + 1]]

\* Cancelled while it waits: asyncio takes it out of the queue.
GiveUp(t) ==
    /\ pc[t] = "waiting"
    /\ Raises(t)
    /\ \E i \in DOMAIN waiters :
          /\ waiters[i] = t
          /\ waiters' = LessOne(waiters, i)
    /\ Go(t, "raised")
    /\ UNCHANGED <<locked, owner, depth, stack, durable>>

\* Fault: the task that has the lock keeps it.
ReleaseForgotten(acquired) ==
    /\ depth' = IF acquired THEN 0 ELSE depth - 1
    /\ UNCHANGED <<owner, locked>>

\* _release
Release(acquired) ==
    IF acquired
    THEN owner' = NoTask /\ depth' = 0 /\ locked' = FALSE
    ELSE depth' = depth - 1 /\ UNCHANGED <<owner, locked>>

-----------------------------------------------------------------------------
(***************************************************************************)
(* Savepoints (SQLite, external).  The name of a savepoint is new for      *)
(* every transaction: the task stands for it.  RELEASE merges a savepoint  *)
(* into the one around it, and commits when it is the outermost.           *)
(***************************************************************************)
Open(t) == stack' = Append(stack, [name |-> t, writes |-> {}])

Positions(t) == {i \in DOMAIN stack : stack[i].name = t}

WritesFrom(i) == UNION {stack[j].writes : j \in i..Len(stack)}

ReleaseSavepoint(t) ==
    \E i \in Positions(t) :
        IF i = 1
        THEN /\ stack' = <<>>
             /\ durable' = durable \cup WritesFrom(1)
        ELSE /\ stack' = [SubSeq(stack, 1, i - 1) EXCEPT
                            ![i - 1].writes = @ \cup WritesFrom(i)]
             /\ UNCHANGED durable

RollbackTo(t) ==
    \E i \in Positions(t) :
        /\ stack' = Append(SubSeq(stack, 1, i - 1), [name |-> t, writes |-> {}])
        /\ UNCHANGED durable

\* Outside a savepoint a statement would commit by itself.
Write(t) ==
    IF stack = <<>>
    THEN durable' = durable \cup {t} /\ UNCHANGED stack
    ELSE /\ stack' = [stack EXCEPT ![Len(stack)].writes = @ \cup {t}]
         /\ UNCHANGED durable

-----------------------------------------------------------------------------
(***************************************************************************)
(* transaction(): SAVEPOINT, body, RELEASE or ROLLBACK TO and RELEASE.     *)
(***************************************************************************)
Begin(t) ==
    /\ pc[t] = "savepoint"
    /\ Open(t)
    /\ Go(t, "body")
    /\ Succeeds
    /\ UNCHANGED <<locked, waiters, owner, depth, durable>>

\* The SAVEPOINT statement is executed before the try: when it raises, nothing
\* releases the lock.
BeginRaises(t) ==
    /\ pc[t] = "savepoint"
    /\ Raises(t)
    /\ Open(t) \/ UNCHANGED stack
    /\ Go(t, "raised")
    /\ UNCHANGED <<locked, waiters, owner, depth, durable>>

\* fetch_one or fetch_all: its finally releases what its _acquire took.
Fetch(t) ==
    /\ pc[t] = "fetch"
    /\ Go(t, IF t \in Writers THEN "write" ELSE "returned")
    /\ Release(t \in Readers)
    /\ Succeeds
    /\ UNCHANGED <<waiters, stack, durable>>

\* A failed or cancelled read, or the OutboxCapacityError that enqueue raises
\* because of what it read.
FetchRaises(t) ==
    /\ pc[t] = "fetch"
    /\ Raises(t)
    /\ Go(t, IF t \in Writers THEN "rollback" ELSE "raised")
    /\ Release(t \in Readers)
    /\ UNCHANGED <<waiters, stack, durable>>

BodyWrite(t) ==
    /\ pc[t] = "write"
    /\ Write(t)
    /\ Go(t, "release")
    /\ Succeeds
    /\ UNCHANGED <<locked, waiters, owner, depth>>

WriteRaises(t) ==
    /\ pc[t] = "write"
    /\ Raises(t)
    /\ Write(t) \/ UNCHANGED <<stack, durable>>
    /\ Go(t, "rollback")
    /\ UNCHANGED <<locked, waiters, owner, depth>>

\* Fault: the transaction ends without RELEASE.
CommitSkipped(t) ==
    /\ pc[t] = "release"
    /\ Go(t, "returned")
    /\ Release(TRUE)
    /\ Succeeds
    /\ UNCHANGED <<waiters, stack, durable>>

Commit(t) ==
    /\ pc[t] = "release"
    /\ ReleaseSavepoint(t)
    /\ Go(t, "returned")
    /\ Release(TRUE)
    /\ Succeeds
    /\ UNCHANGED waiters

\* RELEASE in the else branch: the finally still frees the lock, but when the
\* statement was not executed nobody rolls the savepoint back.
CommitRaises(t) ==
    /\ pc[t] = "release"
    /\ Raises(t)
    /\ ReleaseSavepoint(t) \/ UNCHANGED <<stack, durable>>
    /\ Go(t, "raised")
    /\ Release(TRUE)
    /\ UNCHANGED waiters

\* Fault: the except branch only releases the savepoint.
RollbackSkipped(t) ==
    /\ pc[t] = "rollback"
    /\ Go(t, "undo")
    /\ Succeeds
    /\ UNCHANGED <<locked, waiters, owner, depth, stack, durable>>

Rollback(t) ==
    /\ pc[t] = "rollback"
    /\ RollbackTo(t)
    /\ Go(t, "undo")
    /\ Succeeds
    /\ UNCHANGED <<locked, waiters, owner, depth>>

RollbackRaises(t) ==
    /\ pc[t] = "rollback"
    /\ Raises(t)
    /\ RollbackTo(t) \/ UNCHANGED <<stack, durable>>
    /\ Go(t, "raised")
    /\ Release(TRUE)
    /\ UNCHANGED waiters

\* The RELEASE after ROLLBACK TO; the original exception goes on either way.
Undo(t) ==
    /\ pc[t] = "undo"
    /\ \/ ReleaseSavepoint(t) /\ (Succeeds \/ Raises(t))
       \/ UNCHANGED <<stack, durable>> /\ Raises(t)
    /\ Go(t, "raised")
    /\ Release(TRUE)
    /\ UNCHANGED waiters

-----------------------------------------------------------------------------
Init ==
    /\ locked = FALSE
    /\ waiters = <<>>
    /\ owner = NoTask
    /\ depth = 0
    /\ pc = [t \in Tasks |-> "idle"]
    /\ stack = <<>>
    /\ durable = {}
    /\ failed = {}

Step(t) ==
    \/ Acquire(t) \/ Granted(t) \/ GiveUp(t)
    \/ Begin(t) \/ BeginRaises(t)
    \/ Fetch(t) \/ FetchRaises(t)
    \/ BodyWrite(t) \/ WriteRaises(t)
    \/ Commit(t) \/ CommitRaises(t)
    \/ Rollback(t) \/ RollbackRaises(t) \/ Undo(t)

Next == \E t \in Tasks : Step(t)

Spec == Init /\ [][Next]_vars

\* The event loop resumes every task whose await is over; that somebody
\* cancels a task that waits for the lock is not assumed.
Resume(t) == Step(t) /\ ~GiveUp(t)

FairSpec == Spec /\ \A t \in Tasks : WF_vars(Resume(t))

-----------------------------------------------------------------------------
(***************************************************************************)
(* Properties.                                                             *)
(***************************************************************************)
Finished(t) == pc[t] \in {"returned", "raised"}

InFlight == UNION {stack[i].writes : i \in DOMAIN stack}

\* The lock, its owner, its depth and the savepoint stack have their types.
TypeOK ==
    /\ locked \in BOOLEAN
    /\ owner \in Tasks \cup {NoTask}
    /\ depth \in Nat
    /\ waiters \in Seq(Tasks)
    /\ pc \in [Tasks -> Inside \cup {"idle", "waiting", "returned", "raised"}]
    /\ durable \subseteq Writers
    /\ stack \in Seq([name : Writers, writes : SUBSET Writers])
    /\ failed \subseteq Awaits

\* Two tasks are never inside the connection at once, whichever statements
\* fail and whoever is cancelled: reentrancy is for the owner only.
Exclusive ==
    \A t, u \in Tasks : pc[t] \in Inside /\ pc[u] \in Inside => t = u

\* A held lock has a task that will release it, unless a SAVEPOINT statement
\* has raised: it is executed with the lock held and outside the try.
LockHasHolder ==
    locked => (owner \in Tasks /\ pc[owner] \in Inside) \/ "savepoint" \in failed

\* The lock as a whole: types, mutual exclusion, and a holder that will let go.
LockInv == TypeOK /\ Exclusive /\ LockHasHolder

\* The statements that leave a savepoint open when they raise.
Unbalancing == {"savepoint", "release", "rollback", "undo"}

\* A store method that returned has committed its write, so that it survives a
\* crash, whichever reads and writes of other methods raised, unless one of the
\* savepoint statements has raised.
ReturnedIsDurable ==
    \A t \in Writers :
        pc[t] = "returned" => t \in durable \/ failed \cap Unbalancing # {}

\* A store method that raised has left nothing behind, neither committed nor
\* in an open savepoint that a later transaction would commit, unless one of
\* the savepoint statements has raised.
RaisedLeavesNoTrace ==
    \A t \in Writers :
        pc[t] = "raised" =>
            t \notin durable \cup InFlight \/ failed \cap Unbalancing # {}

\* A transaction is atomic and durable, as its caller sees it.
Transactional == ReturnedIsDurable /\ RaisedLeavesNoTrace

\* Every call of the store ends, whatever its statements do, unless a SAVEPOINT
\* statement has raised: nobody waits for the lock for ever.
EveryCallEnds ==
    \A t \in Tasks : <>(Finished(t) \/ "savepoint" \in failed)

\* No call leaves the lock to nobody ("A task-reentrant lock protects savepoint
\* transactions"), whatever raises.
NobodyKeepsTheLock == locked => owner \in Tasks /\ pc[owner] \in Inside
=============================================================================
