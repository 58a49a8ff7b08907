------------------------ MODULE OutboxDatabaseProofs ------------------------
(***************************************************************************)
(* What OutboxDatabase guarantees for any tasks and any set of awaits that *)
(* may fail: mutual exclusion on the connection, a lock that is let go,    *)
(* and transactions that are all or nothing.                               *)
(***************************************************************************)
EXTENDS OutboxDatabase, SequenceTheorems, TLAPS

\* The lock and its owner say who is inside; this is what makes Exclusive
\* inductive.
HolderInv ==
    /\ pc = [t \in Tasks |-> pc[t]]
    /\ \A t \in Tasks : pc[t] \in Inside => locked /\ owner = t
    /\ ~locked => owner = NoTask

\* The lock is free and nobody waits in the initial state.
LEMMA HolderInit == Init => HolderInv
  BY DEF Init, HolderInv, Inside, Awaits

\* A step of one task moves only that task; if it ends inside, it holds the
\* lock, and if it lets go of the lock nobody is left inside.
LEMMA HolderStep ==
  ASSUME HolderInv, NEW t \in Tasks, Step(t) PROVE HolderInv'
<1> USE DatabaseAssumption DEF HolderInv, Inside, Awaits, Go
<1>1. CASE Acquire(t)
  BY <1>1 DEF Acquire, Reentrant, Take, First, Free
<1>2. CASE Granted(t)
  BY <1>2 DEF Granted, Take, First
<1>3. CASE GiveUp(t)
  BY <1>3 DEF GiveUp
<1>4. CASE Begin(t)
  BY <1>4 DEF Begin
<1>5. CASE BeginRaises(t)
  BY <1>5 DEF BeginRaises
<1>6. CASE Fetch(t)
  BY <1>6 DEF Fetch, Release, Tasks
<1>7. CASE FetchRaises(t)
  BY <1>7 DEF FetchRaises, Release, Tasks
<1>8. CASE BodyWrite(t) \/ WriteRaises(t)
  BY <1>8 DEF BodyWrite, WriteRaises
<1>9. CASE Commit(t) \/ CommitRaises(t)
  BY <1>9 DEF Commit, CommitRaises, Release
<1>10. CASE Rollback(t)
  BY <1>10 DEF Rollback
<1>11. CASE RollbackRaises(t) \/ Undo(t)
  BY <1>11 DEF RollbackRaises, Undo, Release
<1> QED BY <1>1, <1>2, <1>3, <1>4, <1>5, <1>6, <1>7, <1>8, <1>9, <1>10, <1>11
        DEF Step

\* Two tasks are never inside the connection at the same time.
THEOREM MutualExclusion == Spec => []Exclusive
<1>1. HolderInv /\ [Next]_vars => HolderInv'
  <2>1. HolderInv /\ UNCHANGED vars => HolderInv'
    BY DEF HolderInv, vars
  <2> QED BY <2>1, HolderStep DEF Next
<1>2. HolderInv => Exclusive
  BY DEF HolderInv, Exclusive
<1> QED BY <1>1, <1>2, HolderInit, PTL DEF Spec
-----------------------------------------------------------------------------
\* What the types and the holder need beyond HolderInv: the stations of a
\* transaction are for writers, who waits or has not begun is not the owner,
\* the queue holds everybody who waits, and the depth counts the nested fetch.
Stations == {"savepoint", "body", "write", "release", "rollback", "undo"}

PlacedAt(t) ==
    /\ pc[t] \in Stations => t \in Writers
    /\ pc[t] \in {"idle", "waiting"} => owner # t
    /\ pc[t] = "waiting" => \E i \in 1..Len(waiters) : waiters[i] = t
    /\ pc[t] \in Inside => depth = IF pc[t] = "fetch" /\ t \in Writers THEN 2 ELSE 1

Placed == \A t \in Tasks : PlacedAt(t)

HeldInv == HolderInv /\ TypeOK /\ Placed /\ LockHasHolder

LEMMA HeldInit == Init => HeldInv
<1> SUFFICES ASSUME Init PROVE HeldInv
  OBVIOUS
<1>1. TypeOK
  BY DatabaseAssumption, EmptySeq DEF Init, TypeOK, Tasks
<1>2. Placed /\ LockHasHolder
  BY DatabaseAssumption DEF Init, Placed, PlacedAt, LockHasHolder, Stations, Inside, Awaits
<1> QED BY <1>1, <1>2, HolderInit DEF HeldInv

Savepoints == [name : Writers, writes : SUBSET Writers]

\* A function from 1..n is a sequence.
LEMMA FunctionIsSeq ==
  ASSUME NEW S, NEW n \in Nat, NEW f \in [1..n -> S] PROVE f \in Seq(S)
  BY SMT

\* What is written in the open savepoints was written by writers.
LEMMA WritesTyped ==
  ASSUME stack \in Seq(Savepoints), NEW i \in 1..Len(stack)
  PROVE  WritesFrom(i) \subseteq Writers
<1>1. ASSUME NEW j \in i..Len(stack) PROVE stack[j].writes \subseteq Writers
  <2>1. j \in 1..Len(stack)
    BY LenProperties
  <2>2. stack[j] \in Savepoints
    BY <2>1, ElementOfSeq
  <2> QED BY <2>2 DEF Savepoints
<1> QED BY <1>1 DEF WritesFrom

\* Writing more into one savepoint keeps the type of the stack.
LEMMA MoreWritten ==
  ASSUME NEW s \in Seq(Savepoints), NEW k \in 1..Len(s), NEW more \in SUBSET Writers
  PROVE  [s EXCEPT ![k].writes = s[k].writes \cup more] \in Seq(Savepoints)
<1> DEFINE t == [s EXCEPT ![k].writes = s[k].writes \cup more]
<1>1. Len(s) \in Nat /\ s \in [1..Len(s) -> Savepoints]
  BY LenProperties
<1>2. s[k] \in Savepoints
  BY <1>1
<1>3. [s[k] EXCEPT !.writes = s[k].writes \cup more] \in Savepoints
  BY <1>2 DEF Savepoints
<1>4. t \in [1..Len(s) -> Savepoints]
  BY <1>1, <1>3
<1> QED BY <1>1, <1>4, FunctionIsSeq

\* RELEASE of a savepoint keeps the types of what SQLite holds.
LEMMA ReleaseTyped ==
  ASSUME stack \in Seq(Savepoints), durable \subseteq Writers, NEW t, ReleaseSavepoint(t)
  PROVE  stack' \in Seq(Savepoints) /\ durable' \subseteq Writers
<1>1. PICK i \in Positions(t) :
         IF i = 1
         THEN /\ stack' = <<>>
              /\ durable' = durable \cup WritesFrom(1)
         ELSE /\ stack' = [SubSeq(stack, 1, i - 1) EXCEPT
                            ![i - 1].writes = @ \cup WritesFrom(i)]
              /\ UNCHANGED durable
  BY DEF ReleaseSavepoint
<1>2. i \in 1..Len(stack) /\ Len(stack) \in Nat
  BY DEF Positions
<1>3. CASE i = 1
  BY <1>1, <1>2, <1>3, WritesTyped, EmptySeq
<1>4. CASE i # 1
  <2>1. /\ SubSeq(stack, 1, i - 1) \in Seq(Savepoints)
        /\ i - 1 \in 1..Len(SubSeq(stack, 1, i - 1))
    BY <1>2, <1>4, SubSeqProperties
  <2>2. WritesFrom(i) \in SUBSET Writers
    BY <1>2, WritesTyped
  <2> DEFINE lower == SubSeq(stack, 1, i - 1)
             merged == [lower EXCEPT ![i - 1].writes = lower[i - 1].writes \cup WritesFrom(i)]
  <2>3. stack' = merged /\ durable' = durable
    BY <1>1, <1>4
  <2>4. merged \in Seq(Savepoints)
    <3> HIDE DEF lower
    <3> QED BY <2>1, <2>2, MoreWritten DEF lower
  <2> HIDE DEF merged
  <2> QED BY <2>3, <2>4
<1> QED BY <1>3, <1>4

\* So does ROLLBACK TO.
LEMMA RollbackTyped ==
  ASSUME stack \in Seq(Savepoints), durable \subseteq Writers,
         NEW t \in Writers, RollbackTo(t)
  PROVE  /\ stack' \in Seq(Savepoints)
         /\ durable' \subseteq Writers
<1>1. PICK i \in Positions(t) :
         stack' = Append(SubSeq(stack, 1, i - 1), [name |-> t, writes |-> {}])
  BY DEF RollbackTo
<1>2. SubSeq(stack, 1, i - 1) \in Seq(Savepoints)
  BY SubSeqProperties DEF Positions
<1>3. [name |-> t, writes |-> {}] \in Savepoints
  BY DEF Savepoints
<1>4. UNCHANGED durable
  BY DEF RollbackTo
<1> QED BY <1>1, <1>2, <1>3, <1>4, AppendProperties

\* So does a write.
LEMMA WriteTyped ==
  ASSUME stack \in Seq(Savepoints), durable \subseteq Writers, NEW t \in Writers, Write(t)
  PROVE  stack' \in Seq(Savepoints) /\ durable' \subseteq Writers
<1>1. CASE stack = <<>>
  BY <1>1 DEF Write
<1>2. CASE stack # <<>>
  <2>1. Len(stack) \in 1..Len(stack)
    BY <1>2, EmptySeq, LenProperties
  <2>2. [stack EXCEPT ![Len(stack)].writes = stack[Len(stack)].writes \cup {t}] \in Seq(Savepoints)
    BY <2>1, MoreWritten
  <2> QED BY <1>2, <2>2 DEF Write
<1> QED BY <1>1, <1>2

\* Taking one entry out of the queue leaves the other tasks in it.
LEMMA OneLeaves ==
  ASSUME NEW S, NEW q \in Seq(S), NEW i \in 1..Len(q), NEW k \in 1..Len(q), k # i
  PROVE  \E j \in 1..Len(LessOne(q, i)) : LessOne(q, i)[j] = q[k]
<1> DEFINE rest == LessOne(q, i)
<1>1. Len(q) \in Nat /\ q \in [1..Len(q) -> S]
  BY LenProperties
<1>2. rest \in [1..(Len(q) - 1) -> S] /\ Len(q) - 1 \in Nat
  BY <1>1 DEF LessOne
<1>3. rest \in Seq(S) /\ Len(rest) = Len(q) - 1
  BY <1>2, FunctionIsSeq, LenProperties
<1>4. CASE k < i
  <2>1. k \in 1..(Len(q) - 1)
    BY <1>1, <1>4
  <2>2. rest[k] = q[k]
    BY <1>4, <2>1 DEF LessOne
  <2> QED BY <1>3, <2>1, <2>2
<1>5. CASE k > i
  <2>1. k - 1 \in 1..(Len(q) - 1) /\ ~(k - 1 < i) /\ (k - 1) + 1 = k
    BY <1>1, <1>5
  <2>2. rest[k - 1] = q[k]
    BY <2>1 DEF LessOne
  <2> QED BY <1>3, <2>1, <2>2
<1>6. k < i \/ k > i
  BY <1>1
<1> QED BY <1>4, <1>5, <1>6

\* The queue without one of its entries is a queue.
LEMMA LessOneTyped ==
  ASSUME NEW S, NEW q \in Seq(S), NEW i \in 1..Len(q)
  PROVE  LessOne(q, i) \in Seq(S)
<1>1. Len(q) \in Nat /\ q \in [1..Len(q) -> S]
  BY LenProperties
<1>2. LessOne(q, i) \in [1..(Len(q) - 1) -> S] /\ Len(q) - 1 \in Nat
  BY <1>1 DEF LessOne
<1> QED BY <1>2, FunctionIsSeq

Places == Inside \cup {"idle", "waiting", "returned", "raised"}

\* The types after a step, from those of its parts.
LEMMA TypesKept ==
  ASSUME TypeOK, NEW t \in Tasks, NEW l \in Places, Go(t, l),
         locked' \in BOOLEAN, owner' \in Tasks \cup {NoTask}, depth' \in Nat,
         waiters' \in Seq(Tasks), durable' \subseteq Writers,
         stack' \in Seq(Savepoints), failed' \subseteq Awaits
  PROVE  TypeOK'
<1>1. pc' \in [Tasks -> Places]
  BY DEF TypeOK, Go, Places
<1> QED BY <1>1 DEF TypeOK, Places, Savepoints

\* Nobody else is inside.
LEMMA Alone ==
  ASSUME HolderInv, NEW t \in Tasks, NEW u \in Tasks, u # t, pc[t] \in Inside
  PROVE  pc[u] \notin Inside
  BY DEF HolderInv

\* Every step keeps the types, the places and the holder.
LEMMA HeldStep ==
  ASSUME HeldInv, NEW t \in Tasks, Step(t) PROVE HeldInv'
<1> USE DatabaseAssumption
<1>1. /\ TypeOK /\ HolderInv /\ Placed /\ LockHasHolder
      /\ waiters \in Seq(Tasks) /\ Len(waiters) \in Nat
      /\ locked \in BOOLEAN /\ owner \in Tasks \cup {NoTask} /\ depth \in Nat
      /\ failed \subseteq Awaits /\ pc[t] \in Places /\ DOMAIN pc = Tasks
  BY LenProperties DEF HeldInv, TypeOK, Places
<1>2. stack \in Seq(Savepoints) /\ durable \subseteq Writers
  BY DEF HeldInv, TypeOK, Savepoints
<1>3. SUFFICES TypeOK' /\ Placed' /\ LockHasHolder'
  BY HolderStep DEF HeldInv
<1>4. CASE Acquire(t)
  <2>1. CASE Reentrant(t)
    <3>1. /\ pc[t] = "body" /\ t \in Writers /\ Go(t, "fetch") /\ depth' = 2
          /\ UNCHANGED <<locked, owner, waiters, stack, durable, failed>>
      BY <1>1, <1>4, <2>1
         DEF Acquire, Reentrant, Placed, PlacedAt, Stations, Inside, Awaits, Succeeds
    <3>2. TypeOK'
      BY <1>1, <1>2, <3>1, TypesKept DEF Places, Inside, Awaits
    <3>3. pc'[t] = "fetch" /\ \A u \in Tasks : u # t => pc'[u] = pc[u] /\ pc[u] \notin Inside
      BY <1>1, <3>1, Alone DEF Go, Inside, Awaits
    <3>4. Placed'
      BY <1>1, <3>1, <3>3 DEF Placed, PlacedAt, Stations
    <3>5. LockHasHolder'
      BY <1>1, <2>1, <3>1, <3>3 DEF LockHasHolder, Reentrant, Inside, Awaits
    <3> QED BY <3>2, <3>4, <3>5
  <2>2. CASE ~Reentrant(t) /\ Free
    <3>1. /\ locked' = TRUE /\ owner' = t /\ depth' = 1 /\ Go(t, First(t))
          /\ UNCHANGED <<waiters, stack, durable, failed>> /\ ~locked
      BY <1>4, <2>2 DEF Acquire, Take, Free, Succeeds
    <3>2. TypeOK'
      BY <1>1, <1>2, <3>1, TypesKept DEF First, Places, Inside, Awaits
    <3>3. /\ pc'[t] = First(t)
          /\ \A u \in Tasks : u # t => pc'[u] = pc[u] /\ pc[u] \notin Inside
      BY <1>1, <3>1 DEF Go, HolderInv
    <3>4. Placed'
      BY <1>1, <3>1, <3>3 DEF Placed, PlacedAt, First, Stations, Tasks
    <3>5. LockHasHolder'
      BY <1>1, <3>1, <3>3 DEF LockHasHolder, First, Inside, Awaits
    <3> QED BY <3>2, <3>4, <3>5
  <2>3. CASE ~Reentrant(t) /\ ~Free
    <3>1. /\ waiters' = Append(waiters, t) /\ Go(t, "waiting") /\ owner # t
          /\ UNCHANGED <<locked, owner, depth, stack, durable, failed>>
      BY <1>4, <2>3 DEF Acquire, Succeeds, Reentrant
    <3>2. /\ waiters' \in Seq(Tasks) /\ Len(waiters') = Len(waiters) + 1
          /\ \A k \in 1..Len(waiters) : waiters'[k] = waiters[k]
          /\ waiters'[Len(waiters) + 1] = t
      BY <1>1, <3>1, AppendProperties
    <3>3. TypeOK'
      BY <1>1, <1>2, <3>1, <3>2, TypesKept DEF Places
    <3>4. pc'[t] = "waiting" /\ \A u \in Tasks : u # t => pc'[u] = pc[u]
      BY <1>1, <3>1 DEF Go
    <3>5. PlacedAt(t)'
      BY <1>1, <3>1, <3>2, <3>4 DEF PlacedAt, Stations, Inside, Awaits
    <3>6. \A u \in Tasks : u # t => PlacedAt(u)'
      BY <1>1, <3>1, <3>2, <3>4 DEF Placed, PlacedAt
    <3>7. LockHasHolder'
      BY <1>1, <3>1, <3>4 DEF LockHasHolder
    <3> QED BY <3>3, <3>5, <3>6, <3>7 DEF Placed
  <2> QED BY <2>1, <2>2, <2>3
<1>5. CASE Granted(t)
  <2>1. \E i \in 1..Len(waiters) : waiters[i] = t
    BY <1>1, <1>5 DEF Granted, Placed, PlacedAt
  <2>2. waiters # <<>>
    BY <2>1, EmptySeq
  <2>3. /\ locked' = TRUE /\ owner' = t /\ depth' = 1 /\ Go(t, First(t)) /\ ~locked
        /\ waiters[1] = t /\ waiters' = Tail(waiters)
        /\ UNCHANGED <<stack, durable, failed>>
    BY <1>1, <1>5, <2>2, HeadTailProperties DEF Granted, Take, Succeeds
  <2>4. /\ waiters' \in Seq(Tasks) /\ Len(waiters') = Len(waiters) - 1
        /\ \A k \in 1..Len(waiters') : waiters'[k] = waiters[k + 1]
    BY <1>1, <2>2, <2>3, HeadTailProperties
  <2>5. TypeOK'
    BY <1>1, <1>2, <2>3, <2>4, TypesKept DEF First, Places, Inside, Awaits
  <2>6. /\ pc'[t] = First(t)
        /\ \A u \in Tasks : u # t => pc'[u] = pc[u] /\ pc[u] \notin Inside
    BY <1>1, <2>3 DEF Go, HolderInv
  <2>7. PlacedAt(t)'
    BY <2>3, <2>6 DEF PlacedAt, First, Stations, Tasks
  <2>8. ASSUME NEW u \in Tasks, u # t PROVE PlacedAt(u)'
    <3>1. ASSUME NEW k \in 1..Len(waiters), waiters[k] = u
          PROVE  k - 1 \in 1..Len(waiters') /\ waiters'[k - 1] = u
      BY <1>1, <2>3, <2>4, <2>8, <3>1
    <3>2. pc[u] = "waiting" => \E i \in 1..Len(waiters') : waiters'[i] = u
      BY <1>1, <3>1 DEF Placed, PlacedAt
    <3> QED BY <1>1, <2>3, <2>6, <2>8, <3>2 DEF Placed, PlacedAt
  <2>9. LockHasHolder'
    BY <2>3, <2>6 DEF LockHasHolder, First, Inside, Awaits
  <2> QED BY <2>5, <2>7, <2>8, <2>9 DEF Placed
<1>6. CASE GiveUp(t)
  <2>1. PICK i \in 1..Len(waiters) :
           /\ waiters[i] = t
           /\ waiters' = LessOne(waiters, i)
    BY <1>1, <1>6, LenProperties DEF GiveUp
  <2>2. waiters' \in Seq(Tasks)
    BY <1>1, <2>1, LessOneTyped
  <2>3. /\ pc[t] = "waiting" /\ Go(t, "raised") /\ failed' \subseteq Awaits /\ failed \subseteq failed'
        /\ UNCHANGED <<locked, owner, depth, stack, durable>>
    BY <1>1, <1>6 DEF GiveUp, Raises, Awaits
  <2>4. TypeOK'
    BY <1>1, <1>2, <2>2, <2>3, TypesKept DEF Places
  <2>5. pc'[t] = "raised" /\ \A u \in Tasks : u # t => pc'[u] = pc[u]
    BY <1>1, <2>3 DEF Go
  <2>6. PlacedAt(t)'
    BY <2>5 DEF PlacedAt, Stations, Inside, Awaits
  <2>7. ASSUME NEW u \in Tasks, u # t PROVE PlacedAt(u)'
    <3>1. ASSUME NEW k \in 1..Len(waiters), waiters[k] = u
          PROVE  \E j \in 1..Len(waiters') : waiters'[j] = u
      <4>1. k # i
        BY <2>1, <2>7, <3>1
      <4>2. \E j \in 1..Len(waiters') : waiters'[j] = waiters[k]
        BY <1>1, <2>1, <4>1, OneLeaves
      <4> QED BY <3>1, <4>2
    <3>2. pc[u] = "waiting" => \E j \in 1..Len(waiters') : waiters'[j] = u
      BY <1>1, <3>1 DEF Placed, PlacedAt
    <3> QED BY <1>1, <2>3, <2>5, <2>7, <3>2 DEF Placed, PlacedAt
  <2>8. LockHasHolder'
    BY <1>1, <2>3, <2>5 DEF LockHasHolder, HolderInv, Inside, Awaits
  <2> QED BY <2>4, <2>6, <2>7, <2>8 DEF Placed
<1>7. CASE Begin(t) \/ BeginRaises(t)
  <2>1. /\ pc[t] = "savepoint" /\ t \in Writers /\ owner = t /\ depth = 1
        /\ UNCHANGED <<locked, waiters, owner, depth, durable>>
        /\ failed' \subseteq Awaits /\ failed \subseteq failed'
    BY <1>1, <1>7 DEF Begin, BeginRaises, Placed, PlacedAt, HolderInv, Stations, Inside, Awaits,
                      Raises, Succeeds
  <2>2. stack' \in Seq(Savepoints)
    <3>1. [name |-> t, writes |-> {}] \in Savepoints
      BY <2>1 DEF Savepoints
    <3> QED BY <1>2, <1>7, <3>1, AppendProperties DEF Begin, BeginRaises, Open
  <2>3. \/ Go(t, "body")
        \/ Go(t, "raised") /\ "savepoint" \in failed'
    BY <1>7 DEF Begin, BeginRaises, Raises
  <2>4. TypeOK'
    BY <1>1, <1>2, <2>1, <2>2, <2>3, TypesKept DEF Places, Inside
  <2>5. /\ pc'[t] = "body" \/ (pc'[t] = "raised" /\ "savepoint" \in failed')
        /\ \A u \in Tasks : u # t => pc'[u] = pc[u]
    BY <1>1, <2>3 DEF Go
  <2>6. Placed' /\ LockHasHolder'
    BY <1>1, <2>1, <2>5 DEF Placed, PlacedAt, LockHasHolder, Stations, Inside, Awaits
  <2> QED BY <2>4, <2>6
<1>8. CASE Fetch(t) \/ FetchRaises(t)
  <2>1. /\ pc[t] = "fetch" /\ pc[t] \in Inside /\ Release(t \in Readers)
        /\ UNCHANGED <<waiters, stack, durable>>
        /\ failed' \subseteq Awaits /\ failed \subseteq failed'
    BY <1>1, <1>8 DEF Fetch, FetchRaises, Inside, Awaits, Raises, Succeeds
  <2>2. /\ t \in Writers => Go(t, "write") \/ Go(t, "rollback")
        /\ t \notin Writers => Go(t, "returned") \/ Go(t, "raised")
    BY <1>8 DEF Fetch, FetchRaises
  <2>3. /\ locked' \in BOOLEAN /\ owner' \in Tasks \cup {NoTask} /\ depth' \in Nat
        /\ t \in Readers => owner' = NoTask /\ locked' = FALSE
        /\ t \notin Readers => owner' = t /\ locked' = TRUE /\ depth' = 1
    <3>1. locked /\ owner = t
      BY <1>1, <2>1 DEF HolderInv
    <3>2. CASE t \in Readers
      <4>1. owner' = NoTask /\ depth' = 0 /\ locked' = FALSE
        BY <2>1, <3>2 DEF Release
      <4> QED BY <3>2, <4>1
    <3>3. CASE t \notin Readers
      <4>1. depth = 2
        BY <1>1, <2>1, <3>3 DEF Placed, PlacedAt, Tasks
      <4> QED BY <1>1, <2>1, <3>1, <3>3, <4>1 DEF Release
    <3> QED BY <3>2, <3>3
  <2>4. TypeOK'
    BY <1>1, <1>2, <2>1, <2>2, <2>3, TypesKept DEF Places, Inside, Awaits
  <2>5. /\ t \in Writers => pc'[t] \in {"write", "rollback"}
        /\ t \notin Writers => pc'[t] \in {"returned", "raised"}
        /\ \A u \in Tasks : u # t => pc'[u] = pc[u] /\ pc[u] \notin Inside
    BY <1>1, <2>1, <2>2, Alone DEF Go
  <2>6. Placed'
    BY <1>1, <2>1, <2>3, <2>5 DEF Placed, PlacedAt, Stations, Inside, Awaits, Tasks
  <2>7. LockHasHolder'
    BY <2>3, <2>5 DEF LockHasHolder, Inside, Awaits, Tasks
  <2> QED BY <2>4, <2>6, <2>7
<1>9. CASE BodyWrite(t) \/ WriteRaises(t)
  <2>1. /\ pc[t] = "write" /\ t \in Writers /\ owner = t /\ depth = 1
        /\ UNCHANGED <<locked, waiters, owner, depth>>
        /\ failed' \subseteq Awaits /\ failed \subseteq failed'
    BY <1>1, <1>9 DEF BodyWrite, WriteRaises, Placed, PlacedAt, HolderInv, Stations, Inside, Awaits,
                      Raises, Succeeds
  <2>2. stack' \in Seq(Savepoints) /\ durable' \subseteq Writers
    BY <1>2, <1>9, <2>1, WriteTyped DEF BodyWrite, WriteRaises
  <2>3. Go(t, "release") \/ Go(t, "rollback")
    BY <1>9 DEF BodyWrite, WriteRaises
  <2>4. TypeOK'
    BY <1>1, <2>1, <2>2, <2>3, TypesKept DEF Places, Inside, Awaits
  <2>5. pc'[t] \in {"release", "rollback"} /\ \A u \in Tasks : u # t => pc'[u] = pc[u]
    BY <1>1, <2>3 DEF Go
  <2>6. Placed' /\ LockHasHolder'
    BY <1>1, <2>1, <2>5 DEF Placed, PlacedAt, LockHasHolder, Stations, Inside, Awaits
  <2> QED BY <2>4, <2>6
<1>10. CASE Rollback(t)
  <2>1. /\ pc[t] = "rollback" /\ t \in Writers /\ owner = t /\ depth = 1
        /\ UNCHANGED <<locked, waiters, owner, depth, failed>> /\ Go(t, "undo")
    BY <1>1, <1>10 DEF Rollback, Placed, PlacedAt, HolderInv, Stations, Inside, Awaits, Succeeds
  <2>2. stack' \in Seq(Savepoints) /\ durable' \subseteq Writers
    BY <1>2, <1>10, <2>1, RollbackTyped DEF Rollback
  <2>3. TypeOK'
    BY <1>1, <2>1, <2>2, TypesKept DEF Places, Inside, Awaits
  <2>4. pc'[t] = "undo" /\ \A u \in Tasks : u # t => pc'[u] = pc[u]
    BY <1>1, <2>1 DEF Go
  <2>5. Placed' /\ LockHasHolder'
    BY <1>1, <2>1, <2>4 DEF Placed, PlacedAt, LockHasHolder, Stations, Inside, Awaits
  <2> QED BY <2>3, <2>5
<1>11. CASE Commit(t) \/ CommitRaises(t) \/ RollbackRaises(t) \/ Undo(t)
  <2>1. /\ pc[t] \in {"release", "rollback", "undo"} /\ pc[t] \in Inside
        /\ Release(TRUE) /\ UNCHANGED waiters
        /\ failed' \subseteq Awaits /\ failed \subseteq failed'
    BY <1>1, <1>11 DEF Commit, CommitRaises, RollbackRaises, Undo, Inside, Awaits, Raises, Succeeds
  <2>2. t \in Writers
    BY <1>1, <2>1 DEF Placed, PlacedAt, Stations
  <2>3. stack' \in Seq(Savepoints) /\ durable' \subseteq Writers
    BY <1>2, <1>11, <2>2, ReleaseTyped, RollbackTyped
       DEF Commit, CommitRaises, RollbackRaises, Undo
  <2>4. Go(t, "returned") \/ Go(t, "raised")
    BY <1>11 DEF Commit, CommitRaises, RollbackRaises, Undo
  <2>5. owner' = NoTask /\ locked' = FALSE /\ depth' = 0
    BY <2>1 DEF Release
  <2>6. TypeOK'
    BY <1>1, <2>1, <2>3, <2>4, <2>5, TypesKept DEF Places
  <2>7. /\ pc'[t] \in {"returned", "raised"}
        /\ \A u \in Tasks : u # t => pc'[u] = pc[u] /\ pc[u] \notin Inside
    BY <1>1, <2>1, <2>4, Alone DEF Go
  <2>8. Placed' /\ LockHasHolder'
    BY <1>1, <2>1, <2>5, <2>7 DEF Placed, PlacedAt, LockHasHolder, Stations, Inside, Awaits
  <2> QED BY <2>6, <2>8
<1> QED BY <1>4, <1>5, <1>6, <1>7, <1>8, <1>9, <1>10, <1>11 DEF Step

\* The lock of the connection, in every reachable state: types, mutual
\* exclusion, and a holder inside who will let go, unless a SAVEPOINT raised.
THEOREM LockAlways == Spec => []LockInv
<1>1. HeldInv /\ [Next]_vars => HeldInv'
  <2>1. HeldInv /\ UNCHANGED vars => HeldInv'
    BY DEF HeldInv, HolderInv, TypeOK, Placed, PlacedAt, LockHasHolder, vars
  <2> QED BY <2>1, HeldStep DEF Next
<1>2. HeldInv => LockInv
  BY DEF HeldInv, HolderInv, LockInv, Exclusive
<1> QED BY <1>1, <1>2, HeldInit, PTL DEF Spec

-----------------------------------------------------------------------------
(***************************************************************************)
(* Transactions.  While no savepoint statement has raised, there is at     *)
(* most one savepoint, that of the transaction that holds the lock.        *)
(***************************************************************************)
\* A stack of one savepoint
Saved(t, W) == <<[name |-> t, writes |-> W]>>

\* A stack of one savepoint, read in every way the model reads it.
LEMMA OneLevel ==
  ASSUME NEW t, NEW W, stack = Saved(t, W)
  PROVE  /\ Len(stack) = 1 /\ DOMAIN stack = {1} /\ stack[1].name = t /\ stack[1].writes = W
         /\ Positions(t) = {1} /\ WritesFrom(1) = W /\ InFlight = W
<1>1. Len(stack) = 1 /\ stack[1] = [name |-> t, writes |-> W] /\ DOMAIN stack = 1..1
  BY DEF Saved
<1>2. DOMAIN stack = {1} /\ 1..Len(stack) = {1}
  BY <1>1
<1>3. Positions(t) = {1}
  BY <1>1, <1>2 DEF Positions
<1>4. WritesFrom(1) = W /\ InFlight = W
  BY <1>1, <1>2 DEF WritesFrom, InFlight
<1> QED BY <1>1, <1>2, <1>3, <1>4

\* The first savepoint is opened on an empty stack.
LEMMA OneOpen ==
  ASSUME NEW t, stack = <<>>, Open(t)
  PROVE  stack' = Saved(t, {})
  BY DEF Open, Saved

\* Releasing the only savepoint commits what was written in it.
LEMMA OneRelease ==
  ASSUME NEW t, NEW W, stack = Saved(t, W), ReleaseSavepoint(t)
  PROVE  stack' = <<>> /\ durable' = durable \cup W
  BY OneLevel DEF ReleaseSavepoint

\* Rolling back to the only savepoint discards what was written in it.
LEMMA OneRollback ==
  ASSUME NEW t, NEW W, stack = Saved(t, W), RollbackTo(t)
  PROVE  stack' = Saved(t, {}) /\ durable' = durable
<1>1. stack' = Append(SubSeq(stack, 1, 0), [name |-> t, writes |-> {}]) /\ durable' = durable
  BY OneLevel DEF RollbackTo
<1>2. SubSeq(stack, 1, 0) = <<>>
  BY DEF Saved
<1>3. stack' = Append(<<>>, [name |-> t, writes |-> {}])
  BY <1>1, <1>2
<1>4. Append(<<>>, [name |-> t, writes |-> {}]) = Saved(t, {})
  BY DEF Saved
<1> QED BY <1>1, <1>3, <1>4

\* A write belongs to the only savepoint.
LEMMA OneWrite ==
  ASSUME NEW t, NEW W, stack = Saved(t, W), Write(t)
  PROVE  stack' = Saved(t, W \cup {t}) /\ durable' = durable
<1>1. stack # <<>>
  BY OneLevel
<1>2. stack' = [stack EXCEPT ![1] = [stack[1] EXCEPT !.writes = W \cup {t}]] /\ durable' = durable
  BY <1>1, OneLevel DEF Write
<1>3. [stack[1] EXCEPT !.writes = W \cup {t}] = [name |-> t, writes |-> W \cup {t}]
  BY DEF Saved
<1>4. stack' = [stack EXCEPT ![1] = [name |-> t, writes |-> W \cup {t}]]
  BY <1>2, <1>3
<1> QED BY <1>2, <1>4 DEF Saved

\* A task within its transaction
Transacting(t) ==
    t \in Writers /\ pc[t] \in {"body", "fetch", "write", "release", "rollback", "undo"}

\* The savepoint of a transaction and what it has written so far.
OwnSavepoint(t) ==
    \E W \in SUBSET {t} :
        /\ stack = Saved(t, W)
        /\ pc[t] \in {"body", "fetch", "write", "undo"} => W = {}
        /\ pc[t] = "release" => W = {t}

\* A writer's savepoint is open during its transaction, and its write is
\* durable exactly when it has returned.
SavedAt(t) ==
    /\ Transacting(t) => OwnSavepoint(t)
    /\ t \in Writers => (t \in durable <=> pc[t] = "returned")

\* No savepoint statement has raised.
Clean == failed \cap Unbalancing = {}

\* Until then the stack holds the savepoint of the transaction under way, and
\* nothing else.
Balanced ==
    Clean => /\ \A t \in Tasks : SavedAt(t)
             /\ (\A t \in Tasks : ~Transacting(t)) => stack = <<>>

\* No transaction is open at first.
LEMMA BalancedInit == Init => Balanced
  BY DEF Init, Balanced, SavedAt, Transacting

\* A step into a place outside a transaction, by a task that is in none.
LEMMA OutsideStep ==
    ASSUME HeldInv, Balanced, Clean, NEW t \in Tasks, NEW l, Go(t, l), UNCHANGED <<stack, durable>>,
           ~Transacting(t), l \in {"waiting", "savepoint", "raised"} \/ t \notin Writers,
           t \in Writers => pc[t] # "returned"
    PROVE  Clean' => Balanced'
<1>1. DOMAIN pc = Tasks
  BY DEF HeldInv, HolderInv
<1>2. pc'[t] = l /\ \A u \in Tasks : u # t => pc'[u] = pc[u]
  BY <1>1 DEF Go
<1>3. \A u \in Tasks : Transacting(u)' <=> Transacting(u)
  BY <1>2 DEF Transacting
<1>4. ASSUME NEW u \in Tasks PROVE SavedAt(u)'
  <2>1. SavedAt(u)
    BY DEF Balanced
  <2>2. CASE u = t
    BY <1>2, <1>3, <2>1, <2>2 DEF SavedAt
  <2>3. CASE u # t
    BY <1>2, <1>3, <2>1, <2>3 DEF SavedAt, OwnSavepoint
  <2> QED BY <2>2, <2>3
<1> QED BY <1>3, <1>4 DEF Balanced

\* A step of the one transaction: the others are outside.
LEMMA InsideStep ==
    ASSUME HeldInv, Balanced, Clean, NEW t \in Writers, NEW l, Go(t, l), pc[t] \in Inside,
           \A u \in Writers : u # t => (u \in durable' <=> u \in durable),
           t \in durable' <=> l = "returned",
           \/ l \in {"returned", "raised"} /\ stack' = <<>>
           \/ /\ l \in {"body", "fetch", "write", "release", "rollback", "undo"}
              /\ OwnSavepoint(t)'
    PROVE  Balanced'
<1>0. t \in Tasks
  BY DEF Tasks
<1>1. DOMAIN pc = Tasks /\ HolderInv
  BY DEF HeldInv, HolderInv
<1>2. pc'[t] = l /\ \A u \in Tasks : u # t => pc'[u] = pc[u] /\ pc[u] \notin Inside
  BY <1>0, <1>1, Alone DEF Go
<1>3. \A u \in Tasks : u # t => ~Transacting(u)'
  BY <1>2 DEF Transacting, Inside, Awaits
<1>4. ASSUME NEW u \in Tasks, u # t PROVE SavedAt(u)'
  BY <1>2, <1>3, <1>4 DEF Balanced, SavedAt
<1>5. SavedAt(t)'
  BY <1>0, <1>2 DEF SavedAt, Transacting
<1>6. (\A u \in Tasks : ~Transacting(u)') => stack' = <<>>
  BY <1>0, <1>2 DEF Transacting
<1> QED BY <1>4, <1>5, <1>6 DEF Balanced

\* Every step of a task keeps the transactions balanced.
LEMMA BalancedStep ==
    ASSUME HeldInv, Balanced, NEW t \in Tasks, Step(t) PROVE Balanced'
<1>1. SUFFICES ASSUME Clean' PROVE Balanced'
  BY DEF Balanced
<1>2. failed \subseteq failed' /\ Clean
  <2>1. failed \subseteq failed'
    BY DEF Step, Acquire, Granted, GiveUp, Begin, BeginRaises, Fetch, FetchRaises, BodyWrite,
       WriteRaises, Commit, CommitRaises, Rollback, RollbackRaises, Undo, Raises, Succeeds
  <2> QED BY <1>1, <2>1 DEF Clean
<1>3. Placed /\ HolderInv /\ SavedAt(t)
  BY <1>2 DEF HeldInv, Balanced
<1>4. pc[t] \in Stations => t \in Writers
  BY <1>3 DEF Placed, PlacedAt
<1>5. CASE Acquire(t)
  <2>1. CASE Reentrant(t)
    <3>1. pc[t] = "body" /\ t \in Writers /\ Go(t, "fetch") /\ UNCHANGED <<stack, durable>>
      BY <1>3, <1>5, <2>1 DEF Acquire, Reentrant, Placed, PlacedAt, Stations
    <3>2. pc'[t] = "fetch"
      BY <3>1, <1>3 DEF Go, HolderInv
    <3>3. OwnSavepoint(t)'
      BY <1>3, <3>1, <3>2 DEF SavedAt, Transacting, OwnSavepoint
    <3>4. t \notin durable' /\ UNCHANGED durable
      BY <1>3, <3>1 DEF SavedAt
    <3> QED BY <1>2, <3>1, <3>3, <3>4, InsideStep DEF Inside, Awaits
  <2>2. CASE ~Reentrant(t)
    <3>1. pc[t] = "idle" 
      BY <1>3, <1>5, <2>2 DEF Acquire, Reentrant, HolderInv, Inside
    <3>2. PICK l : Go(t, l) /\ (l \in {"waiting", "savepoint"} \/ t \notin Writers)
      BY <1>5, <2>2 DEF Acquire, Take, First
    <3>3. UNCHANGED <<stack, durable>>
      BY <1>5 DEF Acquire
    <3> QED BY <1>1, <1>2, <3>1, <3>2, <3>3, OutsideStep DEF Transacting
  <2> QED BY <2>1, <2>2
<1>6. CASE Granted(t)
  <2>1. Go(t, First(t)) /\ UNCHANGED <<stack, durable>> /\ pc[t] = "waiting"
    BY <1>6 DEF Granted, Take
  <2> QED BY <1>1, <1>2, <2>1, OutsideStep DEF Transacting, First
<1>7. CASE GiveUp(t)
  <2>1. Go(t, "raised") /\ UNCHANGED <<stack, durable>> /\ pc[t] = "waiting"
    BY <1>7 DEF GiveUp
  <2> QED BY <1>1, <1>2, <2>1, OutsideStep DEF Transacting
<1>8. CASE Begin(t)
  <2>1. pc[t] = "savepoint" /\ t \in Writers /\ Go(t, "body") /\ Open(t) /\ durable' = durable
    BY <1>4, <1>8 DEF Begin, Stations
  <2>2. stack = <<>>
    <3>1. \A u \in Tasks : ~Transacting(u)
      <4>1. ASSUME NEW u \in Tasks, u # t PROVE ~Transacting(u)
        BY <1>3, <2>1, <4>1, Alone DEF Transacting, Inside, Awaits
      <4> QED BY <2>1, <4>1 DEF Transacting
    <3> QED BY <1>2, <3>1 DEF Balanced
  <2>3. stack' = Saved(t, {})
    BY <2>1, <2>2, OneOpen
  <2>4. pc'[t] = "body"
    BY <1>3, <2>1 DEF Go, HolderInv
  <2>5. OwnSavepoint(t)'
    BY <2>3, <2>4 DEF OwnSavepoint
  <2>6. t \notin durable'
    BY <1>3, <2>1 DEF SavedAt
  <2> QED BY <1>2, <2>1, <2>5, <2>6, InsideStep DEF Inside, Awaits
<1>9. CASE Fetch(t) \/ FetchRaises(t)
  <2>1. PICK l : /\ Go(t, l) /\ UNCHANGED <<stack, durable>> /\ pc[t] = "fetch"
                 /\ t \in Writers => l \in {"write", "rollback"}
    BY <1>9 DEF Fetch, FetchRaises
  <2>2. CASE t \in Writers
    <3>1. pc'[t] = l
      BY <1>3, <2>1 DEF Go, HolderInv
    <3>2. OwnSavepoint(t)'
      BY <1>3, <2>1, <2>2, <3>1 DEF SavedAt, Transacting, OwnSavepoint
    <3>3. t \notin durable'
      BY <1>3, <2>1, <2>2 DEF SavedAt
    <3> QED BY <1>2, <2>1, <2>2, <3>2, <3>3, InsideStep DEF Inside, Awaits
  <2>3. CASE t \notin Writers
    BY <1>1, <1>2, <2>1, <2>3, OutsideStep DEF Transacting
  <2> QED BY <2>2, <2>3
<1>10. CASE BodyWrite(t) \/ WriteRaises(t)
  <2>1. /\ pc[t] = "write" /\ t \in Writers
        /\ \/ Go(t, "release") /\ Write(t)
           \/ Go(t, "rollback") /\ (Write(t) \/ UNCHANGED <<stack, durable>>)
    BY <1>4, <1>10 DEF BodyWrite, WriteRaises, Stations
  <2>2. stack = Saved(t, {}) /\ t \notin durable
    BY <1>3, <2>1 DEF SavedAt, Transacting, OwnSavepoint
  <2>3. Write(t) => stack' = Saved(t, {t}) /\ durable' = durable
    BY <2>2, OneWrite
  <2>4. PICK l : Go(t, l) /\ l \in {"release", "rollback"} /\ (l = "release" => Write(t))
                   /\ (Write(t) \/ UNCHANGED <<stack, durable>>)
    BY <2>1
  <2>5. pc'[t] = l
    BY <1>3, <2>4 DEF Go, HolderInv
  <2>6. OwnSavepoint(t)'
    BY <2>2, <2>3, <2>4, <2>5 DEF OwnSavepoint
  <2>7. durable' = durable
    BY <2>3, <2>4
  <2> QED BY <1>2, <2>1, <2>2, <2>4, <2>6, <2>7, InsideStep DEF Inside, Awaits
<1>11. CASE Commit(t)
  <2>1. pc[t] = "release" /\ t \in Writers /\ Go(t, "returned") /\ ReleaseSavepoint(t)
    BY <1>4, <1>11 DEF Commit, Stations
  <2>2. stack = Saved(t, {t})
    BY <1>3, <2>1 DEF SavedAt, Transacting, OwnSavepoint
  <2>3. stack' = <<>> /\ durable' = durable \cup {t}
    BY <2>1, <2>2, OneRelease
  <2> QED BY <1>2, <2>1, <2>3, InsideStep DEF Inside, Awaits
<1>12. CASE Rollback(t)
  <2>1. pc[t] = "rollback" /\ t \in Writers /\ Go(t, "undo") /\ RollbackTo(t)
    BY <1>4, <1>12 DEF Rollback, Stations
  <2>2. PICK W : stack = Saved(t, W)
    BY <1>3, <2>1 DEF SavedAt, Transacting, OwnSavepoint
  <2>3. stack' = Saved(t, {}) /\ durable' = durable
    BY <2>1, <2>2, OneRollback
  <2>4. pc'[t] = "undo"
    BY <1>3, <2>1 DEF Go, HolderInv
  <2>5. OwnSavepoint(t)'
    BY <2>3, <2>4 DEF OwnSavepoint
  <2>6. t \notin durable'
    BY <1>3, <2>1, <2>3 DEF SavedAt
  <2> QED BY <1>2, <2>1, <2>3, <2>5, <2>6, InsideStep DEF Inside, Awaits
<1>13. CASE Undo(t) /\ Succeeds
  <2>1. pc[t] = "undo" /\ t \in Writers /\ Go(t, "raised")
    BY <1>4, <1>13 DEF Undo, Stations
  <2>2. ReleaseSavepoint(t)
    BY <1>1, <1>13, <2>1 DEF Undo, Raises, Clean, Unbalancing
  <2>3. stack = Saved(t, {})
    BY <1>3, <2>1 DEF SavedAt, Transacting, OwnSavepoint
  <2>4. stack' = <<>> /\ durable' = durable
    BY <2>2, <2>3, OneRelease
  <2>5. t \notin durable
    BY <1>3, <2>1 DEF SavedAt
  <2> QED BY <1>2, <2>1, <2>4, <2>5, InsideStep DEF Inside, Awaits
<1>14. CASE \/ BeginRaises(t) \/ CommitRaises(t) \/ RollbackRaises(t)
            \/ Undo(t) /\ Raises(t)
  BY <1>1, <1>14 DEF BeginRaises, CommitRaises, RollbackRaises, Undo, Raises, Clean, Unbalancing
<1>15. Undo(t) => Succeeds \/ Raises(t)
  BY DEF Undo
<1> QED BY <1>5, <1>6, <1>7, <1>8, <1>9, <1>10, <1>11, <1>12, <1>13, <1>14, <1>15 DEF Step

\* For any tasks and failing statements: until a savepoint statement has
\* raised, a store method that returned has committed its write and one that
\* raised has left nothing behind, committed or in an open savepoint
\* (transaction).
THEOREM TransactionsAlways == Spec => []Transactional
<1>1. HeldInv /\ Balanced /\ [Next]_vars => HeldInv' /\ Balanced'
  <2>1. HeldInv /\ UNCHANGED vars => HeldInv'
    BY DEF HeldInv, HolderInv, TypeOK, Placed, PlacedAt, LockHasHolder, vars
  <2>2. Balanced /\ UNCHANGED vars => Balanced'
    BY DEF Balanced, SavedAt, Transacting, OwnSavepoint, Clean, vars
  <2> QED BY <2>1, <2>2, HeldStep, BalancedStep DEF Next
<1>2. HeldInv /\ Balanced => Transactional
  <2> SUFFICES ASSUME HeldInv, Balanced, Clean PROVE Transactional
    BY DEF Transactional, ReturnedIsDurable, RaisedLeavesNoTrace, Clean
  <2>1. ReturnedIsDurable
    BY DEF ReturnedIsDurable, Balanced, SavedAt, Tasks
  <2>2. ASSUME NEW t \in Writers, pc[t] = "raised" PROVE t \notin InFlight
    <3>1. CASE \E u \in Tasks : Transacting(u)
      <4>1. PICK u \in Tasks : Transacting(u)
        BY <3>1
      <4>2. PICK W \in SUBSET {u} : stack = Saved(u, W)
        BY <4>1 DEF Balanced, SavedAt, OwnSavepoint
      <4>3. InFlight = W /\ u # t
        BY <2>2, <4>1, <4>2, OneLevel DEF Transacting
      <4> QED BY <4>3
    <3>2. CASE \A u \in Tasks : ~Transacting(u)
      BY <3>2 DEF Balanced, InFlight
    <3> QED BY <3>1, <3>2
  <2>3. RaisedLeavesNoTrace
    BY <2>2 DEF RaisedLeavesNoTrace, Balanced, SavedAt, Tasks
  <2> QED BY <2>1, <2>3 DEF Transactional
<1> QED BY <1>1, <1>2, HeldInit, BalancedInit, PTL DEF Spec
=============================================================================
