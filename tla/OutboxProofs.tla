---------------------------- MODULE OutboxProofs ----------------------------
(***************************************************************************)
(* What Outbox guarantees for every number of workers, rows, payloads,     *)
(* keys and retries, whatever the values of the other constants.           *)
(***************************************************************************)
EXTENDS Outbox, FiniteSetTheorems, WellFoundedInduction, TLAPS

-----------------------------------------------------------------------------
(***************************************************************************)
(* The helpers on tables.                                                  *)
(***************************************************************************)
\* A clamped time is an integer.
LEMMA ClampType == ASSUME NEW t \in Int PROVE Clamp(t) \in Int
  BY OutboxAssumption DEF Clamp

\* The due times on offer are integers.
LEMMA DueTimesType == DueTimes \subseteq Int
<1>1. \A lag \in 0..MaxLag : -lag \in Int
  BY OutboxAssumption
<1>2. Delays \subseteq Int
  BY OutboxAssumption
<1> QED BY <1>1, <1>2 DEF DueTimes, Lags

\* NULL is not a time, so a column that holds one is told apart from a time.
LEMMA NullIsNoTime == Null \notin Int
  BY OutboxAssumption

\* Writing a row under an id already given out keeps the table a table.
LEMMA PutTable ==
  ASSUME NEW S, NEW f, NEW id \in 1..lastId, NEW r \in S, Table(f, S)
  PROVE  Table(Put(f, id, r), S)
  BY DEF Table, Put

\* Deleting rows keeps the table a table.
LEMMA DropTable ==
  ASSUME NEW S, NEW f, NEW D, Table(f, S)
  PROVE  Table(Drop(f, D), S)
  BY DEF Table, Drop

\* The table without rows is a table.
LEMMA EmptyTable == ASSUME NEW S, lastId \in Nat PROVE Table(Empty, S)
  BY DEF Table, Empty
-----------------------------------------------------------------------------
(***************************************************************************)
(* Every rewriting of a row yields a row.                                  *)
(***************************************************************************)
\* A claimed row is a row.
LEMMA LockedType ==
  ASSUME NEW r \in Row, NEW t \in Int PROVE LockedRow(r, t) \in Row
  BY DEF LockedRow, Row, Status, Time

\* A deferred row is a row.
LEMMA DeferredType ==
  ASSUME NEW r \in Row, NEW t \in Int PROVE DeferredRow(r, t) \in Row
  BY DEF DeferredRow, Row, Status, Time

\* A row taken back by recovery is a row.
LEMMA RecoveredType == ASSUME NEW r \in Row PROVE RecoveredRow(r) \in Row
  BY DEF RecoveredRow, Row, Status

\* A revived dead letter is a row.
LEMMA RevivedType ==
  ASSUME NEW r \in Row, NEW t \in Int PROVE RevivedRow(r, t) \in Row
  BY DEF RevivedRow, Row, Status, Time

\* A row after a failed attempt is a row, retried or dead.
LEMMA FailedType ==
  ASSUME NEW r \in Row, NEW m \in Message, NEW t \in Int
  PROVE  FailedRow(r, m, t) \in Row
<1>1. m.attempts \in Nat /\ m.attempts + 1 \in Nat
  BY DEF Message
<1>2. CASE m.attempts + 1 >= m.max
  <2> DEFINE q == [r EXCEPT !.status = "dead", !.attempts = m.attempts + 1,
                            !.available = t, !.locked = Null]
  <2>1. q \in Row
    BY <1>1 DEF Row, Status, Time
  <2>2. FailedRow(r, m, t) = [q EXCEPT !.deadAt = 0]
    BY <1>2 DEF FailedRow, Row
  <2> HIDE DEF q
  <2>3. 0 \in Time
    BY DEF Time
  <2> QED BY <2>1, <2>2, <2>3 DEF Row
<1>3. CASE ~(m.attempts + 1 >= m.max)
  BY <1>1, <1>3 DEF FailedRow, Row, Status, Time
<1> QED BY <1>2, <1>3

\* A row whose payload was replaced is a row.
LEMMA UpsertedType ==
  ASSUME NEW r \in Row, NEW p \in Payloads, NEW max \in Nat \ {0}, NEW t \in Int
  PROVE  Upserted(r, p, max, t) \in Row
  BY DEF Upserted, Row, Status, Time

\* A time moved one tick into the past stays a time or NULL.
LEMMA PastType ==
  /\ \A t \in Int : Past(t) \in Int
  /\ Past(Null) = Null
  BY ClampType, NullIsNoTime DEF Past

\* A due time one tick older is a time: finitely many rows keep their order.
LEMMA ElapsedType == ASSUME TypeOK, NEW t \in Int PROVE Elapsed(t) \in Int
<1> DEFINE ages == {rows[id].available - 1 : id \in DOMAIN rows}
           beyond == {u \in ages : t - 1 <= u /\ u < -Horizon}
<1>1. IsFiniteSet(DOMAIN rows)
  <2>1. lastId \in Int /\ DOMAIN rows \subseteq 1..lastId
    BY DEF TypeOK, Table
  <2>2. IsFiniteSet(1..lastId)
    BY <2>1, FS_Interval
  <2> QED BY <2>1, <2>2, FS_Subset
<1>2. IsFiniteSet(ages)
  <2> DEFINE age == [id \in DOMAIN rows |-> rows[id].available - 1]
  <2>1. age \in Surjection(DOMAIN rows, ages)
    BY DEF Surjection
  <2> QED BY <1>1, <2>1, FS_Surjection
<1>3. Cardinality(beyond) \in Nat
  <2>1. beyond \subseteq ages
    OBVIOUS
  <2> QED BY <2>1, <1>2, FS_Subset, FS_CardinalityType
<1> QED BY <1>3, OutboxAssumption DEF Elapsed

\* A row one tick older is a row.
LEMMA AgedType == ASSUME TypeOK, NEW r \in Row PROVE AgedRow(r) \in Row
<1>1. Elapsed(r.available) \in Int
  BY ElapsedType DEF Row, Time
<1> QED BY <1>1, PastType DEF AgedRow, Row, Time
-----------------------------------------------------------------------------
\* Enqueueing a new message keeps the state well typed.
LEMMA EnqueueNewType == TypeOK /\ EnqueueNew => TypeOK'
<1> SUFFICES ASSUME TypeOK, EnqueueNew PROVE TypeOK'
  OBVIOUS
<1>1. PICK p \in Payloads, key \in Keys \cup {Null}, max \in AttemptLimits,
           available \in DueTimes :
        EnqueueNew!(p, key, max, available)
  BY DEF EnqueueNew
<1>2. PICK origin \in Origins :
        /\ Insert(p, key, origin, max, Clamp(available))
        /\ uuids' \in Nat
  <2>1. CASE Insert(p, key, uuids + 1, max, Clamp(available)) /\ uuids' = uuids + 1
    BY <2>1 DEF TypeOK, Origins
  <2>2. CASE \E origin \in CallerOrigins :
               /\ Insert(p, key, origin, max, Clamp(available))
               /\ UNCHANGED uuids
    BY <2>2 DEF TypeOK, Origins
  <2> QED BY <1>1, <2>1, <2>2
<1>3. NewRow(p, key, origin, max, Clamp(available)) \in Row
  <2>1. Clamp(available) \in Int
    BY DueTimesType, ClampType
  <2>2. max \in Nat \ {0}
    BY OutboxAssumption
  <2> QED BY <2>1, <2>2 DEF NewRow, Row, Status, Time
<1>4. lastId' \in Nat /\ lastId' = lastId + 1
  BY <1>2 DEF Insert, NextId, TypeOK
<1>5. Table(rows, Row)'
  BY <1>2, <1>3, <1>4 DEF Insert, NextId, TypeOK, Table, Put
<1>6. \A w \in Workers : Table(claims[w], Message)'
  BY <1>1, <1>4 DEF TypeOK, Table
<1> QED BY <1>1, <1>2, <1>4, <1>5, <1>6 DEF TypeOK

\* Enqueueing over a stored origin id keeps the state well typed.
LEMMA EnqueueExistingType == TypeOK /\ EnqueueExisting => TypeOK'
<1> SUFFICES ASSUME TypeOK, EnqueueExisting PROVE TypeOK'
  OBVIOUS
<1>1. PICK p \in Payloads, key \in Keys, max \in AttemptLimits,
           available \in DueTimes : \E id \in Existing(key) :
        /\ rows' = [rows EXCEPT ![id] = Upserted(@, p, max, Clamp(available))]
        /\ UNCHANGED <<lastId, uuids, claims, delivered, discarded, overruns>>
  BY DEF EnqueueExisting
<1>2. PICK id \in DOMAIN rows :
        /\ rows' = [rows EXCEPT ![id] = Upserted(@, p, max, Clamp(available))]
        /\ UNCHANGED <<lastId, uuids, claims, delivered, discarded, overruns>>
  BY <1>1 DEF Existing
<1>3. Upserted(rows[id], p, max, Clamp(available)) \in Row
  <2>1. Clamp(available) \in Int
    BY DueTimesType, ClampType
  <2>2. max \in Nat \ {0}
    BY OutboxAssumption
  <2>3. rows[id] \in Row
    BY DEF TypeOK, Table
  <2> QED BY <2>1, <2>2, <2>3, UpsertedType
<1> QED BY <1>2, <1>3 DEF TypeOK, Table

\* Claiming due messages keeps the state well typed.
LEMMA ClaimDueType == ASSUME NEW w \in Workers PROVE TypeOK /\ ClaimDue(w) => TypeOK'
<1> SUFFICES ASSUME TypeOK, ClaimDue(w) PROVE TypeOK'
  OBVIOUS
<1>1. PICK lag \in Lags : ClaimDue(w)!(lag)
  BY DEF ClaimDue
<1> DEFINE S == Selected(lag)
<1>2. S \subseteq DOMAIN rows
  BY DEF Selected, Due
<1>3. Table(rows, Row)'
  <2>1. Clamp(-lag) \in Int
    BY DueTimesType, ClampType DEF DueTimes
  <2> QED BY <1>1, <2>1, LockedType DEF TypeOK, Table
<1>4. \A id \in S : AsMessage(id, S) \in Message
  <2> SUFFICES ASSUME NEW id \in S PROVE AsMessage(id, S) \in Message
    OBVIOUS
  <2>1. rows[id] \in Row
    BY <1>2 DEF TypeOK, Table
  <2>2. Cardinality({j \in S : Before(j, id)}) \in Nat
    <3>1. IsFiniteSet(1..lastId)
      <4>1. 1 \in Int /\ lastId \in Int
        BY DEF TypeOK
      <4> QED BY <4>1, FS_Interval, Zenon
    <3>2. {j \in S : Before(j, id)} \subseteq 1..lastId
      BY <1>2 DEF TypeOK, Table
    <3>3. IsFiniteSet({j \in S : Before(j, id)})
      BY <3>1, <3>2, FS_Subset
    <3> QED BY <3>3, FS_CardinalityType
  <2> QED BY <2>1, <2>2 DEF AsMessage, Message, Row
<1>5. \A v \in Workers : Table(claims[v], Message)'
  BY <1>1, <1>2, <1>4 DEF TypeOK, Table
<1> QED BY <1>1, <1>3, <1>5 DEF TypeOK

\* Sending a claimed message keeps the state well typed.
LEMMA SendType ==
  ASSUME NEW w \in Workers, NEW id \in DOMAIN claims[w]
  PROVE  TypeOK /\ Send(w, id) => TypeOK'
<1> SUFFICES ASSUME TypeOK, Send(w, id) PROVE TypeOK'
  OBVIOUS
<1>1. id \in 1..lastId /\ claims[w][id] \in Message
  BY DEF TypeOK, Table
<1>2. [claims[w][id] EXCEPT !.sent = TRUE] \in Message
  BY <1>1 DEF Message
<1>3. Table(claims[w]', Message)
  BY <1>1, <1>2, PutTable DEF Send, TypeOK
<1>4. delivered' \subseteq (1..lastId) \X Payloads
  BY <1>1 DEF Send, TypeOK, Message
<1> QED BY <1>3, <1>4 DEF Send, TypeOK, Table

\* A report removes one message from its worker's claims.
LEMMA ReportedType ==
  ASSUME NEW w \in Workers, NEW id, TypeOK, claims' = Reported(w, id), lastId' = lastId
  PROVE  /\ claims' = [v \in Workers |-> claims'[v]]
         /\ \A v \in Workers : Table(claims[v], Message)'
<1>1. claims = [v \in Workers |-> claims[v]] /\ \A v \in Workers : Table(claims[v], Message)
  BY DEF TypeOK
<1>2. claims' = [v \in Workers |-> IF v = w THEN Drop(claims[w], {id}) ELSE claims[v]]
  BY <1>1 DEF Reported
<1>3. \A v \in Workers : claims'[v] = IF v = w THEN Drop(claims[w], {id}) ELSE claims[v]
  BY <1>2
<1>4. Table(Drop(claims[w], {id}), Message)
  BY <1>1, DropTable
<1>5. \A v \in Workers : Table(claims'[v], Message)
  BY <1>1, <1>3, <1>4
<1>6. \A v \in Workers : Table(claims[v], Message)'
  BY <1>5 DEF Table
<1> QED BY <1>2, <1>6

\* Rewriting a stored row keeps the table well typed.
LEMMA UpdateType ==
  ASSUME TypeOK, NEW id, NEW r, id \in DOMAIN rows => r \in Row,
         rows' = Update(id, r), lastId' = lastId
  PROVE  Table(rows, Row)'
  BY DEF Update, Put, TypeOK, Table

\* Reporting success keeps the state well typed.
LEMMA MarkSentType ==
  ASSUME NEW w \in Workers, NEW id \in DOMAIN claims[w]
  PROVE  TypeOK /\ MarkSent(w, id) => TypeOK'
<1> SUFFICES ASSUME TypeOK, MarkSent(w, id) PROVE TypeOK'
  OBVIOUS
<1>1. Table(rows, Row)'
  BY DEF MarkSent, TypeOK, Table, Drop
<1> QED BY <1>1, ReportedType DEF MarkSent, TypeOK

\* Reporting failure keeps the state well typed.
LEMMA MarkFailedType ==
  ASSUME NEW w \in Workers, NEW id \in DOMAIN claims[w]
  PROVE  TypeOK /\ MarkFailed(w, id) => TypeOK'
<1> SUFFICES ASSUME TypeOK, MarkFailed(w, id) PROVE TypeOK'
  OBVIOUS
<1>1. PICK delay \in Delays : MarkFailed(w, id)!(delay)
  BY DEF MarkFailed
<1>2. ASSUME id \in DOMAIN rows
      PROVE  FailedRow(rows[id], claims[w][id], delay) \in Row
  <2>1. rows[id] \in Row /\ claims[w][id] \in Message
    BY <1>2 DEF TypeOK, Table
  <2>2. delay \in Int
    BY OutboxAssumption
  <2> QED BY <2>1, <2>2, FailedType
<1>3. Table(rows, Row)'
  BY <1>1, <1>2, UpdateType
<1> QED BY <1>1, <1>3, ReportedType DEF TypeOK

\* Deferring a claim keeps the state well typed.
LEMMA DeferType ==
  ASSUME NEW w \in Workers, NEW id \in DOMAIN claims[w]
  PROVE  TypeOK /\ Defer(w, id) => TypeOK'
<1> SUFFICES ASSUME TypeOK, Defer(w, id) PROVE TypeOK'
  OBVIOUS
<1>1. PICK delay \in Delays : Defer(w, id)!(delay)
  BY DEF Defer
<1>2. ASSUME id \in DOMAIN rows PROVE DeferredRow(rows[id], delay) \in Row
  <2>1. rows[id] \in Row
    BY <1>2 DEF TypeOK, Table
  <2>2. delay \in Int
    BY OutboxAssumption
  <2> QED BY <2>1, <2>2, DeferredType
<1>3. Table(rows, Row)'
  BY <1>1, <1>2, UpdateType
<1> QED BY <1>1, <1>3, ReportedType DEF TypeOK

\* A worker's death keeps the state well typed.
LEMMA CrashType == ASSUME NEW w \in Workers PROVE TypeOK /\ Crash(w) => TypeOK'
  BY EmptyTable DEF Crash, TypeOK, Table

\* Recovering stale rows keeps the state well typed.
LEMMA RecoverInflightType == TypeOK /\ RecoverInflight => TypeOK'
<1> SUFFICES ASSUME TypeOK, RecoverInflight PROVE TypeOK'
  OBVIOUS
<1>1. PICK age \in RecoverAges, lag \in Lags : RecoverInflight!(age, lag)
  BY DEF RecoverInflight
<1> DEFINE S == IF overruns < MaxOverruns THEN Stale(age, lag)
                                          ELSE Stale(age, lag) \ Held
<1>2. /\ rows' = [id \in DOMAIN rows |->
                    IF id \in S THEN RecoveredRow(rows[id]) ELSE rows[id]]
      /\ overruns' = IF S \cap Held = {} THEN overruns ELSE overruns + 1
      /\ UNCHANGED <<lastId, uuids, claims, delivered, discarded>>
  BY <1>1
<1> HIDE DEF S
<1>3. Table(rows, Row)'
  BY <1>2, RecoveredType DEF TypeOK, Table
<1> QED BY <1>2, <1>3 DEF TypeOK, Table

\* Reviving dead letters keeps the state well typed.
LEMMA RetryDeadType == TypeOK /\ RetryDead => TypeOK'
<1> SUFFICES ASSUME TypeOK, RetryDead PROVE TypeOK'
  OBVIOUS
<1>1. PICK lag \in Lags, S \in SUBSET Dead :
        /\ rows' = [id \in DOMAIN rows |->
                      IF id \in S THEN RevivedRow(rows[id], Clamp(-lag))
                                  ELSE rows[id]]
        /\ UNCHANGED <<lastId, uuids, claims, delivered, discarded, overruns>>
  BY DEF RetryDead, InScope
<1>2. Clamp(-lag) \in Int
  BY DueTimesType, ClampType DEF DueTimes
<1>3. Table(rows, Row)'
  BY <1>1, <1>2, RevivedType DEF TypeOK, Table
<1> QED BY <1>1, <1>3 DEF TypeOK, Table

\* Deleting rows keeps the state well typed.
LEMMA RemoveType ==
  ASSUME NEW S, S \subseteq DOMAIN rows PROVE TypeOK /\ Remove(S) => TypeOK'
<1> SUFFICES ASSUME TypeOK, Remove(S) PROVE TypeOK'
  OBVIOUS
<1>1. Table(rows, Row)'
  BY DEF Remove, TypeOK, Table, Drop
<1>2. discarded' \subseteq 1..lastId
  BY DEF Remove, TypeOK, Table
<1> QED BY <1>1, <1>2 DEF Remove, TypeOK, Table

\* The passing of time keeps the state well typed.
LEMMA TickType == TypeOK /\ Tick => TypeOK'
<1> SUFFICES ASSUME TypeOK, Tick PROVE TypeOK'
  OBVIOUS
<1>1. Table(rows, Row)'
  BY AgedType DEF Tick, TypeOK, Table
<1> QED BY <1>1 DEF Tick, TypeOK, Table

\* Every state of every behaviour is well typed.
THEOREM TypeCorrect == Spec => []TypeOK
<1>1. Init => TypeOK
  BY DEF Init, TypeOK, Table, Empty
<1>2. TypeOK /\ [Next]_vars => TypeOK'
  <2> SUFFICES ASSUME TypeOK, [Next]_vars PROVE TypeOK'
    OBVIOUS
  <2>1. CASE Enqueue
    BY <2>1, EnqueueNewType, EnqueueExistingType DEF Enqueue
  <2>2. ASSUME NEW w \in Workers, WorkerStep(w) PROVE TypeOK'
    BY <2>2, ClaimDueType, CrashType, SendType, MarkSentType, MarkFailedType,
       DeferType DEF WorkerStep
  <2>3. CASE Maintenance
    BY <2>3, RecoverInflightType, RetryDeadType, RemoveType
       DEF Maintenance, Delete, DeleteDead, PruneDead, Dead
  <2>4. CASE Tick
    BY <2>4, TickType
  <2>5. CASE UNCHANGED vars
    BY <2>5 DEF vars, TypeOK, Table
  <2> QED BY <2>1, <2>2, <2>3, <2>4, <2>5 DEF Next
<1> QED BY <1>1, <1>2, PTL DEF Spec
-----------------------------------------------------------------------------
(***************************************************************************)
(* The status columns agree.                                               *)
(***************************************************************************)
RowAgrees(r) ==
    /\ (r.status = "inflight") <=> (r.locked # Null)
    /\ (r.status = "dead") => (r.deadAt # Null /\ r.attempts > 0)

\* Each way the code rewrites a row leaves its columns in agreement.
LEMMA RewrittenAgrees ==
  ASSUME NEW r \in Row, RowAgrees(r)
  PROVE  /\ \A t \in Int : RowAgrees(LockedRow(r, t))
         /\ \A t \in Int : RowAgrees(DeferredRow(r, t))
         /\ RowAgrees(RecoveredRow(r))
         /\ \A t \in Int : RowAgrees(RevivedRow(r, t))
         /\ RowAgrees(AgedRow(r))
         /\ \A p \in Payloads, max \in Nat \ {0}, t \in Int :
                RowAgrees(Upserted(r, p, max, t))
         /\ \A m \in Message, t \in Int : RowAgrees(FailedRow(r, m, t))
<1>1. \A t \in Int : RowAgrees(LockedRow(r, t))
  BY NullIsNoTime DEF RowAgrees, LockedRow, Row
<1>2. \A t \in Int : RowAgrees(DeferredRow(r, t))
  BY DEF RowAgrees, DeferredRow, Row
<1>3. RowAgrees(RecoveredRow(r))
  BY DEF RowAgrees, RecoveredRow, Row
<1>4. \A t \in Int : RowAgrees(RevivedRow(r, t))
  BY DEF RowAgrees, RevivedRow, Row
<1>5. RowAgrees(AgedRow(r))
  BY PastType, NullIsNoTime DEF RowAgrees, AgedRow, Row, Time
<1>6. \A p \in Payloads, max \in Nat \ {0}, t \in Int :
         RowAgrees(Upserted(r, p, max, t))
  BY DEF RowAgrees, Upserted, Row
<1>7. \A m \in Message, t \in Int : RowAgrees(FailedRow(r, m, t))
  BY NullIsNoTime DEF RowAgrees, FailedRow, Row, Message
<1> QED BY <1>1, <1>2, <1>3, <1>4, <1>5, <1>6, <1>7

\* The columns of a row agree in every reachable state.
THEOREM StatusAgreesAlways == Spec => []StatusAgrees
<1>1. Init => StatusAgrees
  BY DEF Init, StatusAgrees, Empty
<1>2. TypeOK /\ StatusAgrees /\ [Next]_vars => StatusAgrees'
  <2> SUFFICES ASSUME TypeOK, StatusAgrees, [Next]_vars PROVE StatusAgrees'
    OBVIOUS
  <2>0. /\ \A id \in DOMAIN rows : rows[id] \in Row /\ RowAgrees(rows[id])
        /\ (\A id \in DOMAIN rows' : RowAgrees(rows'[id])) => StatusAgrees'
    BY DEF TypeOK, Table, StatusAgrees, RowAgrees
  <2>t. /\ \A t \in DueTimes : Clamp(t) \in Int
        /\ \A lag \in Lags : Clamp(-lag) \in Int
        /\ Delays \subseteq Int
        /\ AttemptLimits \subseteq Nat \ {0}
    BY DueTimesType, ClampType, OutboxAssumption DEF DueTimes
  <2>1. CASE EnqueueNew
    BY <2>0, <2>1 DEF EnqueueNew, Insert, Put, NewRow, RowAgrees
  <2>2. CASE EnqueueExisting
    BY <2>0, <2>t, <2>2, RewrittenAgrees DEF EnqueueExisting, Existing
  <2>3. ASSUME NEW w \in Workers, ClaimDue(w) PROVE StatusAgrees'
    BY <2>0, <2>t, <2>3, RewrittenAgrees DEF ClaimDue
  <2>4. ASSUME NEW w \in Workers, NEW id \in DOMAIN claims[w], MarkSent(w, id)
        PROVE  StatusAgrees'
    BY <2>0, <2>4 DEF MarkSent, Drop
  <2>5. ASSUME NEW w \in Workers, NEW id \in DOMAIN claims[w], MarkFailed(w, id)
        PROVE  StatusAgrees'
    <3>1. claims[w][id] \in Message
      BY DEF TypeOK, Table
    <3> QED BY <2>0, <2>t, <2>5, <3>1, RewrittenAgrees
               DEF MarkFailed, Update, Put
  <2>6. ASSUME NEW w \in Workers, NEW id \in DOMAIN claims[w], Defer(w, id)
        PROVE  StatusAgrees'
    BY <2>0, <2>t, <2>6, RewrittenAgrees DEF Defer, Update, Put
  <2>7. CASE RecoverInflight
    BY <2>0, <2>7, RewrittenAgrees DEF RecoverInflight
  <2>8. CASE RetryDead
    BY <2>0, <2>t, <2>8, RewrittenAgrees DEF RetryDead
  <2>9. ASSUME NEW S, Remove(S) PROVE StatusAgrees'
    BY <2>0, <2>9 DEF Remove, Drop
  <2>10. CASE Tick
    BY <2>0, <2>10, RewrittenAgrees DEF Tick
  <2>11. CASE rows' = rows
    BY <2>0, <2>11
  <2> QED BY <2>1, <2>2, <2>3, <2>4, <2>5, <2>6, <2>7, <2>8, <2>9, <2>10, <2>11
          DEF Next, Enqueue, WorkerStep, Crash, Send, Maintenance, Delete,
              DeleteDead, PruneDead, vars
<1> QED BY <1>1, <1>2, TypeCorrect, PTL DEF Spec
-----------------------------------------------------------------------------
(***************************************************************************)
(* Claims and rows.  ExclusiveClaims is inductive together with TypeOK: a  *)
(* claim takes pending rows, which nobody holds because held rows are      *)
(* inflight; the only step that makes a held row pending without ending    *)
(* the claim is a recovery, and that one is counted in overruns.           *)
(***************************************************************************)
\* A new row gets a new id, within the bound, and touches nothing else.
LEMMA EnqueueNewEffect ==
  ASSUME EnqueueNew
  PROVE  /\ UNCHANGED <<claims, delivered, discarded, overruns>>
         /\ lastId' = lastId + 1 /\ lastId < MaxMessages
         /\ DOMAIN rows' = DOMAIN rows \cup {lastId + 1}
         /\ rows'[lastId + 1].status = "pending"
         /\ \A id \in DOMAIN rows : id # lastId + 1 => rows'[id] = rows[id]
<1>1. PICK p \in Payloads, key \in Keys \cup {Null}, max \in AttemptLimits,
           available \in DueTimes :
        EnqueueNew!(p, key, max, available)
  BY DEF EnqueueNew
<1>2. PICK origin : Insert(p, key, origin, max, Clamp(available))
  BY <1>1
<1> QED BY <1>1, <1>2 DEF Insert, NextId, Put, NewRow

Copy(w, id) == /\ rows[id].status = "inflight"
               /\ rows[id].attempts = claims[w][id].attempts

\* What a step must do to keep claims exclusive: nobody else gains a claim, and
\* a row that is still held keeps its status and its counter.
LEMMA ClaimsKept ==
  ASSUME TypeOK, ExclusiveClaims,
         overruns' = overruns,
         \A w \in Workers : /\ DOMAIN claims'[w] \subseteq DOMAIN claims[w]
                            /\ \A id \in DOMAIN claims'[w] :
                                  claims'[w][id].attempts = claims[w][id].attempts,
         overruns = 0 =>
            \A w \in Workers : \A id \in DOMAIN claims'[w] \cap DOMAIN rows' :
               Copy(w, id) => /\ rows'[id].status = rows[id].status
                              /\ rows'[id].attempts = rows[id].attempts,
         \A w \in Workers : \A id \in DOMAIN claims[w] :
            id \in DOMAIN rows' => id \in DOMAIN rows
  PROVE  ExclusiveClaims'
  BY DEF ExclusiveClaims, Holds, Copy

\* No two live workers hold one message, and what a worker holds is the row's
\* own attempt counter, unless a recovery has taken rows from a live worker.
THEOREM ClaimsAreExclusive == Spec => []ExclusiveClaims
<1>1. Init => ExclusiveClaims
  BY DEF Init, ExclusiveClaims, Holds, Empty
<1>2. TypeOK /\ ExclusiveClaims /\ [Next]_vars => ExclusiveClaims'
  <2> SUFFICES ASSUME TypeOK, ExclusiveClaims, [Next]_vars PROVE ExclusiveClaims'
    OBVIOUS
  <2>0. /\ \A id \in DOMAIN rows : rows[id] \in Row
        /\ \A w \in Workers : DOMAIN claims[w] \subseteq 1..lastId
        /\ lastId \in Nat
    BY DEF TypeOK, Table
  <2>1. CASE EnqueueNew
    <3>1. /\ claims' = claims /\ overruns' = overruns
          /\ DOMAIN rows' = DOMAIN rows \cup {lastId + 1}
          /\ \A id \in DOMAIN rows : id # lastId + 1 => rows'[id] = rows[id]
      BY <2>1, EnqueueNewEffect
    <3> QED BY <2>0, <3>1 DEF ExclusiveClaims, Holds
  <2>2. CASE EnqueueExisting
    <3>1. PICK id \in DOMAIN rows, p \in Payloads, max \in AttemptLimits, t \in Int :
            /\ rows' = [rows EXCEPT ![id] = Upserted(@, p, max, t)]
            /\ claims' = claims /\ overruns' = overruns
      BY <2>2, DueTimesType, ClampType DEF EnqueueExisting, Existing
    <3>2. rows[id].status = "inflight" =>
             /\ rows'[id].status = "inflight"
             /\ rows'[id].attempts = rows[id].attempts
      BY <2>0, <3>1 DEF Upserted, Row
    <3> QED BY <3>1, <3>2 DEF ExclusiveClaims, Holds
  <2>3. ASSUME NEW w \in Workers, ClaimDue(w) PROVE ExclusiveClaims'
    <3>1. PICK lag \in Lags : ClaimDue(w)!(lag)
      BY <2>3 DEF ClaimDue
    <3> DEFINE S == Selected(lag)
    <3>2. /\ S \subseteq DOMAIN rows
          /\ \A id \in S : rows[id].status = "pending"
      BY DEF Selected, Due
    <3>3. /\ rows' = [id \in DOMAIN rows |->
                        IF id \in S THEN LockedRow(rows[id], Clamp(-lag))
                                    ELSE rows[id]]
          /\ claims' = [claims EXCEPT ![w] = [id \in S |-> AsMessage(id, S)]]
          /\ overruns' = overruns
      BY <3>1
    <3> HIDE DEF S
    <3> SUFFICES ASSUME overruns' = 0
                 PROVE  /\ \A u, v \in Workers :
                              u # v => DOMAIN claims'[u] \cap DOMAIN claims'[v] = {}
                        /\ \A v \in Workers, id \in DOMAIN rows' :
                              id \in DOMAIN claims'[v] => Copy(v, id)'
      BY DEF ExclusiveClaims, Holds, Copy
    <3>4. overruns = 0
      BY <3>3
    <3>5. DOMAIN claims = Workers
      BY DEF TypeOK
    <3>6. \A v \in Workers : v # w => claims'[v] = claims[v]
      BY <3>3, <3>5
    <3>7. DOMAIN claims'[w] = S
      BY <3>3, <3>5
    <3>8. \A v \in Workers : DOMAIN claims[v] \cap S = {}
      BY <3>2, <3>4 DEF ExclusiveClaims, Holds
    <3>9. \A u, v \in Workers :
             u # v => DOMAIN claims'[u] \cap DOMAIN claims'[v] = {}
      BY <3>4, <3>6, <3>7, <3>8 DEF ExclusiveClaims
    <3>10. ASSUME NEW v \in Workers, NEW id \in DOMAIN rows', id \in DOMAIN claims'[v]
           PROVE  Copy(v, id)'
      <4>1. CASE v = w
        <5>1. id \in S /\ rows[id] \in Row
          BY <2>0, <3>2, <3>7, <3>10, <4>1
        <5>2. claims'[w][id].attempts = rows[id].attempts
          BY <3>3, <3>5, <5>1 DEF AsMessage
        <5>3. /\ rows'[id].status = "inflight"
              /\ rows'[id].attempts = rows[id].attempts
          BY <3>2, <3>3, <5>1 DEF LockedRow, Row
        <5> QED BY <4>1, <5>2, <5>3 DEF Copy
      <4>2. CASE v # w
        <5>1. id \notin S /\ id \in DOMAIN rows
          BY <3>3, <3>6, <3>8, <3>10, <4>2
        <5> QED BY <3>3, <3>4, <3>6, <3>10, <4>2, <5>1
                   DEF ExclusiveClaims, Holds, Copy
      <4> QED BY <4>1, <4>2
    <3> QED BY <3>9, <3>10
  <2>4. ASSUME NEW w \in Workers, NEW i \in DOMAIN claims[w], Send(w, i)
        PROVE  ExclusiveClaims'
    <3>1. /\ rows' = rows /\ overruns' = overruns
          /\ claims' = [claims EXCEPT ![w] =
                          Put(@, i, [@[i] EXCEPT !.sent = TRUE])]
      BY <2>4 DEF Send
    <3>2. claims[w][i] \in Message /\ DOMAIN claims = Workers
      BY DEF TypeOK, Table
    <3>3. \A v \in Workers :
             /\ DOMAIN claims'[v] \subseteq DOMAIN claims[v]
             /\ \A id \in DOMAIN claims'[v] :
                   claims'[v][id].attempts = claims[v][id].attempts
      BY <3>1, <3>2 DEF Put, Message
    <3> QED BY <3>1, <3>3, ClaimsKept
  <2>5. ASSUME NEW w \in Workers, NEW i \in DOMAIN claims[w],
               MarkSent(w, i) \/ MarkFailed(w, i) \/ Defer(w, i)
        PROVE  ExclusiveClaims'
    <3>1. claims' = [claims EXCEPT ![w] = Drop(@, {i})] /\ overruns' = overruns
      BY <2>5 DEF MarkSent, MarkFailed, Defer, Reported
    <3>2. /\ DOMAIN rows' \subseteq DOMAIN rows
          /\ \A id \in DOMAIN rows' : id # i => rows'[id] = rows[id]
      BY <2>5 DEF MarkSent, MarkFailed, Defer, Drop, Update, Put
    <3>3. DOMAIN claims = Workers
      BY DEF TypeOK
    <3>4. \A v \in Workers :
             /\ DOMAIN claims'[v] \subseteq DOMAIN claims[v]
             /\ \A id \in DOMAIN claims'[v] : claims'[v][id] = claims[v][id]
             /\ v = w => i \notin DOMAIN claims'[v]
      <4>1. /\ DOMAIN Drop(claims[w], {i}) = DOMAIN claims[w] \ {i}
            /\ \A id \in DOMAIN Drop(claims[w], {i}) : Drop(claims[w], {i})[id] = claims[w][id]
        BY DEF Drop
      <4>2. claims'[w] = Drop(claims[w], {i})
        BY <3>1, <3>3
      <4>3. \A v \in Workers : v # w => claims'[v] = claims[v]
        BY <3>1, <3>3
      <4> QED BY <4>1, <4>2, <4>3
    <3>5. overruns = 0 => \A v \in Workers : i \in DOMAIN claims'[v] => FALSE
      BY <3>4 DEF ExclusiveClaims
    <3>6. overruns = 0 =>
            \A v \in Workers : \A id \in DOMAIN claims'[v] \cap DOMAIN rows' :
               rows'[id] = rows[id]
      BY <3>2, <3>5
    <3>7. \A v \in Workers :
             /\ DOMAIN claims'[v] \subseteq DOMAIN claims[v]
             /\ \A id \in DOMAIN claims'[v] : claims'[v][id].attempts = claims[v][id].attempts
      BY <3>4
    <3>8. overruns = 0 =>
            \A v \in Workers : \A id \in DOMAIN claims'[v] \cap DOMAIN rows' :
               Copy(v, id) => /\ rows'[id].status = rows[id].status
                              /\ rows'[id].attempts = rows[id].attempts
      BY <3>6
    <3>9. \A v \in Workers : \A id \in DOMAIN claims[v] : id \in DOMAIN rows' => id \in DOMAIN rows
      BY <3>2
    <3>10. overruns' = overruns
      BY <3>1
    <3> QED BY <3>7, <3>8, <3>9, <3>10, ClaimsKept
  <2>6. ASSUME NEW w \in Workers, Crash(w) PROVE ExclusiveClaims'
    <3>1. /\ rows' = rows /\ overruns' = overruns
          /\ claims' = [claims EXCEPT ![w] = Empty]
      BY <2>6 DEF Crash
    <3>2. \A v \in Workers : claims'[v] = claims[v] \/ claims'[v] = Empty
      BY <3>1 DEF TypeOK
    <3> QED BY <3>1, <3>2, ClaimsKept DEF Empty
  <2>7. CASE RecoverInflight
    <3>1. PICK age \in RecoverAges, lag \in Lags : RecoverInflight!(age, lag)
      BY <2>7 DEF RecoverInflight
    <3> DEFINE S == IF overruns < MaxOverruns THEN Stale(age, lag)
                                              ELSE Stale(age, lag) \ Held
    <3>2. /\ rows' = [id \in DOMAIN rows |->
                        IF id \in S THEN RecoveredRow(rows[id]) ELSE rows[id]]
          /\ overruns' = IF S \cap Held = {} THEN overruns ELSE overruns + 1
          /\ claims' = claims
      BY <3>1
    <3> HIDE DEF S
    <3>3. CASE S \cap Held = {}
      <4>1. \A v \in Workers : \A id \in DOMAIN claims[v] \cap DOMAIN rows :
               rows'[id] = rows[id]
        BY <3>2, <3>3 DEF Held
      <4> QED BY <3>2, <3>3, <4>1, ClaimsKept
    <3>4. CASE S \cap Held # {}
      BY <3>2, <3>4 DEF ExclusiveClaims, TypeOK
    <3> QED BY <3>3, <3>4
  <2>8. CASE RetryDead
    <3>1. PICK S \in SUBSET Dead, lag \in Lags :
            /\ rows' = [id \in DOMAIN rows |->
                          IF id \in S THEN RevivedRow(rows[id], Clamp(-lag))
                                      ELSE rows[id]]
            /\ claims' = claims /\ overruns' = overruns
      BY <2>8 DEF RetryDead, InScope
    <3>2. \A id \in DOMAIN rows : rows[id].status = "inflight" => rows'[id] = rows[id]
      BY <3>1 DEF Dead
    <3> QED BY <3>1, <3>2, ClaimsKept DEF Copy
  <2>9. ASSUME NEW S, Remove(S) PROVE ExclusiveClaims'
    BY <2>9, ClaimsKept DEF Remove, Drop
  <2>10. CASE Tick
    <3>1. \A id \in DOMAIN rows : /\ rows'[id].status = rows[id].status
                                  /\ rows'[id].attempts = rows[id].attempts
      BY <2>0, <2>10 DEF Tick, AgedRow, Row
    <3> QED BY <2>10, <3>1, ClaimsKept DEF Tick
  <2>11. CASE UNCHANGED vars
    BY <2>11 DEF vars, ExclusiveClaims, Holds
  <2> QED BY <2>1, <2>2, <2>3, <2>4, <2>5, <2>6, <2>7, <2>8, <2>9, <2>10, <2>11
          DEF Next, Enqueue, WorkerStep, Maintenance, Delete, DeleteDead, PruneDead
<1> QED BY <1>1, <1>2, TypeCorrect, PTL DEF Spec
-----------------------------------------------------------------------------
(***************************************************************************)
(* A late report reaches the row it was made for.                          *)
(***************************************************************************)

\* Rewriting a row never changes its origin id.
LEMMA OriginKept ==
  ASSUME NEW r \in Row
  PROVE  /\ \A t : LockedRow(r, t).origin = r.origin
         /\ \A t : DeferredRow(r, t).origin = r.origin
         /\ RecoveredRow(r).origin = r.origin
         /\ \A t : RevivedRow(r, t).origin = r.origin
         /\ AgedRow(r).origin = r.origin
         /\ \A p, max, t : Upserted(r, p, max, t).origin = r.origin
         /\ \A m, t : FailedRow(r, m, t).origin = r.origin
  BY DEF LockedRow, DeferredRow, RecoveredRow, RevivedRow, AgedRow, Upserted,
         FailedRow, Row

\* The row that a held id names is always the row that was claimed.
THEOREM ReportsReachTheirRow == Spec => []ReportsReachOwnRow
<1>1. Init => ReportsReachOwnRow
  BY DEF Init, ReportsReachOwnRow, Holds, Empty
<1>2. TypeOK /\ ReportsReachOwnRow /\ [Next]_vars => ReportsReachOwnRow'
  <2> SUFFICES ASSUME TypeOK, ReportsReachOwnRow, [Next]_vars
               PROVE  ReportsReachOwnRow'
    OBVIOUS
  <2>0. /\ \A id \in DOMAIN rows : rows[id] \in Row
        /\ \A w \in Workers : /\ DOMAIN claims[w] \subseteq 1..lastId
                              /\ \A id \in DOMAIN claims[w] : claims[w][id] \in Message
        /\ lastId \in Nat
        /\ DOMAIN claims = Workers
    BY DEF TypeOK, Table
  <2>k. ASSUME \A id \in DOMAIN rows' : /\ id \in DOMAIN rows
                                        /\ rows'[id].origin = rows[id].origin,
               \A w \in Workers :
                  /\ DOMAIN claims'[w] \subseteq DOMAIN claims[w]
                  /\ \A id \in DOMAIN claims'[w] :
                        claims'[w][id].origin = claims[w][id].origin
        PROVE  ReportsReachOwnRow'
    BY <2>k DEF ReportsReachOwnRow, Holds
  <2>1. CASE EnqueueNew
    <3>1. /\ claims' = claims
          /\ DOMAIN rows' = DOMAIN rows \cup {lastId + 1}
          /\ \A id \in DOMAIN rows : id # lastId + 1 => rows'[id] = rows[id]
      BY <2>1, EnqueueNewEffect
    <3> QED BY <2>0, <3>1 DEF ReportsReachOwnRow, Holds
  <2>2. CASE EnqueueExisting
    <3>1. \A id \in DOMAIN rows' : /\ id \in DOMAIN rows
                                   /\ rows'[id].origin = rows[id].origin
      BY <2>0, <2>2, OriginKept DEF EnqueueExisting, Existing
    <3> QED BY <2>2, <2>k, <3>1 DEF EnqueueExisting
  <2>3. ASSUME NEW w \in Workers, ClaimDue(w) PROVE ReportsReachOwnRow'
    <3>1. PICK lag \in Lags : ClaimDue(w)!(lag)
      BY <2>3 DEF ClaimDue
    <3> DEFINE S == Selected(lag)
    <3>2. S \subseteq DOMAIN rows
      BY DEF Selected, Due
    <3>3. /\ rows' = [id \in DOMAIN rows |->
                        IF id \in S THEN LockedRow(rows[id], Clamp(-lag))
                                    ELSE rows[id]]
          /\ claims' = [claims EXCEPT ![w] = [id \in S |-> AsMessage(id, S)]]
      BY <3>1
    <3> HIDE DEF S
    <3>4. \A id \in DOMAIN rows : rows'[id].origin = rows[id].origin
      BY <2>0, <3>3, OriginKept
    <3>5. \A id \in DOMAIN claims'[w] : claims'[w][id].origin = rows[id].origin
      BY <2>0, <3>2, <3>3 DEF AsMessage
    <3>6. \A v \in Workers : v # w => claims'[v] = claims[v]
      BY <2>0, <3>3
    <3> QED BY <3>3, <3>4, <3>5, <3>6 DEF ReportsReachOwnRow, Holds
  <2>4. ASSUME NEW w \in Workers, NEW i \in DOMAIN claims[w], Send(w, i)
        PROVE  ReportsReachOwnRow'
    <3>1. /\ rows' = rows
          /\ claims' = [claims EXCEPT ![w] =
                          Put(@, i, [@[i] EXCEPT !.sent = TRUE])]
      BY <2>4 DEF Send
    <3>2. \A v \in Workers :
             /\ DOMAIN claims'[v] \subseteq DOMAIN claims[v]
             /\ \A id \in DOMAIN claims'[v] :
                   claims'[v][id].origin = claims[v][id].origin
      BY <2>0, <3>1 DEF Put, Message
    <3> QED BY <2>k, <3>1, <3>2
  <2>5. ASSUME NEW w \in Workers, NEW i \in DOMAIN claims[w],
               MarkSent(w, i) \/ MarkFailed(w, i) \/ Defer(w, i)
        PROVE  ReportsReachOwnRow'
    <3>1. claims' = [claims EXCEPT ![w] = Drop(@, {i})]
      BY <2>5 DEF MarkSent, MarkFailed, Defer, Reported
    <3>2. \A v \in Workers :
             /\ DOMAIN claims'[v] \subseteq DOMAIN claims[v]
             /\ \A id \in DOMAIN claims'[v] : claims'[v][id] = claims[v][id]
      BY <2>0, <3>1 DEF Drop
    <3>3. \A id \in DOMAIN rows' : /\ id \in DOMAIN rows
                                   /\ rows'[id].origin = rows[id].origin
      BY <2>0, <2>5, OriginKept DEF MarkSent, MarkFailed, Defer, Drop, Update, Put
    <3> QED BY <2>k, <3>2, <3>3
  <2>6. ASSUME NEW w \in Workers, Crash(w) PROVE ReportsReachOwnRow'
    <3>1. \A v \in Workers : claims'[v] = claims[v] \/ claims'[v] = Empty
      BY <2>0, <2>6 DEF Crash
    <3> QED BY <2>6, <2>k, <3>1 DEF Crash, Empty
  <2>7. CASE RecoverInflight \/ RetryDead \/ Tick
    <3>1. \A id \in DOMAIN rows' : /\ id \in DOMAIN rows
                                   /\ rows'[id].origin = rows[id].origin
      BY <2>0, <2>7, OriginKept DEF RecoverInflight, RetryDead, Tick
    <3> QED BY <2>7, <2>k, <3>1 DEF RecoverInflight, RetryDead, Tick
  <2>8. ASSUME NEW S, Remove(S) PROVE ReportsReachOwnRow'
    BY <2>8, <2>k DEF Remove, Drop
  <2>9. CASE UNCHANGED vars
    BY <2>9 DEF vars, ReportsReachOwnRow, Holds
  <2> QED BY <2>1, <2>2, <2>3, <2>4, <2>5, <2>6, <2>7, <2>8, <2>9
          DEF Next, Enqueue, WorkerStep, Maintenance, Delete, DeleteDead, PruneDead
<1> QED BY <1>1, <1>2, TypeCorrect, PTL DEF Spec
-----------------------------------------------------------------------------
(***************************************************************************)
(* The store implements MessageQueue.                                      *)
(***************************************************************************)

\* What the mapping needs beyond the types: a worker that is about to report
\* success has transmitted its copy, a removed row is not in the table, and
\* the table stays within the bound on ids.
QueueInv ==
    /\ TypeOK
    /\ NothingVanishes
    /\ \A w \in Workers : \A id \in DOMAIN claims[w] :
          claims[w][id].sent => <<id, claims[w][id].payload>> \in delivered
    /\ discarded \cap DOMAIN rows = {}
    /\ lastId <= MaxMessages

\* The queue invariant holds of the empty outbox.
LEMMA QueueInvInit == Init => QueueInv
<1> SUFFICES ASSUME Init PROVE QueueInv
  OBVIOUS
<1>1. TypeOK
  BY DEF Init, TypeOK, Table, Empty
<1> QED BY <1>1, OutboxAssumption DEF Init, QueueInv, NothingVanishes, Empty

\* A step that neither inserts nor removes rows nor adds claims keeps QueueInv.
LEMMA QueueInvKept ==
  ASSUME QueueInv, TypeOK', lastId' = lastId, discarded' = discarded,
         DOMAIN rows' = DOMAIN rows, delivered \subseteq delivered',
         \A w \in Workers : \A id \in DOMAIN claims'[w] :
            claims'[w][id].sent =>
               <<id, claims'[w][id].payload>> \in delivered'
  PROVE  QueueInv'
  BY DEF QueueInv, NothingVanishes

\* Every step of the outbox keeps the queue invariant.
LEMMA QueueInvStep == QueueInv /\ TypeOK' /\ [Next]_vars => QueueInv'
<1> SUFFICES ASSUME QueueInv, TypeOK', [Next]_vars PROVE QueueInv'
  OBVIOUS
<1>0. /\ lastId \in Nat
      /\ DOMAIN rows \subseteq 1..lastId /\ discarded \subseteq 1..lastId
      /\ DOMAIN claims = Workers
      /\ \A w \in Workers : \A id \in DOMAIN claims[w] :
            claims[w][id] \in Message /\ id \in 1..lastId
  BY DEF QueueInv, TypeOK, Table
<1>1. CASE EnqueueNew
  <2>1. /\ UNCHANGED <<claims, delivered, discarded, overruns>>
        /\ lastId' = lastId + 1 /\ lastId < MaxMessages
        /\ DOMAIN rows' = DOMAIN rows \cup {lastId + 1}
    BY <1>1, EnqueueNewEffect
  <2>2. NothingVanishes'
    BY <1>0, <2>1 DEF QueueInv, NothingVanishes
  <2>3. lastId' <= MaxMessages /\ discarded' \cap DOMAIN rows' = {}
    BY <1>0, <2>1, OutboxAssumption DEF QueueInv
  <2> QED BY <2>1, <2>2, <2>3 DEF QueueInv
<1>2. CASE EnqueueExisting \/ RecoverInflight \/ RetryDead \/ Tick
  <2>1. /\ DOMAIN rows' = DOMAIN rows /\ lastId' = lastId
        /\ claims' = claims /\ delivered' = delivered /\ discarded' = discarded
    BY <1>2 DEF EnqueueExisting, RecoverInflight, RetryDead, Tick
  <2> QED BY <2>1, QueueInvKept DEF QueueInv
<1>3. ASSUME NEW w \in Workers, ClaimDue(w) PROVE QueueInv'
  <2>1. PICK lag \in Lags : ClaimDue(w)!(lag)
    BY <1>3 DEF ClaimDue
  <2> DEFINE S == Selected(lag)
  <2>2. /\ DOMAIN rows' = DOMAIN rows
        /\ UNCHANGED <<lastId, delivered, discarded>>
        /\ claims' = [claims EXCEPT ![w] = [id \in S |-> AsMessage(id, S)]]
    BY <2>1
  <2> HIDE DEF S
  <2>3. \A id \in DOMAIN claims'[w] : ~claims'[w][id].sent
    BY <1>0, <2>2 DEF AsMessage
  <2>4. \A v \in Workers : v # w => claims'[v] = claims[v]
    BY <1>0, <2>2
  <2> QED BY <2>2, <2>3, <2>4, QueueInvKept DEF QueueInv
<1>4. ASSUME NEW w \in Workers, NEW i \in DOMAIN claims[w], Send(w, i)
      PROVE  QueueInv'
  <2>1. /\ UNCHANGED <<rows, lastId, discarded>>
        /\ claims' = [claims EXCEPT ![w] = Put(@, i, [@[i] EXCEPT !.sent = TRUE])]
        /\ delivered' = delivered \cup {<<i, claims[w][i].payload>>}
    BY <1>4 DEF Send
  <2>2. /\ \A v \in Workers : v # w => claims'[v] = claims[v]
        /\ DOMAIN claims'[w] = DOMAIN claims[w]
        /\ claims'[w][i].payload = claims[w][i].payload
        /\ \A id \in DOMAIN claims[w] : id # i => claims'[w][id] = claims[w][id]
    <3>1. claims'[w] = Put(claims[w], i, [claims[w][i] EXCEPT !.sent = TRUE])
      BY <1>0, <2>1
    <3>2. [claims[w][i] EXCEPT !.sent = TRUE].payload = claims[w][i].payload
      BY <1>0 DEF Message
    <3> QED BY <1>0, <2>1, <3>1, <3>2 DEF Put
  <2>3. \A v \in Workers : \A id \in DOMAIN claims'[v] :
           claims'[v][id].sent => <<id, claims'[v][id].payload>> \in delivered'
    <3> TAKE v \in Workers
    <3> TAKE id \in DOMAIN claims'[v]
    <3> HAVE claims'[v][id].sent
    <3>1. CASE v = w /\ id = i
      BY <2>1, <2>2, <3>1
    <3>2. CASE v # w \/ id # i
      <4>1. id \in DOMAIN claims[v] /\ claims'[v][id] = claims[v][id]
        BY <2>2, <3>2
      <4>2. <<id, claims[v][id].payload>> \in delivered
        BY <4>1 DEF QueueInv
      <4> QED BY <2>1, <4>1, <4>2
    <3> QED BY <3>1, <3>2
  <2> QED BY <2>1, <2>3, QueueInvKept
<1>5. ASSUME NEW w \in Workers, NEW i \in DOMAIN claims[w],
             MarkSent(w, i) \/ MarkFailed(w, i) \/ Defer(w, i)
      PROVE  QueueInv'
  <2>1. /\ UNCHANGED <<lastId, delivered, discarded>>
        /\ claims' = [claims EXCEPT ![w] = Drop(@, {i})]
    BY <1>5 DEF MarkSent, MarkFailed, Defer, Reported
  <2>2. \A v \in Workers :
           /\ DOMAIN claims'[v] \subseteq DOMAIN claims[v]
           /\ \A id \in DOMAIN claims'[v] : claims'[v][id] = claims[v][id]
    BY <1>0, <2>1 DEF Drop
  <2>3. \A v \in Workers : \A id \in DOMAIN claims'[v] :
           claims'[v][id].sent => <<id, claims'[v][id].payload>> \in delivered'
    <3>1. \A v \in Workers : \A id \in DOMAIN claims[v] :
             claims[v][id].sent => <<id, claims[v][id].payload>> \in delivered
      BY DEF QueueInv
    <3>2. delivered' = delivered
      BY <2>1
    <3> TAKE v \in Workers
    <3> TAKE id \in DOMAIN claims'[v]
    <3>3. id \in DOMAIN claims[v] /\ claims'[v][id] = claims[v][id]
      BY <2>2
    <3> QED BY <3>1, <3>2, <3>3
  <2>4. CASE MarkSent(w, i)
    <3>1. DOMAIN rows' = DOMAIN rows \ {i} /\ claims[w][i].sent
      BY <2>4 DEF MarkSent, Drop
    <3>2. \E p \in Payloads : <<i, p>> \in delivered
      BY <1>0, <3>1 DEF QueueInv, Message
    <3>3. NothingVanishes'
      BY <2>1, <3>1, <3>2 DEF QueueInv, NothingVanishes
    <3> QED BY <2>1, <2>3, <3>1, <3>3 DEF QueueInv
  <2>5. CASE MarkFailed(w, i) \/ Defer(w, i)
    <3>1. DOMAIN rows' = DOMAIN rows
      BY <2>5 DEF MarkFailed, Defer, Update, Put
    <3> QED BY <2>1, <2>3, <3>1, QueueInvKept
  <2> QED BY <1>5, <2>4, <2>5
<1>6. ASSUME NEW w \in Workers, Crash(w) PROVE QueueInv'
  <2>1. /\ UNCHANGED <<rows, lastId, delivered, discarded>>
        /\ \A v \in Workers : claims'[v] = claims[v] \/ claims'[v] = Empty
    BY <1>0, <1>6 DEF Crash
  <2> QED BY <2>1, QueueInvKept DEF QueueInv, Empty
<1>7. ASSUME NEW S, Remove(S) PROVE QueueInv'
  <2>1. /\ UNCHANGED <<lastId, claims, delivered>>
        /\ discarded' = discarded \cup S
        /\ DOMAIN rows' = DOMAIN rows \ S
    BY <1>7 DEF Remove, Drop
  <2>2. NothingVanishes'
    BY <2>1 DEF QueueInv, NothingVanishes
  <2> QED BY <2>1, <2>2 DEF QueueInv
<1>8. CASE UNCHANGED vars
  BY <1>8, QueueInvKept DEF vars, QueueInv
<1> QED BY <1>1, <1>2, <1>3, <1>4, <1>5, <1>6, <1>7, <1>8
        DEF Next, Enqueue, WorkerStep, Maintenance, Delete, DeleteDead, PruneDead

\* The rows of the outbox, in every reachable state: their types, columns that
\* agree with the status, and reports that reach the row they are about.
THEOREM RowsAgreeAlways == Spec => []RowsAgree
  BY TypeCorrect, StatusAgreesAlways, ReportsReachTheirRow, PTL DEF RowsAgree

\* The strengthening the refinement rests on holds in every reachable state.
THEOREM QueueInvAlways == Spec => []QueueInv
<1>1. QueueInv /\ [Next]_vars /\ TypeOK' => QueueInv'
  BY QueueInvStep
<1> QED BY <1>1, QueueInvInit, TypeCorrect, PTL DEF Spec

\* No message vanishes: what is gone was transmitted or discarded.
THEOREM MessagesNeverVanish == Spec => []NothingVanishes
<1>1. QueueInv => NothingVanishes
  BY DEF QueueInv
<1> QED BY <1>1, QueueInvAlways, PTL

\* A step that leaves every stage and the wire alone.
LEMMA SameStage ==
  ASSUME lastId' = lastId, discarded' = discarded, DOMAIN rows' = DOMAIN rows,
         \A id \in DOMAIN rows : (rows'[id].status = "dead") <=> (rows[id].status = "dead")
  PROVE  Stage' = Stage
<1>1. \A id \in 1..MaxMessages : Stage'[id] = Stage[id]
  BY DEF Stage
<1> QED BY <1>1 DEF Stage

\* A step that sends nothing leaves the wire of the abstract queue as it is.
LEMMA SameWire == ASSUME delivered' = delivered PROVE OnWire' = OnWire
  BY DEF OnWire

\* A step that revives the dead rows of S.
LEMMA Revives ==
  ASSUME QueueInv, NEW S, S \subseteq Dead, lastId' = lastId,
         discarded' = discarded, delivered' = delivered,
         DOMAIN rows' = DOMAIN rows,
         \A id \in DOMAIN rows :
            (rows'[id].status = "dead") <=> (rows[id].status = "dead" /\ id \notin S)
  PROVE  Queue!QueueNext
<1>0. lastId \in Nat /\ MaxMessages \in Nat /\ lastId <= MaxMessages
  BY OutboxAssumption DEF QueueInv, TypeOK
<1>1. S \subseteq 1..MaxMessages /\ \A m \in S : Stage[m] = "dead"
  <2>1. \A m \in S : /\ m \in DOMAIN rows /\ m \in 1..lastId
                     /\ rows[m].status = "dead"
    BY DEF QueueInv, TypeOK, Table, Dead
  <2>2. \A m \in S : m \in 1..MaxMessages /\ ~(m > lastId)
    BY <1>0, <2>1
  <2> QED BY <2>1, <2>2 DEF Stage
<1>2. \A id \in 1..MaxMessages :
         Stage'[id] = IF id \in S THEN "queued" ELSE Stage[id]
  BY <1>0 DEF Stage, Dead, QueueInv, TypeOK, Table
<1>3. Stage' = [id \in 1..MaxMessages |-> IF id \in S THEN "queued" ELSE Stage[id]]
  BY <1>2 DEF Stage
<1> QED BY <1>1, <1>3, SameWire DEF Queue!QueueNext, Queue!Revive, Queue!Move

\* A step that takes one row out of the dead, or rewrites a live one.
LEMMA RevivesOne ==
  ASSUME QueueInv, NEW i \in DOMAIN rows, lastId' = lastId,
         discarded' = discarded, delivered' = delivered,
         DOMAIN rows' = DOMAIN rows, rows'[i].status # "dead",
         \A id \in DOMAIN rows : id # i => rows'[id] = rows[id]
  PROVE  Queue!QueueNext \/ UNCHANGED <<Stage, OnWire>>
<1>1. CASE rows[i].status = "dead"
  <2>1. {i} \subseteq Dead
    BY <1>1 DEF Dead
  <2>2. \A id \in DOMAIN rows :
           (rows'[id].status = "dead") <=> (rows[id].status = "dead" /\ id \notin {i})
    OBVIOUS
  <2> QED BY <2>1, <2>2, Revives
<1>2. CASE rows[i].status # "dead"
  BY <1>2, SameStage, SameWire
<1> QED BY <1>1, <1>2

\* Every step of the store is a step of the queue or leaves it alone.
LEMMA QueueStep == QueueInv /\ [Next]_vars => [Queue!QueueNext]_Queue!queueVars
<1> SUFFICES ASSUME QueueInv, [Next]_vars
             PROVE  Queue!QueueNext \/ UNCHANGED <<Stage, OnWire>>
  BY DEF Queue!queueVars
<1>0. /\ lastId \in Nat /\ lastId <= MaxMessages
      /\ DOMAIN rows \subseteq 1..lastId
      /\ discarded \subseteq 1..lastId /\ discarded \cap DOMAIN rows = {}
      /\ \A id \in DOMAIN rows : rows[id] \in Row
      /\ \A w \in Workers : \A id \in DOMAIN claims[w] :
            claims[w][id] \in Message /\ id \in 1..lastId
      /\ MaxMessages \in Nat
  BY OutboxAssumption DEF QueueInv, TypeOK, Table
<1>i. \A id \in 1..lastId : id \in 1..MaxMessages /\ ~(id > lastId)
  BY <1>0
<1>1. CASE EnqueueNew
  <2> DEFINE n == lastId + 1
  <2>1. /\ UNCHANGED <<claims, delivered, discarded, overruns>>
        /\ lastId' = n /\ lastId < MaxMessages
        /\ DOMAIN rows' = DOMAIN rows \cup {n}
        /\ rows'[n].status = "pending"
        /\ \A id \in DOMAIN rows : id # n => rows'[id] = rows[id]
    BY <1>1, EnqueueNewEffect
  <2>2. n \in 1..MaxMessages /\ n \notin DOMAIN rows \cup discarded
    BY <1>0, <2>1, OutboxAssumption
  <2>3. Stage[n] = "unknown"
    BY <1>0, <2>2 DEF Stage
  <2>4. ASSUME NEW id \in 1..MaxMessages
        PROVE  Stage'[id] = IF id \in {n} THEN "queued" ELSE Stage[id]
    <3>1. CASE id = n
      BY <1>0, <2>1, <2>2, <3>1 DEF Stage
    <3>2. CASE id # n
      BY <1>0, <2>1, <2>2, <3>2 DEF Stage
    <3> QED BY <3>1, <3>2
  <2>5. Stage' = [id \in 1..MaxMessages |-> IF id \in {n} THEN "queued" ELSE Stage[id]]
    BY <2>4 DEF Stage
  <2> HIDE DEF n
  <2> QED BY <2>1, <2>2, <2>3, <2>5, SameWire
          DEF Queue!QueueNext, Queue!Accept, Queue!Move
<1>2. CASE EnqueueExisting
  <2>1. PICK id \in DOMAIN rows, p \in Payloads, max \in AttemptLimits, t \in Int :
          /\ rows' = [rows EXCEPT ![id] = Upserted(@, p, max, t)]
          /\ UNCHANGED <<lastId, delivered, discarded>>
    BY <1>2, DueTimesType, ClampType DEF EnqueueExisting, Existing
  <2>2. rows'[id].status # "dead"
    BY <1>0, <2>1 DEF Upserted, Row
  <2>3. \A j \in DOMAIN rows : j # id => rows'[j] = rows[j]
    BY <2>1
  <2> QED BY <2>1, <2>2, <2>3, RevivesOne
<1>3. ASSUME NEW w \in Workers, ClaimDue(w) PROVE UNCHANGED <<Stage, OnWire>>
  <2>1. PICK lag \in Lags : ClaimDue(w)!(lag)
    BY <1>3 DEF ClaimDue
  <2> DEFINE S == Selected(lag)
  <2>2. \A id \in S : rows[id].status = "pending"
    BY DEF Selected, Due
  <2>3. /\ rows' = [id \in DOMAIN rows |->
                      IF id \in S THEN LockedRow(rows[id], Clamp(-lag))
                                  ELSE rows[id]]
        /\ UNCHANGED <<lastId, delivered, discarded>>
    BY <2>1
  <2> HIDE DEF S
  <2>4. \A id \in DOMAIN rows :
           (rows'[id].status = "dead") <=> (rows[id].status = "dead")
    BY <1>0, <2>2, <2>3 DEF LockedRow, Row
  <2> QED BY <2>3, <2>4, SameStage, SameWire
<1>4. ASSUME NEW w \in Workers, NEW i \in DOMAIN claims[w], Send(w, i)
      PROVE  Queue!QueueNext
  <2>1. /\ UNCHANGED <<rows, lastId, discarded>>
        /\ delivered' = delivered \cup {<<i, claims[w][i].payload>>}
        /\ claims[w][i].payload \in Payloads
        /\ i \in 1..lastId
    BY <1>0, <1>4 DEF Send, Message
  <2>2. OnWire' = OnWire \cup {i}
    BY <1>0, <1>i, <2>1 DEF OnWire
  <2>3. i \in 1..MaxMessages /\ Stage[i] # "unknown"
    BY <1>0, <1>i, <2>1 DEF Stage
  <2>4. Stage' = Stage
    BY <2>1, SameStage
  <2> QED BY <2>2, <2>3, <2>4 DEF Queue!QueueNext, Queue!Transmit
<1>5. ASSUME NEW w \in Workers, NEW i \in DOMAIN claims[w], MarkSent(w, i)
      PROVE  Queue!QueueNext \/ UNCHANGED <<Stage, OnWire>>
  <2>1. /\ UNCHANGED <<lastId, delivered, discarded>>
        /\ DOMAIN rows' = DOMAIN rows \ {i}
        /\ \A id \in DOMAIN rows \ {i} : rows'[id] = rows[id]
        /\ claims[w][i].sent
    BY <1>5 DEF MarkSent, Drop
  <2>2. CASE i \notin DOMAIN rows
    BY <2>1, <2>2, SameStage, SameWire
  <2>3. CASE i \in DOMAIN rows
    <3>1. i \in 1..MaxMessages /\ i \in OnWire
      <4>1. <<i, claims[w][i].payload>> \in delivered
        BY <2>1 DEF QueueInv
      <4> QED BY <1>0, <1>i, <4>1 DEF OnWire, Message
    <3>2. Stage[i] \in {"queued", "dead"}
      BY <1>0, <1>i, <2>3, <3>1 DEF Stage
    <3>3. \A id \in 1..MaxMessages :
             Stage'[id] = IF id \in {i} THEN "sent" ELSE Stage[id]
      BY <1>0, <2>1, <2>3 DEF Stage
    <3>4. Stage' = [id \in 1..MaxMessages |->
                      IF id \in {i} THEN "sent" ELSE Stage[id]]
      BY <3>3 DEF Stage
    <3> QED BY <2>1, <3>1, <3>2, <3>4, SameWire
            DEF Queue!QueueNext, Queue!Complete, Queue!Live, Queue!Move
  <2> QED BY <2>2, <2>3
<1>6. ASSUME NEW w \in Workers, NEW i \in DOMAIN claims[w],
             MarkFailed(w, i) \/ Defer(w, i)
      PROVE  Queue!QueueNext \/ UNCHANGED <<Stage, OnWire>>
  <2>1. /\ UNCHANGED <<lastId, delivered, discarded>>
        /\ DOMAIN rows' = DOMAIN rows
        /\ \A id \in DOMAIN rows : id # i => rows'[id] = rows[id]
    BY <1>6 DEF MarkFailed, Defer, Update, Put
  <2>2. CASE i \notin DOMAIN rows
    BY <2>1, <2>2, SameStage, SameWire
  <2>3. CASE i \in DOMAIN rows /\ rows'[i].status # "dead"
    BY <2>1, <2>3, RevivesOne
  <2>4. CASE i \in DOMAIN rows /\ rows'[i].status = "dead"
    <3>1. CASE rows[i].status = "dead"
      BY <2>1, <2>4, <3>1, SameStage, SameWire
    <3>2. CASE rows[i].status # "dead"
      <4>1. i \in 1..MaxMessages /\ Stage[i] = "queued"
        BY <1>0, <1>i, <2>4, <3>2 DEF Stage
      <4>2. \A id \in 1..MaxMessages :
               Stage'[id] = IF id \in {i} THEN "dead" ELSE Stage[id]
        BY <1>0, <2>1, <2>4 DEF Stage
      <4>3. Stage' = [id \in 1..MaxMessages |->
                        IF id \in {i} THEN "dead" ELSE Stage[id]]
        BY <4>2 DEF Stage
      <4> QED BY <2>1, <4>1, <4>3, SameWire
              DEF Queue!QueueNext, Queue!Exhaust, Queue!Move
    <3> QED BY <3>1, <3>2
  <2> QED BY <2>2, <2>3, <2>4
<1>7. CASE RecoverInflight \/ Tick
  <2>1. /\ UNCHANGED <<lastId, delivered, discarded>>
        /\ DOMAIN rows' = DOMAIN rows
        /\ \A id \in DOMAIN rows :
              (rows'[id].status = "dead") <=> (rows[id].status = "dead")
    <3>1. CASE Tick
      BY <1>0, <3>1 DEF Tick, AgedRow, Row
    <3>2. CASE RecoverInflight
      <4>1. PICK age \in RecoverAges, lag \in Lags : RecoverInflight!(age, lag)
        BY <3>2 DEF RecoverInflight
      <4> DEFINE S == IF overruns < MaxOverruns THEN Stale(age, lag)
                                                ELSE Stale(age, lag) \ Held
      <4>2. /\ rows' = [id \in DOMAIN rows |->
                          IF id \in S THEN RecoveredRow(rows[id]) ELSE rows[id]]
            /\ UNCHANGED <<lastId, delivered, discarded>>
        BY <4>1
      <4>3. \A id \in S : rows[id].status = "inflight"
        BY DEF Stale
      <4> HIDE DEF S
      <4> QED BY <1>0, <4>2, <4>3 DEF RecoveredRow, Row
    <3> QED BY <1>7, <3>1, <3>2
  <2> QED BY <2>1, SameStage, SameWire
<1>8. CASE RetryDead
  <2>1. PICK lag \in Lags, S \in SUBSET Dead :
          /\ rows' = [id \in DOMAIN rows |->
                        IF id \in S THEN RevivedRow(rows[id], Clamp(-lag))
                                    ELSE rows[id]]
          /\ UNCHANGED <<lastId, delivered, discarded>>
    BY <1>8 DEF RetryDead, InScope
  <2>2. \A id \in DOMAIN rows :
           (rows'[id].status = "dead") <=> (rows[id].status = "dead" /\ id \notin S)
    BY <1>0, <2>1 DEF RevivedRow, Row
  <2> QED BY <2>1, <2>2, Revives
<1>9. ASSUME NEW S \in SUBSET DOMAIN rows, Remove(S) PROVE Queue!QueueNext
  <2>1. /\ UNCHANGED <<lastId, delivered>>
        /\ discarded' = discarded \cup S
        /\ DOMAIN rows' = DOMAIN rows \ S
        /\ \A id \in DOMAIN rows \ S : rows'[id] = rows[id]
    BY <1>9 DEF Remove, Drop
  <2>2. S \subseteq 1..MaxMessages /\ \A m \in S : Stage[m] \in {"queued", "dead"}
    BY <1>0, <1>i DEF Stage
  <2>3. \A id \in 1..MaxMessages :
           Stage'[id] = IF id \in S THEN "discarded" ELSE Stage[id]
    BY <1>0, <1>i, <2>1 DEF Stage
  <2>4. Stage' = [id \in 1..MaxMessages |->
                    IF id \in S THEN "discarded" ELSE Stage[id]]
    BY <2>3 DEF Stage
  <2> QED BY <2>1, <2>2, <2>4, SameWire
          DEF Queue!QueueNext, Queue!Discard, Queue!Live, Queue!Move
<1>10. ASSUME rows' = rows, lastId' = lastId, discarded' = discarded,
              delivered' = delivered
       PROVE  UNCHANGED <<Stage, OnWire>>
  BY <1>10, SameStage, SameWire
<1>11. ASSUME NEW w \in Workers, Crash(w) PROVE UNCHANGED <<Stage, OnWire>>
  BY <1>10, <1>11 DEF Crash
<1>12. CASE UNCHANGED vars
  BY <1>10, <1>12 DEF vars
<1>13. CASE Enqueue
  BY <1>1, <1>2, <1>13 DEF Enqueue
<1>14. ASSUME NEW w \in Workers, WorkerStep(w)
       PROVE  Queue!QueueNext \/ UNCHANGED <<Stage, OnWire>>
  BY <1>3, <1>4, <1>5, <1>6, <1>11, <1>14 DEF WorkerStep
<1>15. CASE Maintenance
  BY <1>7, <1>8, <1>9, <1>15
     DEF Maintenance, Delete, DeleteDead, PruneDead, Dead
<1> QED BY <1>7, <1>12, <1>13, <1>14, <1>15 DEF Next

\* The durable outbox implements MessageQueue.
THEOREM OutboxImplementsQueue == Spec => QueueRefinement
<1>1. Init => Queue!QueueInit
  BY DEF Init, Queue!QueueInit, Stage, OnWire, Empty
<1> QED BY <1>1, QueueStep, QueueInvAlways, PTL
        DEF Spec, QueueRefinement, Queue!QueueSpec

-----------------------------------------------------------------------------
(***************************************************************************)
(* Claims are fair.  A selected row has no due row before it left behind,  *)
(* and the rank of a row within its destination counts those before it.    *)
(***************************************************************************)
\* A non-empty set of naturals has a least member.
LEMMA LeastNatural ==
  ASSUME NEW S \in SUBSET Nat, S # {}
  PROVE  \E m \in S : \A k \in S : m <= k
<1>1. PICK m \in S : \A k \in S : <<k, m>> \notin OpToRel(<, Nat)
  BY NatLessThanWellFounded, WFMin
<1>2. \A k \in S : ~(k < m)
  BY <1>1 DEF OpToRel
<1> QED BY <1>2

\* Rows that go to the destination of a row
Alike(S, id) == InScope(S, DestinationOf, DestinationOf[rows[id].payload])

\* Those of them that are not after it
UpTo(S, id) == {j \in Alike(S, id) : ~Before(id, j)}

\* Rows are finitely many, and Before orders them.
LEMMA RowsOrdered ==
  ASSUME TypeOK, NEW S \in SUBSET DOMAIN rows
  PROVE  /\ IsFiniteSet(S)
         /\ \A i, j \in S : i = j \/ Before(i, j) \/ Before(j, i)
         /\ \A i, j \in S : ~(Before(i, j) /\ Before(j, i)) /\ ~Before(i, i)
         /\ \A i, j, k \in S : Before(i, j) /\ Before(j, k) => Before(i, k)
<1>1. /\ lastId \in Nat /\ S \subseteq 1..lastId
      /\ \A id \in S : id \in Nat /\ rows[id].available \in Int
  BY DEF TypeOK, Table, Row, Time
<1>2. IsFiniteSet(1..lastId)
  <2>1. 1 \in Int /\ lastId \in Int
    BY <1>1
  <2> QED BY <2>1, FS_Interval, Zenon
<1>3. IsFiniteSet(S)
  BY <1>1, <1>2, FS_Subset
<1> QED BY <1>1, <1>3 DEF Before

\* The rank of a row counts those that are not after it.
LEMMA RankCounts ==
  ASSUME TypeOK, NEW S \in SUBSET DOMAIN rows, NEW i \in S
  PROVE  /\ Rank(S, i) = Cardinality(UpTo(S, i)) /\ Rank(S, i) \in Nat
         /\ IsFiniteSet(UpTo(S, i)) /\ IsFiniteSet(Alike(S, i))
<1>1. UpTo(S, i) = {j \in S : /\ DestinationOf[rows[j].payload] = DestinationOf[rows[i].payload]
                              /\ ~Before(i, j)}
  BY DEF UpTo, Alike, InScope
<1>2. IsFiniteSet(S)
  BY RowsOrdered
<1>3. UpTo(S, i) \in SUBSET S /\ Alike(S, i) \in SUBSET S
  BY DEF UpTo, Alike, InScope
<1>4. IsFiniteSet(UpTo(S, i)) /\ IsFiniteSet(Alike(S, i))
  BY <1>2, <1>3, FS_Subset
<1>5. Cardinality(UpTo(S, i)) \in Nat
  BY <1>4, FS_CardinalityType
<1> QED BY <1>1, <1>4, <1>5 DEF Rank

\* Within a destination the rank rises with the order.
LEMMA RankRises ==
  ASSUME TypeOK, NEW S \in SUBSET DOMAIN rows, NEW i \in S, NEW j \in Alike(S, i),
         Before(i, j)
  PROVE  Rank(S, i) < Rank(S, j)
<1>1. j \in S /\ Alike(S, j) = Alike(S, i) /\ Alike(S, i) \subseteq S
  BY DEF Alike, InScope
<1>2. UpTo(S, i) \in SUBSET UpTo(S, j)
  BY <1>1, RowsOrdered DEF UpTo
<1>3. j \in UpTo(S, j) /\ j \notin UpTo(S, i)
  BY <1>1, RowsOrdered DEF UpTo
<1>4. IsFiniteSet(UpTo(S, j))
  BY <1>1, RankCounts
<1>5. /\ Cardinality(UpTo(S, i)) <= Cardinality(UpTo(S, j))
      /\ Cardinality(UpTo(S, i)) # Cardinality(UpTo(S, j))
  BY <1>2, <1>3, <1>4, FS_Subset
<1> QED BY <1>1, <1>5, RankCounts

\* What precedes a selected row is selected.
LEMMA SelectedFirst ==
  ASSUME TypeOK, NEW lag \in Lags, NEW x \in Selected(lag), NEW y \in Due(lag),
         Precedes(Due(lag), y, x)
  PROVE  y \in Selected(lag)
<1> DEFINE D == Due(lag)
           Pred(z) == {j \in D : Precedes(D, j, z)}
<1>1. D \in SUBSET DOMAIN rows /\ x \in D /\ Cardinality(Pred(x)) < ClaimLimit
  BY DEF Due, Selected
<1>2. Pred(y) \in SUBSET Pred(x)
  <2> SUFFICES ASSUME NEW j \in D, Precedes(D, j, y) PROVE Precedes(D, j, x)
    OBVIOUS
  <2> HIDE DEF D
  <2>1. /\ Rank(D, j) \in Nat /\ Rank(D, x) \in Nat /\ Rank(D, y) \in Nat
    BY <1>1, RankCounts DEF D
  <2>2. Before(j, y) /\ Before(y, x) => Before(j, x)
    BY <1>1, RowsOrdered DEF D
  <2>3. Precedes(D, y, x)
    BY DEF D
  <2> QED BY <2>1, <2>2, <2>3 DEF Precedes
<1>3. IsFiniteSet(Pred(x))
  <2>1. IsFiniteSet(D)
    BY <1>1, RowsOrdered
  <2>2. Pred(x) \in SUBSET D
    OBVIOUS
  <2> QED BY <2>1, <2>2, FS_Subset
<1>4. /\ IsFiniteSet(Pred(y)) /\ Cardinality(Pred(y)) <= Cardinality(Pred(x))
  BY <1>2, <1>3, FS_Subset
<1>5. Cardinality(Pred(x)) \in Nat /\ Cardinality(Pred(y)) \in Nat /\ ClaimLimit \in Nat
  BY <1>3, <1>4, FS_CardinalityType, OutboxAssumption
<1>6. Cardinality(Pred(y)) < ClaimLimit
  BY <1>1, <1>4, <1>5
<1> QED BY <1>6 DEF Selected

\* A destination with a due row left behind got all rows ranked before its
\* first such row, every other destination at most one more.
LEMMA FairShares ==
  ASSUME TypeOK, NEW lag \in Lags, NEW left \in Due(lag) \ Selected(lag),
         NEW id \in Selected(lag)
  PROVE  Cardinality(Alike(Selected(lag), id)) <= Cardinality(Alike(Selected(lag), left)) + 1
<1> DEFINE D == Due(lag)
           S == Selected(lag)
           R(i) == Rank(D, i)
<1>1. D \in SUBSET DOMAIN rows /\ S \subseteq D
  BY DEF Due, Selected
<1>2. \A i \in D : R(i) \in Nat
  BY <1>1, RankCounts
<1>3. \A x \in S, y \in D : R(y) < R(x) => y \in S
  BY SelectedFirst DEF Precedes
<1>4. \A i \in D, j \in D : DestinationOf[rows[i].payload] = DestinationOf[rows[j].payload]
                            /\ Before(i, j) => R(i) < R(j)
  BY <1>1, RankRises DEF Alike, InScope
<1>5. PICK u \in Alike(D, left) \ S : \A k \in Alike(D, left) \ S : R(u) <= R(k)
  <2> DEFINE U == Alike(D, left) \ S
             RU == {R(i) : i \in U}
  <2>1. left \in U /\ U \subseteq D
    BY DEF Alike, InScope
  <2>2. RU \in SUBSET Nat /\ RU # {}
    BY <1>2, <2>1
  <2>3. \E m \in RU : \A k \in RU : m <= k
    <3> HIDE DEF RU
    <3> QED BY <2>2, LeastNatural
  <2> QED BY <2>3
<1>6. u \in D /\ u \notin S
      /\ DestinationOf[rows[u].payload] = DestinationOf[rows[left].payload]
  BY <1>1, <1>5 DEF Alike, InScope
<1>7. PICK x \in Alike(S, id) : \A k \in Alike(S, id) : R(k) <= R(x)
  <2> DEFINE U == Alike(S, id)
             G(i) == R(u) - R(i)
             RU == {G(i) : i \in U}
  <2>1. id \in U /\ U \subseteq S
    BY DEF Alike, InScope
  <2>2. \A i \in U : R(i) \in Nat /\ R(i) <= R(u)
    BY <1>1, <1>2, <1>3, <1>6, <2>1
  <2>3. RU \in SUBSET Nat /\ RU # {}
    BY <1>2, <1>6, <2>1, <2>2
  <2>4. \E m \in RU : \A k \in RU : m <= k
    <3> HIDE DEF RU
    <3> QED BY <2>3, LeastNatural
  <2>5. PICK i \in U : \A k \in U : G(i) <= G(k)
    BY <2>4
  <2> QED BY <1>2, <1>6, <2>2, <2>5
<1>8. x \in S /\ x \in D /\ DestinationOf[rows[x].payload] = DestinationOf[rows[id].payload]
  BY <1>1, <1>7 DEF Alike, InScope
<1>9. R(x) <= R(u)
  BY <1>1, <1>2, <1>3, <1>6, <1>8
<1>10. Cardinality(Alike(S, id)) <= R(x)
  <2>1. Alike(S, id) \in SUBSET UpTo(D, x)
    <3> SUFFICES ASSUME NEW j \in Alike(S, id) PROVE j \in UpTo(D, x)
      OBVIOUS
    <3>1. j \in D /\ DestinationOf[rows[j].payload] = DestinationOf[rows[x].payload]
      BY <1>1, <1>8 DEF Alike, InScope
    <3>2. ~Before(x, j)
      BY <1>2, <1>4, <1>7, <1>8, <3>1
    <3> QED BY <3>1, <3>2 DEF UpTo, Alike, InScope
  <2>2. IsFiniteSet(UpTo(D, x)) /\ R(x) = Cardinality(UpTo(D, x))
    BY <1>1, <1>8, RankCounts
  <2> QED BY <2>1, <2>2, FS_Subset
<1>11. R(u) - 1 <= Cardinality(Alike(S, left))
  <2>1. UpTo(D, u) \ {u} \in SUBSET Alike(S, left)
    <3> SUFFICES ASSUME NEW j \in UpTo(D, u), j # u PROVE j \in Alike(S, left)
      OBVIOUS
    <3>1. j \in D /\ DestinationOf[rows[j].payload] = DestinationOf[rows[u].payload]
          /\ ~Before(u, j)
      BY DEF UpTo, Alike, InScope
    <3>2. Before(j, u)
      BY <1>1, <1>6, <3>1, RowsOrdered
    <3>3. R(j) < R(u)
      BY <1>4, <1>6, <3>1, <3>2
    <3>4. j \in Alike(D, left)
      BY <1>6, <3>1 DEF Alike, InScope
    <3>5. j \in S
      BY <1>2, <1>5, <1>6, <3>1, <3>3, <3>4
    <3> QED BY <3>4, <3>5 DEF Alike, InScope
  <2>2. IsFiniteSet(UpTo(D, u)) /\ R(u) = Cardinality(UpTo(D, u)) /\ u \in UpTo(D, u)
    <3>1. ~Before(u, u)
      BY <1>1, <1>6, RowsOrdered
    <3> QED BY <1>1, <1>6, <3>1, RankCounts DEF UpTo, Alike, InScope
  <2>3. Cardinality(UpTo(D, u) \ {u}) = R(u) - 1
    BY <2>2, FS_RemoveElement
  <2>4. IsFiniteSet(Alike(S, left))
    <3>1. IsFiniteSet(S)
      BY <1>1, RowsOrdered
    <3>2. Alike(S, left) \in SUBSET S
      BY DEF Alike, InScope
    <3> QED BY <3>1, <3>2, FS_Subset
  <2> QED BY <2>1, <2>3, <2>4, FS_Subset
<1>12. /\ Cardinality(Alike(S, id)) \in Nat /\ Cardinality(Alike(S, left)) \in Nat
  <2>1. IsFiniteSet(S)
    BY <1>1, RowsOrdered
  <2>2. Alike(S, left) \in SUBSET S /\ Alike(S, id) \in SUBSET S
    BY DEF Alike, InScope
  <2>3. IsFiniteSet(Alike(S, left)) /\ IsFiniteSet(Alike(S, id))
    BY <2>1, <2>2, FS_Subset
  <2> QED BY <2>3, FS_CardinalityType
<1>13. R(x) \in Nat /\ R(u) \in Nat
  BY <1>2, <1>6, <1>8
<1> HIDE DEF D, S, R
<1>14. Cardinality(Alike(S, id)) <= Cardinality(Alike(S, left)) + 1
  BY <1>9, <1>10, <1>11, <1>12, <1>13
<1> QED BY <1>14 DEF S

\* Whatever a step is but a claim, it makes no pending row inflight.
LEMMA OnlyClaimsTake ==
  ASSUME TypeOK, Next, \A w \in Workers : ~ClaimDue(w)
  PROVE  ClaimedNow = {}
<1>0. \A id \in DOMAIN rows : rows[id] \in Row
  BY DEF TypeOK, Table
<1> DEFINE Kept(id) == id \in DOMAIN rows' /\ rows[id].status = "pending"
                         => rows'[id].status # "inflight"
<1>1. CASE EnqueueNew
  <2>1. \A id \in DOMAIN rows : id # lastId + 1 => rows'[id] = rows[id]
    BY <1>1, EnqueueNewEffect
  <2>2. \A id \in DOMAIN rows : id # lastId + 1
    BY DEF TypeOK, Table
  <2> QED BY <2>1, <2>2 DEF ClaimedNow
<1>2. CASE EnqueueExisting
  <2>1. PICK id \in DOMAIN rows, p \in Payloads, max \in AttemptLimits, t \in Int :
          rows' = [rows EXCEPT ![id] = Upserted(@, p, max, t)]
    BY <1>2, DueTimesType, ClampType DEF EnqueueExisting, Existing
  <2>2. rows[id].status = "pending" => Upserted(rows[id], p, max, t).status = "pending"
    BY <1>0 DEF Upserted, Row
  <2> QED BY <2>1, <2>2 DEF ClaimedNow
<1>3. CASE rows' = rows
  BY <1>3 DEF ClaimedNow
<1>4. ASSUME NEW D, rows' = Drop(rows, D) PROVE ClaimedNow = {}
  BY <1>4 DEF Drop, ClaimedNow
<1>5. ASSUME NEW w \in Workers, NEW i \in DOMAIN claims[w], MarkFailed(w, i) \/ Defer(w, i)
      PROVE  ClaimedNow = {}
  <2>1. PICK r : rows' = Update(i, r) /\ (i \in DOMAIN rows => r.status # "inflight")
    <3>1. CASE MarkFailed(w, i)
      <4>1. PICK r : rows' = Update(i, r) /\ \E t : r = FailedRow(rows[i], claims[w][i], t)
        BY <3>1 DEF MarkFailed
      <4> QED BY <1>0, <4>1 DEF FailedRow, Row
    <3>2. CASE Defer(w, i)
      <4>1. PICK r : rows' = Update(i, r) /\ \E t : r = DeferredRow(rows[i], t)
        BY <3>2 DEF Defer
      <4> QED BY <1>0, <4>1 DEF DeferredRow, Row
    <3> QED BY <1>5, <3>1, <3>2
  <2> QED BY <2>1 DEF Update, Put, ClaimedNow
<1>6. CASE RecoverInflight
  <2>1. PICK S : rows' = [id \in DOMAIN rows |->
                            IF id \in S THEN RecoveredRow(rows[id]) ELSE rows[id]]
    <3>1. PICK age \in RecoverAges, lag \in Lags : RecoverInflight!(age, lag)
      BY <1>6 DEF RecoverInflight
    <3>2. \E S : rows' = [id \in DOMAIN rows |->
                            IF id \in S THEN RecoveredRow(rows[id]) ELSE rows[id]]
      BY <3>1
    <3> QED BY <3>2
  <2> QED BY <1>0, <2>1 DEF RecoveredRow, Row, ClaimedNow
<1>7. CASE RetryDead
  <2>1. PICK S, t : rows' = [id \in DOMAIN rows |->
                               IF id \in S THEN RevivedRow(rows[id], t) ELSE rows[id]]
    BY <1>7 DEF RetryDead
  <2> QED BY <1>0, <2>1 DEF RevivedRow, Row, ClaimedNow
<1>8. CASE Tick
  BY <1>0, <1>8 DEF Tick, AgedRow, Row, ClaimedNow
<1>9. ASSUME NEW w \in Workers, WorkerStep(w) PROVE ClaimedNow = {}
  BY <1>3, <1>4, <1>5, <1>9 DEF WorkerStep, Send, MarkSent, Crash
<1>10. CASE Maintenance
  BY <1>4, <1>6, <1>7, <1>10 DEF Maintenance, Delete, DeleteDead, PruneDead, Remove
<1> QED BY <1>1, <1>2, <1>8, <1>9, <1>10 DEF Next, Enqueue

\* What a claim takes is what it has selected.
LEMMA ClaimTakes ==
  ASSUME TypeOK, NEW w \in Workers, ClaimDue(w)
  PROVE  \E lag \in Lags : ClaimedNow = Selected(lag)
<1>1. PICK lag \in Lags : ClaimDue(w)!(lag)
  BY DEF ClaimDue
<1> DEFINE S == Selected(lag)
<1>2. \A id \in S : id \in DOMAIN rows /\ rows[id].status = "pending"
  BY DEF Selected, Due
<1>3. rows' = [id \in DOMAIN rows |->
                 IF id \in S THEN LockedRow(rows[id], Clamp(-lag)) ELSE rows[id]]
  BY <1>1
<1>4. \A id \in DOMAIN rows : rows[id] \in Row
  BY DEF TypeOK, Table
<1> HIDE DEF S
<1>5. ClaimedNow = S
  BY <1>2, <1>3, <1>4 DEF ClaimedNow, LockedRow, Row
<1> QED BY <1>5 DEF S

\* claim_due is fair (the window function that ranks rows by destination): when
\* it leaves a row behind that is due by any clock, no destination got two more
\* rows than that row's.
THEOREM ClaimsAreFair == Spec => FairClaims
<1>1. TypeOK /\ [Next]_vars =>
        [ClaimedNow # {} =>
           \A left \in Due(MaxLag) \ ClaimedNow, id \in ClaimedNow :
               Share(id) <= Share(left) + 1]_vars
  <2> SUFFICES ASSUME TypeOK, Next, ClaimedNow # {},
                      NEW left \in Due(MaxLag) \ ClaimedNow, NEW id \in ClaimedNow
               PROVE  Share(id) <= Share(left) + 1
    OBVIOUS
  <2>1. PICK w \in Workers : ClaimDue(w)
    BY OnlyClaimsTake
  <2>2. PICK lag \in Lags : ClaimedNow = Selected(lag)
    BY <2>1, ClaimTakes
  <2>3. left \in Due(lag)
    <3>1. lag \in Nat /\ lag <= MaxLag /\ MaxLag \in Nat
      BY OutboxAssumption DEF Lags
    <3>2. left \in DOMAIN rows /\ rows[left] \in Row
          /\ rows[left].status = "pending" /\ rows[left].available <= -MaxLag
      BY DEF Due, TypeOK, Table
    <3>3. rows[left].available \in Int
      BY <3>2 DEF Row, Time
    <3>4. rows[left].available <= -lag
      BY <3>1, <3>2, <3>3
    <3> QED BY <3>2, <3>4 DEF Due
  <2>4. left \in Due(lag) \ Selected(lag) /\ id \in Selected(lag)
    BY <2>2, <2>3
  <2>5. Cardinality(Alike(Selected(lag), id)) <= Cardinality(Alike(Selected(lag), left)) + 1
    BY <2>4, FairShares
  <2> QED BY <2>2, <2>5 DEF Share, Alike
<1> QED BY <1>1, TypeCorrect, PTL DEF Spec, FairClaims

-----------------------------------------------------------------------------
(***************************************************************************)
(* The sum of sizes.  MapThenSumSet is defined by recursion over an        *)
(* arbitrary order of a set's members; for a finite set the recursion      *)
(* defines a sum that does not depend on the order.                        *)
(***************************************************************************)
\* The size of a row in a table, and of a set of rows
Size(table, id) == BytesOf[table[id].payload]
Bytes(table, S) == MapThenSumSet(LAMBDA id : BytesOf[table[id].payload], S)

\* The member that is added first
Some(S) == CHOOSE x \in S : TRUE

\* The sum of a subset of S, given those of smaller ones
SumFrom(table, F, s) == IF s = {} THEN 0 ELSE Size(table, Some(s)) + F[s \ {Some(s)}]

\* F is the recursive function that sums the subsets of S.
SumsUp(table, S, F) == F = [s \in SUBSET S |-> SumFrom(table, F, s)]

\* The sum is what the recursive function says of the whole set.
LEMMA BytesUnfold ==
  ASSUME NEW table, NEW S
  PROVE  Bytes(table, S) = (CHOOSE F : SumsUp(table, S, F))[S]
  BY DEF Bytes, MapThenSumSet, MapThenFoldSet, SumsUp, SumFrom, Size, Some

\* The rest of a set without its first member is smaller.
LEMMA RestIsSmaller ==
  ASSUME NEW s, IsFiniteSet(s), s # {}
  PROVE  /\ Some(s) \in s /\ IsFiniteSet(s \ {Some(s)})
         /\ Cardinality(s) \in Nat /\ Cardinality(s \ {Some(s)}) \in Nat
         /\ Cardinality(s \ {Some(s)}) = Cardinality(s) - 1
<1>1. Some(s) \in s
  BY DEF Some
<1>2. IsFiniteSet(s \ {Some(s)}) /\ Cardinality(s \ {Some(s)}) = Cardinality(s) - 1
  BY <1>1, FS_RemoveElement
<1> QED BY <1>1, <1>2, FS_CardinalityType

\* For a finite set there is such a function.
LEMMA SumExists ==
  ASSUME NEW table, NEW S, IsFiniteSet(S)
  PROVE  \E F : SumsUp(table, S, F)
<1> DEFINE Sums(n, F) == /\ F = [s \in SUBSET S |-> F[s]]
                         /\ \A s \in SUBSET S :
                               Cardinality(s) <= n => F[s] = SumFrom(table, F, s)
           Bad == {n \in Nat : ~\E F : Sums(n, F)}
<1>1. \A s \in SUBSET S : IsFiniteSet(s) /\ Cardinality(s) \in Nat /\ Cardinality(s) <= Cardinality(S)
  BY FS_Subset, FS_CardinalityType
<1>2. 0 \notin Bad
  <2> DEFINE F == [s \in SUBSET S |-> 0]
  <2>1. \A s \in SUBSET S : Cardinality(s) <= 0 => s = {}
    BY <1>1, FS_EmptySet
  <2>2. Sums(0, F)
    BY <2>1 DEF SumFrom
  <2> QED BY <2>2
<1>3. ASSUME NEW n \in Nat, NEW F, Sums(n, F) PROVE \E G : Sums(n + 1, G)
  <2> DEFINE G == [s \in SUBSET S |-> SumFrom(table, F, s)]
  <2>1. \A s \in SUBSET S : Cardinality(s) <= n => G[s] = F[s]
    BY <1>3
  <2>2. ASSUME NEW s \in SUBSET S, Cardinality(s) <= n + 1 PROVE G[s] = SumFrom(table, G, s)
    <3>1. CASE s = {}
      BY <3>1 DEF SumFrom
    <3>2. CASE s # {}
      <4>1. s \ {Some(s)} \in SUBSET S /\ Cardinality(s \ {Some(s)}) <= n
        BY <1>1, <2>2, <3>2, RestIsSmaller
      <4>2. G[s \ {Some(s)}] = F[s \ {Some(s)}]
        BY <2>1, <4>1
      <4> QED BY <3>2, <4>2 DEF SumFrom
    <3> QED BY <3>1, <3>2
  <2>3. G = [s \in SUBSET S |-> G[s]]
    OBVIOUS
  <2> HIDE DEF G
  <2> QED BY <2>2, <2>3
<1>4. \A n \in Nat : n \in Bad <=> ~\E F : Sums(n, F)
  OBVIOUS
<1> HIDE DEF Bad, Sums
<1>5. Bad = {}
  <2> SUFFICES ASSUME Bad # {} PROVE FALSE
    OBVIOUS
  <2>1. PICK m \in Bad : \A k \in Bad : m <= k
    <3>1. Bad \in SUBSET Nat
      BY DEF Bad
    <3> QED BY <3>1, LeastNatural
  <2>2. m \in Nat /\ m # 0
    BY <1>2, <2>1 DEF Bad
  <2>3. m - 1 \in Nat /\ (m - 1) + 1 = m /\ ~(m <= m - 1)
    BY <2>2
  <2>4. PICK F : Sums(m - 1, F)
    BY <1>4, <2>1, <2>3
  <2>5. \E G : Sums((m - 1) + 1, G)
    BY <1>3, <2>3, <2>4
  <2> QED BY <1>4, <2>1, <2>2, <2>3, <2>5
<1>6. PICK F : Sums(Cardinality(S), F)
  BY <1>1, <1>4, <1>5
<1>7. F = [s \in SUBSET S |-> SumFrom(table, F, s)]
  BY <1>1, <1>6 DEF Sums
<1> QED BY <1>7 DEF SumsUp

\* Such functions agree wherever their tables do.
LEMMA SumIsUnique ==
  ASSUME NEW r, NEW q, NEW S, NEW T, NEW F, NEW G, SumsUp(r, S, F), SumsUp(q, T, G),
         NEW U, IsFiniteSet(U), U \subseteq S, U \subseteq T,
         \A id \in U : Size(r, id) = Size(q, id)
  PROVE  F[U] = G[U]
<1> DEFINE Bad == {n \in Nat : \E s \in SUBSET U : Cardinality(s) = n /\ F[s] # G[s]}
<1>1. \A s \in SUBSET U : IsFiniteSet(s) /\ Cardinality(s) \in Nat
  BY FS_Subset, FS_CardinalityType
<1>2. Bad = {}
  <2> SUFFICES ASSUME Bad # {} PROVE FALSE
    OBVIOUS
  <2>1. PICK m \in Bad : \A k \in Bad : m <= k
    <3>1. Bad \in SUBSET Nat
      OBVIOUS
    <3> HIDE DEF Bad
    <3> QED BY <3>1, LeastNatural
  <2>2. PICK s \in SUBSET U : Cardinality(s) = m /\ F[s] # G[s]
    BY <2>1
  <2>3. F[s] = SumFrom(r, F, s) /\ G[s] = SumFrom(q, G, s)
    <3>1. s \in SUBSET S /\ s \in SUBSET T
      OBVIOUS
    <3> QED BY <3>1 DEF SumsUp
  <2>4. s # {}
    BY <2>2, <2>3 DEF SumFrom
  <2> DEFINE rest == s \ {Some(s)}
  <2>5. rest \in SUBSET U /\ Some(s) \in U /\ Cardinality(rest) \in Nat /\ Cardinality(rest) < m
    BY <1>1, <2>2, <2>4, RestIsSmaller
  <2>6. F[rest] # G[rest]
    BY <2>2, <2>3, <2>4, <2>5 DEF SumFrom
  <2>7. Cardinality(rest) \in Bad
    BY <2>5, <2>6
  <2>8. m \in Nat
    BY <2>1
  <2> HIDE DEF Bad, rest
  <2> QED BY <2>1, <2>5, <2>7, <2>8
<1>3. Cardinality(U) \notin Bad /\ Cardinality(U) \in Nat
  BY <1>1, <1>2
<1> QED BY <1>3

\* The sum of a set, from any function that sums up a superset.
LEMMA BytesIs ==
  ASSUME NEW r, NEW S, NEW U, NEW F, SumsUp(r, S, F), IsFiniteSet(U), U \subseteq S
  PROVE  Bytes(r, U) = F[U]
<1> DEFINE G == CHOOSE G : SumsUp(r, U, G)
<1>1. SumsUp(r, U, G)
  BY SumExists
<1>2. Bytes(r, U) = G[U]
  BY BytesUnfold
<1> HIDE DEF G
<1>3. F[U] = G[U]
  BY <1>1, SumIsUnique
<1> QED BY <1>2, <1>3

\* The sum depends only on the sizes of the rows in the set.
LEMMA SameBytes ==
  ASSUME NEW r, NEW q, NEW S, IsFiniteSet(S), \A id \in S : Size(r, id) = Size(q, id)
  PROVE  Bytes(r, S) = Bytes(q, S)
<1>1. PICK F : SumsUp(r, S, F)
  BY SumExists
<1>2. PICK G : SumsUp(q, S, G)
  BY SumExists
<1>3. F[S] = G[S]
  BY <1>1, <1>2, SumIsUnique
<1> QED BY <1>1, <1>2, <1>3, BytesIs

\* Any row may be counted first.
LEMMA BytesAdd ==
  ASSUME NEW r, NEW S, IsFiniteSet(S), \A id \in S : Size(r, id) \in Nat
  PROVE  /\ Bytes(r, S) \in Nat
         /\ \A id \in S : Bytes(r, S) = Size(r, id) + Bytes(r, S \ {id})
<1>1. PICK F : SumsUp(r, S, F)
  BY SumExists
<1>2. \A s \in SUBSET S : IsFiniteSet(s) /\ Cardinality(s) \in Nat /\ Bytes(r, s) = F[s]
  BY <1>1, BytesIs, FS_Subset, FS_CardinalityType
<1>3. \A s \in SUBSET S : F[s] = SumFrom(r, F, s)
  BY <1>1 DEF SumsUp
<1> DEFINE Good(s) == F[s] \in Nat /\ \A id \in s : F[s] = Size(r, id) + F[s \ {id}]
           Bad == {n \in Nat : \E s \in SUBSET S : Cardinality(s) = n /\ ~Good(s)}
<1>4. Bad = {}
  <2> SUFFICES ASSUME Bad # {} PROVE FALSE
    OBVIOUS
  <2>1. PICK m \in Bad : \A k \in Bad : m <= k
    <3>1. Bad \in SUBSET Nat
      OBVIOUS
    <3> HIDE DEF Bad
    <3> QED BY <3>1, LeastNatural
  <2>2. PICK s \in SUBSET S : Cardinality(s) = m /\ ~Good(s)
    BY <2>1
  <2>3. ASSUME NEW t \in SUBSET S, Cardinality(t) < m PROVE Good(t)
    BY <1>2, <2>1, <2>3
  <2>4. s # {}
    <3> SUFFICES ASSUME s = {} PROVE Good(s)
      BY <2>2
    <3>1. F[s] = 0
      BY <1>3 DEF SumFrom
    <3> QED BY <3>1
  <2> DEFINE x == Some(s)
  <2>5. x \in s /\ s \ {x} \in SUBSET S /\ Cardinality(s \ {x}) < m
    BY <1>2, <2>2, <2>4, RestIsSmaller
  <2>6. F[s] = Size(r, x) + F[s \ {x}]
    BY <1>3, <2>4 DEF SumFrom
  <2>7. Good(s \ {x})
    BY <2>3, <2>5
  <2> HIDE DEF x
  <2>8. F[s] \in Nat
    BY <2>5, <2>6, <2>7
  <2>9. ASSUME NEW id \in s, id # x PROVE F[s] = Size(r, id) + F[s \ {id}]
    <3> DEFINE both == (s \ {x}) \ {id}
    <3>1. both = (s \ {id}) \ {x}
      OBVIOUS
    <3>2. s \ {id} \in SUBSET S /\ Cardinality(s \ {id}) < m
      <4>1. IsFiniteSet(s) /\ Cardinality(s) \in Nat
        BY <1>2
      <4>2. Cardinality(s \ {id}) = Cardinality(s) - 1
        BY <2>9, <4>1, FS_RemoveElement
      <4> QED BY <2>2, <4>1, <4>2
    <3>3. Good(s \ {id})
      BY <2>3, <3>2
    <3>4. F[s \ {x}] = Size(r, id) + F[both]
      BY <2>7, <2>9
    <3>5. F[s \ {id}] = Size(r, x) + F[both]
      BY <2>5, <2>9, <3>1, <3>3
    <3>6. both \in SUBSET S /\ Cardinality(both) < m
      <4>1. IsFiniteSet(s \ {x})
        BY <1>2, <2>5
      <4>2. both \in SUBSET (s \ {x})
        OBVIOUS
      <4>3. Cardinality(both) <= Cardinality(s \ {x})
        BY <4>1, <4>2, FS_Subset
      <4> QED BY <1>2, <2>1, <2>5, <4>2, <4>3
    <3>7. F[both] \in Nat
      BY <2>3, <3>6
    <3>8. Size(r, id) \in Nat /\ Size(r, x) \in Nat
      BY <2>5, <2>9
    <3> HIDE DEF both
    <3> QED BY <2>6, <3>4, <3>5, <3>7, <3>8
  <2>10. Good(s)
    BY <2>6, <2>8, <2>9
  <2> QED BY <2>2, <2>10
<1>5. Good(S)
  <2>1. S \in SUBSET S /\ Cardinality(S) \in Nat
    BY <1>2
  <2> QED BY <1>4, <2>1
<1>6. \A id \in S : S \ {id} \in SUBSET S
  OBVIOUS
<1> QED BY <1>2, <1>5, <1>6

-----------------------------------------------------------------------------
(***************************************************************************)
(* Admission.                                                              *)
(***************************************************************************)
\* One row got new content, is queued, and was admitted with it.
Admitted(id, p) ==
    /\ id \in DOMAIN rows' /\ rows'[id].payload = p
    /\ Queued' = (Queued \ {id}) \cup {id}
    /\ \A j \in Queued \ {id} : rows'[j].payload = rows[j].payload
    /\ Admits(p, {id})

\* What was admitted is within the limits.
LEMMA AdmittedFits ==
  ASSUME TypeOK, TypeOK', NEW id, NEW p \in Payloads, Admitted(id, p)
  PROVE  WithinCapacity' /\ WithinScopes(p)'
<1> DEFINE others == Queued \ {id}
<1>1. \A j \in DOMAIN rows' : rows'[j] \in Row
  BY DEF TypeOK, Table
<1>2. IsFiniteSet(Queued') /\ IsFiniteSet(others)
  <2>1. /\ IsFiniteSet(Queued)
    BY RowsOrdered DEF Queued
  <2>2. others \in SUBSET Queued /\ id \notin others
    OBVIOUS
  <2>3. IsFiniteSet(others)
    BY <2>1, <2>2, FS_Subset
  <2> QED BY <2>3, FS_AddElement DEF Admitted
<1>3. /\ id \in Queued' /\ id \notin others /\ Queued' \ {id} = others
      /\ \A j \in others : rows'[j].payload = rows[j].payload
      /\ Queued' \subseteq DOMAIN rows' /\ rows'[id].payload = p
  BY DEF Admitted, Queued
<1>4. Admits(p, {id})
  BY DEF Admitted
<1> HIDE DEF others
<1>5. ASSUME NEW S \in SUBSET Queued', NEW L \in Nat, id \in S,
             Cardinality(S \ {id}) + 1 <= L
      PROVE  Cardinality(S) <= L
  <2>1. IsFiniteSet(S)
    BY <1>2, FS_Subset
  <2>2. Cardinality(S \ {id}) = Cardinality(S) - 1
    BY <1>5, <2>1, FS_RemoveElement
  <2>3. Cardinality(S) \in Nat
    BY <2>1, FS_CardinalityType
  <2> QED BY <1>5, <2>2, <2>3
<1>6. MaxPending \in Nat /\ MaxBytes \in Nat /\ MaxPerDestination \in Nat /\ MaxPerCategory \in Nat
  BY OutboxAssumption
<1>7. Cardinality(Queued') <= MaxPending
  BY <1>3, <1>4, <1>5, <1>6 DEF Admits, others
<1>8. Bytes(rows', Queued') <= MaxBytes
  <2>1. \A j \in Queued' : Size(rows', j) \in Nat
    BY <1>1, <1>3, OutboxAssumption DEF Size, Row
  <2>2. Bytes(rows', Queued') = Size(rows', id) + Bytes(rows', others)
    BY <1>2, <1>3, <2>1, BytesAdd
  <2>3. Bytes(rows', others) = Bytes(rows, others)
    BY <1>2, <1>3, SameBytes DEF Size
  <2>4. Bytes(rows, others) + BytesOf[p] <= MaxBytes
    BY <1>4 DEF Admits, QueuedBytes, Bytes, others
  <2>5. Bytes(rows', others) \in Nat /\ BytesOf[p] \in Nat
    <3>1. \A j \in others : Size(rows', j) \in Nat
      BY <1>3, <2>1
    <3> QED BY <1>2, <3>1, BytesAdd, OutboxAssumption
  <2>6. Size(rows', id) = BytesOf[p]
    BY <1>3 DEF Size
  <2> QED BY <2>2, <2>3, <2>4, <2>5, <2>6
<1>9. QueuedBytes(Queued)' <= MaxBytes
  BY <1>8 DEF QueuedBytes, Bytes, MapThenSumSet, MapThenFoldSet
<1>10. ASSUME NEW f, NEW L \in Nat, Cardinality(InScope(others, f, f[p])) + 1 <= L
       PROVE  Cardinality({j \in Queued' : f[rows'[j].payload] = f[p]}) <= L
  <2> DEFINE S == {j \in Queued' : f[rows'[j].payload] = f[p]}
  <2>1. S \in SUBSET Queued' /\ id \in S
    BY <1>3
  <2>2. S \ {id} = InScope(others, f, f[p])
    BY <1>3 DEF InScope
  <2> HIDE DEF S
  <2>3. Cardinality(S) <= L
    BY <1>5, <1>10, <2>1, <2>2
  <2> QED BY <2>3 DEF S
<1>11. WithinScopes(p)'
  <2>1. Cardinality({j \in Queued' : DestinationOf[rows'[j].payload] = DestinationOf[p]})
          <= MaxPerDestination
    BY <1>4, <1>6, <1>10 DEF Admits, others
  <2>2. Cardinality({j \in Queued' : CategoryOf[rows'[j].payload] = CategoryOf[p]})
          <= MaxPerCategory
    BY <1>4, <1>6, <1>10 DEF Admits, others
  <2> QED BY <2>1, <2>2 DEF WithinScopes, InScope
<1> QED BY <1>7, <1>9, <1>11 DEF WithinCapacity

\* A row has content it did not have before.
NewContent(id) ==
    /\ id \in DOMAIN rows'
    /\ IF id \in DOMAIN rows THEN rows[id].payload # rows'[id].payload ELSE TRUE

\* A step that gives a row new content has admitted it.
LEMMA OnlyEnqueueAdmits ==
  ASSUME TypeOK, TypeOK', Next, NEW id, NewContent(id)
  PROVE  \E p \in Payloads : Admitted(id, p)
<1>0. \A j \in DOMAIN rows : rows[j] \in Row
  BY DEF TypeOK, Table
<1> DEFINE Same == /\ DOMAIN rows' \subseteq DOMAIN rows
                   /\ \A j \in DOMAIN rows' : rows'[j].payload = rows[j].payload
<1>1. ~Same
  BY DEF NewContent
<1>2. CASE EnqueueNew
  <2> DEFINE n == lastId + 1
  <2>1. PICK p \in Payloads :
          /\ Admits(p, {})
          /\ \E key, origin, max, available :
                rows' = Put(rows, n, NewRow(p, key, origin, max, available))
    BY <1>2 DEF EnqueueNew, Insert, NextId
  <2>2. /\ DOMAIN rows' = DOMAIN rows \cup {n}
        /\ rows'[n].payload = p /\ rows'[n].status = "pending"
        /\ \A j \in DOMAIN rows \ {n} : rows'[j] = rows[j]
    BY <2>1 DEF Put, NewRow
  <2>3. n \notin DOMAIN rows
    BY DEF TypeOK, Table
  <2> HIDE DEF n
  <2>4. id = n
    BY <2>2, <2>3 DEF NewContent
  <2>5. Queued \ {id} = Queued \ {} /\ Queued \ {id} = Queued
    BY <2>3, <2>4 DEF Queued
  <2>6. Admits(p, {id})
    BY <2>1, <2>5 DEF Admits
  <2>7. Queued' = (Queued \ {id}) \cup {id}
    BY <2>2, <2>3, <2>4 DEF Queued
  <2>8. \A j \in Queued \ {id} : rows'[j].payload = rows[j].payload
    BY <2>2, <2>4 DEF Queued
  <2> QED BY <2>2, <2>4, <2>6, <2>7, <2>8 DEF Admitted
<1>3. CASE EnqueueExisting
  <2>1. PICK i \in DOMAIN rows, p \in Payloads, max \in AttemptLimits, t \in Int :
          /\ Admits(p, {i})
          /\ rows' = [rows EXCEPT ![i] = Upserted(@, p, max, t)]
    BY <1>3, DueTimesType, ClampType DEF EnqueueExisting, Existing
  <2>2. Upserted(rows[i], p, max, t).payload = p
        /\ Upserted(rows[i], p, max, t).status \in {"pending", "inflight"}
    BY <1>0 DEF Upserted, Row, Status
  <2>3. /\ DOMAIN rows' = DOMAIN rows
        /\ rows'[i].payload = p /\ rows'[i].status \in {"pending", "inflight"}
        /\ \A j \in DOMAIN rows \ {i} : rows'[j] = rows[j]
    BY <2>1, <2>2
  <2>4. id = i
    BY <2>3 DEF NewContent
  <2>5. Queued' = (Queued \ {id}) \cup {id}
    BY <2>3, <2>4 DEF Queued
  <2>6. \A j \in Queued \ {id} : rows'[j].payload = rows[j].payload
    BY <2>3, <2>4 DEF Queued
  <2> QED BY <2>1, <2>3, <2>4, <2>5, <2>6 DEF Admitted
<1>4. ASSUME rows' = rows PROVE Same
  BY <1>4
<1>5. ASSUME NEW D, rows' = Drop(rows, D) PROVE Same
  BY <1>5 DEF Drop
<1>6. ASSUME NEW w \in Workers, ClaimDue(w) PROVE Same
  <2>1. PICK lag \in Lags : ClaimDue(w)!(lag)
    BY <1>6 DEF ClaimDue
  <2>2. PICK S, t : rows' = [j \in DOMAIN rows |->
                               IF j \in S THEN LockedRow(rows[j], t) ELSE rows[j]]
    BY <2>1
  <2> QED BY <1>0, <2>2 DEF LockedRow, Row
<1>7. ASSUME NEW w \in Workers, NEW i \in DOMAIN claims[w], MarkFailed(w, i) \/ Defer(w, i)
      PROVE  Same
  <2>1. PICK r : rows' = Update(i, r) /\ (i \in DOMAIN rows => r.payload = rows[i].payload)
    <3>1. CASE MarkFailed(w, i)
      <4>1. PICK r : rows' = Update(i, r) /\ \E t : r = FailedRow(rows[i], claims[w][i], t)
        BY <3>1 DEF MarkFailed
      <4>2. i \in DOMAIN rows => r.payload = rows[i].payload
        BY <1>0, <4>1 DEF FailedRow, Row
      <4> QED BY <4>1, <4>2
    <3>2. CASE Defer(w, i)
      <4>1. PICK r : rows' = Update(i, r) /\ \E t : r = DeferredRow(rows[i], t)
        BY <3>2 DEF Defer
      <4>2. i \in DOMAIN rows => r.payload = rows[i].payload
        BY <1>0, <4>1 DEF DeferredRow, Row
      <4> QED BY <4>1, <4>2
    <3> QED BY <1>7, <3>1, <3>2
  <2> QED BY <2>1 DEF Update, Put
<1>8. CASE RecoverInflight
  <2>1. PICK age \in RecoverAges, lag \in Lags : RecoverInflight!(age, lag)
    BY <1>8 DEF RecoverInflight
  <2>2. PICK S : rows' = [j \in DOMAIN rows |->
                            IF j \in S THEN RecoveredRow(rows[j]) ELSE rows[j]]
    BY <2>1
  <2> QED BY <1>0, <1>1, <2>2 DEF RecoveredRow, Row
<1>9. CASE RetryDead
  <2>1. PICK S, t : rows' = [j \in DOMAIN rows |->
                               IF j \in S THEN RevivedRow(rows[j], t) ELSE rows[j]]
    BY <1>9 DEF RetryDead
  <2> QED BY <1>0, <1>1, <2>1 DEF RevivedRow, Row
<1>10. CASE Tick
  BY <1>0, <1>1, <1>10 DEF Tick, AgedRow, Row
<1> HIDE DEF Same
<1>11. ASSUME NEW w \in Workers, WorkerStep(w) PROVE FALSE
  BY <1>1, <1>4, <1>5, <1>6, <1>7, <1>11 DEF WorkerStep, Send, MarkSent, Crash
<1>12. CASE Maintenance
  BY <1>1, <1>5, <1>8, <1>9, <1>12 DEF Maintenance, Delete, DeleteDead, PruneDead, Remove
<1> QED BY <1>2, <1>3, <1>10, <1>11, <1>12 DEF Next, Enqueue

\* The four capacity checks of enqueue: whatever gives a row new content leaves
\* the queue within all four limits, in rows and in bytes.
THEOREM AdmissionsFit == Spec => AdmissionRespectsCapacity
<1>1. TypeOK /\ TypeOK' /\ [Next]_vars =>
        [\A id \in DOMAIN rows' :
          (IF id \in DOMAIN rows THEN rows[id].payload # rows'[id].payload
                                 ELSE TRUE)
          => /\ WithinCapacity'
             /\ \A p \in Payloads : p = rows'[id].payload => WithinScopes(p)']_vars
  <2> SUFFICES ASSUME TypeOK, TypeOK', Next, NEW id, NewContent(id)
               PROVE  /\ WithinCapacity'
                      /\ \A p \in Payloads : p = rows'[id].payload => WithinScopes(p)'
    BY DEF NewContent
  <2>1. PICK p \in Payloads : Admitted(id, p)
    BY OnlyEnqueueAdmits
  <2>2. WithinCapacity' /\ WithinScopes(p)'
    BY <2>1, AdmittedFits
  <2>3. rows'[id].payload = p
    BY <2>1 DEF Admitted
  <2> QED BY <2>2, <2>3
<1> QED BY <1>1, TypeCorrect, PTL DEF Spec, AdmissionRespectsCapacity
=============================================================================
