------------------------------- MODULE Outbox -------------------------------
(***************************************************************************)
(* The durable outbound queue of storage/outbox.py: the rows of            *)
(* outbox_messages, the OutboxStore operations on them, and the delivery   *)
(* workers that claim rows and report on them.                             *)
(*                                                                         *)
(* Every OutboxStore method runs in one transaction of a database whose    *)
(* lock serialises transactions (OutboxDatabase models that lock), so each *)
(* method is one action.  What is not atomic is the life of a claim: a     *)
(* worker works on the copy of the row that claim_due returned, and the    *)
(* row can be recovered, re-enqueued or deleted before it reports.         *)
(*                                                                         *)
(* Time.  Every timestamp is kept relative to the current second (0 is     *)
(* now, negative is past), so the clock needs no bound: a Tick moves all   *)
(* timestamps back by one.  Beyond -Horizon lock and death times are       *)
(* clamped; of due times, which are compared with each other, the order    *)
(* stays.  Several methods read time.time() before they wait for the lock; *)
(* "lag" is how old that reading is when the statement runs, at most       *)
(* MaxLag.                                                                 *)
(*                                                                         *)
(* Not modelled: last_error and created_at (diagnostic), and the read-only *)
(* counts, queue_usage, oldest_pending_age and dead_letters.               *)
(***************************************************************************)
EXTENDS Integers, FiniteSets, FiniteSetsExt, Tables

CONSTANTS
    Workers,         \* delivery workers (asyncio tasks or processes)
    Payloads,        \* what a stanza carries: destination, category and body
    DestinationOf,   \* [Payloads -> destinations]
    CategoryOf,      \* [Payloads -> categories]
    BytesOf,         \* [Payloads -> Nat], _payload_bytes
    Keys,            \* dedupe keys
    CallerOrigins,   \* origin ids a caller may supply itself
    Null,            \* SQL NULL
    AttemptLimits,   \* values of max_attempts (after max(1, ..))
    Delays,          \* retry delays (after max(1, ..)) and scheduling offsets
    RecoverAges,     \* values of older_than_seconds
    Retention,       \* retention_days, in clock units; 0 keeps dead rows
    MaxPending, MaxBytes, MaxPerDestination, MaxPerCategory,
    ClaimLimit,      \* limit of claim_due (after clamping to 1..200)
    MaxLag,          \* bound: age of a time.time() reading
    Horizon,         \* bound: oldest timestamp told apart
    MaxOverruns,     \* bound: recoveries that take a row from a live worker
    MaxMessages      \* bound: rows ever inserted

ASSUME OutboxAssumption ==
    /\ Workers # {} /\ IsFiniteSet(Workers)
    /\ Null \notin Int /\ Null \notin Keys
    /\ CallerOrigins \cap Nat = {}
    /\ AttemptLimits \subseteq Nat \ {0}
    /\ Delays \subseteq Nat \ {0}
    /\ RecoverAges \subseteq Nat
    /\ Retention \in Nat
    /\ {MaxPending, MaxBytes, MaxPerDestination, MaxPerCategory, ClaimLimit}
         \subseteq Nat \ {0}
    /\ \A p \in Payloads : BytesOf[p] \in Nat
    /\ MaxLag \in Nat /\ MaxOverruns \in Nat /\ MaxMessages \in Nat
    /\ Horizon \in Nat
    /\ Retention = 0 \/ Horizon > Retention + MaxLag
    /\ \A age \in RecoverAges : Horizon >= age + MaxLag

VARIABLES
    rows,       \* outbox_messages: row id -> columns
    lastId,     \* sqlite_sequence: the largest id ever assigned
    uuids,      \* uuid4 origin ids generated so far (ids are 1..uuids)
    claims,     \* worker -> (row id -> the OutboxMessage it was handed)
    delivered,  \* history: <<row id, payload>> put on the wire
    discarded,  \* history: rows removed by an operator or by retention
    overruns    \* history: recoveries that took a row from a live worker

vars == <<rows, lastId, uuids, claims, delivered, discarded, overruns>>

Status == {"pending", "inflight", "dead"}
Origins == CallerOrigins \cup Nat
Time == Int

Row == [payload : Payloads, key : Keys \cup {Null}, origin : Origins,
        status : Status, attempts : Nat, max : Nat \ {0}, available : Time,
        locked : Time \cup {Null}, deadAt : Time \cup {Null}]

Message == [payload : Payloads, origin : Origins, attempts : Nat,
            max : Nat \ {0}, turn : Nat, sent : BOOLEAN]

Clamp(t) == IF t < -Horizon THEN -Horizon ELSE t

Lags == 0..MaxLag

\* Fault: id without AUTOINCREMENT, the largest id in the table plus one.
NextIdReused == IF DOMAIN rows = {} THEN 1 ELSE Max(DOMAIN rows) + 1

NextId == lastId + 1

Queued == {id \in DOMAIN rows : rows[id].status \in {"pending", "inflight"}}
Dead == {id \in DOMAIN rows : rows[id].status = "dead"}

-----------------------------------------------------------------------------
(***************************************************************************)
(* Enqueue.                                                                *)
(***************************************************************************)
InScope(S, f, v) == {id \in S : f[rows[id].payload] = v}

QueuedBytes(S) == MapThenSumSet(LAMBDA id : BytesOf[rows[id].payload], S)

\* Fault: the limit of a category is compared before the row is counted.
AdmitsOneMore(p, excluded) ==
    LET others == Queued \ excluded
    IN  /\ Cardinality(others) + 1 <= MaxPending
        /\ QueuedBytes(others) + BytesOf[p] <= MaxBytes
        /\ Cardinality(InScope(others, DestinationOf, DestinationOf[p])) + 1
             <= MaxPerDestination
        /\ Cardinality(InScope(others, CategoryOf, CategoryOf[p]))
             <= MaxPerCategory

\* The four capacity checks of enqueue, "excluded" being the row that the
\* dedupe key already names (its old content does not count).
Admits(p, excluded) ==
    LET others == Queued \ excluded
    IN  /\ Cardinality(others) + 1 <= MaxPending
        /\ QueuedBytes(others) + BytesOf[p] <= MaxBytes
        /\ Cardinality(InScope(others, DestinationOf, DestinationOf[p])) + 1
             <= MaxPerDestination
        /\ Cardinality(InScope(others, CategoryOf, CategoryOf[p])) + 1
             <= MaxPerCategory

Existing(key) == {id \in DOMAIN rows : key # Null /\ rows[id].key = key}

NewRow(p, key, origin, max, available) ==
    [payload |-> p, key |-> key, origin |-> origin, status |-> "pending",
     attempts |-> 0, max |-> max, available |-> available,
     locked |-> Null, deadAt |-> Null]

Insert(p, key, origin, max, available) ==
    /\ lastId < MaxMessages
    /\ rows' = Put(rows, NextId, NewRow(p, key, origin, max, available))
    /\ lastId' = NextId

\* available_at: the (possibly late) reading of the clock, or a later time.
DueTimes == {-lag : lag \in Lags} \cup Delays

\* enqueue() of a key that names no row.  The unique index on origin_id
\* refuses a supplied origin another row has; that and a capacity error roll
\* the transaction back and leave everything as it was.
EnqueueNew ==
    \E p \in Payloads, key \in Keys \cup {Null}, max \in AttemptLimits,
       available \in DueTimes :
        /\ Existing(key) = {}
        /\ Admits(p, {})
        /\ \/ /\ Insert(p, key, uuids + 1, max, Clamp(available))
              /\ uuids' = uuids + 1
           \/ \E origin \in CallerOrigins :
                /\ \A id \in DOMAIN rows : rows[id].origin # origin
                /\ Insert(p, key, origin, max, Clamp(available))
                /\ UNCHANGED uuids
        /\ UNCHANGED <<claims, delivered, discarded, overruns>>

\* Fault: the DO UPDATE branch makes every row pending, not only a dead one.
UpsertedRequeued(r, p, max, available) ==
    [r EXCEPT !.payload = p, !.max = max, !.status = "pending", !.locked = Null]

\* The DO UPDATE branch: content, limit and due time change in place, a dead
\* row starts over, and the row keeps its id and its origin id.
Upserted(r, p, max, available) ==
    LET content == [r EXCEPT !.payload = p, !.max = max,
                        !.available = IF available < @ THEN available ELSE @]
    IN  IF r.status = "dead"
        THEN [content EXCEPT !.status = "pending", !.attempts = 0,
                             !.locked = Null, !.deadAt = Null]
        ELSE content

EnqueueExisting ==
    \E p \in Payloads, key \in Keys, max \in AttemptLimits,
       available \in DueTimes :
       \E id \in Existing(key) :
        /\ Admits(p, {id})
        /\ rows' = [rows EXCEPT ![id] = Upserted(@, p, max, Clamp(available))]
        /\ UNCHANGED <<lastId, uuids, claims, delivered, discarded, overruns>>

Enqueue == EnqueueNew \/ EnqueueExisting

-----------------------------------------------------------------------------
(***************************************************************************)
(* Claims.                                                                 *)
(***************************************************************************)
\* Fault: the row that became due last goes first.
YoungerFirst(i, j) == \/ rows[i].available > rows[j].available
                      \/ rows[i].available = rows[j].available /\ i < j

\* ORDER BY available_at, id
Before(i, j) == \/ rows[i].available < rows[j].available
                \/ rows[i].available = rows[j].available /\ i < j

\* ROW_NUMBER() OVER (PARTITION BY destination ORDER BY available_at, id)
Rank(S, id) ==
    Cardinality({j \in S : /\ DestinationOf[rows[j].payload]
                                = DestinationOf[rows[id].payload]
                           /\ ~Before(id, j)})

\* Fault: ORDER BY available_at, id without the destination rank.
PrecedesByAge(S, i, j) == Before(i, j)

\* ORDER BY destination_rank, available_at, id
Precedes(S, i, j) == \/ Rank(S, i) < Rank(S, j)
                     \/ Rank(S, i) = Rank(S, j) /\ Before(i, j)

Due(lag) == {id \in DOMAIN rows : /\ rows[id].status = "pending"
                                  /\ rows[id].available <= -lag}

\* The first ClaimLimit due rows in that order.
Selected(lag) ==
    {id \in Due(lag) :
        Cardinality({j \in Due(lag) : Precedes(Due(lag), j, id)}) < ClaimLimit}

\* The frozen OutboxMessage.  claim_due returns the batch sorted by
\* (available_at, id); "turn" is a message's place in that list.
AsMessage(id, batch) ==
    [payload |-> rows[id].payload, origin |-> rows[id].origin,
     attempts |-> rows[id].attempts, max |-> rows[id].max,
     turn |-> Cardinality({j \in batch : Before(j, id)}), sent |-> FALSE]

LockedRow(r, now) == [r EXCEPT !.status = "inflight", !.locked = now]

\* A worker claims its next batch when it has finished the last one.
ClaimDue(w) ==
    \E lag \in Lags :
        LET S == Selected(lag) IN
        /\ claims[w] = Empty
        /\ S # {}
        /\ rows' = [id \in DOMAIN rows |->
                      IF id \in S
                      THEN LockedRow(rows[id], Clamp(-lag))
                      ELSE rows[id]]
        /\ claims' = [claims EXCEPT ![w] = [id \in S |-> AsMessage(id, S)]]
        /\ UNCHANGED <<lastId, uuids, delivered, discarded, overruns>>

\* The worker's current message is the first that it has not reported on.
Current(w, id) ==
    /\ id \in DOMAIN claims[w]
    /\ \A j \in DOMAIN claims[w] : claims[w][id].turn <= claims[w][j].turn

Reported(w, id) == [claims EXCEPT ![w] = Drop(@, {id})]

-----------------------------------------------------------------------------
(***************************************************************************)
(* What a worker does with the message it holds.  Putting it on the wire   *)
(* and recording that are two steps.                                       *)
(***************************************************************************)
Send(w, id) ==
    /\ Current(w, id)
    /\ ~claims[w][id].sent
    /\ claims' = [claims EXCEPT ![w] = Put(@, id, [@[id] EXCEPT !.sent = TRUE])]
    /\ delivered' = delivered \cup {<<id, claims[w][id].payload>>}
    /\ UNCHANGED <<rows, lastId, uuids, discarded, overruns>>

\* Fault: the row is deleted before the stanza is on the wire.
MarkSentEarly(w, id) ==
    /\ Current(w, id)
    /\ rows' = Drop(rows, {id})
    /\ claims' = Reported(w, id)
    /\ UNCHANGED <<lastId, uuids, delivered, discarded, overruns>>

MarkSent(w, id) ==
    /\ Current(w, id)
    /\ claims[w][id].sent
    /\ rows' = Drop(rows, {id})
    /\ claims' = Reported(w, id)
    /\ UNCHANGED <<lastId, uuids, delivered, discarded, overruns>>

\* Fault: a status the schema does not know.
FailedRowMisnamed(r, m, delay) ==
    [r EXCEPT !.status = IF m.attempts + 1 >= m.max THEN "failed" ELSE "pending",
              !.attempts = m.attempts + 1, !.available = delay, !.locked = Null]

\* attempts and max_attempts are those of the claimed copy, not of the row.
FailedRow(r, m, delay) ==
    LET dead == m.attempts + 1 >= m.max
    IN  [r EXCEPT !.status = IF dead THEN "dead" ELSE "pending",
                  !.attempts = m.attempts + 1,
                  !.available = delay,
                  !.locked = Null,
                  !.deadAt = IF dead THEN 0 ELSE Null]

Update(id, r) == IF id \in DOMAIN rows THEN Put(rows, id, r) ELSE rows

MarkFailed(w, id) ==
    \E delay \in Delays :
        /\ Current(w, id)
        /\ ~claims[w][id].sent
        /\ rows' = Update(id, FailedRow(rows[id], claims[w][id], delay))
        /\ claims' = Reported(w, id)
        /\ UNCHANGED <<lastId, uuids, delivered, discarded, overruns>>

\* Fault: defer() leaves locked_at in place.
DeferredLocked(r, delay) == [r EXCEPT !.status = "pending", !.available = delay]

DeferredRow(r, delay) == [r EXCEPT !.status = "pending", !.available = delay,
                                   !.locked = Null]

\* defer() gives the row back without counting an attempt.
Defer(w, id) ==
    \E delay \in Delays :
        /\ Current(w, id)
        /\ ~claims[w][id].sent
        /\ rows' = Update(id, DeferredRow(rows[id], delay))
        /\ claims' = Reported(w, id)
        /\ UNCHANGED <<lastId, uuids, delivered, discarded, overruns>>

\* A worker task is cancelled, or its process dies, between any two steps:
\* its copies are gone, the rows stay as they are.
Crash(w) ==
    /\ claims[w] # Empty
    /\ claims' = [claims EXCEPT ![w] = Empty]
    /\ UNCHANGED <<rows, lastId, uuids, delivered, discarded, overruns>>

-----------------------------------------------------------------------------
(***************************************************************************)
(* Maintenance.                                                            *)
(***************************************************************************)
\* Fault: the comparison with the cutoff is reversed.
StaleReversed(age, lag) ==
    {id \in DOMAIN rows : /\ rows[id].status = "inflight"
                          /\ rows[id].locked > -(age + lag)}

\* COALESCE(locked_at, 0) <= cutoff
Stale(age, lag) ==
    {id \in DOMAIN rows : /\ rows[id].status = "inflight"
                          /\ \/ rows[id].locked = Null
                             \/ rows[id].locked <= -(age + lag)}

RecoveredRow(r) == [r EXCEPT !.status = "pending", !.locked = Null]

Held == UNION {DOMAIN claims[w] : w \in Workers}

\* A recovery that takes rows from a live worker counts as an overrun; when
\* MaxOverruns of them have happened only orphaned rows are recovered.
RecoverInflight ==
    \E age \in RecoverAges, lag \in Lags :
        LET S == IF overruns < MaxOverruns THEN Stale(age, lag)
                                           ELSE Stale(age, lag) \ Held
        IN  /\ S # {}
            /\ rows' = [id \in DOMAIN rows |->
                          IF id \in S
                          THEN RecoveredRow(rows[id]) ELSE rows[id]]
            /\ overruns' = IF S \cap Held = {} THEN overruns ELSE overruns + 1
            /\ UNCHANGED <<lastId, uuids, claims, delivered, discarded>>

RevivedRow(r, now) ==
    [r EXCEPT !.status = "pending", !.attempts = 0, !.available = now,
              !.locked = Null, !.deadAt = Null]

\* retry_dead(): all dead rows, those of a category, or one of them.
RetryDead ==
    \E lag \in Lags,
       S \in {Dead} \cup {InScope(Dead, CategoryOf, CategoryOf[p]) : p \in Payloads}
                   \cup {{id} : id \in Dead} :
        /\ S # {}
        /\ rows' = [id \in DOMAIN rows |->
                      IF id \in S
                      THEN RevivedRow(rows[id], Clamp(-lag)) ELSE rows[id]]
        /\ UNCHANGED <<lastId, uuids, claims, delivered, discarded, overruns>>

Remove(S) ==
    /\ S # {}
    /\ rows' = Drop(rows, S)
    /\ discarded' = discarded \cup S
    /\ UNCHANGED <<lastId, uuids, claims, delivered, overruns>>

\* delete() by an operator takes any row, whatever its status.
Delete == \E id \in DOMAIN rows : Remove({id})

DeleteDead == Remove(Dead)

PruneDead ==
    \E lag \in Lags :
        /\ Retention > 0
        /\ Remove({id \in Dead : rows[id].deadAt < -(Retention + lag)})

Past(t) == IF t = Null THEN Null ELSE Clamp(t - 1)

\* claim_due compares due times with each other however old they are, so one
\* beyond the horizon keeps its place: the nearest of them is at -Horizon - 1.
Elapsed(t) ==
    LET beyond == {u \in {rows[id].available - 1 : id \in DOMAIN rows} :
                     t - 1 <= u /\ u < -Horizon}
    IN  IF t - 1 < -Horizon THEN -Horizon - Cardinality(beyond) ELSE t - 1

AgedRow(r) == [r EXCEPT !.available = Elapsed(@), !.locked = Past(@),
                        !.deadAt = Past(@)]

\* One second passes.
Tick ==
    /\ rows' = [id \in DOMAIN rows |-> AgedRow(rows[id])]
    /\ UNCHANGED <<lastId, uuids, claims, delivered, discarded, overruns>>

-----------------------------------------------------------------------------
Init ==
    /\ rows = Empty
    /\ lastId = 0
    /\ uuids = 0
    /\ claims = [w \in Workers |-> Empty]
    /\ delivered = {}
    /\ discarded = {}
    /\ overruns = 0

WorkerStep(w) ==
    \/ ClaimDue(w)
    \/ Crash(w)
    \/ \E id \in DOMAIN claims[w] :
        Send(w, id) \/ MarkSent(w, id) \/ MarkFailed(w, id) \/ Defer(w, id)

Maintenance == RecoverInflight \/ RetryDead \/ Delete \/ DeleteDead \/ PruneDead

Next == Enqueue \/ (\E w \in Workers : WorkerStep(w)) \/ Maintenance \/ Tick

Spec == Init /\ [][Next]_vars

-----------------------------------------------------------------------------
(***************************************************************************)
(* Properties.                                                             *)
(***************************************************************************)

\* f maps ids that were assigned to members of S.
Table(f, S) ==
    /\ f = [id \in DOMAIN f |-> f[id]]
    /\ DOMAIN f \subseteq 1..lastId
    /\ \A id \in DOMAIN f : f[id] \in S

\* Rows, claims and histories have the shape the schema and the
\* OutboxMessage dataclass give them.
TypeOK ==
    /\ lastId \in Nat /\ uuids \in Nat
    /\ Table(rows, Row)
    /\ claims = [w \in Workers |-> claims[w]]
    /\ \A w \in Workers : Table(claims[w], Message)
    /\ delivered \subseteq (1..lastId) \X Payloads
    /\ discarded \subseteq 1..lastId
    /\ overruns \in Nat

\* The columns agree with each other whatever order enqueue, claim, recovery,
\* late reports and retries come in: a lock time exactly on inflight rows, a
\* death time on every dead row (so the COALESCE in prune_dead and
\* recover_inflight never falls back), and no row dead before its first attempt.
StatusAgrees ==
    \A id \in DOMAIN rows :
        /\ (rows[id].status = "inflight") <=> (rows[id].locked # Null)
        /\ (rows[id].status = "dead") =>
               (rows[id].deadAt # Null /\ rows[id].attempts > 0)

Holds(w, id) == id \in DOMAIN claims[w] /\ id \in DOMAIN rows

\* As long as recover_inflight has never taken a row from a live worker, a
\* message is in the hands of at most one worker, its row stays inflight, and
\* the attempt counter that the worker will write back is still the row's:
\* no retry, deduplicating enqueue or crash in between can break this.
ExclusiveClaims ==
    overruns = 0 =>
        /\ \A w, v \in Workers :
               w # v => DOMAIN claims[w] \cap DOMAIN claims[v] = {}
        /\ \A w \in Workers, id \in DOMAIN rows :
               Holds(w, id) =>
                   /\ rows[id].status = "inflight"
                   /\ rows[id].attempts = claims[w][id].attempts

\* A late report never reaches another message: the row that a held id names
\* is still the row that was claimed (mark_sent, mark_failed and defer select
\* by id alone, so this rests on ids never being reused).
ReportsReachOwnRow ==
    \A w \in Workers, id \in DOMAIN rows :
        Holds(w, id) => rows[id].origin = claims[w][id].origin

\* What a row says of itself, the types included, and what its holder knows
\* of it, whatever late reports, recoveries, retries and deletions there were.
RowsAgree == TypeOK /\ StatusAgrees /\ ReportsReachOwnRow

\* Every row that was ever inserted is still there, or was put on the wire at
\* least once, or was removed on purpose: no crash, recovery or race of
\* workers makes a message vanish.
NothingVanishes ==
    \A id \in 1..lastId :
        \/ id \in DOMAIN rows \cup discarded
        \/ \E p \in Payloads : <<id, p>> \in delivered

WithinCapacity ==
    /\ Cardinality(Queued) <= MaxPending
    /\ QueuedBytes(Queued) <= MaxBytes

WithinScopes(p) ==
    /\ Cardinality(InScope(Queued, DestinationOf, DestinationOf[p]))
         <= MaxPerDestination
    /\ Cardinality(InScope(Queued, CategoryOf, CategoryOf[p])) <= MaxPerCategory

\* Whenever a row gets new content, as a new row or through its dedupe key,
\* the queue is within all four limits afterwards, inflight rows counted and
\* the replaced content not: OutboxCapacityError is raised in time.
AdmissionRespectsCapacity ==
    [][\A id \in DOMAIN rows' :
          (IF id \in DOMAIN rows THEN rows[id].payload # rows'[id].payload
                                 ELSE TRUE)
          => /\ WithinCapacity'
             /\ \A p \in Payloads : p = rows'[id].payload => WithinScopes(p)']_vars

ClaimedNow == {id \in DOMAIN rows : /\ rows[id].status = "pending"
                                    /\ id \in DOMAIN rows'
                                    /\ rows'[id].status = "inflight"}

Share(id) == Cardinality(InScope(ClaimedNow, DestinationOf,
                                 DestinationOf[rows[id].payload]))

\* "Claim due rows fairly across destinations": when a claim leaves a due row
\* behind, no destination got two more rows than that row's destination.
FairClaims ==
    [][ClaimedNow # {} =>
          \A left \in Due(MaxLag) \ ClaimedNow, id \in ClaimedNow :
              Share(id) <= Share(left) + 1]_vars

\* The queue a caller sees: an id is unknown until it is assigned; once its
\* row is gone it was either discarded or sent.
Stage == [id \in 1..MaxMessages |->
            IF id > lastId THEN "unknown"
            ELSE IF id \in DOMAIN rows
                 THEN IF rows[id].status = "dead" THEN "dead" ELSE "queued"
                 ELSE IF id \in discarded THEN "discarded" ELSE "sent"]

OnWire == {id \in 1..MaxMessages : \E p \in Payloads : <<id, p>> \in delivered}

Queue == INSTANCE MessageQueue
            WITH Messages <- 1..MaxMessages, stage <- Stage, wire <- OnWire

\* The store implements MessageQueue: whatever workers, crashes, recoveries
\* and operators do, a message is accepted once, leaves once, and leaves only
\* after a transmission or by being discarded.
QueueRefinement == Queue!QueueSpec

\* mark_sent only ever removes content that its worker has transmitted.
SentContentOnly ==
    [][\A w \in Workers : \A id \in DOMAIN claims[w] \cap DOMAIN rows :
          MarkSent(w, id) => rows[id].payload = claims[w][id].payload]_vars

-----------------------------------------------------------------------------
(***************************************************************************)
(* Liveness.  The application calls claim_due and recover_inflight again   *)
(* and again, a worker finishes each message one way or another, and time  *)
(* passes.  Nothing is assumed of crashes, deferrals and operators.        *)
(***************************************************************************)
Progress(w, id) == Send(w, id) \/ MarkSent(w, id) \/ MarkFailed(w, id) \/ Defer(w, id)

Fairness ==
    /\ WF_vars(Tick)
    /\ WF_vars(RecoverInflight)
    /\ \A w \in Workers :
          /\ WF_vars(ClaimDue(w))
          /\ \A id \in 1..MaxMessages : WF_vars(Progress(w, id))

FairSpec == Spec /\ Fairness

Is(id, status) == id \in DOMAIN rows /\ rows[id].status = status

\* A row does not stay inflight for ever, even when the worker that claimed
\* it died without a report.
OrphansRecovered ==
    \A id \in 1..MaxMessages : Is(id, "inflight") ~> ~Is(id, "inflight")

WorkerDies == \E w \in Workers : Crash(w)

\* A claim that is full leaves due rows behind, and yet each of them is
\* eventually claimed (or goes away), as long as workers do not die for ever:
\* a row that comes back by a failure, a deferral, retry_dead or an enqueue of
\* its key queues behind those that became due before.  (A row whose worker
\* dies keeps its place, so one that kills every worker starves the others.)
PendingIsClaimed ==
    <>[][~WorkerDies]_vars =>
        \A id \in 1..MaxMessages : Is(id, "pending") ~> ~Is(id, "pending")
=============================================================================
