--------------------------- MODULE PendingInvites ---------------------------
(***************************************************************************)
(* PendingRoomInviteStore of xmpp/pending_invites.py: a cache of room      *)
(* invites with an index by (room, inviter), in front of the table         *)
(* room_invites.                                                           *)
(*                                                                         *)
(* An asyncio.Lock serialises the store's methods, so one call is under    *)
(* way at a time ("call").  Every statement sent to the database is a step *)
(* of its own: after it the call may raise (the statement failed late, or  *)
(* the task was cancelled while it awaited), the process may stop, and     *)
(* available() may change its answer.  Without a database a call has no    *)
(* await and is one step.                                                  *)
(*                                                                         *)
(* An invite is its key and the day it was created, relative to today and  *)
(* clamped at -Horizon; days pass between calls, not within one.  The      *)
(* reason, which no decision reads, and the mapping compatibility of the   *)
(* dataclass are left out.                                                 *)
(***************************************************************************)
EXTENDS Integers, FiniteSets, FiniteSetsExt, Tables

CONSTANTS
    InviteKeys,   \* normalised (room_jid, inviter) pairs
    None,         \* Python's None
    Ages,         \* values of max_age_days; 0 keeps invites for ever
    Horizon,      \* bound: oldest creation day told apart
    MaxId,        \* bound: ids ever assigned
    MaxAdopted    \* bound: invites adopted at once

Ids == 1..MaxId
Invite == [key : InviteKeys, created : -Horizon..0]

ASSUME InvitesAssumption ==
    /\ None \notin InviteKeys \cup Invite
    /\ Ages \subseteq Nat
    /\ MaxId \in Nat /\ MaxAdopted \in Nat
    /\ Horizon \in Nat /\ \A age \in Ages : age < Horizon

VARIABLES
    db,       \* table room_invites: id -> invite
    dbLast,   \* sqlite_sequence: the largest id ever assigned
    up,       \* what available() answers
    pending,  \* cache: id -> invite
    index,    \* cache: key -> id
    nextId,   \* next_id
    call,     \* the call that has the lock, NoCall between calls
    answer,   \* what the last store() returned, None otherwise
    lapse     \* history: what has happened to the cache since it was last built
              \* anew: "torn" when a call raised between a DELETE and its cache
              \* update, "mixed" when the database came back to it, or when adopt()
              \* put other invites in front of a database or under a call

vars == <<db, dbLast, up, pending, index, nextId, call, answer, lapse>>

Expired(invite, age) == age > 0 /\ invite.created < -age

ExpiredIn(table, age) == {id \in DOMAIN table : Expired(table[id], age)}

Caching == <<pending, index, nextId>>

-----------------------------------------------------------------------------
(***************************************************************************)
(* The cache.                                                              *)
(***************************************************************************)
\* Fault: next_id is not advanced past the id.
CacheOnly(id, invite) ==
    /\ pending' = Put(pending, id, invite)
    /\ index' = Put(index, invite.key, id)
    /\ UNCHANGED nextId

\* _cache
Cache(id, invite) ==
    LET previous == IF invite.key \in DOMAIN index
                    THEN {index[invite.key]} \ {id} ELSE {}
    IN  /\ pending' = Put(Drop(pending, previous), id, invite)
        /\ index' = Put(index, invite.key, id)
        /\ nextId' = IF id + 1 > nextId THEN id + 1 ELSE nextId

\* _replace_cache: of the invites with one key the one with the least id stays.
ReplaceCache(source) ==
    LET IdsOf(key) == {id \in DOMAIN source : source[id].key = key}
        keys == {source[id].key : id \in DOMAIN source}
    IN  /\ index' = [key \in keys |-> Min(IdsOf(key))]
        /\ pending' = [id \in {Min(IdsOf(key)) : key \in keys} |-> source[id]]
        /\ nextId' = 1 + Max({0} \cup DOMAIN source)

\* Fault: the index keeps the key.
ForgetKeepsIndex(id, key) ==
    /\ pending' = Drop(pending, {id})
    /\ UNCHANGED <<index, nextId>>

\* pending.pop(id, None) and index.pop(key, None)
Forget(id, key) ==
    /\ pending' = Drop(pending, {id})
    /\ index' = Drop(index, {key})
    /\ UNCHANGED nextId

ClearCache == pending' = Empty /\ index' = Empty /\ nextId' = 1

Known(key) == key \in DOMAIN index /\ index[key] \in DOMAIN pending

-----------------------------------------------------------------------------
(***************************************************************************)
(* Calls.  kind says what to go on with after a nested _delete_unlocked,   *)
(* awaits whether the call found the database usable when it began, found  *)
(* is the invite or the rows that it read.                                 *)
(***************************************************************************)
Call(kind, at, key, id, age, found) ==
    [kind |-> kind, at |-> at, key |-> key, id |-> id, age |-> age,
     awaits |-> up, found |-> found, created |-> FALSE]

NoCall == [kind |-> "none", at |-> "done", key |-> None, id |-> None, age |-> 0,
           awaits |-> FALSE, found |-> None, created |-> FALSE]

At(kind, stage) == call # NoCall /\ call.kind = kind /\ call.at = stage

Begin(kind, at, key, id, age, found) ==
    /\ call = NoCall
    /\ call' = Call(kind, at, key, id, age, found)
    /\ answer' = None

GoTo(stage) == call' = [call EXCEPT !.at = stage] /\ UNCHANGED answer

Return == call' = NoCall /\ UNCHANGED answer

Answer(key, age, invite, id, created) ==
    /\ call' = NoCall
    /\ answer' = [key |-> key, age |-> age, invite |-> invite, id |-> id,
                  created |-> created]

(***************************************************************************)
(* store()                                                                 *)
(***************************************************************************)
StoreCall ==
    \E key \in InviteKeys, age \in Ages :
        LET id == index[key] IN
        \/ /\ Known(key) /\ ~Expired(pending[id], age)
           /\ call = NoCall
           /\ Answer(key, age, pending[id], id, FALSE)
           /\ UNCHANGED <<db, dbLast, up, Caching>>
        \/ /\ Known(key) /\ Expired(pending[id], age)
           /\ Begin("store", IF up THEN "lookup" ELSE "forget",
                    key, id, age, pending[id])
           /\ UNCHANGED <<db, dbLast, up, Caching>>
        \/ /\ ~Known(key)
           /\ Begin("store", "decide", key, None, age, None)
           /\ UNCHANGED <<db, dbLast, up, Caching>>

\* With no database the cache assigns the id.
StoreLocally ==
    LET invite == [key |-> call.key, created |-> 0] IN
    /\ At("store", "decide") /\ ~up
    /\ nextId <= MaxId
    /\ Cache(nextId, invite)
    /\ Answer(call.key, call.age, invite, nextId, TRUE)
    /\ UNCHANGED <<db, dbLast, up>>

StoreDurably ==
    /\ At("store", "decide") /\ up
    /\ GoTo("insert")
    /\ UNCHANGED <<db, dbLast, up, Caching>>

NextRowId == dbLast + 1

RowsOf(key) == {id \in DOMAIN db : db[id].key = key}

\* insert_if_absent raises when the database is gone by now.
InsertRefused ==
    /\ At("store", "insert") /\ ~up
    /\ Return
    /\ UNCHANGED <<db, dbLast, up, Caching>>

\* Fault: whatever INSERT did counts as one affected row.
InsertCountsAlways ==
    /\ At("store", "insert") /\ up
    /\ IF RowsOf(call.key) = {}
       THEN /\ dbLast < MaxId
            /\ db' = Put(db, NextRowId, [key |-> call.key, created |-> 0])
            /\ dbLast' = NextRowId
       ELSE UNCHANGED <<db, dbLast>>
    /\ call' = [call EXCEPT !.at = "reload", !.created = TRUE]
    /\ UNCHANGED <<up, Caching, answer>>

\* INSERT .. ON CONFLICT(room_jid, inviter) DO NOTHING
InsertIfAbsent ==
    /\ At("store", "insert") /\ up
    /\ IF RowsOf(call.key) = {}
       THEN /\ dbLast < MaxId
            /\ db' = Put(db, NextRowId, [key |-> call.key, created |-> 0])
            /\ dbLast' = NextRowId
            /\ call' = [call EXCEPT !.at = "reload", !.created = TRUE]
       ELSE /\ call' = [call EXCEPT !.at = "reload", !.created = FALSE]
            /\ UNCHANGED <<db, dbLast>>
    /\ UNCHANGED <<up, Caching, answer>>

\* Fault: an expired row that is already there is handed out.
ReloadUnchecked ==
    /\ At("store", "reload")
    /\ \E id \in RowsOf(call.key) :
        /\ Cache(id, db[id])
        /\ Answer(call.key, call.age, db[id], id, call.created)
    /\ UNCHANGED <<db, dbLast, up>>

\* SELECT by key.  A row that was there and has expired is replaced, once.
Reload ==
    /\ At("store", "reload")
    /\ \E id \in RowsOf(call.key) :
        IF ~call.created /\ Expired(db[id], call.age) /\ call.found = None
        THEN /\ call' = [call EXCEPT !.at = "replace", !.id = id, !.found = db[id]]
             /\ UNCHANGED <<Caching, answer>>
        ELSE /\ Cache(id, db[id])
             /\ Answer(call.key, call.age, db[id], id, call.created)
    /\ UNCHANGED <<db, dbLast, up>>

\* DELETE by id, without effect when the database is gone.
DeleteRows(S) == db' = IF up THEN Drop(db, S) ELSE db

Replace ==
    /\ At("store", "replace")
    /\ DeleteRows({call.id})
    /\ GoTo("renew")
    /\ UNCHANGED <<dbLast, up, Caching>>

Renew ==
    /\ At("store", "renew")
    /\ Forget(call.id, call.found.key)
    /\ GoTo("insert")
    /\ UNCHANGED <<db, dbLast, up>>

(***************************************************************************)
(* delete(), and the removal of an expired invite inside store().          *)
(***************************************************************************)
\* pending.get(invite_id), read before the first await.
Cached(id) == IF id \in DOMAIN pending THEN pending[id] ELSE None

DeleteCall ==
    \E id \in Ids :
        /\ Begin("delete", IF up THEN "lookup" ELSE "forget", None, id, 0, Cached(id))
        /\ UNCHANGED <<db, dbLast, up, Caching>>

Lookup ==
    /\ call # NoCall /\ call.at = "lookup"
    /\ call' = [call EXCEPT !.at = "delete",
                  !.found = IF @ = None /\ up /\ call.id \in DOMAIN db
                            THEN db[call.id] ELSE @]
    /\ UNCHANGED <<db, dbLast, up, Caching, answer>>

DeleteRow ==
    /\ call # NoCall /\ call.at = "delete"
    /\ DeleteRows({call.id})
    /\ GoTo("forget")
    /\ UNCHANGED <<dbLast, up, Caching>>

\* The cache gives up what the call found, whatever it holds by now.
ForgetInvite ==
    /\ call # NoCall /\ call.at = "forget"
    /\ IF call.found = None THEN UNCHANGED Caching
                            ELSE Forget(call.id, call.found.key)
    /\ IF call.kind = "store"
       THEN call' = [call EXCEPT !.at = "decide", !.found = None]
       ELSE call' = NoCall
    /\ UNCHANGED <<db, dbLast, up, answer>>

(***************************************************************************)
(* load() and cleanup_expired()                                            *)
(***************************************************************************)
Active(table, age) == Drop(table, ExpiredIn(table, age))

LoadCall ==
    \E age \in Ages :
        \/ /\ up
           /\ Begin("load", "read", None, None, age, None)
           /\ UNCHANGED <<db, dbLast, up, Caching, lapse>>
        \/ /\ ~up /\ call = NoCall
           /\ ReplaceCache(Active(pending, age))
           /\ answer' = None /\ lapse' = "none"
           /\ UNCHANGED <<db, dbLast, up, call>>

\* load_all returns no rows when the database is gone by now.
ReadAll ==
    /\ At("load", "read")
    /\ LET source == IF up THEN db ELSE Empty IN
        IF ExpiredIn(source, call.age) # {} /\ up
        THEN /\ call' = [call EXCEPT !.at = "purge", !.found = source]
             /\ UNCHANGED <<Caching, answer, lapse>>
        ELSE /\ ReplaceCache(Active(source, call.age)) /\ lapse' = "none"
             /\ Return
    /\ UNCHANGED <<db, dbLast, up>>

Purge ==
    /\ At("load", "purge")
    /\ DeleteRows(ExpiredIn(call.found, call.age))
    /\ GoTo("rebuild")
    /\ UNCHANGED <<dbLast, up, Caching, lapse>>

Rebuild ==
    /\ At("load", "rebuild")
    /\ ReplaceCache(Active(call.found, call.age)) /\ lapse' = "none"
    /\ Return
    /\ UNCHANGED <<db, dbLast, up>>

(***************************************************************************)
(* clear(), and adopt() of runtime state kept elsewhere.                   *)
(***************************************************************************)
ClearCall ==
    /\ Begin("clear", IF up THEN "wipe" ELSE "reset", None, None, 0, None)
    /\ UNCHANGED <<db, dbLast, up, Caching, lapse>>

Wipe ==
    /\ At("clear", "wipe")
    /\ DeleteRows(DOMAIN db)
    /\ GoTo("reset")
    /\ UNCHANGED <<dbLast, up, Caching, lapse>>

\* Fault: clear() empties the cache only when there is no database.
ResetSkipped ==
    /\ At("clear", "reset")
    /\ IF call.awaits THEN UNCHANGED Caching ELSE ClearCache
    /\ Return /\ lapse' = "none"
    /\ UNCHANGED <<db, dbLast, up>>

Reset ==
    /\ At("clear", "reset")
    /\ ClearCache
    /\ Return /\ lapse' = "none"
    /\ UNCHANGED <<db, dbLast, up>>

\* A call that has gone to the database is at an await; up to there, and in a
\* call without a database, nothing else runs.
Suspended == call = NoCall \/ (call.awaits /\ call.at # "decide")

\* adopt() takes no lock, has no await and asks nobody whether there is a
\* database.  Each invite is given under its own id.
Adopt ==
    /\ Suspended
    /\ \E ids \in SUBSET Ids :
        /\ Cardinality(ids) <= MaxAdopted
        /\ \E source \in [ids -> Invite] : ReplaceCache(source)
    /\ lapse' = IF up \/ call # NoCall THEN "mixed" ELSE "none"
    /\ answer' = None
    /\ UNCHANGED <<db, dbLast, up, call>>

-----------------------------------------------------------------------------
(***************************************************************************)
(* The world around a call.                                                *)
(***************************************************************************)
AfterDeletion == {"forget", "renew", "rebuild", "reset"}

\* A call that has no database has no await to raise at.
Raise ==
    /\ call # NoCall /\ call.awaits
    /\ Return
    /\ lapse' = IF lapse = "none" /\ call.at \in AfterDeletion THEN "torn" ELSE lapse
    /\ UNCHANGED <<db, dbLast, up, Caching>>

\* The cache of a new process is empty.
Restart ==
    /\ ClearCache
    /\ call' = NoCall /\ answer' = None /\ lapse' = "none"
    /\ UNCHANGED <<db, dbLast, up>>

\* available() changes its answer.
Flap ==
    /\ up' = ~up
    /\ lapse' = IF up THEN lapse ELSE "mixed"
    /\ UNCHANGED <<db, dbLast, Caching, call, answer>>

Older(table) ==
    [id \in DOMAIN table |->
        [table[id] EXCEPT !.created = IF @ = -Horizon THEN @ ELSE @ - 1]]

NewDay ==
    /\ call = NoCall
    /\ db' = Older(db) /\ pending' = Older(pending)
    /\ answer' = None
    /\ UNCHANGED <<dbLast, up, index, nextId, call, lapse>>

Init ==
    /\ db = Empty /\ dbLast = 0
    /\ up \in BOOLEAN
    /\ pending = Empty /\ index = Empty /\ nextId = 1
    /\ call = NoCall /\ answer = None
    /\ lapse = "none"

Store == \/ StoreCall \/ StoreLocally \/ StoreDurably \/ InsertRefused
         \/ InsertIfAbsent \/ Reload \/ Replace \/ Renew

Removal == DeleteCall \/ Lookup \/ DeleteRow \/ ForgetInvite

Loading == LoadCall \/ ReadAll \/ Purge \/ Rebuild

Clearing == ClearCall \/ Wipe \/ Reset

Next ==
    \/ (Store \/ Removal) /\ UNCHANGED lapse
    \/ Loading \/ Clearing \/ Adopt
    \/ Raise \/ Restart \/ Flap \/ NewDay

Spec == Init /\ [][Next]_vars

-----------------------------------------------------------------------------
(***************************************************************************)
(* Properties.                                                             *)
(***************************************************************************)
TableOf(f) == /\ DOMAIN f \subseteq Nat \ {0}
              /\ \A id \in DOMAIN f : f[id] \in Invite

\* The table, the cache and its counter have their types, and next_id is
\* above every id in the cache.
TypeOK ==
    /\ TableOf(db) /\ TableOf(pending)
    /\ DOMAIN db \subseteq 1..dbLast
    /\ \A id \in DOMAIN pending : id < nextId
    /\ \A key \in DOMAIN index : key \in InviteKeys /\ index[key] \in Nat

\* The index and the cache are inverse to each other, whichever call raised at
\* whichever statement: no id is listed under two keys, no key points to an
\* invite that is gone or to another key's invite.  Ids of two origins meet when
\* a database comes back after an outage or adopt() is used beside one, and then
\* this may fail, but load(), clear() or a restart always restores it.
IndexAgrees ==
    lapse = "mixed" \/
    /\ \A key \in DOMAIN index :
           /\ index[key] \in DOMAIN pending
           /\ pending[index[key]].key = key
    /\ \A id \in DOMAIN pending :
           /\ pending[id].key \in DOMAIN index
           /\ index[pending[id].key] = id

\* The cache as a whole: types, and an index that agrees with it.
CacheInv == TypeOK /\ IndexAgrees

\* store() answers with an active invite of the key it was asked for ("created
\* is false when the same active (room_jid, inviter) invite already existed"),
\* as long as the index can be trusted: an expired invite is replaced wherever
\* it is, in the cache or only in the table.
AnswersTheRequest ==
    answer # None /\ lapse # "mixed" =>
        /\ answer.invite.key = answer.key
        /\ ~Expired(answer.invite, answer.age)

\* An invite that store() reports as created is the one that was asked for and
\* begins its life now, even when the database comes and goes between any two
\* statements: the bot announces it once, with a full lifetime ahead.
CreatedIsFresh ==
    answer # None /\ answer.created =>
        answer.invite = [key |-> answer.key, created |-> 0]

\* An invite that store() answered with is in the table, so that it is still
\* there after a restart, if since the cache was last built by load(), clear() or
\* a restart no call has raised between a DELETE and the update of the cache, the
\* database has not come back, and adopt() has not been used beside it.
AnswersAreDurable ==
    up /\ answer # None /\ lapse = "none" =>
        answer.id \in DOMAIN db /\ db[answer.id] = answer.invite

\* What store() answers is right, new if it says so, and there to stay.
AnswersHold == AnswersTheRequest /\ CreatedIsFresh /\ AnswersAreDurable
=============================================================================
