------------------------ MODULE PendingInvitesProofs ------------------------
(***************************************************************************)
(* The invite cache agrees with itself and with the table, and what        *)
(* store() answers holds, for any keys, ages and numbers of ids: an        *)
(* inductive invariant of PendingInvites.                                  *)
(***************************************************************************)
EXTENDS PendingInvites, WellFoundedInduction, TLAPS

-----------------------------------------------------------------------------
(***************************************************************************)
(* Tables.                                                                 *)
(***************************************************************************)
\* Setting an entry of a dict.
LEMMA PutFacts ==
  ASSUME NEW f, NEW k, NEW v
  PROVE  /\ DOMAIN Put(f, k, v) = DOMAIN f \cup {k}
         /\ Put(f, k, v)[k] = v
         /\ \A x \in DOMAIN f : x # k => Put(f, k, v)[x] = f[x]
  BY DEF Put

\* Removing entries of a dict.
LEMMA DropFacts ==
  ASSUME NEW f, NEW S
  PROVE  /\ DOMAIN Drop(f, S) = DOMAIN f \ S
         /\ \A x \in DOMAIN f \ S : Drop(f, S)[x] = f[x]
  BY DEF Drop

\* The empty dict.
LEMMA EmptyFacts == DOMAIN Empty = {}
  BY DEF Empty

\* A table with one more invite.
LEMMA PutTable ==
  ASSUME NEW f, TableOf(f), NEW id \in Nat \ {0}, NEW invite \in Invite
  PROVE  TableOf(Put(f, id, invite))
  BY DEF Put, TableOf

\* A table with fewer invites.
LEMMA DropTable ==
  ASSUME NEW f, TableOf(f), NEW S PROVE TableOf(Drop(f, S))
  BY DEF Drop, TableOf

\* The invites of a table that are not too old.
LEMMA ActiveTable ==
  ASSUME NEW f, TableOf(f), NEW age
  PROVE  /\ TableOf(Active(f, age)) /\ DOMAIN Active(f, age) \subseteq DOMAIN f
         /\ \A x \in DOMAIN Active(f, age) : Active(f, age)[x] = f[x]
  BY DropTable DEF Active, Drop

\* A set of naturals has a least member.
LEMMA LeastNatural ==
  ASSUME NEW S \in SUBSET Nat, S # {}
  PROVE  \E m \in S : \A k \in S : m <= k
<1>1. PICK m \in S : \A k \in S : <<k, m>> \notin OpToRel(<, Nat)
  BY NatLessThanWellFounded, WFMin
<1>2. \A k \in S : ~(k < m)
  BY <1>1 DEF OpToRel
<1> QED BY <1>2

\* The least member of a set of naturals is in it.
LEMMA MinFacts ==
  ASSUME NEW S \in SUBSET Nat, S # {} PROVE Min(S) \in S
  BY LeastNatural DEF Min

\* The greatest of a bounded set of naturals bounds it.
LEMMA MaxFacts ==
  ASSUME NEW n \in Nat, NEW S \in SUBSET (1..n)
  PROVE  /\ Max({0} \cup S) \in Nat
         /\ \A x \in S : x <= Max({0} \cup S)
<1> DEFINE T == {0} \cup S
           Bounds == {m \in 0..n : \A x \in T : x <= m}
<1>1. T \in SUBSET (0..n) /\ T # {}
  OBVIOUS
<1>2. n \in Bounds
  BY <1>1
<1>3. PICK m \in Bounds : \A k \in Bounds : m <= k
  <2>1. Bounds \in SUBSET Nat /\ Bounds # {}
    BY <1>2
  <2> HIDE DEF Bounds
  <2> QED BY <2>1, LeastNatural
<1>4. m \in T
  <2> SUFFICES ASSUME m \notin T PROVE FALSE
    OBVIOUS
  <2>1. m # 0 /\ m - 1 \in 0..n
    OBVIOUS
  <2>2. \A x \in T : x <= m - 1
    BY <1>1
  <2> QED BY <1>3, <2>1, <2>2
<1> HIDE DEF T
<1>5. \E x \in T : \A y \in T : x >= y
  BY <1>1, <1>4
<1>6. Max(T) \in T /\ \A y \in T : Max(T) >= y
  BY <1>5 DEF Max
<1>7. T \subseteq Nat /\ S \subseteq T
  BY DEF T
<1> DEFINE greatest == Max(T)
<1> HIDE DEF greatest
<1>8. greatest \in Nat /\ \A x \in S : x <= greatest
  <2>1. greatest \in T /\ \A y \in T : greatest >= y
    BY <1>6 DEF greatest
  <2> QED BY <1>7, <2>1
<1> QED BY <1>8 DEF T, greatest

-----------------------------------------------------------------------------
(***************************************************************************)
(* The invariant.                                                          *)
(***************************************************************************)
\* The index and the cache are inverse to each other.
Fits(idx, cache) ==
    /\ \A key \in DOMAIN idx : idx[key] \in DOMAIN cache /\ cache[idx[key]].key = key
    /\ \A id \in DOMAIN cache : cache[id].key \in DOMAIN idx /\ idx[cache[id].key] = id

\* The ids of the cache are those of the table, where it has the same keys.
Aligned(table, last, cache) ==
    \A id \in DOMAIN cache :
        id <= last /\ \A r \in DOMAIN table : r = id <=> table[r].key = cache[id].key

\* The unique index of the table
UniqueKeys(table) ==
    \A r, s \in DOMAIN table : table[r].key = table[s].key => r = s

\* Types of the cache
CacheTyped ==
    /\ TableOf(pending) /\ nextId \in Nat \ {0}
    /\ \A id \in DOMAIN pending : id < nextId
    /\ \A key \in DOMAIN index : key \in InviteKeys /\ index[key] \in Nat

\* Types of the table
TableTyped ==
    /\ TableOf(db) /\ dbLast \in Nat /\ DOMAIN db \subseteq 1..dbLast
    /\ UniqueKeys(db)
    /\ up \in BOOLEAN /\ lapse \in {"none", "torn", "mixed"}

\* The stages of the calls
StoreStages == {"decide", "insert", "reload", "replace", "renew"}
RemovalStages == {"lookup", "delete", "forget"}
AwaitStages == {"insert", "reload", "replace", "renew", "lookup", "delete", "read",
                "purge", "rebuild", "wipe"}

\* The call is a record.
CallRecord ==
    call = [kind |-> call.kind, at |-> call.at, key |-> call.key, id |-> call.id,
            age |-> call.age, awaits |-> call.awaits, found |-> call.found,
            created |-> call.created]

\* What a call is, and what it has read, whatever the database does meanwhile
CallInv ==
    /\ CallRecord /\ call.awaits \in BOOLEAN /\ call.created \in BOOLEAN
    /\ \/ call = NoCall
       \/ call.kind = "store" /\ call.at \in StoreStages \cup RemovalStages
       \/ call.kind = "delete" /\ call.at \in RemovalStages
       \/ call.kind = "load" /\ call.at \in {"read", "purge", "rebuild"}
       \/ call.kind = "clear" /\ call.at \in {"wipe", "reset"}
    /\ call.kind # "none" => answer = None
    /\ call.kind = "store" => call.key \in InviteKeys /\ call.age \in Nat
    /\ call.at = "reload" /\ call.created =>
          \A r \in RowsOf(call.key) : db[r] = [key |-> call.key, created |-> 0]
    /\ call.at = "decide" => call.found = None
    /\ call.at = "replace" => RowsOf(call.key) \subseteq {call.id}
    /\ call.at = "purge" => db = call.found
    /\ call.at = "rebuild" => db \in {call.found, Active(call.found, call.age)}

\* While the call can rely on the database, cache and table go together.
Synced == up \/ call.awaits => Aligned(db, dbLast, pending)

\* What the call has found, in a cache that nobody else has touched
InTouch ==
    /\ (up /\ call.kind # "none") \/ call.at \in AwaitStages => call.awaits
    /\ call.at \in StoreStages => call.key \notin DOMAIN index
    /\ call.kind = "store" /\ call.at \in RemovalStages =>
          call.id \in DOMAIN pending /\ pending[call.id].key = call.key
    /\ call.at \in RemovalStages /\ call.found = None => call.id \notin DOMAIN pending
    /\ call.at \in RemovalStages /\ call.found # None =>
          /\ call.id \in DOMAIN pending => pending[call.id].key = call.found.key
          /\ call.found.key \in DOMAIN index => index[call.found.key] = call.id
    /\ call.at \in {"replace", "renew"} =>
          call.found.key = call.key /\ call.id \notin DOMAIN pending
    /\ up /\ (call.at = "renew" \/ (call.at = "insert" /\ call.found # None)) =>
          RowsOf(call.key) = {}
    /\ call.at = "reload" /\ ~call.created => call.found = None

\* What holds while the cache has one origin only
Connected ==
    lapse # "mixed" => Fits(index, pending) /\ Synced /\ InTouch

\* The rows of the cache are those of the table, but for what the call under
\* way has deleted.
Mirror ==
    lapse = "none" /\ up => \A id \in DOMAIN pending :
        \/ id \in DOMAIN db /\ db[id] = pending[id]
        \/ call.at \in {"rebuild", "reset"}
        \/ call.at = "forget" /\ id = call.id

\* The inductive invariant
InvitesInv ==
    TableTyped /\ CacheTyped /\ CallInv /\ Connected /\ Mirror /\ AnswersHold

-----------------------------------------------------------------------------
(***************************************************************************)
(* What the helpers of the cache do.                                       *)
(***************************************************************************)
\* _cache() adds one invite, and takes away the one that had its id.
LEMMA CacheEffect ==
  ASSUME CacheTyped, NEW id \in Nat \ {0}, NEW invite \in Invite, Cache(id, invite)
  PROVE  /\ CacheTyped'
         /\ pending'[id] = invite /\ id \in DOMAIN pending'
         /\ \A x \in DOMAIN pending' : x = id \/ (x \in DOMAIN pending /\ pending'[x] = pending[x])
         /\ Fits(index, pending) /\ (id \in DOMAIN pending => pending[id].key = invite.key)
               => Fits(index', pending')
<1> DEFINE previous == IF invite.key \in DOMAIN index THEN {index[invite.key]} \ {id} ELSE {}
           less == Drop(pending, previous)
<1>1. /\ pending' = Put(less, id, invite) /\ index' = Put(index, invite.key, id)
      /\ nextId' = IF id + 1 > nextId THEN id + 1 ELSE nextId
  BY DEF Cache
<1>2. DOMAIN less = DOMAIN pending \ previous /\ \A x \in DOMAIN less : less[x] = pending[x]
  BY DEF Drop
<1>3. TableOf(less)
  BY DropTable DEF CacheTyped
<1>4. invite.key \in InviteKeys
  BY DEF Invite
<1> HIDE DEF less
<1>5. /\ DOMAIN pending' = DOMAIN less \cup {id} /\ pending'[id] = invite
      /\ \A x \in DOMAIN less : x # id => pending'[x] = less[x]
  BY <1>1 DEF Put
<1>6. /\ DOMAIN index' = DOMAIN index \cup {invite.key} /\ index'[invite.key] = id
      /\ \A k \in DOMAIN index : k # invite.key => index'[k] = index[k]
  BY <1>1 DEF Put
<1>7. TableOf(pending')
  BY <1>1, <1>3, PutTable
<1>8. CacheTyped'
  <2>1. nextId' \in Nat \ {0} /\ nextId' >= nextId /\ id < nextId'
    BY <1>1 DEF CacheTyped
  <2>2. \A x \in DOMAIN pending' : x < nextId'
    BY <1>2, <1>5, <2>1 DEF CacheTyped, TableOf
  <2>3. \A key \in DOMAIN index' : key \in InviteKeys /\ index'[key] \in Nat
    BY <1>4, <1>6 DEF CacheTyped
  <2> QED BY <1>7, <2>1, <2>2, <2>3 DEF CacheTyped
<1>9. ASSUME Fits(index, pending), id \in DOMAIN pending => pending[id].key = invite.key
      PROVE  Fits(index', pending')
  <2>1. ASSUME NEW key \in DOMAIN index'
        PROVE  index'[key] \in DOMAIN pending' /\ pending'[index'[key]].key = key
    <3>1. CASE key = invite.key
      BY <1>5, <1>6, <3>1
    <3>2. CASE key # invite.key
      <4>1. /\ key \in DOMAIN index /\ index'[key] = index[key]
            /\ index[key] \in DOMAIN pending /\ pending[index[key]].key = key
        BY <1>6, <1>9, <3>2 DEF Fits
      <4>2. index[key] # id /\ index[key] \notin previous
        BY <1>9, <3>2, <4>1 DEF Fits
      <4> QED BY <1>2, <1>5, <4>1, <4>2
    <3> QED BY <3>1, <3>2
  <2>2. ASSUME NEW x \in DOMAIN pending'
        PROVE  pending'[x].key \in DOMAIN index' /\ index'[pending'[x].key] = x
    <3>1. CASE x = id
      BY <1>5, <1>6, <3>1
    <3>2. CASE x # id
      <4>1. x \in DOMAIN pending /\ x \notin previous /\ pending'[x] = pending[x]
        BY <1>2, <1>5, <3>2
      <4>2. pending[x].key \in DOMAIN index /\ index[pending[x].key] = x
        BY <1>9, <4>1 DEF Fits
      <4>3. pending[x].key # invite.key
        BY <3>2, <4>1, <4>2
      <4> QED BY <1>6, <4>1, <4>2, <4>3
    <3> QED BY <3>1, <3>2
  <2> QED BY <2>1, <2>2 DEF Fits
<1> QED BY <1>2, <1>5, <1>8, <1>9

\* _forget() removes an id and a key, which keeps the index if they belong
\* together.
LEMMA ForgetEffect ==
  ASSUME CacheTyped, NEW id, NEW key, Forget(id, key)
  PROVE  /\ CacheTyped'
         /\ DOMAIN pending' = DOMAIN pending \ {id} /\ DOMAIN index' = DOMAIN index \ {key}
         /\ \A x \in DOMAIN pending' : pending'[x] = pending[x]
         /\ \A k \in DOMAIN index' : index'[k] = index[k]
         /\ Fits(index, pending) /\ (id \in DOMAIN pending => pending[id].key = key)
                                 /\ (key \in DOMAIN index => index[key] = id)
               => Fits(index', pending')
<1>1. /\ DOMAIN pending' = DOMAIN pending \ {id} /\ DOMAIN index' = DOMAIN index \ {key}
      /\ \A x \in DOMAIN pending' : pending'[x] = pending[x]
      /\ \A k \in DOMAIN index' : index'[k] = index[k]
      /\ nextId' = nextId
  BY DEF Drop, Forget
<1>2. TableOf(pending')
  BY DropTable DEF Forget, CacheTyped
<1>3. CacheTyped'
  BY <1>1, <1>2 DEF CacheTyped
<1>4. ASSUME Fits(index, pending), id \in DOMAIN pending => pending[id].key = key,
             key \in DOMAIN index => index[key] = id
      PROVE  Fits(index', pending')
  BY <1>1, <1>4 DEF Fits
<1> QED BY <1>1, <1>3, <1>4

\* _replace_cache() keeps one invite per key, as it is in the rows.
LEMMA ReplaceEffect ==
  ASSUME NEW source, TableOf(source), NEW n \in Nat, DOMAIN source \subseteq 1..n,
         ReplaceCache(source)
  PROVE  /\ CacheTyped' /\ Fits(index', pending')
         /\ \A x \in DOMAIN pending' : x \in DOMAIN source /\ pending'[x] = source[x]
<1> DEFINE IdsOf(key) == {id \in DOMAIN source : source[id].key = key}
           keys == {source[id].key : id \in DOMAIN source}
           ids == {Min(IdsOf(key)) : key \in keys}
           greatest == Max({0} \cup DOMAIN source)
<1>1. /\ index' = [key \in keys |-> Min(IdsOf(key))]
      /\ pending' = [id \in ids |-> source[id]]
      /\ nextId' = 1 + greatest
  BY DEF ReplaceCache
<1>2. ASSUME NEW key \in keys
      PROVE  Min(IdsOf(key)) \in DOMAIN source /\ source[Min(IdsOf(key))].key = key
  <2>1. IdsOf(key) \in SUBSET Nat /\ IdsOf(key) # {}
    BY DEF TableOf
  <2> HIDE DEF IdsOf
  <2>2. Min(IdsOf(key)) \in IdsOf(key)
    BY <2>1, MinFacts
  <2> QED BY <2>2 DEF IdsOf
<1>3. greatest \in Nat /\ \A x \in DOMAIN source : x <= greatest
  BY MaxFacts
<1>4. \A key \in keys : key \in InviteKeys
  BY DEF TableOf, Invite
<1> HIDE DEF IdsOf, greatest
<1>5. /\ DOMAIN index' = keys /\ \A key \in keys : index'[key] = Min(IdsOf(key))
      /\ DOMAIN pending' = ids /\ \A id \in ids : pending'[id] = source[id]
  BY <1>1
<1>6. \A id \in ids : id \in DOMAIN source /\ id = Min(IdsOf(source[id].key))
                      /\ source[id].key \in keys
  BY <1>2
<1> HIDE DEF keys, ids
<1>7. Fits(index', pending')
  <2>1. \A key \in keys : Min(IdsOf(key)) \in ids
    BY DEF ids
  <2> QED BY <1>2, <1>5, <1>6, <2>1 DEF Fits
<1>8. CacheTyped'
  <2>1. TableOf(pending')
    BY <1>5, <1>6 DEF TableOf
  <2>2. nextId' \in Nat \ {0} /\ \A x \in DOMAIN source : x < nextId'
    BY <1>1, <1>3 DEF TableOf
  <2>3. \A key \in keys : Min(IdsOf(key)) \in Nat
    BY <1>2 DEF TableOf
  <2> QED BY <1>4, <1>5, <1>6, <2>1, <2>2, <2>3 DEF CacheTyped
<1> QED BY <1>5, <1>6, <1>7, <1>8

\* An emptied cache is in order.
LEMMA ClearEffect ==
  ASSUME ClearCache
  PROVE  CacheTyped' /\ Fits(index', pending') /\ DOMAIN pending' = {} /\ DOMAIN index' = {}
<1>1. DOMAIN pending' = {} /\ DOMAIN index' = {} /\ nextId' = 1
  BY EmptyFacts DEF ClearCache
<1> QED BY <1>1 DEF CacheTyped, TableOf, Fits

\* DELETE removes rows if the database is there.
LEMMA DeleteEffect ==
  ASSUME TableTyped, NEW S, DeleteRows(S), UNCHANGED <<dbLast, up, lapse>>
  PROVE  /\ TableTyped'
         /\ \A r \in DOMAIN db' : r \in DOMAIN db /\ db'[r] = db[r]
         /\ \A r \in DOMAIN db : r \notin S => r \in DOMAIN db'
         /\ up => DOMAIN db' = DOMAIN db \ S /\ db' = Drop(db, S)
         /\ ~up => db' = db
<1>1. /\ \A r \in DOMAIN db' : r \in DOMAIN db /\ db'[r] = db[r]
      /\ \A r \in DOMAIN db : r \notin S => r \in DOMAIN db'
      /\ up => DOMAIN db' = DOMAIN db \ S /\ db' = Drop(db, S)
      /\ ~up => db' = db
  BY DEF DeleteRows, Drop
<1>2. TableOf(db')
  BY <1>1 DEF TableOf, TableTyped
<1> QED BY <1>1, <1>2 DEF TableTyped, UniqueKeys

\* Fewer rows and fewer cached invites stay aligned.
LEMMA AlignedPart ==
  ASSUME NEW table, NEW last, NEW cache, Aligned(table, last, cache),
         NEW rows, \A r \in DOMAIN rows : r \in DOMAIN table /\ rows[r] = table[r],
         NEW part, \A x \in DOMAIN part : x \in DOMAIN cache /\ part[x] = cache[x]
  PROVE  Aligned(rows, last, part)
  BY DEF Aligned

\* A call that has not answered has nothing to answer for.
LEMMA NoAnswer == answer' = None => AnswersHold'
  BY DEF AnswersHold, AnswersTheRequest, CreatedIsFresh, AnswersAreDurable

\* The data stay as they are: what concerns the call alone is left to show.
LEMMA DataKept ==
  ASSUME InvitesInv, UNCHANGED <<db, dbLast, up, Caching, lapse>>
  PROVE  /\ TableTyped' /\ CacheTyped'
         /\ lapse # "mixed" => Fits(index', pending')
         /\ lapse # "mixed" /\ (up \/ call.awaits) => Aligned(db', dbLast', pending')
  BY DEF InvitesInv, TableTyped, CacheTyped, Connected, Synced, Caching

\* A call that moves on changes its stage only.
LEMMA CallGoesTo ==
  ASSUME CallInv, call.kind # "none", NEW stage, GoTo(stage)
  PROVE  /\ CallRecord' /\ call'.kind = call.kind /\ call'.at = stage /\ call'.key = call.key
         /\ call'.id = call.id /\ call'.age = call.age /\ call'.awaits = call.awaits
         /\ call'.found = call.found /\ call'.created = call.created /\ answer' = None
  BY DEF CallInv, CallRecord, GoTo

\* The fields of no call.
LEMMA NoCallFacts ==
  /\ NoCall.kind = "none" /\ NoCall.at = "done" /\ NoCall.awaits = FALSE
  /\ NoCall.created = FALSE
  /\ NoCall = [kind |-> NoCall.kind, at |-> NoCall.at, key |-> NoCall.key, id |-> NoCall.id,
               age |-> NoCall.age, awaits |-> NoCall.awaits, found |-> NoCall.found,
               created |-> NoCall.created]
  BY DEF NoCall

\* A call is under way or there is none.
LEMMA UnderWay ==
  ASSUME CallInv
  PROVE  /\ call # NoCall => call.kind # "none" /\ call.at # "done"
         /\ call = NoCall => call.kind = "none" /\ call.at = "done"
  BY NoCallFacts DEF CallInv, StoreStages, RemovalStages

\* A call that has ended leaves nothing to show of itself.
LEMMA CallEnds ==
  ASSUME call' = NoCall
  PROVE  CallInv' /\ InTouch' /\ (Synced' <=> (up' => Aligned(db', dbLast', pending')))
  BY NoCallFacts DEF CallInv, CallRecord, InTouch, Synced, StoreStages, RemovalStages, AwaitStages

-----------------------------------------------------------------------------
(***************************************************************************)
(* store()                                                                 *)
(***************************************************************************)
\* A call that begins.
LEMMA CallBegins ==
  ASSUME NEW kind, NEW at, NEW key, NEW id, NEW age, NEW found,
         Begin(kind, at, key, id, age, found)
  PROVE  /\ CallRecord' /\ call'.kind = kind /\ call'.at = at /\ call'.key = key
         /\ call'.id = id /\ call'.age = age /\ call'.awaits = up /\ call'.found = found
         /\ call'.created = FALSE /\ call = NoCall /\ answer' = None
  BY DEF Begin, Call, CallRecord

\* store() is called.
LEMMA StoreCallStep ==
  ASSUME InvitesInv, StoreCall, UNCHANGED lapse PROVE InvitesInv'
<1> USE DEF InvitesInv
<1>1. PICK key \in InviteKeys, age \in Ages :
        LET id == index[key] IN
        \/ /\ Known(key) /\ ~Expired(pending[id], age)
           /\ call = NoCall
           /\ Answer(key, age, pending[id], id, FALSE)
        \/ /\ Known(key) /\ Expired(pending[id], age)
           /\ Begin("store", IF up THEN "lookup" ELSE "forget", key, id, age, pending[id])
        \/ /\ ~Known(key)
           /\ Begin("store", "decide", key, None, age, None)
  BY DEF StoreCall
<1>2. UNCHANGED <<db, dbLast, up, Caching, lapse>>
  BY DEF StoreCall
<1>3. /\ TableTyped' /\ CacheTyped'
      /\ lapse # "mixed" => Fits(index', pending')
      /\ lapse # "mixed" /\ (up \/ call.awaits) => Aligned(db', dbLast', pending')
  BY <1>2, DataKept
<1>4. age \in Nat /\ up \in BOOLEAN
  BY InvitesAssumption DEF TableTyped
<1>5. CASE Known(key) /\ ~Expired(pending[index[key]], age) /\ call = NoCall
           /\ Answer(key, age, pending[index[key]], index[key], FALSE)
  <2> DEFINE id == index[key]
  <2>1. call' = NoCall /\ answer'.key = key /\ answer'.age = age /\ answer'.invite = pending[id]
        /\ answer'.id = id /\ answer'.created = FALSE
    BY <1>5 DEF Answer
  <2>2. CallInv' /\ Connected'
    BY <1>2, <1>3, <2>1, CallEnds DEF Connected
  <2>3. Mirror'
    BY <1>2, <1>5, <2>1 DEF Mirror, Caching
  <2>4. key \in DOMAIN index /\ id \in DOMAIN pending
    BY <1>5 DEF Known
  <2>5. AnswersTheRequest'
    BY <1>2, <1>5, <2>1, <2>4 DEF AnswersTheRequest, Connected, Fits
  <2>6. AnswersAreDurable'
    BY <1>2, <1>5, <2>1, <2>4, NoCallFacts DEF AnswersAreDurable, Mirror, Caching
  <2>7. CreatedIsFresh'
    BY <2>1 DEF CreatedIsFresh
  <2> QED BY <1>3, <2>2, <2>3, <2>5, <2>6, <2>7 DEF AnswersHold
<1>6. CASE /\ Known(key)
           /\ Begin("store", IF up THEN "lookup" ELSE "forget", key, index[key], age,
                    pending[index[key]])
  <2>1. /\ CallRecord' /\ call'.kind = "store" /\ call'.at = IF up THEN "lookup" ELSE "forget"
        /\ call'.key = key /\ call'.id = index[key] /\ call'.age = age /\ call'.awaits = up
        /\ call'.found = pending[index[key]] /\ call'.created = FALSE /\ call = NoCall /\ answer' = None
    <3> DEFINE at == IF up THEN "lookup" ELSE "forget"
               id == index[key]
               found == pending[id]
    <3>1. Begin("store", at, key, id, age, found)
      BY <1>6
    <3> HIDE DEF at, id, found
    <3>2. /\ CallRecord' /\ call'.kind = "store" /\ call'.at = at
          /\ call'.key = key /\ call'.id = id /\ call'.age = age /\ call'.awaits = up
          /\ call'.found = found /\ call'.created = FALSE /\ call = NoCall /\ answer' = None
      BY <3>1, CallBegins
    <3> QED BY <3>2 DEF at, id, found
  <2>2. CallInv'
    BY <1>4, <2>1 DEF CallInv, StoreStages, RemovalStages
  <2>3. Connected'
    <3>1. lapse # "mixed" => Synced'
      BY <1>2, <1>3, <2>1 DEF Synced
    <3>2. pending[index[key]] # None
      BY <1>6, InvitesAssumption DEF Known, CacheTyped, TableOf
    <3>3. lapse # "mixed" => InTouch'
      BY <1>2, <1>4, <1>6, <2>1, <3>2
      DEF InTouch, Connected, Fits, Known, Caching, AwaitStages, StoreStages, RemovalStages
    <3> QED BY <1>2, <1>3, <3>1, <3>3 DEF Connected
  <2>4. Mirror'
    BY <1>2, <2>1, NoCallFacts DEF Mirror, Caching
  <2> QED BY <1>3, <2>1, <2>2, <2>3, <2>4, NoAnswer
<1>7. CASE ~Known(key) /\ Begin("store", "decide", key, None, age, None)
  <2>1. /\ CallRecord' /\ call'.kind = "store" /\ call'.at = "decide"
        /\ call'.key = key /\ call'.id = None /\ call'.age = age /\ call'.awaits = up
        /\ call'.found = None /\ call'.created = FALSE /\ call = NoCall /\ answer' = None
    <3> DEFINE id == None
               found == None
    <3>1. Begin("store", "decide", key, id, age, found)
      BY <1>7
    <3> HIDE DEF id, found
    <3>2. /\ CallRecord' /\ call'.kind = "store" /\ call'.at = "decide"
          /\ call'.key = key /\ call'.id = id /\ call'.age = age /\ call'.awaits = up
          /\ call'.found = found /\ call'.created = FALSE /\ call = NoCall /\ answer' = None
      BY <3>1, CallBegins
    <3> QED BY <3>2 DEF id, found
  <2>2. CallInv'
    BY <1>4, <2>1 DEF CallInv, StoreStages
  <2>3. Connected'
    <3>1. lapse # "mixed" => Synced'
      BY <1>2, <1>3, <2>1 DEF Synced
    <3>2. lapse # "mixed" => key \notin DOMAIN index
      BY <1>7 DEF Connected, Fits, Known
    <3>3. lapse # "mixed" => InTouch'
      BY <1>2, <1>4, <2>1, <3>2 DEF InTouch, Caching, AwaitStages, RemovalStages
    <3> QED BY <1>2, <1>3, <3>1, <3>3 DEF Connected
  <2>4. Mirror'
    BY <1>2, <2>1, NoCallFacts DEF Mirror, Caching
  <2> QED BY <1>3, <2>1, <2>2, <2>3, <2>4, NoAnswer
<1> QED BY <1>1, <1>5, <1>6, <1>7

\* store() without a database.
LEMMA StoreLocallyStep ==
  ASSUME InvitesInv, StoreLocally, UNCHANGED lapse PROVE InvitesInv'
<1> USE DEF InvitesInv
<1> DEFINE invite == [key |-> call.key, created |-> 0]
<1>1. /\ call.kind = "store" /\ call.at = "decide" /\ ~up /\ UNCHANGED <<db, dbLast, up>>
      /\ Cache(nextId, invite) /\ call' = NoCall
      /\ answer'.key = call.key /\ answer'.age = call.age /\ answer'.invite = invite
      /\ answer'.id = nextId /\ answer'.created = TRUE
  BY DEF StoreLocally, At, Answer
<1>2. call.key \in InviteKeys /\ call.age \in Nat
  BY <1>1 DEF CallInv
<1>3. invite \in Invite
  BY <1>2, InvitesAssumption DEF Invite
<1>4. nextId \in Nat \ {0} /\ nextId \notin DOMAIN pending
  BY DEF CacheTyped, TableOf
<1> HIDE DEF invite
<1>5. CacheTyped' /\ (Fits(index, pending) => Fits(index', pending'))
  BY <1>1, <1>3, <1>4, CacheEffect
<1>6. TableTyped'
  BY <1>1 DEF TableTyped
<1>7. CallInv' /\ Connected'
  BY <1>1, <1>5, CallEnds DEF Connected
<1>8. Mirror'
  BY <1>1 DEF Mirror
<1>9. AnswersHold'
  <2>1. ~Expired(invite, call.age) /\ invite.key = call.key
    BY <1>2 DEF Expired, invite
  <2> QED BY <1>1, <2>1 DEF AnswersHold, AnswersTheRequest, CreatedIsFresh, AnswersAreDurable, invite
<1> QED BY <1>5, <1>6, <1>7, <1>8, <1>9

\* store() goes on to the database.
LEMMA StoreDurablyStep ==
  ASSUME InvitesInv, StoreDurably, UNCHANGED lapse PROVE InvitesInv'
<1> USE DEF InvitesInv
<1>1. call.kind = "store" /\ call.at = "decide" /\ up /\ GoTo("insert")
      /\ UNCHANGED <<db, dbLast, up, Caching, lapse>>
  BY DEF StoreDurably, At
<1>2. /\ CallRecord' /\ call'.kind = call.kind /\ call'.at = "insert" /\ call'.key = call.key
      /\ call'.id = call.id /\ call'.age = call.age /\ call'.awaits = call.awaits
      /\ call'.found = call.found /\ call'.created = call.created /\ answer' = None
  BY <1>1, CallGoesTo
<1>3. /\ TableTyped' /\ CacheTyped' /\ (lapse # "mixed" => Fits(index', pending'))
      /\ lapse # "mixed" /\ (up \/ call.awaits) => Aligned(db', dbLast', pending')
  BY <1>1, DataKept
<1>4. CallInv'
  BY <1>1, <1>2 DEF CallInv, StoreStages
<1>5. Connected'
  <2>1. lapse # "mixed" => Synced'
    BY <1>1, <1>2, <1>3 DEF Synced
  <2>2. lapse # "mixed" => InTouch'
    BY <1>1, <1>2 DEF Connected, InTouch, CallInv, Caching, StoreStages, RemovalStages, AwaitStages
  <2> QED BY <1>1, <1>3, <2>1, <2>2 DEF Connected
<1>6. Mirror'
  BY <1>1, <1>2 DEF Mirror, Caching
<1> QED BY <1>2, <1>3, <1>4, <1>5, <1>6, NoAnswer

\* INSERT OR IGNORE finds a row of that key.
LEMMA InsertRefusedStep ==
  ASSUME InvitesInv, InsertRefused, UNCHANGED lapse PROVE InvitesInv'
<1> USE DEF InvitesInv
<1>1. call.kind = "store" /\ call.at = "insert" /\ call' = NoCall /\ answer' = None /\ ~up
      /\ UNCHANGED <<db, dbLast, up, Caching, lapse>>
  BY DEF InsertRefused, At, Return, CallInv
<1>2. TableTyped' /\ CacheTyped' /\ (lapse # "mixed" => Fits(index', pending'))
  BY <1>1, DataKept
<1>3. CallInv' /\ Connected' /\ Mirror'
  BY <1>1, <1>2, CallEnds DEF Connected, Mirror
<1> QED BY <1>1, <1>2, <1>3, NoAnswer

\* INSERT OR IGNORE adds a row, or finds one.
LEMMA InsertIfAbsentStep ==
  ASSUME InvitesInv, InsertIfAbsent, UNCHANGED lapse PROVE InvitesInv'
<1> USE DEF InvitesInv
<1> DEFINE row == [key |-> call.key, created |-> 0]
           new == RowsOf(call.key) = {}
<1>1. /\ call.kind = "store" /\ call.at = "insert" /\ up
      /\ UNCHANGED <<up, Caching, answer, lapse>> /\ answer = None
      /\ IF new THEN db' = Put(db, dbLast + 1, row) /\ dbLast' = dbLast + 1
                ELSE UNCHANGED <<db, dbLast>>
  BY DEF InsertIfAbsent, At, CallInv, NextRowId
<1>2. /\ CallRecord' /\ call'.kind = "store" /\ call'.at = "reload" /\ call'.key = call.key
      /\ call'.id = call.id /\ call'.age = call.age /\ call'.awaits = call.awaits
      /\ call'.found = call.found /\ call'.created = new
  <2> DEFINE s == [call EXCEPT !.at = "reload"]
  <2>1. CASE new
    <3>1. call' = [s EXCEPT !.created = TRUE]
      BY <2>1 DEF InsertIfAbsent
    <3> QED BY <1>1, <2>1, <3>1 DEF CallInv, CallRecord
  <2>2. CASE ~new
    <3>1. call' = [s EXCEPT !.created = FALSE]
      BY <2>2 DEF InsertIfAbsent
    <3> QED BY <1>1, <2>2, <3>1 DEF CallInv, CallRecord
  <2> QED BY <2>1, <2>2
<1>3. call.key \in InviteKeys /\ call.age \in Nat
  BY <1>1 DEF CallInv
<1>4. row \in Invite /\ dbLast \in Nat
  BY <1>3, InvitesAssumption DEF Invite, TableTyped
<1>5. CASE ~new
  <2>1. UNCHANGED <<db, dbLast, up, Caching, lapse>>
    BY <1>1, <1>5
  <2>2. /\ TableTyped' /\ CacheTyped' /\ (lapse # "mixed" => Fits(index', pending'))
        /\ lapse # "mixed" /\ (up \/ call.awaits) => Aligned(db', dbLast', pending')
    BY <2>1, DataKept
  <2>3. CallInv'
    BY <1>1, <1>2, <1>3, <1>5 DEF CallInv, StoreStages
  <2>4. Connected'
    <3>1. lapse # "mixed" => Synced'
      BY <1>1, <1>2, <2>2 DEF Synced
    <3>2. lapse # "mixed" => InTouch'
      BY <1>1, <1>2, <1>5, <2>1 DEF Connected, InTouch, Caching, StoreStages, RemovalStages, AwaitStages
    <3> QED BY <1>1, <2>2, <3>1, <3>2 DEF Connected
  <2>5. Mirror'
    BY <1>1, <1>2, <2>1 DEF Mirror, Caching
  <2> QED BY <1>1, <2>2, <2>3, <2>4, <2>5, NoAnswer
<1>6. CASE new
  <2> HIDE DEF row
  <2>1. /\ DOMAIN db' = DOMAIN db \cup {dbLast + 1} /\ db'[dbLast + 1] = row
        /\ \A r \in DOMAIN db : r # dbLast + 1 /\ db'[r] = db[r] /\ db[r].key # call.key
        /\ dbLast' = dbLast + 1 /\ row.key = call.key
    BY <1>1, <1>4, <1>6 DEF Put, RowsOf, TableTyped, row
  <2>2. TableTyped'
    <3>1. TableOf(db')
      BY <1>1, <1>4, <1>6, PutTable DEF TableTyped
    <3>2. UniqueKeys(db')
      BY <2>1 DEF TableTyped, UniqueKeys
    <3> QED BY <1>1, <1>4, <2>1, <3>1, <3>2 DEF TableTyped
  <2>3. CacheTyped'
    BY <1>1 DEF CacheTyped, Caching
  <2>4. CallInv'
    <3>1. \A r \in RowsOf(call.key)' : db'[r] = row
      BY <1>2, <2>1 DEF RowsOf
    <3> QED BY <1>1, <1>2, <1>3, <1>6, <2>1, <3>1 DEF CallInv, StoreStages, row, RowsOf
  <2>5. Connected'
    <3>1. lapse # "mixed" => Synced'
      <4> SUFFICES ASSUME lapse # "mixed", NEW id \in DOMAIN pending
                   PROVE  id <= dbLast' /\ \A r \in DOMAIN db' : r = id <=> db'[r].key = pending[id].key
        BY <1>1 DEF Synced, Aligned, Caching
      <4>1. id <= dbLast /\ \A r \in DOMAIN db : r = id <=> db[r].key = pending[id].key
        BY <1>1 DEF Connected, Synced, Aligned
      <4>2. pending[id].key # call.key
        BY <1>1 DEF Connected, Fits, InTouch, StoreStages
      <4>3. id \in Nat
        BY DEF CacheTyped, TableOf
      <4> QED BY <1>4, <2>1, <4>1, <4>2, <4>3
    <3>2. lapse # "mixed" => InTouch'
      BY <1>1, <1>2, <1>6 DEF Connected, InTouch, Caching, StoreStages, RemovalStages, AwaitStages
    <3> QED BY <1>1, <3>1, <3>2 DEF Connected, Caching
  <2>6. Mirror'
    BY <1>1, <1>2, <2>1 DEF Mirror, Caching
  <2> QED BY <1>1, <2>2, <2>3, <2>4, <2>5, <2>6, NoAnswer
<1> QED BY <1>5, <1>6

\* store() reads the row that it has found or added.
LEMMA ReloadStep ==
  ASSUME InvitesInv, Reload, UNCHANGED lapse PROVE InvitesInv'
<1> USE DEF InvitesInv
<1>1. /\ call.kind = "store" /\ call.at = "reload" /\ UNCHANGED <<db, dbLast, up, lapse>>
      /\ answer = None
  BY DEF Reload, At, CallInv
<1>2. PICK id \in RowsOf(call.key) :
        IF ~call.created /\ Expired(db[id], call.age) /\ call.found = None
        THEN /\ call' = [call EXCEPT !.at = "replace", !.id = id, !.found = db[id]]
             /\ UNCHANGED <<Caching, answer>>
        ELSE /\ Cache(id, db[id])
             /\ Answer(call.key, call.age, db[id], id, call.created)
  BY DEF Reload
<1>3. /\ id \in DOMAIN db /\ db[id].key = call.key /\ db[id] \in Invite /\ id \in Nat \ {0}
      /\ id <= dbLast /\ \A r \in DOMAIN db : db[r].key = call.key => r = id
  BY DEF RowsOf, TableTyped, TableOf, UniqueKeys
<1>4. lapse # "mixed" =>
         /\ call.awaits /\ call.key \notin DOMAIN index /\ Fits(index, pending)
         /\ Aligned(db, dbLast, pending) /\ id \notin DOMAIN pending
  <2>1. lapse # "mixed" => /\ call.awaits /\ call.key \notin DOMAIN index /\ Fits(index, pending)
                            /\ Aligned(db, dbLast, pending)
    BY <1>1 DEF Connected, InTouch, Synced, StoreStages, AwaitStages
  <2> QED BY <1>3, <2>1 DEF Aligned, Fits
<1>5. CASE ~call.created /\ Expired(db[id], call.age) /\ call.found = None
  <2>1. UNCHANGED <<db, dbLast, up, Caching, lapse>> /\ answer' = None
    BY <1>1, <1>2, <1>5
  <2>2. /\ CallRecord' /\ call'.kind = "store" /\ call'.at = "replace" /\ call'.key = call.key
        /\ call'.id = id /\ call'.age = call.age /\ call'.awaits = call.awaits
        /\ call'.found = db[id] /\ call'.created = call.created
    <3> DEFINE s == [call EXCEPT !.at = "replace"]
               u == [s EXCEPT !.id = id]
    <3>1. call' = [u EXCEPT !.found = db[id]]
      BY <1>2, <1>5
    <3> QED BY <1>1, <3>1 DEF CallInv, CallRecord
  <2>3. /\ TableTyped' /\ CacheTyped' /\ (lapse # "mixed" => Fits(index', pending'))
        /\ lapse # "mixed" /\ (up \/ call.awaits) => Aligned(db', dbLast', pending')
    BY <2>1, DataKept
  <2>4. CallInv'
    BY <1>1, <1>3, <2>1, <2>2 DEF CallInv, StoreStages, RowsOf
  <2>5. Connected'
    <3>1. lapse # "mixed" => Synced'
      BY <2>1, <2>2, <2>3 DEF Synced
    <3>2. lapse # "mixed" => InTouch'
      BY <1>3, <1>4, <2>1, <2>2 DEF InTouch, Caching, RemovalStages
    <3> QED BY <2>1, <2>3, <3>1, <3>2 DEF Connected
  <2>6. Mirror'
    BY <1>1, <2>1, <2>2 DEF Mirror, Caching
  <2> QED BY <2>1, <2>3, <2>4, <2>5, <2>6, NoAnswer
<1>6. CASE ~(~call.created /\ Expired(db[id], call.age) /\ call.found = None)
  <2>1. /\ Cache(id, db[id]) /\ call' = NoCall
        /\ answer'.key = call.key /\ answer'.age = call.age /\ answer'.invite = db[id]
        /\ answer'.id = id /\ answer'.created = call.created
    BY <1>2, <1>6 DEF Answer
  <2>2. /\ CacheTyped' /\ pending'[id] = db[id] /\ id \in DOMAIN pending'
        /\ \A x \in DOMAIN pending' : x = id \/ (x \in DOMAIN pending /\ pending'[x] = pending[x])
        /\ Fits(index, pending) /\ (id \in DOMAIN pending => pending[id].key = db[id].key)
              => Fits(index', pending')
    BY <1>3, <2>1, CacheEffect
  <2>3. TableTyped'
    BY <1>1 DEF TableTyped
  <2>4. lapse # "mixed" => Fits(index', pending') /\ Aligned(db', dbLast', pending')
    <3>1. lapse # "mixed" => Fits(index', pending')
      BY <1>4, <2>2
    <3>2. lapse # "mixed" => Aligned(db', dbLast', pending')
      BY <1>1, <1>3, <1>4, <2>2 DEF Aligned
    <3> QED BY <3>1, <3>2
  <2>5. CallInv' /\ Connected'
    BY <1>1, <2>1, <2>4, CallEnds DEF Connected
  <2>6. Mirror'
    BY <1>1, <1>3, <2>1, <2>2 DEF Mirror
  <2>7. call.created => db[id] = [key |-> call.key, created |-> 0]
    BY <1>1 DEF CallInv
  <2>8. call.age \in Nat
    BY <1>1 DEF CallInv
  <2>9. lapse # "mixed" => ~Expired(db[id], call.age)
    <3>1. call.created => ~Expired(db[id], call.age)
      BY <2>7, <2>8 DEF Expired
    <3>2. lapse # "mixed" /\ ~call.created => call.found = None
      BY <1>1 DEF Connected, InTouch
    <3> QED BY <1>6, <3>1, <3>2 DEF CallInv
  <2>10. AnswersHold'
    BY <1>1, <1>3, <2>1, <2>7, <2>9 DEF AnswersHold, AnswersTheRequest, CreatedIsFresh, AnswersAreDurable
  <2> QED BY <2>2, <2>3, <2>5, <2>6, <2>10
<1> QED BY <1>5, <1>6

\* store() deletes a row that is too old.
LEMMA ReplaceStep ==
  ASSUME InvitesInv, Replace, UNCHANGED lapse PROVE InvitesInv'
<1> USE DEF InvitesInv
<1>1. /\ call.kind = "store" /\ call.at = "replace" /\ DeleteRows({call.id}) /\ GoTo("renew")
      /\ UNCHANGED <<dbLast, up, Caching, lapse>>
  BY DEF Replace, At
<1>2. /\ CallRecord' /\ call'.kind = call.kind /\ call'.at = "renew" /\ call'.key = call.key
      /\ call'.id = call.id /\ call'.age = call.age /\ call'.awaits = call.awaits
      /\ call'.found = call.found /\ call'.created = call.created /\ answer' = None
  BY <1>1, CallGoesTo
<1>3. /\ TableTyped' /\ \A r \in DOMAIN db' : r \in DOMAIN db /\ db'[r] = db[r]
      /\ \A r \in DOMAIN db : r # call.id => r \in DOMAIN db'
      /\ up => DOMAIN db' = DOMAIN db \ {call.id}
  BY <1>1, DeleteEffect
<1>4. CacheTyped'
  BY <1>1 DEF CacheTyped, Caching
<1>5. CallInv'
  BY <1>1, <1>2 DEF CallInv, StoreStages
<1>6. up => RowsOf(call.key)' = {}
  BY <1>1, <1>2, <1>3 DEF CallInv, RowsOf
<1>7. Connected'
  <2>1. lapse # "mixed" => Synced'
    BY <1>1, <1>2, <1>3, AlignedPart DEF Connected, Synced, Caching
  <2>2. lapse # "mixed" => InTouch'
    BY <1>1, <1>2, <1>6 DEF Connected, InTouch, Caching, StoreStages, RemovalStages, AwaitStages, RowsOf
  <2> QED BY <1>1, <2>1, <2>2 DEF Connected, Caching
<1>8. Mirror'
  BY <1>1, <1>2, <1>3 DEF Mirror, Caching, Connected, InTouch
<1> QED BY <1>2, <1>3, <1>4, <1>5, <1>7, <1>8, NoAnswer

\* store() inserts again what it has deleted.
LEMMA RenewStep ==
  ASSUME InvitesInv, Renew, UNCHANGED lapse PROVE InvitesInv'
<1> USE DEF InvitesInv
<1>1. /\ call.kind = "store" /\ call.at = "renew" /\ Forget(call.id, call.found.key)
      /\ GoTo("insert") /\ UNCHANGED <<db, dbLast, up, lapse>>
  BY DEF Renew, At
<1>2. /\ CallRecord' /\ call'.kind = call.kind /\ call'.at = "insert" /\ call'.key = call.key
      /\ call'.id = call.id /\ call'.age = call.age /\ call'.awaits = call.awaits
      /\ call'.found = call.found /\ call'.created = call.created /\ answer' = None
  BY <1>1, CallGoesTo
<1>3. /\ CacheTyped'
      /\ DOMAIN pending' = DOMAIN pending \ {call.id}
      /\ DOMAIN index' = DOMAIN index \ {call.found.key}
      /\ \A x \in DOMAIN pending' : pending'[x] = pending[x]
      /\ Fits(index, pending)
            /\ (call.id \in DOMAIN pending => pending[call.id].key = call.found.key)
            /\ (call.found.key \in DOMAIN index => index[call.found.key] = call.id)
            => Fits(index', pending')
  BY <1>1, ForgetEffect
<1>4. TableTyped'
  BY <1>1 DEF TableTyped
<1>5. CallInv'
  BY <1>1, <1>2 DEF CallInv, StoreStages
<1>6. Connected'
  <2>1. lapse # "mixed" => Fits(index', pending')
    BY <1>1, <1>3 DEF Connected, InTouch, StoreStages
  <2>2. lapse # "mixed" => Synced'
    BY <1>1, <1>2, <1>3, AlignedPart DEF Connected, Synced
  <2>3. lapse # "mixed" => InTouch'
    BY <1>1, <1>2, <1>3 DEF Connected, InTouch, StoreStages, RemovalStages, AwaitStages, RowsOf
  <2> QED BY <1>1, <2>1, <2>2, <2>3 DEF Connected
<1>7. Mirror'
  BY <1>1, <1>2, <1>3 DEF Mirror
<1> QED BY <1>2, <1>3, <1>4, <1>5, <1>6, <1>7, NoAnswer

-----------------------------------------------------------------------------
(***************************************************************************)
(* delete()                                                                *)
(***************************************************************************)
\* delete() is called.
LEMMA DeleteCallStep ==
  ASSUME InvitesInv, DeleteCall, UNCHANGED lapse PROVE InvitesInv'
<1> USE DEF InvitesInv
<1>1. PICK id \in Ids :
        Begin("delete", IF up THEN "lookup" ELSE "forget", None, id, 0, Cached(id))
  BY DEF DeleteCall
<1>2. UNCHANGED <<db, dbLast, up, Caching, lapse>>
  BY DEF DeleteCall
<1>3. /\ CallRecord' /\ call'.kind = "delete" /\ call'.at = IF up THEN "lookup" ELSE "forget"
      /\ call'.id = id /\ call'.awaits = up
      /\ call'.found = Cached(id) /\ call'.created = FALSE /\ call = NoCall
      /\ answer' = None
  BY <1>1, CallBegins
<1>4. /\ TableTyped' /\ CacheTyped' /\ (lapse # "mixed" => Fits(index', pending'))
      /\ lapse # "mixed" /\ (up \/ call.awaits) => Aligned(db', dbLast', pending')
  BY <1>2, DataKept
<1>5. up \in BOOLEAN
  BY DEF TableTyped
<1>6. CallInv'
  BY <1>3, <1>5 DEF CallInv, RemovalStages
<1>7. Connected'
  <2>1. lapse # "mixed" => Synced'
    BY <1>2, <1>3, <1>4 DEF Synced
  <2>2. \A x \in DOMAIN pending : pending[x] # None
    BY InvitesAssumption DEF CacheTyped, TableOf
  <2>3. lapse # "mixed" => InTouch'
    BY <1>2, <1>3, <1>5, <2>2
    DEF InTouch, Connected, Fits, Cached, Caching, AwaitStages, StoreStages, RemovalStages
  <2> QED BY <1>2, <1>4, <2>1, <2>3 DEF Connected
<1>8. Mirror'
  BY <1>2, <1>3, NoCallFacts DEF Mirror, Caching
<1> QED BY <1>3, <1>4, <1>6, <1>7, <1>8, NoAnswer

\* delete() looks up the row of an id that is not cached.
LEMMA LookupStep ==
  ASSUME InvitesInv, Lookup, UNCHANGED lapse PROVE InvitesInv'
<1> USE DEF InvitesInv
<1> DEFINE found == IF call.found = None /\ up /\ call.id \in DOMAIN db
                    THEN db[call.id] ELSE call.found
<1>1. /\ call.kind \in {"store", "delete"} /\ call.at = "lookup" /\ answer' = None
      /\ UNCHANGED <<db, dbLast, up, Caching, lapse>>
  BY UnderWay DEF Lookup, CallInv, StoreStages, RemovalStages
<1>2. /\ CallRecord' /\ call'.kind = call.kind /\ call'.at = "delete" /\ call'.key = call.key
      /\ call'.id = call.id /\ call'.age = call.age /\ call'.awaits = call.awaits
      /\ call'.found = found /\ call'.created = call.created
  <2> DEFINE s == [call EXCEPT !.at = "delete"]
  <2>1. call' = [s EXCEPT !.found = IF @ = None /\ up /\ call.id \in DOMAIN db
                                    THEN db[call.id] ELSE @]
    BY DEF Lookup
  <2>2. s.found = call.found
    BY DEF CallInv, CallRecord
  <2>3. call' = [s EXCEPT !.found = found]
    BY <2>1, <2>2
  <2> HIDE DEF found
  <2> QED BY <2>3 DEF CallInv, CallRecord
<1>3. /\ TableTyped' /\ CacheTyped' /\ (lapse # "mixed" => Fits(index', pending'))
      /\ lapse # "mixed" /\ (up \/ call.awaits) => Aligned(db', dbLast', pending')
  BY <1>1, DataKept
<1>4. CallInv'
  BY <1>1, <1>2 DEF CallInv, RemovalStages
<1>5. lapse # "mixed" =>
         /\ found = None => call.id \notin DOMAIN pending
         /\ found # None =>
               /\ call.id \in DOMAIN pending => pending[call.id].key = found.key
               /\ found.key \in DOMAIN index => index[found.key] = call.id
  BY <1>1 DEF Connected, Synced, Aligned, Fits, InTouch, RemovalStages
<1>6. Connected'
  <2> HIDE DEF found
  <2>1. lapse # "mixed" => Synced'
    BY <1>1, <1>2, <1>3 DEF Synced
  <2>2. lapse # "mixed" => InTouch'
    BY <1>1, <1>2, <1>5 DEF Connected, InTouch, Caching, StoreStages, RemovalStages, AwaitStages
  <2> QED BY <1>1, <1>3, <2>1, <2>2 DEF Connected
<1>7. Mirror'
  BY <1>1, <1>2 DEF Mirror, Caching
<1> QED BY <1>1, <1>3, <1>4, <1>6, <1>7, NoAnswer

\* delete() deletes the row.
LEMMA DeleteRowStep ==
  ASSUME InvitesInv, DeleteRow, UNCHANGED lapse PROVE InvitesInv'
<1> USE DEF InvitesInv
<1>1. /\ call.kind \in {"store", "delete"} /\ call.at = "delete" /\ DeleteRows({call.id})
      /\ GoTo("forget") /\ UNCHANGED <<dbLast, up, Caching, lapse>>
  BY UnderWay DEF DeleteRow, CallInv, StoreStages, RemovalStages
<1>2. /\ CallRecord' /\ call'.kind = call.kind /\ call'.at = "forget" /\ call'.key = call.key
      /\ call'.id = call.id /\ call'.age = call.age /\ call'.awaits = call.awaits
      /\ call'.found = call.found /\ call'.created = call.created /\ answer' = None
  BY <1>1, CallGoesTo
<1>3. /\ TableTyped' /\ \A r \in DOMAIN db' : r \in DOMAIN db /\ db'[r] = db[r]
      /\ \A r \in DOMAIN db : r # call.id => r \in DOMAIN db'
  BY <1>1, DeleteEffect
<1>4. CacheTyped'
  BY <1>1 DEF CacheTyped, Caching
<1>5. CallInv'
  BY <1>1, <1>2 DEF CallInv, RemovalStages
<1>6. Connected'
  <2>1. lapse # "mixed" => Synced'
    BY <1>1, <1>2, <1>3, AlignedPart DEF Connected, Synced, Caching
  <2>2. lapse # "mixed" => InTouch'
    BY <1>1, <1>2 DEF Connected, InTouch, Caching, StoreStages, RemovalStages, AwaitStages
  <2> QED BY <1>1, <2>1, <2>2 DEF Connected, Caching
<1>7. Mirror'
  BY <1>1, <1>2, <1>3 DEF Mirror, Caching
<1> QED BY <1>2, <1>3, <1>4, <1>5, <1>6, <1>7, NoAnswer

\* delete() forgets the invite, after its row is gone.
LEMMA ForgetInviteStep ==
  ASSUME InvitesInv, ForgetInvite, UNCHANGED lapse PROVE InvitesInv'
<1> USE DEF InvitesInv
<1>1. /\ call.kind \in {"store", "delete"} /\ call.at = "forget" /\ answer' = None
      /\ UNCHANGED <<db, dbLast, up, lapse>>
  BY UnderWay DEF ForgetInvite, CallInv, StoreStages, RemovalStages
<1>2. /\ CacheTyped'
      /\ \A x \in DOMAIN pending' : x \in DOMAIN pending /\ pending'[x] = pending[x]
      /\ lapse # "mixed" => call.id \notin DOMAIN pending' /\ Fits(index', pending')
  <2>2. CASE call.found = None
    <3>1. UNCHANGED Caching
      BY <2>2 DEF ForgetInvite
    <3>2. lapse # "mixed" => call.id \notin DOMAIN pending
      BY <1>1, <2>2 DEF Connected, InTouch, RemovalStages
    <3> QED BY <1>1, <3>1, <3>2 DEF Caching, CacheTyped, Connected
  <2>3. CASE call.found # None
    <3>1. Forget(call.id, call.found.key)
      BY <2>3 DEF ForgetInvite
    <3>2. lapse # "mixed" =>
             /\ call.id \in DOMAIN pending => pending[call.id].key = call.found.key
             /\ call.found.key \in DOMAIN index => index[call.found.key] = call.id
             /\ Fits(index, pending)
      BY <1>1, <2>3 DEF Connected, InTouch, Fits, RemovalStages
    <3> DEFINE key == call.found.key
    <3> HIDE DEF key
    <3>3. /\ CacheTyped' /\ DOMAIN pending' = DOMAIN pending \ {call.id}
          /\ \A x \in DOMAIN pending' : pending'[x] = pending[x]
          /\ Fits(index, pending) /\ (call.id \in DOMAIN pending => pending[call.id].key = key)
                                  /\ (key \in DOMAIN index => index[key] = call.id)
                => Fits(index', pending')
      BY <3>1, ForgetEffect DEF key
    <3> QED BY <3>2, <3>3 DEF key
  <2> QED BY <2>2, <2>3
<1>3. TableTyped'
  BY <1>1 DEF TableTyped
<1>4. CASE call.kind = "delete"
  <2>1. call' = NoCall
    BY <1>4 DEF ForgetInvite
  <2>2. up /\ lapse # "mixed" => Aligned(db', dbLast', pending')
    BY <1>1, <1>2, AlignedPart DEF Connected, Synced
  <2>3. CallInv' /\ Connected'
    BY <1>1, <1>2, <2>1, <2>2, CallEnds DEF Connected
  <2>4. Mirror'
    BY <1>1, <1>2, <2>1 DEF Mirror
  <2> QED BY <1>1, <1>2, <1>3, <2>3, <2>4, NoAnswer
<1>5. CASE call.kind = "store"
  <2>1. /\ CallRecord' /\ call'.kind = call.kind /\ call'.at = "decide" /\ call'.key = call.key
        /\ call'.id = call.id /\ call'.age = call.age /\ call'.awaits = call.awaits
        /\ call'.found = None /\ call'.created = call.created
    <3> DEFINE s == [call EXCEPT !.at = "decide"]
    <3>1. call' = [s EXCEPT !.found = None]
      BY <1>5 DEF ForgetInvite
    <3> QED BY <3>1 DEF CallInv, CallRecord
  <2>2. CallInv'
    BY <1>1, <1>5, <2>1 DEF CallInv, StoreStages
  <2>3. lapse # "mixed" => call.key \notin DOMAIN index'
    <3>1. lapse # "mixed" => call.id \in DOMAIN pending /\ pending[call.id].key = call.key
                              /\ index[call.key] = call.id
      BY <1>1, <1>5 DEF Connected, InTouch, RemovalStages, Fits
    <3>2. \A k \in DOMAIN index' : k \in DOMAIN index /\ index'[k] = index[k]
      BY ForgetEffect DEF ForgetInvite, Caching
    <3> QED BY <1>2, <3>1, <3>2 DEF Fits
  <2>4. Connected'
    <3>1. lapse # "mixed" => Synced'
      BY <1>1, <1>2, <2>1, AlignedPart DEF Connected, Synced
    <3>2. lapse # "mixed" => InTouch'
      BY <1>1, <1>5, <2>1, <2>3 DEF Connected, InTouch, RemovalStages, AwaitStages
    <3> QED BY <1>1, <1>2, <3>1, <3>2 DEF Connected
  <2>5. Mirror'
    BY <1>1, <1>2, <2>1 DEF Mirror
  <2> QED BY <1>1, <1>2, <1>3, <2>2, <2>4, <2>5, NoAnswer
<1> QED BY <1>1, <1>4, <1>5

-----------------------------------------------------------------------------
(***************************************************************************)
(* load(), clear() and adopt()                                             *)
(***************************************************************************)
\* The cache is rebuilt from rows of the table, or from anything while there is
\* no database, whatever it was before.
LEMMA Rebuilt ==
  ASSUME InvitesInv, NEW source, TableOf(source), NEW n \in Nat, DOMAIN source \subseteq 1..n,
         ReplaceCache(source), UNCHANGED <<db, dbLast, up>>, lapse' = "none",
         call' = NoCall, answer' = None,
         ~up \/ \A x \in DOMAIN source : x \in DOMAIN db /\ source[x] = db[x]
  PROVE  InvitesInv'
<1> USE DEF InvitesInv
<1>1. /\ CacheTyped' /\ Fits(index', pending')
      /\ \A x \in DOMAIN pending' : x \in DOMAIN source /\ pending'[x] = source[x]
  BY ReplaceEffect
<1>2. TableTyped'
  BY DEF TableTyped
<1>3. up => Aligned(db', dbLast', pending')
  BY <1>1 DEF Aligned, TableTyped, UniqueKeys
<1>4. CallInv' /\ Connected'
  BY <1>1, <1>3, CallEnds DEF Connected
<1>5. Mirror'
  BY <1>1 DEF Mirror
<1> QED BY <1>1, <1>2, <1>4, <1>5, NoAnswer

\* load() is called.
LEMMA LoadCallStep ==
  ASSUME InvitesInv, LoadCall PROVE InvitesInv'
<1> USE DEF InvitesInv
<1>1. PICK age \in Ages :
        \/ /\ up
           /\ Begin("load", "read", None, None, age, None)
           /\ UNCHANGED <<db, dbLast, up, Caching, lapse>>
        \/ /\ ~up /\ call = NoCall
           /\ ReplaceCache(Active(pending, age))
           /\ answer' = None /\ lapse' = "none"
           /\ UNCHANGED <<db, dbLast, up, call>>
  BY DEF LoadCall
<1>2. CASE ~up /\ call = NoCall /\ ReplaceCache(Active(pending, age)) /\ answer' = None
           /\ lapse' = "none" /\ UNCHANGED <<db, dbLast, up, call>>
  <2> DEFINE source == Active(pending, age)
  <2>1. TableOf(source) /\ DOMAIN source \subseteq DOMAIN pending
    BY ActiveTable DEF CacheTyped
  <2>2. DOMAIN pending \subseteq 1..nextId /\ nextId \in Nat
    BY DEF CacheTyped, TableOf
  <2> HIDE DEF source
  <2>3. DOMAIN source \subseteq 1..nextId
    BY <2>1, <2>2
  <2>4. ReplaceCache(source)
    BY <1>2 DEF source
  <2> QED BY <1>2, <2>1, <2>2, <2>3, <2>4, Rebuilt
<1>3. CASE up /\ Begin("load", "read", None, None, age, None)
           /\ UNCHANGED <<db, dbLast, up, Caching, lapse>>
  <2>1. /\ CallRecord' /\ call'.kind = "load" /\ call'.at = "read"
        /\ call'.awaits = up /\ call'.created = FALSE /\ call = NoCall /\ answer' = None
    BY <1>3, CallBegins
  <2>2. /\ TableTyped' /\ CacheTyped' /\ (lapse # "mixed" => Fits(index', pending'))
        /\ lapse # "mixed" /\ (up \/ call.awaits) => Aligned(db', dbLast', pending')
    BY <1>3, DataKept
  <2>3. up \in BOOLEAN
    BY DEF TableTyped
  <2>4. CallInv'
    BY <2>1, <2>3 DEF CallInv
  <2>5. Connected'
    <3>1. lapse # "mixed" => Synced'
      BY <1>3, <2>1, <2>2 DEF Synced
    <3>2. InTouch'
      BY <1>3, <2>1 DEF InTouch, StoreStages, AwaitStages, RemovalStages
    <3> QED BY <1>3, <2>2, <3>1, <3>2 DEF Connected
  <2>6. Mirror'
    BY <1>3, <2>1, NoCallFacts DEF Mirror, Caching
  <2> QED BY <2>1, <2>2, <2>4, <2>5, <2>6, NoAnswer
<1> QED BY <1>1, <1>2, <1>3

\* load() reads the table.
LEMMA ReadAllStep ==
  ASSUME InvitesInv, ReadAll PROVE InvitesInv'
<1> USE DEF InvitesInv
<1> DEFINE source == IF up THEN db ELSE Empty
<1>1. /\ call.kind = "load" /\ call.at = "read" /\ answer = None
      /\ UNCHANGED <<db, dbLast, up>>
  BY DEF ReadAll, At, CallInv
<1>2. TableOf(source) /\ DOMAIN source \subseteq 1..dbLast /\ dbLast \in Nat
  BY EmptyFacts DEF TableTyped, TableOf
<1>3. CASE ~(ExpiredIn(source, call.age) # {} /\ up)
  <2> DEFINE active == Active(source, call.age)
  <2>1. ReplaceCache(active) /\ lapse' = "none" /\ call' = NoCall /\ answer' = None
    BY <1>1, <1>3 DEF ReadAll, Return
  <2>2. /\ TableOf(active) /\ DOMAIN active \subseteq DOMAIN source
        /\ \A x \in DOMAIN active : active[x] = source[x]
    BY <1>2, ActiveTable
  <2>3. up => \A x \in DOMAIN active : x \in DOMAIN db /\ active[x] = db[x]
    BY <2>2
  <2> HIDE DEF source, active
  <2>4. DOMAIN active \subseteq 1..dbLast
    BY <1>2, <2>2
  <2> QED BY <1>1, <1>2, <2>1, <2>2, <2>3, <2>4, Rebuilt
<1>4. CASE ExpiredIn(source, call.age) # {} /\ up
  <2>1. UNCHANGED <<db, dbLast, up, Caching, lapse>> /\ answer' = None
    BY <1>1, <1>4 DEF ReadAll
  <2>2. /\ CallRecord' /\ call'.kind = "load" /\ call'.at = "purge"
        /\ call'.age = call.age /\ call'.awaits = call.awaits
        /\ call'.found = db /\ call'.created = call.created
    <3> DEFINE s == [call EXCEPT !.at = "purge"]
    <3>1. call' = [s EXCEPT !.found = source]
      BY <1>4 DEF ReadAll
    <3>2. source = db
      BY <1>4
    <3> QED BY <1>1, <3>1, <3>2 DEF CallInv, CallRecord
  <2>3. /\ TableTyped' /\ CacheTyped' /\ (lapse # "mixed" => Fits(index', pending'))
        /\ lapse # "mixed" /\ (up \/ call.awaits) => Aligned(db', dbLast', pending')
    BY <2>1, DataKept
  <2>4. CallInv'
    BY <1>1, <2>1, <2>2 DEF CallInv
  <2>5. Connected'
    <3>1. lapse # "mixed" => Synced'
      BY <2>1, <2>2, <2>3 DEF Synced
    <3>2. lapse # "mixed" => InTouch'
      BY <1>1, <2>1, <2>2 DEF Connected, InTouch, StoreStages, AwaitStages, RemovalStages
    <3> QED BY <2>1, <2>3, <3>1, <3>2 DEF Connected
  <2>6. Mirror'
    BY <1>1, <2>1, <2>2 DEF Mirror, Caching
  <2> QED BY <2>1, <2>3, <2>4, <2>5, <2>6, NoAnswer
<1> QED BY <1>3, <1>4

\* load() deletes the rows that are too old.
LEMMA PurgeStep ==
  ASSUME InvitesInv, Purge PROVE InvitesInv'
<1> USE DEF InvitesInv
<1>1. /\ call.kind = "load" /\ call.at = "purge"
      /\ DeleteRows(ExpiredIn(call.found, call.age)) /\ GoTo("rebuild")
      /\ UNCHANGED <<dbLast, up, Caching, lapse>>
  BY DEF Purge, At
<1>2. /\ CallRecord' /\ call'.kind = call.kind /\ call'.at = "rebuild" /\ call'.key = call.key
      /\ call'.id = call.id /\ call'.age = call.age /\ call'.awaits = call.awaits
      /\ call'.found = call.found /\ call'.created = call.created /\ answer' = None
  BY <1>1, CallGoesTo
<1>3. /\ TableTyped' /\ \A r \in DOMAIN db' : r \in DOMAIN db /\ db'[r] = db[r]
      /\ up => db' = Drop(db, ExpiredIn(call.found, call.age))
      /\ ~up => db' = db
  BY <1>1, DeleteEffect
<1>4. CacheTyped'
  BY <1>1 DEF CacheTyped, Caching
<1>5. db' \in {call.found, Active(call.found, call.age)}
  <2>1. db = call.found
    BY <1>1 DEF CallInv
  <2> QED BY <1>3, <2>1 DEF Active
<1>6. CallInv'
  BY <1>1, <1>2, <1>5 DEF CallInv, Active, ExpiredIn, Expired
<1>7. Connected'
  <2>1. lapse # "mixed" => Synced'
    BY <1>1, <1>2, <1>3, AlignedPart DEF Connected, Synced, Caching
  <2>2. lapse # "mixed" => InTouch'
    BY <1>1, <1>2 DEF Connected, InTouch, StoreStages, AwaitStages, RemovalStages
  <2> QED BY <1>1, <2>1, <2>2 DEF Connected, Caching
<1>8. Mirror'
  BY <1>2 DEF Mirror
<1> QED BY <1>2, <1>3, <1>4, <1>6, <1>7, <1>8, NoAnswer

\* load() rebuilds the cache from what it has read.
LEMMA RebuildStep ==
  ASSUME InvitesInv, Rebuild PROVE InvitesInv'
<1> USE DEF InvitesInv
<1> DEFINE active == Active(call.found, call.age)
<1>1. /\ call.at = "rebuild" /\ ReplaceCache(active) /\ call' = NoCall /\ answer' = None
      /\ lapse' = "none" /\ UNCHANGED <<db, dbLast, up>>
  BY DEF Rebuild, At, Return, CallInv
<1>2. /\ TableOf(active)
      /\ \A x \in DOMAIN active : x \in DOMAIN db /\ active[x] = db[x]
  <2>1. db \in {call.found, active}
    BY <1>1 DEF CallInv
  <2>2. CASE db = call.found
    BY <2>2, ActiveTable DEF TableTyped
  <2>3. CASE db = active
    BY <2>3 DEF TableTyped
  <2> HIDE DEF active
  <2> QED BY <2>1, <2>2, <2>3
<1> HIDE DEF active
<1>3. DOMAIN active \subseteq 1..dbLast /\ dbLast \in Nat
  BY <1>2 DEF TableTyped
<1> QED BY <1>1, <1>2, <1>3, Rebuilt

\* clear() is called.
LEMMA ClearCallStep ==
  ASSUME InvitesInv, ClearCall PROVE InvitesInv'
<1> USE DEF InvitesInv
<1>1. /\ Begin("clear", IF up THEN "wipe" ELSE "reset", None, None, 0, None)
      /\ UNCHANGED <<db, dbLast, up, Caching, lapse>>
  BY DEF ClearCall
<1>2. /\ CallRecord' /\ call'.kind = "clear" /\ call'.at = IF up THEN "wipe" ELSE "reset"
      /\ call'.awaits = up /\ call'.created = FALSE /\ call = NoCall /\ answer' = None
  BY <1>1, CallBegins
<1>3. /\ TableTyped' /\ CacheTyped' /\ (lapse # "mixed" => Fits(index', pending'))
      /\ lapse # "mixed" /\ (up \/ call.awaits) => Aligned(db', dbLast', pending')
  BY <1>1, DataKept
<1>4. up \in BOOLEAN
  BY DEF TableTyped
<1>5. CallInv'
  BY <1>2, <1>4 DEF CallInv
<1>6. Connected'
  <2>1. lapse # "mixed" => Synced'
    BY <1>1, <1>2, <1>3 DEF Synced
  <2>2. InTouch'
    BY <1>1, <1>2, <1>4 DEF InTouch, AwaitStages, StoreStages, RemovalStages
  <2> QED BY <1>1, <1>3, <2>1, <2>2 DEF Connected
<1>7. Mirror'
  BY <1>1, <1>2, NoCallFacts DEF Mirror, Caching
<1> QED BY <1>2, <1>3, <1>5, <1>6, <1>7, NoAnswer

\* clear() empties the table.
LEMMA WipeStep ==
  ASSUME InvitesInv, Wipe PROVE InvitesInv'
<1> USE DEF InvitesInv
<1>1. /\ call.kind = "clear" /\ call.at = "wipe" /\ DeleteRows(DOMAIN db) /\ GoTo("reset")
      /\ UNCHANGED <<dbLast, up, Caching, lapse>>
  BY DEF Wipe, At
<1>2. /\ CallRecord' /\ call'.kind = call.kind /\ call'.at = "reset" /\ call'.key = call.key
      /\ call'.id = call.id /\ call'.age = call.age /\ call'.awaits = call.awaits
      /\ call'.found = call.found /\ call'.created = call.created /\ answer' = None
  BY <1>1, CallGoesTo
<1>3. TableTyped' /\ \A r \in DOMAIN db' : r \in DOMAIN db /\ db'[r] = db[r]
  BY <1>1, DeleteEffect
<1>4. CacheTyped'
  BY <1>1 DEF CacheTyped, Caching
<1>5. CallInv'
  BY <1>1, <1>2 DEF CallInv
<1>6. Connected'
  <2>1. lapse # "mixed" => Synced'
    BY <1>1, <1>2, <1>3, AlignedPart DEF Connected, Synced, Caching
  <2>2. lapse # "mixed" => InTouch'
    BY <1>1, <1>2 DEF Connected, InTouch, StoreStages, AwaitStages, RemovalStages
  <2> QED BY <1>1, <2>1, <2>2 DEF Connected, Caching
<1>7. Mirror'
  BY <1>2 DEF Mirror
<1> QED BY <1>2, <1>3, <1>4, <1>5, <1>6, <1>7, NoAnswer

\* An empty cache is in order whatever else has happened.
LEMMA Cleared ==
  ASSUME TableTyped', ClearCache, call' = NoCall, answer' = None PROVE InvitesInv'
<1>1. CacheTyped' /\ Fits(index', pending') /\ DOMAIN pending' = {}
  BY ClearEffect
<1>2. Aligned(db', dbLast', pending')
  BY <1>1 DEF Aligned
<1>3. CallInv' /\ Connected' /\ Mirror'
  BY <1>1, <1>2, CallEnds DEF Connected, Mirror
<1> QED BY <1>1, <1>3, NoAnswer DEF InvitesInv

\* clear() empties the cache.
LEMMA ResetStep ==
  ASSUME InvitesInv, Reset PROVE InvitesInv'
<1>1. /\ ClearCache /\ call' = NoCall /\ answer' = None /\ lapse' = "none"
      /\ UNCHANGED <<db, dbLast, up>>
  BY DEF Reset, At, Return, InvitesInv, CallInv
<1>2. TableTyped'
  BY <1>1 DEF InvitesInv, TableTyped
<1> QED BY <1>1, <1>2, Cleared

\* adopt() rebuilds the cache from what it is given; beside a database or under
\* a call that leaves nothing to rely on.
LEMMA AdoptStep ==
  ASSUME InvitesInv, Adopt PROVE InvitesInv'
<1> USE DEF InvitesInv
<1>1. PICK ids \in SUBSET Ids : \E source \in [ids -> Invite] : ReplaceCache(source)
  BY DEF Adopt
<1>2. PICK source \in [ids -> Invite] : ReplaceCache(source)
  BY <1>1
<1>3. TableOf(source) /\ DOMAIN source \subseteq 1..MaxId /\ MaxId \in Nat
  BY InvitesAssumption DEF TableOf, Ids
<1>4. /\ lapse' = IF up \/ call # NoCall THEN "mixed" ELSE "none"
      /\ answer' = None /\ UNCHANGED <<db, dbLast, up, call>>
  BY DEF Adopt
<1>5. CASE ~up /\ call = NoCall
  BY <1>2, <1>3, <1>4, <1>5, Rebuilt
<1>6. CASE up \/ call # NoCall
  <2>1. lapse' = "mixed"
    BY <1>4, <1>6
  <2>2. TableTyped' /\ Connected' /\ Mirror'
    BY <1>4, <2>1 DEF TableTyped, Connected, Mirror
  <2>3. CacheTyped'
    BY <1>2, <1>3, ReplaceEffect
  <2>4. CallInv'
    BY <1>4 DEF CallInv, CallRecord, RowsOf, Active, ExpiredIn, Expired
  <2> QED BY <1>4, <2>2, <2>3, <2>4, NoAnswer
<1> QED BY <1>5, <1>6

-----------------------------------------------------------------------------
(***************************************************************************)
(* The world around a call.                                                *)
(***************************************************************************)
\* A statement raises: the call is over where it was.
LEMMA RaiseStep ==
  ASSUME InvitesInv, Raise PROVE InvitesInv'
<1> USE DEF InvitesInv
<1>1. /\ call' = NoCall /\ answer' = None /\ call.awaits /\ call.kind # "none"
      /\ lapse' = IF lapse = "none" /\ call.at \in AfterDeletion THEN "torn" ELSE lapse
      /\ UNCHANGED <<db, dbLast, up, Caching>>
  BY UnderWay DEF Raise, Return, CallInv
<1>2. TableTyped' /\ CacheTyped'
  BY <1>1 DEF TableTyped, CacheTyped, Caching
<1>3. lapse' # "mixed" => lapse # "mixed"
  BY <1>1
<1>4. lapse' # "mixed" => Fits(index', pending') /\ Aligned(db', dbLast', pending')
  BY <1>1, <1>3 DEF Connected, Synced, Caching
<1>5. CallInv' /\ Connected'
  BY <1>4, <1>1, CallEnds DEF Connected
<1>6. Mirror'
  BY <1>1 DEF Mirror, Caching, AfterDeletion
<1> QED BY <1>1, <1>2, <1>5, <1>6, NoAnswer

\* The process restarts with an empty cache.
LEMMA RestartStep ==
  ASSUME InvitesInv, Restart PROVE InvitesInv'
<1>1. /\ ClearCache /\ call' = NoCall /\ answer' = None /\ lapse' = "none"
      /\ UNCHANGED <<db, dbLast, up>>
  BY DEF Restart
<1>2. TableTyped'
  BY <1>1 DEF InvitesInv, TableTyped
<1> QED BY <1>1, <1>2, Cleared

\* The database goes away or comes back.
LEMMA FlapStep ==
  ASSUME InvitesInv, Flap PROVE InvitesInv'
<1> USE DEF InvitesInv
<1>1. /\ up' = ~up /\ lapse' = (IF up THEN lapse ELSE "mixed") /\ up \in BOOLEAN
      /\ UNCHANGED <<db, dbLast, Caching, call, answer>>
  BY DEF Flap, TableTyped
<1>2. TableTyped' /\ CacheTyped'
  BY <1>1 DEF TableTyped, CacheTyped, Caching
<1>3. CallInv'
  BY <1>1 DEF CallInv, CallRecord, RowsOf, Active, ExpiredIn, Expired
<1>4. Connected'
  BY <1>1 DEF Connected, Synced, InTouch, Caching
<1>5. Mirror'
  BY <1>1 DEF Mirror
<1>6. AnswersHold'
  BY <1>1 DEF AnswersHold, AnswersTheRequest, CreatedIsFresh, AnswersAreDurable, Expired
<1> QED BY <1>2, <1>3, <1>4, <1>5, <1>6

\* The invites of an older table keep their keys.
LEMMA OlderFacts ==
  ASSUME NEW table, TableOf(table)
  PROVE  /\ TableOf(Older(table)) /\ DOMAIN Older(table) = DOMAIN table
         /\ \A id \in DOMAIN table : Older(table)[id].key = table[id].key
<1>1. ASSUME NEW id \in DOMAIN table
      PROVE  Older(table)[id] \in Invite /\ Older(table)[id].key = table[id].key
  <2> DEFINE created == IF table[id].created = -Horizon THEN table[id].created
                        ELSE table[id].created - 1
  <2>1. table[id] \in Invite
    BY DEF TableOf
  <2>2. created \in -Horizon..0
    BY <2>1, InvitesAssumption DEF Invite
  <2>3. Older(table)[id] = [table[id] EXCEPT !.created = created]
    BY DEF Older
  <2> HIDE DEF created
  <2> QED BY <2>1, <2>2, <2>3 DEF Invite
<1>2. DOMAIN Older(table) = DOMAIN table
  BY DEF Older
<1> QED BY <1>1, <1>2 DEF TableOf

\* Every invite gets older.
LEMMA NewDayStep ==
  ASSUME InvitesInv, NewDay PROVE InvitesInv'
<1> USE DEF InvitesInv
<1>1. /\ call = NoCall /\ call' = NoCall /\ answer' = None /\ db' = Older(db)
      /\ pending' = Older(pending) /\ UNCHANGED <<dbLast, up, index, nextId, lapse>>
  BY DEF NewDay
<1>2. /\ TableOf(db') /\ DOMAIN db' = DOMAIN db /\ TableOf(pending')
      /\ DOMAIN pending' = DOMAIN pending
      /\ \A id \in DOMAIN db : db'[id].key = db[id].key
      /\ \A id \in DOMAIN pending : pending'[id].key = pending[id].key
  BY <1>1, OlderFacts DEF TableTyped, CacheTyped
<1>3. TableTyped' /\ CacheTyped'
  BY <1>1, <1>2 DEF TableTyped, CacheTyped, UniqueKeys
<1>4. lapse # "mixed" /\ up => Aligned(db', dbLast', pending')
  BY <1>1, <1>2 DEF Connected, Synced, Aligned
<1>5. lapse # "mixed" => Fits(index', pending')
  BY <1>1, <1>2 DEF Connected, Fits
<1>6. CallInv' /\ Connected'
  BY <1>1, <1>4, <1>5, CallEnds DEF Connected
<1>7. Mirror'
  <2> SUFFICES ASSUME lapse = "none", up, NEW id \in DOMAIN pending
               PROVE  id \in DOMAIN db' /\ db'[id] = pending'[id]
    BY <1>1, <1>2 DEF Mirror
  <2>1. id \in DOMAIN db /\ db[id] = pending[id]
    BY <1>1, NoCallFacts DEF Mirror
  <2> QED BY <1>1, <2>1 DEF Older
<1> QED BY <1>1, <1>3, <1>6, <1>7, NoAnswer

-----------------------------------------------------------------------------
\* An empty table and an empty cache satisfy the invariant.
LEMMA InvitesStart == Init => InvitesInv
<1> SUFFICES ASSUME Init PROVE InvitesInv
  OBVIOUS
<1>1. /\ DOMAIN db = {} /\ dbLast = 0 /\ up \in BOOLEAN /\ DOMAIN pending = {}
      /\ DOMAIN index = {} /\ nextId = 1 /\ call = NoCall /\ answer = None /\ lapse = "none"
  BY EmptyFacts DEF Init
<1>2. TableTyped /\ CacheTyped
  BY <1>1 DEF TableTyped, CacheTyped, TableOf, UniqueKeys
<1>3. CallInv
  BY <1>1, NoCallFacts DEF CallInv, CallRecord
<1>4. Connected
  BY <1>1, NoCallFacts DEF Connected, Fits, Synced, Aligned, InTouch, StoreStages, RemovalStages,
                           AwaitStages
<1>5. Mirror /\ AnswersHold
  BY <1>1 DEF Mirror, AnswersHold, AnswersTheRequest, CreatedIsFresh, AnswersAreDurable
<1> QED BY <1>2, <1>3, <1>4, <1>5 DEF InvitesInv

\* Every step keeps the invariant.
LEMMA InvitesStep ==
  ASSUME InvitesInv, [Next]_vars PROVE InvitesInv'
<1>1. CASE UNCHANGED vars
  <2>1. UNCHANGED <<db, dbLast, up, pending, index, nextId, call, answer, lapse>>
    BY <1>1 DEF vars
  <2>2. TableTyped' /\ CacheTyped' /\ CallInv'
    BY <2>1 DEF InvitesInv, TableTyped, CacheTyped, CallInv, CallRecord, RowsOf, Active,
                ExpiredIn, Expired
  <2>3. Connected' /\ Mirror'
    BY <2>1 DEF InvitesInv, Connected, Synced, InTouch, Mirror, RowsOf
  <2>4. AnswersHold'
    BY <2>1 DEF InvitesInv, AnswersHold, AnswersTheRequest, CreatedIsFresh, AnswersAreDurable,
                Expired
  <2> QED BY <2>2, <2>3, <2>4 DEF InvitesInv
<1>2. CASE Store /\ UNCHANGED lapse
  BY <1>2, StoreCallStep, StoreLocallyStep, StoreDurablyStep, InsertRefusedStep,
     InsertIfAbsentStep, ReloadStep, ReplaceStep, RenewStep DEF Store
<1>3. CASE Removal /\ UNCHANGED lapse
  BY <1>3, DeleteCallStep, LookupStep, DeleteRowStep, ForgetInviteStep DEF Removal
<1>4. CASE Loading \/ Clearing \/ Adopt
  BY <1>4, LoadCallStep, ReadAllStep, PurgeStep, RebuildStep, ClearCallStep, WipeStep, ResetStep,
     AdoptStep DEF Loading, Clearing
<1>5. CASE Raise \/ Restart \/ Flap \/ NewDay
  BY <1>5, RaiseStep, RestartStep, FlapStep, NewDayStep
<1> QED BY <1>1, <1>2, <1>3, <1>4, <1>5 DEF Next

\* The invariant holds in every reachable state.
LEMMA InvitesInvariant == Spec => []InvitesInv
  BY InvitesStart, InvitesStep, PTL DEF Spec

\* The invariant says what the properties say.
LEMMA InvitesInvMeans == InvitesInv => CacheInv /\ AnswersHold
<1> SUFFICES ASSUME InvitesInv PROVE CacheInv /\ AnswersHold
  OBVIOUS
<1>1. TypeOK
  BY DEF InvitesInv, TableTyped, CacheTyped, TypeOK
<1>2. IndexAgrees
  BY DEF InvitesInv, Connected, Fits, IndexAgrees
<1> QED BY <1>1, <1>2 DEF CacheInv, InvitesInv

\* For any keys, ages and numbers of ids: cache and index stay inverse to each
\* other, whichever call raises at whichever statement and however often the
\* process restarts, unless since the cache was last built a database has come
\* back after an outage or adopt() was used beside one (PendingRoomInviteStore).
THEOREM CacheInvAlways == Spec => []CacheInv
  BY InvitesInvariant, InvitesInvMeans, PTL

\* What store() reports as created is the invite that was asked for, whatever the
\* database and adopt() do; what it answers is active, and in the table to stay,
\* except in what the invites of an outage, of adopt() or of a call that raised
\* have left in the cache until load(), clear() or a restart (store,
\* insert_if_absent, adopt).
THEOREM AnswersAlwaysHold == Spec => []AnswersHold
  BY InvitesInvariant, InvitesInvMeans, PTL
=============================================================================
