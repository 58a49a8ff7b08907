------------------------- MODULE MaintenanceProofs --------------------------
(***************************************************************************)
(* What the components guarantee that keep files, settings, keys, versions *)
(* and answers, for every value of their constants: an inductive invariant *)
(* and a theorem for each.                                                 *)
(***************************************************************************)
EXTENDS ReleaseState, OmemoStorage, ConfigEdit, OmemoTransport,
        BackupArchive, Affiliations, Replies, Retention, SequenceTheorems,
        FiniteSetTheorems, WellFoundedInduction, TLAPS

-----------------------------------------------------------------------------
(***************************************************************************)
(* The release state.                                                      *)
(***************************************************************************)
Row(r) == r = [version |-> r.version, from |-> r.from, to |-> r.to]

\* A pending update leads to the recorded version, from another one.
Chained(r) ==
    r.from # Unknown /\ r.to # Unknown => r.to = r.version /\ r.from # r.to

\* Since the row was loaded, if it was, its pending update may only have been
\* cleared.
Loaded ==
    starter.at = "loaded" =>
        /\ Row(starter.loaded) /\ Chained(starter.loaded)
        /\ starter.loaded # NoRow =>
              /\ starter.loaded.version = row.version
              /\ IsPending(Pending) =>
                    starter.loaded.from = row.from /\ starter.loaded.to = row.to

Starter == starter = [at |-> starter.at, version |-> starter.version, loaded |-> starter.loaded]

PendingInv == Row(row) /\ Chained(row) /\ Starter /\ Loaded

\* What PendingKept says of a step.
KeptRow ==
    IsPending(Pending) /\ row'.from # row.from =>
        \/ Pending \in sent'
        \/ starter.at = "loaded" /\ starter.loaded = NoRow
        \/ row'.version \in {row.from, Unknown}

-----------------------------------------------------------------------------
\* What a start with the given version writes over the row it has loaded
WrittenRow(was, current) ==
    Normal(current, Merged(was.version, current, [from |-> was.from, to |-> was.to]))

\* What a start writes: a pending update still begins where it began, unless
\* the bot is back there or a version is not known.
LEMMA NormalMerged ==
  ASSUME NEW was, NEW current, Row(was), Chained(was)
  PROVE  /\ Row(WrittenRow(was, current)) /\ Chained(WrittenRow(was, current))
         /\ WrittenRow(was, current).version = current
         /\ was.from # Unknown /\ was.to # Unknown =>
               WrittenRow(was, current).from = was.from \/ current \in {was.from, Unknown}
<1> DEFINE r == WrittenRow(was, current)
           p == [from |-> was.from, to |-> was.to]
           merged == Merged(was.version, current, p)
<1>1. /\ p.from = was.from /\ p.to = was.to
      /\ NoPending.from = Unknown /\ NoPending.to = Unknown
  BY DEF NoPending
<1>2. CASE Unknown \in {was.version, current}
  <2>1. merged = NoPending
    BY <1>2 DEF Merged
  <2>2. r = [version |-> current, from |-> Unknown, to |-> Unknown]
    BY <1>1, <2>1 DEF Normal, IsPending, WrittenRow
  <2> QED BY <1>2, <2>2 DEF Row, Chained
<1>3. CASE Unknown \notin {was.version, current} /\ was.version = current
  <2>1. merged = p \/ (merged = NoPending /\ ~(IsPending(p) /\ p.to = was.version /\ p.from # p.to))
    BY <1>3 DEF Merged
  <2>2. CASE merged = p
    <3>1. r = [version |-> current, from |-> Unknown, to |-> Unknown]
          \/ (r = [version |-> current, from |-> was.from, to |-> was.to]
              /\ was.from # Unknown /\ was.to # Unknown)
      BY <1>1, <2>2 DEF Normal, IsPending, WrittenRow
    <3>2. was.from # Unknown /\ was.to # Unknown => was.from # was.to
      BY DEF Chained
    <3>3. was.from # Unknown /\ was.to # Unknown => r.from = was.from
      BY <1>1, <2>2, <3>2 DEF Normal, IsPending, WrittenRow
    <3> QED BY <1>3, <3>1, <3>3 DEF Row, Chained
  <2>3. CASE merged = NoPending /\ ~(IsPending(p) /\ p.to = was.version /\ p.from # p.to)
    <3>1. r = [version |-> current, from |-> Unknown, to |-> Unknown]
      BY <1>1, <2>3 DEF Normal, IsPending, WrittenRow
    <3>2. ~(was.from # Unknown /\ was.to # Unknown)
      BY <1>1, <2>3 DEF Chained, IsPending
    <3> QED BY <3>1, <3>2 DEF Row, Chained
  <2> QED BY <2>1, <2>2, <2>3
<1>4. CASE Unknown \notin {was.version, current} /\ was.version # current
  <2> DEFINE origin == IF IsPending(p) /\ p.to = was.version /\ p.from # p.to
                       THEN p.from ELSE was.version
  <2>1. merged = IF origin = current THEN NoPending ELSE [from |-> origin, to |-> current]
    BY <1>4 DEF Merged
  <2>2. was.from # Unknown /\ was.to # Unknown => origin = was.from
    BY <1>1 DEF Chained, IsPending
  <2>3. origin # Unknown /\ current # Unknown
    BY <1>4 DEF IsPending
  <2> HIDE DEF origin
  <2>4. CASE origin = current
    <3>1. r = [version |-> current, from |-> Unknown, to |-> Unknown]
      BY <1>1, <2>1, <2>4 DEF Normal, IsPending, WrittenRow
    <3> QED BY <2>2, <2>4, <3>1 DEF Row, Chained
  <2>5. CASE origin # current
    <3>1. merged.from = origin /\ merged.to = current
      BY <2>1, <2>5
    <3>2. r = [version |-> current, from |-> origin, to |-> current]
      BY <2>3, <2>5, <3>1 DEF Normal, IsPending, WrittenRow
    <3> QED BY <2>2, <2>5, <3>2 DEF Row, Chained
  <2> QED BY <2>4, <2>5
<1> QED BY <1>2, <1>3, <1>4

LEMMA PendingStep ==
  ASSUME PendingInv, [ReleaseNext]_releaseVars
  PROVE  PendingInv' /\ KeptRow
<1>1. CASE UNCHANGED releaseVars
  BY <1>1 DEF releaseVars, PendingInv, Row, Chained, Starter, Loaded, KeptRow, Pending, IsPending
<1>2. ASSUME NEW v, LoadState(v) PROVE PendingInv' /\ KeptRow
  <2>1. PICK read \in {row, NoRow} :
           starter' = [at |-> "loaded", version |-> v, loaded |-> read]
    BY <1>2 DEF LoadState
  <2>2. UNCHANGED row /\ Row(NoRow) /\ Chained(NoRow)
    BY <1>2 DEF LoadState, NoRow, Row, Chained
  <2> QED BY <2>1, <2>2 DEF PendingInv, Row, Chained, Starter, Loaded, KeptRow, Pending, IsPending
<1>3. CASE SaveState
  <2> DEFINE was == starter.loaded
  <2>1. /\ row' = WrittenRow(was, starter.version)
        /\ Row(was) /\ Chained(was) /\ starter'.at = "up"
        /\ was # NoRow /\ IsPending(Pending) => was.from = row.from /\ was.to = row.to
        /\ Starter' /\ starter.at = "loaded"
    BY <1>3 DEF SaveState, PendingInv, Starter, Loaded, WrittenRow
  <2> HIDE DEF was
  <2>2. /\ Row(row') /\ Chained(row') /\ row'.version = starter.version
        /\ was.from # Unknown /\ was.to # Unknown =>
               row'.from = was.from \/ starter.version \in {was.from, Unknown}
    BY <2>1, NormalMerged
  <2>3. KeptRow
    <3>1. CASE was = NoRow
      BY <2>1, <3>1 DEF KeptRow, was
    <3>2. CASE was # NoRow
      BY <2>1, <2>2, <3>2 DEF KeptRow, IsPending, Pending
    <3> QED BY <3>1, <3>2
  <2>4. Row(row)' /\ Chained(row)' /\ Loaded'
    BY <2>1, <2>2 DEF Row, Chained, Loaded
  <2> QED BY <2>1, <2>3, <2>4 DEF PendingInv
<1>4. CASE BeginDelivery \/ \E i \in DOMAIN deliveries : DeliveryFails(i)
  BY <1>4 DEF BeginDelivery, DeliveryFails, PendingInv, Row, Chained, Starter, Loaded, KeptRow, Pending,
              IsPending
<1>5. CASE Stops
  <2>1. starter'.at = "down" /\ Starter' /\ UNCHANGED row
    BY <1>5 DEF Stops, Starter
  <2> QED BY <2>1 DEF PendingInv, Row, Chained, Loaded, KeptRow, Pending, IsPending
<1>6. ASSUME NEW v, CheckRelease(v) PROVE PendingInv' /\ KeptRow
  BY <1>6 DEF CheckRelease, PendingInv, Row, Chained, Starter, Loaded, KeptRow, Pending, IsPending
<1>7. ASSUME NEW i \in DOMAIN deliveries, ClearPending(i) PROVE PendingInv' /\ KeptRow
  <2>1. UNCHANGED starter /\ deliveries[i] \in sent'
    BY <1>7 DEF ClearPending
  <2>2. CASE Pending = deliveries[i]
    <3>1. row' = [row EXCEPT !.from = Unknown, !.to = Unknown]
      BY <1>7, <2>2 DEF ClearPending
    <3>2. row' = [version |-> row.version, from |-> Unknown, to |-> Unknown]
      BY <3>1 DEF PendingInv, Row
    <3>3. Row(row)' /\ Chained(row)' /\ Loaded'
      BY <2>1, <3>2 DEF PendingInv, Row, Chained, Loaded, IsPending, Pending
    <3> QED BY <2>1, <2>2, <3>3 DEF PendingInv, Starter, KeptRow
  <2>3. CASE Pending # deliveries[i]
    <3>1. UNCHANGED row
      BY <1>7, <2>3 DEF ClearPending
    <3> QED BY <2>1, <3>1 DEF PendingInv, Row, Chained, Starter, Loaded, KeptRow, Pending, IsPending
  <2> QED BY <2>2, <2>3
<1> QED BY <1>1, <1>2, <1>3, <1>4, <1>5, <1>6, <1>7 DEF ReleaseNext

\* An update never goes unannounced.
THEOREM PendingKeptAlways == ReleaseSpec => PendingKept
<1>1. ReleaseInit => PendingInv
  BY DEF ReleaseInit, NoRow, Unknown, PendingInv, Row, Chained, Starter, Loaded
<1>2. PendingInv /\ [ReleaseNext]_releaseVars => PendingInv'
  BY PendingStep
<1>3. PendingInv /\ [ReleaseNext]_releaseVars => KeptRow
  BY PendingStep
<1>4. ReleaseSpec => [][KeptRow]_releaseVars
  BY <1>1, <1>2, <1>3, PTL DEF ReleaseSpec
<1> QED BY <1>4 DEF PendingKept, KeptRow

-----------------------------------------------------------------------------
(***************************************************************************)
(* The key storage of OMEMO.                                               *)
(***************************************************************************)
\* A set of naturals has a least member.
LEMMA LeastNatural ==
  ASSUME NEW S \in SUBSET Nat, S # {}
  PROVE  \E m \in S : \A k \in S : m <= k
<1>1. PICK m \in S : \A k \in S : <<k, m>> \notin OpToRel(<, Nat)
  BY NatLessThanWellFounded, WFMin
<1>2. \A k \in S : ~(k < m)
  BY <1>1 DEF OpToRel
<1> QED BY <1>2

\* The sets of keys generated so far, and what the storage file may hold
KeySets == 1..Len(owners)
Contents == {Absent, NoKeys} \cup {<<k>> : k \in KeySets}

OmemoTypeOK ==
    /\ storage \in Contents
    /\ metadata \in Identities \cup {"none"}
    /\ keeper \in [at : {"down", "moving", "unnaming", "writing", "opening", "up"},
                   identity : Identities \cup {"none"}, reset : BOOLEAN, data : Contents]
    /\ stamp \in Nat
    /\ owners \in Seq(Identities) /\ Len(owners) <= MaxKeySets

\* Every backup holds a set of keys, no two the same, none the storage's.
BackupsDiffer ==
    /\ \A name \in DOMAIN backups : \E k \in KeySets : backups[name] = <<k>>
    /\ \A m, n \in DOMAIN backups : backups[m] = backups[n] => m = n
    /\ HasKeys(storage) => \A name \in DOMAIN backups : backups[name] # storage

\* What a process that resets has achieved by each of its steps
Achieved ==
    /\ keeper.at = "unnaming" => storage = Absent
    /\ keeper.at # "down" => keeper.identity # "none"
    /\ keeper.reset /\ keeper.at = "writing" => ~HasKeys(storage)
    /\ keeper.reset /\ keeper.at \in {"opening", "up"} => metadata = keeper.identity
    /\ keeper.at = "up" => keeper.data = storage /\ storage # Absent

\* The inductive invariant
OmemoInv == OmemoTypeOK /\ BackupsDiffer /\ Achieved /\ KeysTied

\* The contents of the storage file are told apart.
LEMMA ContentsDiffer ==
  /\ Absent # NoKeys
  /\ \A k \in Nat \ {0} : /\ <<k>> \notin {Absent, NoKeys}
                          /\ <<k>>[1] = k
                          /\ \A m \in Nat : <<m>> = <<k>> => m = k
  BY DEF Absent, NoKeys

\* Sets of keys are numbered from 1.
LEMMA NumberOfOwners ==
  ASSUME OmemoTypeOK PROVE Len(owners) \in Nat /\ KeySets \subseteq Nat \ {0}
  BY LenProperties DEF OmemoTypeOK, KeySets

\* The name that a rotation gives its backup is free, also when the second has
\* seen others.
LEMMA BackupPathIsFree ==
  ASSUME OmemoTypeOK, BackupsDiffer, NEW second
  PROVE  BackupPath(second) \notin DOMAIN backups
<1> DEFINE Free(n) == <<second, n>> \notin DOMAIN backups
           S == {n \in 0..MaxKeySets : Free(n)}
<1>0. MaxKeySets \in Nat /\ Len(owners) \in Nat /\ Len(owners) <= MaxKeySets
  BY OmemoAssumption, NumberOfOwners DEF OmemoTypeOK
<1>1. S # {}
  <2> SUFFICES ASSUME S = {} PROVE FALSE
    OBVIOUS
  <2>1. \A n \in 0..MaxKeySets : \E k \in KeySets : backups[<<second, n>>] = <<k>>
    BY DEF BackupsDiffer
  <2> DEFINE f == [n \in 0..MaxKeySets |-> CHOOSE k \in KeySets : backups[<<second, n>>] = <<k>>]
  <2>2. \A n \in 0..MaxKeySets : f[n] \in KeySets /\ backups[<<second, n>>] = <<f[n]>>
    BY <2>1
  <2>3. f \in [0..MaxKeySets -> KeySets]
    BY <2>2
  <2>4. /\ IsFiniteSet(0..MaxKeySets) /\ Cardinality(0..MaxKeySets) = MaxKeySets + 1
        /\ IsFiniteSet(KeySets) /\ Cardinality(KeySets) = Len(owners)
    <3>1. 0 \in Int /\ 1 \in Int /\ MaxKeySets \in Int /\ Len(owners) \in Int
      BY <1>0
    <3>2. /\ IsFiniteSet(0..MaxKeySets)
          /\ Cardinality(0..MaxKeySets) = IF 0 > MaxKeySets THEN 0 ELSE MaxKeySets - 0 + 1
      BY <3>1, FS_Interval
    <3>3. /\ IsFiniteSet(1..Len(owners))
          /\ Cardinality(1..Len(owners)) = IF 1 > Len(owners) THEN 0 ELSE Len(owners) - 1 + 1
      BY <3>1, FS_Interval
    <3> QED BY <1>0, <3>2, <3>3 DEF KeySets
  <2> DEFINE numbers == 0..MaxKeySets
  <2> HIDE DEF f
  <2>5. PICK x, y \in numbers : x # y /\ f[x] = f[y]
    <3>1. Cardinality(KeySets) < Cardinality(numbers)
      BY <1>0, <2>4
    <3>2. f \in [numbers -> KeySets] /\ IsFiniteSet(numbers) /\ IsFiniteSet(KeySets)
      BY <2>3, <2>4
    <3> HIDE DEF numbers
    <3> QED BY <3>1, <3>2, FS_PigeonHole
  <2>6. backups[<<second, x>>] = backups[<<second, y>>]
    BY <2>2, <2>5
  <2>7. <<second, x>> \in DOMAIN backups /\ <<second, y>> \in DOMAIN backups
    BY <2>5
  <2>8. <<second, x>> = <<second, y>>
    BY <2>6, <2>7 DEF BackupsDiffer
  <2> QED BY <2>5, <2>8
<1>2. PICK n \in S : \A k \in S : n <= k
  <2>1. S \in SUBSET Nat
    BY <1>0
  <2> HIDE DEF S
  <2> QED BY <1>1, <2>1, LeastNatural
<1>3. n \in 0..MaxKeySets /\ Free(n) /\ \A m \in 0..(n - 1) : ~Free(m)
  BY <1>0, <1>2
<1> DEFINE chosen == CHOOSE i \in 0..MaxKeySets : Free(i) /\ \A m \in 0..(i - 1) : ~Free(m)
<1>4. Free(chosen)
  BY <1>3
<1>5. BackupPath(second) = <<second, chosen>>
  BY DEF BackupPath
<1> QED BY <1>4, <1>5

\* A bot that was never run has no keys.
LEMMA OmemoStarts == OmemoInit => OmemoInv
<1> SUFFICES ASSUME OmemoInit PROVE OmemoInv
  OBVIOUS
<1>1. owners = <<>> /\ Len(owners) = 0 /\ owners \in Seq(Identities) /\ MaxKeySets \in Nat
  BY EmptySeq, OmemoAssumption DEF OmemoInit
<1>2. OmemoTypeOK
  BY <1>1 DEF OmemoInit, OmemoTypeOK, Contents
<1> QED BY <1>1, <1>2 DEF OmemoInit, OmemoInv, BackupsDiffer, Achieved, KeysTied, HasKeys, Empty

\* Moving the storage away keeps the invariant: the keys get a name of their
\* own.
LEMMA MoveStep ==
  ASSUME OmemoInv, MoveStorage PROVE OmemoInv'
<1> USE DEF OmemoInv
<1>1. /\ keeper.at = "moving" /\ storage' = Absent /\ UNCHANGED <<metadata, stamp, owners>>
      /\ keeper' = [at |-> "unnaming", identity |-> keeper.identity, reset |-> keeper.reset,
                    data |-> keeper.data]
  BY DEF MoveStorage, Proceed, OmemoTypeOK
<1>2. OmemoTypeOK' /\ Achieved' /\ ~HasKeys(storage)'
  BY <1>1 DEF OmemoTypeOK, Achieved, Contents, KeySets, HasKeys
<1>3. CASE HasKeys(storage)
  <2> DEFINE path == BackupPath(stamp)
  <2>1. backups' = Put(backups, path, storage) /\ path \notin DOMAIN backups
    BY <1>3, BackupPathIsFree DEF MoveStorage
  <2> HIDE DEF path
  <2>2. /\ DOMAIN backups' = DOMAIN backups \cup {path}
        /\ backups'[path] = storage
        /\ \A name \in DOMAIN backups : backups'[name] = backups[name]
    BY <2>1 DEF Put
  <2>3. \E k \in KeySets : storage = <<k>>
    BY <1>3 DEF OmemoTypeOK, Contents, HasKeys
  <2>4. BackupsDiffer'
    BY <1>1, <1>2, <1>3, <2>1, <2>2, <2>3 DEF BackupsDiffer, KeySets
  <2>5. KeysTied'
    BY <1>1, <1>2, <2>2 DEF KeysTied
  <2> QED BY <1>2, <2>4, <2>5
<1>4. CASE ~HasKeys(storage)
  <2>1. UNCHANGED backups
    BY <1>4 DEF MoveStorage
  <2>2. \A k \in KeySets : storage # <<k>>
    BY <1>4, ContentsDiffer, NumberOfOwners DEF HasKeys
  <2>3. KeysTied'
    BY <1>1, <1>2, <2>1, <2>2 DEF KeysTied, KeySets
  <2> QED BY <1>1, <1>2, <2>1, <2>3 DEF BackupsDiffer, KeySets
<1> QED BY <1>3, <1>4

\* Storing keys keeps the invariant: new ones are generated only where there
\* are none.
LEMMA StoreStep ==
  ASSUME OmemoInv, StoreKeys PROVE OmemoInv'
<1> USE DEF OmemoInv
<1>1. keeper.at = "up" /\ storage' = keeper'.data /\ UNCHANGED <<metadata, backups, stamp>>
  BY DEF StoreKeys
<1>2. CASE HasKeys(keeper.data) /\ UNCHANGED <<owners, keeper>>
  <2>1. UNCHANGED <<owners, keeper, storage>>
    BY <1>1, <1>2 DEF Achieved
  <2> QED BY <1>1, <2>1 DEF OmemoTypeOK, BackupsDiffer, Achieved, KeysTied, Contents, KeySets
<1>3. CASE /\ keeper.data = NoKeys /\ Len(owners) < MaxKeySets
           /\ owners' = Append(owners, keeper.identity)
           /\ keeper' = [keeper EXCEPT !.data = <<Len(owners')>>]
  <2> DEFINE n == Len(owners) + 1
  <2>0. Len(owners) \in Nat /\ KeySets \subseteq Nat \ {0} /\ MaxKeySets \in Nat
    BY NumberOfOwners, OmemoAssumption
  <2>1. keeper.identity \in Identities /\ owners \in Seq(Identities) /\ storage = NoKeys
    BY <1>1, <1>3 DEF Achieved, OmemoTypeOK
  <2>2. /\ owners' \in Seq(Identities) /\ Len(owners') = n
        /\ owners'[n] = keeper.identity
        /\ \A k \in KeySets : owners'[k] = owners[k]
    BY <1>3, <2>0, <2>1, AppendProperties DEF KeySets
  <2>3. /\ keeper' = [at |-> "up", identity |-> keeper.identity, reset |-> keeper.reset,
                      data |-> <<n>>]
        /\ storage' = <<n>>
    BY <1>1, <1>3, <2>2 DEF OmemoTypeOK
  <2>4. n \in Nat \ {0} /\ n \notin KeySets /\ KeySets' = KeySets \cup {n}
    BY <2>0, <2>2 DEF KeySets
  <2> HIDE DEF n
  <2>5. /\ <<n>> \notin {Absent, NoKeys} /\ <<n>>[1] = n
        /\ \A k \in KeySets : <<k>> # <<n>> /\ <<k>> # NoKeys
    BY <2>0, <2>4, ContentsDiffer
  <2>6. OmemoTypeOK'
    <3>1. Contents \subseteq Contents' /\ <<n>> \in Contents'
      BY <2>4 DEF Contents
    <3>2. Len(owners') <= MaxKeySets
      BY <1>3, <2>0, <2>2 DEF n
    <3> QED BY <1>1, <2>1, <2>2, <2>3, <3>1, <3>2 DEF OmemoTypeOK
  <2>7. BackupsDiffer'
    BY <1>1, <2>3, <2>4, <2>5 DEF BackupsDiffer, HasKeys
  <2>8. Achieved'
    BY <1>1, <2>3, <2>5 DEF Achieved, HasKeys
  <2>9. KeysTied'
    <3>1. keeper.reset => metadata = keeper.identity
      BY <1>1 DEF Achieved
    <3>2. \A k \in KeySets : \E name \in DOMAIN backups : backups[name] = <<k>>
      BY <2>1, <2>5 DEF KeysTied, KeySets
    <3>3. \A k \in KeySets' : storage' = <<k>> \/ \E name \in DOMAIN backups' : backups'[name] = <<k>>
      BY <1>1, <2>3, <2>4, <3>2
    <3>4. storage'[1] = n /\ owners'[storage'[1]] = keeper.identity
      BY <2>2, <2>3, <2>5
    <3> QED BY <1>1, <2>3, <3>1, <3>3, <3>4 DEF KeysTied, KeySets
  <2> QED BY <2>6, <2>7, <2>8, <2>9
<1> QED BY <1>2, <1>3 DEF StoreKeys

\* Every step keeps the invariant.
LEMMA OmemoStep ==
  ASSUME OmemoInv, [OmemoNext]_omemoVars PROVE OmemoInv'
<1> USE DEF OmemoInv
<1>1. CASE UNCHANGED omemoVars
  BY <1>1 DEF omemoVars, OmemoTypeOK, BackupsDiffer, Achieved, KeysTied, Contents, KeySets
<1>2. ASSUME NEW i \in Identities, Ensure(i) \/ Rotate(i) PROVE OmemoInv'
  <2>1. keeper.at = "down" /\ UNCHANGED <<storage, metadata, backups, stamp, owners>>
    BY <1>2 DEF Ensure, Rotate
  <2>2. i # "none"
    BY OmemoAssumption
  <2>3. /\ keeper'.identity = i /\ keeper'.reset = keeper.reset /\ keeper'.data = keeper.data
        /\ keeper'.at \in {"moving", "writing", "opening"}
        /\ keeper.reset /\ keeper'.at = "writing" => ~HasKeys(storage)
        /\ keeper.reset /\ keeper'.at = "opening" => metadata = i
        /\ keeper' = [at |-> keeper'.at, identity |-> i, reset |-> keeper.reset, data |-> keeper.data]
    <3>1. CASE Rotate(i)
      BY <3>1 DEF Rotate, OmemoTypeOK
    <3>2. CASE Ensure(i) /\ metadata = "none"
      BY <2>2, <3>2 DEF Ensure, OmemoTypeOK
    <3>3. CASE Ensure(i) /\ metadata = i
      BY <2>2, <3>3 DEF Ensure, OmemoTypeOK
    <3>4. CASE Ensure(i) /\ metadata \notin {"none", i}
      BY <2>2, <3>4 DEF Ensure, OmemoTypeOK
    <3> QED BY <1>2, <3>1, <3>2, <3>3, <3>4
  <2>4. OmemoTypeOK'
    BY <2>1, <2>3 DEF OmemoTypeOK, Contents, KeySets
  <2>5. Achieved'
    BY <2>1, <2>2, <2>3 DEF Achieved
  <2>6. KeysTied' /\ BackupsDiffer'
    BY <2>1, <2>3 DEF KeysTied, BackupsDiffer, KeySets
  <2> QED BY <2>4, <2>5, <2>6
<1>3. CASE MoveStorage
  BY <1>3, MoveStep
<1>4. CASE MoveMetadata
  <2>1. /\ keeper.at = "unnaming" /\ metadata' = "none" /\ UNCHANGED <<storage, backups, stamp, owners>>
        /\ keeper' = [at |-> "writing", identity |-> keeper.identity, reset |-> keeper.reset,
                      data |-> keeper.data]
    BY <1>4 DEF MoveMetadata, Proceed, OmemoTypeOK
  <2>2. storage = Absent /\ ~HasKeys(storage)
    BY <2>1 DEF Achieved, HasKeys
  <2> QED BY <2>1, <2>2 DEF OmemoTypeOK, BackupsDiffer, Achieved, KeysTied, Contents, KeySets
<1>5. CASE WriteMetadata
  <2>1. /\ keeper.at = "writing" /\ metadata' = keeper.identity
        /\ UNCHANGED <<storage, backups, stamp, owners>>
        /\ keeper' = [at |-> "opening", identity |-> keeper.identity, reset |-> keeper.reset,
                      data |-> keeper.data]
    BY <1>5 DEF WriteMetadata, Proceed, OmemoTypeOK
  <2> QED BY <2>1 DEF OmemoTypeOK, BackupsDiffer, Achieved, KeysTied, Contents, KeySets
<1>6. CASE OpenStorage
  <2>1. /\ keeper.at = "opening" /\ UNCHANGED <<metadata, backups, stamp, owners>>
        /\ storage' = IF storage = Absent THEN NoKeys ELSE storage
        /\ keeper' = [at |-> "up", identity |-> keeper.identity, reset |-> keeper.reset,
                      data |-> storage']
    BY <1>6 DEF OpenStorage, OmemoTypeOK
  <2>2. storage' \in Contents /\ storage' # Absent /\ (HasKeys(storage) <=> HasKeys(storage'))
    BY <2>1, ContentsDiffer DEF HasKeys, OmemoTypeOK, Contents
  <2>3. HasKeys(storage) => storage' = storage
    BY <2>1 DEF HasKeys
  <2>4. \A k \in KeySets : storage = <<k>> => storage' = <<k>>
    BY <2>3, ContentsDiffer, NumberOfOwners DEF HasKeys
  <2>5. OmemoTypeOK' /\ Achieved'
    BY <2>1, <2>2 DEF OmemoTypeOK, Achieved, Contents, KeySets
  <2>6. BackupsDiffer'
    BY <2>1, <2>2, <2>3 DEF BackupsDiffer, KeySets, HasKeys
  <2>7. KeysTied'
    BY <2>1, <2>2, <2>3, <2>4 DEF KeysTied, Achieved, KeySets
  <2> QED BY <2>5, <2>6, <2>7
<1>7. CASE StoreKeys
  BY <1>7, StoreStep
<1>8. CASE Die
  <2>1. /\ UNCHANGED <<storage, metadata, backups, stamp, owners>>
        /\ keeper' = [at |-> "down", identity |-> keeper.identity, reset |-> keeper.reset,
                      data |-> Absent]
    BY <1>8 DEF Die, OmemoTypeOK
  <2> QED BY <2>1 DEF OmemoTypeOK, BackupsDiffer, Achieved, KeysTied, Contents, KeySets
<1>9. CASE NextSecond
  BY <1>9 DEF NextSecond, OmemoTypeOK, BackupsDiffer, Achieved, KeysTied, Contents, KeySets
<1> QED BY <1>1, <1>2, <1>3, <1>4, <1>5, <1>6, <1>7, <1>8, <1>9 DEF OmemoNext

\* For any identities, and whatever crashes and rotations come: a process that
\* resets never works with keys of another identity, the metadata promise them
\* to no later one, and no set of keys is ever lost (ensure_identity_metadata,
\* rotate_storage_identity).
THEOREM KeysTiedAlways == OmemoSpec => []KeysTied
<1>1. OmemoInv => KeysTied
  BY DEF OmemoInv
<1> QED BY <1>1, OmemoStarts, OmemoStep, PTL DEF OmemoSpec

-----------------------------------------------------------------------------
(***************************************************************************)
(* The order of versions.                                                  *)
(***************************************************************************)
\* Only zeros follow part n.
TrimsAt(parts, n) ==
    /\ n = 1 \/ parts[n] # 0
    /\ \A i \in (n + 1)..Len(parts) : parts[i] = 0

\* The number of parts that are left.
LEMMA TrimExists ==
  ASSUME NEW parts \in Seq(Nat), parts # <<>>
  PROVE  \E n \in 1..Len(parts) : TrimsAt(parts, n)
<1> DEFINE S == {n \in 1..Len(parts) : \A i \in (n + 1)..Len(parts) : parts[i] = 0}
<1>1. Len(parts) \in Nat \ {0} /\ \A i \in 1..Len(parts) : parts[i] \in Nat
  BY EmptySeq, LenProperties
<1>2. Len(parts) \in S /\ S \in SUBSET Nat
  BY <1>1
<1>3. PICK m \in S : \A k \in S : m <= k
  BY <1>2, LeastNatural
<1>4. ASSUME m # 1, parts[m] = 0 PROVE FALSE
  <2>1. m - 1 \in 1..Len(parts) /\ \A i \in ((m - 1) + 1)..Len(parts) : i = m \/ i \in (m + 1)..Len(parts)
    BY <1>1, <1>4
  <2>2. m - 1 \in S
    BY <1>3, <1>4, <2>1
  <2>3. m <= m - 1 /\ m \in Nat
    BY <1>2, <1>3, <2>2
  <2> QED BY <2>3
<1> QED BY <1>3, <1>4 DEF TrimsAt

\* A part of a release, where missing ones are zeros
Digit(parts, i) == IF i \in DOMAIN parts THEN parts[i] ELSE 0

\* _trim_release_zeros leaves every part what it was, and no zero at the end.
LEMMA TrimmedParts ==
  ASSUME NEW parts \in Seq(Nat), parts # <<>>, NEW t, t = Trimmed(parts)
  PROVE  /\ t \in Seq(Nat) /\ Len(t) \in Nat \ {0} /\ Len(t) <= Len(parts)
         /\ \A i \in Nat \ {0} : Digit(parts, i) = Digit(t, i)
         /\ Len(t) = 1 \/ t[Len(t)] # 0
<1>1. Len(parts) \in Nat \ {0} /\ \A i \in 1..Len(parts) : parts[i] \in Nat
  BY EmptySeq, LenProperties
<1>2. PICK n : n = CHOOSE k \in 1..Len(parts) :
                         /\ k = 1 \/ parts[k] # 0
                         /\ \A i \in (k + 1)..Len(parts) : parts[i] = 0
  OBVIOUS
<1>3. n \in 1..Len(parts) /\ TrimsAt(parts, n)
  BY <1>2, TrimExists DEF TrimsAt
<1>4. t = SubSeq(parts, 1, n)
  BY <1>2 DEF Trimmed
<1>5. t \in Seq(Nat) /\ Len(t) = n /\ DOMAIN t = 1..n /\ \A i \in 1..n : t[i] = parts[i]
  BY <1>1, <1>3, <1>4, SubSeqProperties
<1>6. ASSUME NEW i \in Nat \ {0} PROVE Digit(parts, i) = Digit(t, i)
  <2>1. CASE i \in 1..n
    BY <1>1, <1>3, <1>5, <2>1 DEF Digit
  <2>2. CASE i > n
    <3>1. i \notin DOMAIN t
      BY <1>3, <1>5, <2>2
    <3>2. i \in 1..Len(parts) => parts[i] = 0
      BY <1>1, <1>3, <2>2 DEF TrimsAt
    <3>3. DOMAIN parts = 1..Len(parts)
      BY LenProperties
    <3> QED BY <3>1, <3>2, <3>3 DEF Digit
  <2> QED BY <1>3, <2>1, <2>2
<1> QED BY <1>1, <1>3, <1>5, <1>6 DEF TrimsAt

\* Two labels in order.
LEMMA LabelGreater ==
  ASSUME NEW a \in Nat, NEW b \in Nat, NEW c \in Nat, NEW d \in Nat,
         TupleGreater(<<a, b>>, <<c, d>>)
  PROVE  a > c \/ (a = c /\ b > d)
<1>1. PICK i \in 1..2 : <<a, b>>[i] > <<c, d>>[i]
                          /\ SubSeq(<<a, b>>, 1, i - 1) = SubSeq(<<c, d>>, 1, i - 1)
  BY DEF TupleGreater
<1>2. CASE i = 1
  BY <1>1, <1>2
<1>3. CASE i = 2
  <2>1. SubSeq(<<a, b>>, 1, 1) = SubSeq(<<c, d>>, 1, 1) /\ b > d
    BY <1>1, <1>3
  <2>2. SubSeq(<<a, b>>, 1, 1)[1] = a /\ SubSeq(<<c, d>>, 1, 1)[1] = c
    OBVIOUS
  <2> QED BY <2>1, <2>2
<1> QED BY <1>2, <1>3

\* What the bot calls newer follows in the order of versions, for parts of any
\* length.
LEMMA NewerFollows ==
  ASSUME NEW v \in Versions, NEW w \in Versions, IsNewer(v, w)
  PROVE  Precedes(w, v)
<1>0. /\ v.release \in Seq(Nat) /\ v.release # <<>> /\ v.rank \in Nat /\ v.number \in Nat
      /\ w.release \in Seq(Nat) /\ w.release # <<>> /\ w.rank \in Nat /\ w.number \in Nat
  BY ReleaseAssumption DEF ReleaseAssumption
<1>1. PICK t : t = Trimmed(v.release)
  OBVIOUS
<1>2. PICK u : u = Trimmed(w.release)
  OBVIOUS
<1>3. /\ t \in Seq(Nat) /\ Len(t) \in Nat \ {0} /\ Len(t) <= Len(v.release)
      /\ \A i \in Nat \ {0} : Part(v, i) = Digit(t, i)
      /\ Len(t) = 1 \/ t[Len(t)] # 0
  BY <1>0, <1>1, TrimmedParts DEF Part, Digit
<1>4. /\ u \in Seq(Nat) /\ Len(u) \in Nat \ {0} /\ Len(u) <= Len(w.release)
      /\ \A i \in Nat \ {0} : Part(w, i) = Digit(u, i)
  BY <1>0, <1>2, TrimmedParts DEF Part, Digit
<1>5. PICK differ : differ = {i \in DOMAIN w.release \cup DOMAIN v.release : Part(w, i) # Part(v, i)}
  OBVIOUS
<1>6. /\ DOMAIN v.release = 1..Len(v.release) /\ DOMAIN w.release = 1..Len(w.release)
      /\ DOMAIN t = 1..Len(t) /\ DOMAIN u = 1..Len(u)
      /\ Len(v.release) \in Nat /\ Len(w.release) \in Nat
      /\ differ \in SUBSET (Nat \ {0})
  <2>1. /\ DOMAIN v.release = 1..Len(v.release) /\ DOMAIN w.release = 1..Len(w.release)
        /\ Len(v.release) \in Nat /\ Len(w.release) \in Nat
    BY <1>0, LenProperties
  <2>2. DOMAIN t = 1..Len(t) /\ DOMAIN u = 1..Len(u)
    BY <1>3, <1>4, LenProperties
  <2>3. \A i \in differ : i \in Nat \ {0}
    BY <1>5, <2>1
  <2> QED BY <2>1, <2>2, <2>3
<1>7. SUFFICES IF differ = {} THEN w.rank < v.rank \/ (w.rank = v.rank /\ w.number < v.number)
               ELSE \E i \in differ : Part(w, i) < Part(v, i) /\ \A j \in differ : i <= j
  BY <1>5 DEF Precedes
<1>8. CASE \E i \in DOMAIN t \cap DOMAIN u :
              t[i] > u[i] /\ SubSeq(t, 1, i - 1) = SubSeq(u, 1, i - 1)
  <2>1. PICK i \in DOMAIN t \cap DOMAIN u :
              t[i] > u[i] /\ SubSeq(t, 1, i - 1) = SubSeq(u, 1, i - 1)
    BY <1>8
  <2>2. i \in Nat \ {0} /\ i <= Len(t) /\ i <= Len(u) /\ t[i] \in Nat /\ u[i] \in Nat
    BY <1>3, <1>4, <1>6, <2>1, LenProperties
  <2>3. Part(v, i) = t[i] /\ Part(w, i) = u[i] /\ i \in differ
    BY <1>3, <1>4, <1>5, <1>6, <2>1, <2>2 DEF Digit
  <2>4. ASSUME NEW j \in 1..(i - 1) PROVE t[j] = u[j]
    <3>1. /\ i - 1 \in 0..Len(t) /\ i - 1 \in 0..Len(u) /\ j \in Nat
          /\ 1 \in 1..(Len(t) + 1) /\ 1 \in 1..(Len(u) + 1)
      BY <1>3, <1>4, <2>2
    <3>2. SubSeq(t, 1, i - 1)[j] = t[j]
      BY <1>3, <3>1, SubSeqProperties
    <3>3. SubSeq(u, 1, i - 1)[j] = u[j]
      BY <1>4, <3>1, SubSeqProperties
    <3> QED BY <2>1, <3>2, <3>3
  <2>5. ASSUME NEW j \in differ, j < i PROVE FALSE
    <3>1. j \in 1..(i - 1) /\ j \in Nat \ {0} /\ j \in DOMAIN t /\ j \in DOMAIN u
      BY <1>3, <1>4, <1>6, <2>2, <2>5
    <3>2. Part(v, j) = t[j] /\ Part(w, j) = u[j]
      BY <1>3, <1>4, <3>1 DEF Digit
    <3> QED BY <1>5, <2>4, <3>1, <3>2
  <2>6. \A j \in differ : i <= j
    BY <1>6, <2>2, <2>5
  <2> QED BY <2>1, <2>2, <2>3, <2>6
<1>9. CASE Len(t) > Len(u) /\ SubSeq(t, 1, Len(u)) = u
  <2>1. t[Len(t)] \in Nat /\ t[Len(t)] # 0 /\ Len(t) \in Nat \ {0} /\ Len(t) \notin DOMAIN u
    BY <1>3, <1>4, <1>6, <1>9, LenProperties
  <2>2. Part(v, Len(t)) = t[Len(t)] /\ Part(w, Len(t)) = 0
    BY <1>3, <1>4, <1>6, <2>1 DEF Digit
  <2>3. Len(t) \in differ
    BY <1>3, <1>5, <1>6, <2>1, <2>2
  <2>4. PICK i \in differ : \A j \in differ : i <= j
    BY <1>6, <2>3, LeastNatural
  <2>5. ASSUME i <= Len(u) PROVE FALSE
    <3>1. i \in 1..Len(u) /\ i \in 1..Len(t)
      BY <1>3, <1>4, <1>6, <1>9, <2>5
    <3>2. SubSeq(t, 1, Len(u))[i] = t[i]
      BY <1>3, <1>4, <1>9, <3>1, SubSeqProperties
    <3>3. Part(v, i) = t[i] /\ Part(w, i) = u[i]
      BY <1>3, <1>4, <1>6, <3>1 DEF Digit
    <3> QED BY <1>5, <1>9, <3>2, <3>3
  <2>6. Part(w, i) = 0 /\ Part(v, i) # 0 /\ Part(v, i) \in Nat
    <3>1. i \notin DOMAIN u /\ i \in Nat \ {0}
      BY <1>4, <1>6, <2>5
    <3>2. Part(w, i) = 0
      BY <1>4, <3>1 DEF Digit
    <3>3. Digit(t, i) \in Nat
      BY <1>3, <1>6, LenProperties DEF Digit
    <3> QED BY <1>3, <1>5, <3>1, <3>2, <3>3
  <2> QED BY <2>4, <2>6
<1>10. CASE t = u /\ TupleGreater(Label(v), Label(w))
  <2>1. differ = {}
    BY <1>3, <1>4, <1>5, <1>6, <1>10
  <2>2. v.rank > w.rank \/ (v.rank = w.rank /\ v.number > w.number)
    BY <1>0, <1>10, LabelGreater DEF Label
  <2> QED BY <1>0, <2>1, <2>2
<1> QED BY <1>1, <1>2, <1>8, <1>9, <1>10 DEF IsNewer, TupleGreater

\* Beginnings that agree part by part are equal.
LEMMA SameBeginning ==
  ASSUME NEW t \in Seq(Nat), NEW u \in Seq(Nat), NEW n \in Nat,
         n <= Len(t), n <= Len(u), \A i \in 1..n : t[i] = u[i]
  PROVE  SubSeq(t, 1, n) = SubSeq(u, 1, n)
<1>1. 1 \in 1..(Len(t) + 1) /\ 1 \in 1..(Len(u) + 1) /\ n \in 0..Len(t) /\ n \in 0..Len(u)
  BY LenProperties
<1>2. /\ SubSeq(t, 1, n) \in Seq(Nat) /\ Len(SubSeq(t, 1, n)) = n
      /\ \A i \in 1..n : SubSeq(t, 1, n)[i] = t[i]
  BY <1>1, SubSeqProperties
<1>3. /\ SubSeq(u, 1, n) \in Seq(Nat) /\ Len(SubSeq(u, 1, n)) = n
      /\ \A i \in 1..n : SubSeq(u, 1, n)[i] = u[i]
  BY <1>1, SubSeqProperties
<1> QED BY <1>2, <1>3, SeqEqual

\* Two labels, compared as tuples
LEMMA GreaterLabel ==
  ASSUME NEW a \in Nat, NEW b \in Nat, NEW c \in Nat, NEW d \in Nat,
         a > c \/ (a = c /\ b > d)
  PROVE  TupleGreater(<<a, b>>, <<c, d>>)
<1> DEFINE s == <<a, b>>
           r == <<c, d>>
<1>1. /\ s \in Seq(Nat) /\ r \in Seq(Nat) /\ Len(s) = 2 /\ Len(r) = 2
      /\ s[1] = a /\ s[2] = b /\ r[1] = c /\ r[2] = d
      /\ DOMAIN s = 1..2 /\ DOMAIN r = 1..2
  OBVIOUS
<1> HIDE DEF s, r
<1>2. CASE a > c
  <2>1. SubSeq(s, 1, 1 - 1) = SubSeq(r, 1, 1 - 1)
    BY <1>1, SameBeginning
  <2> QED BY <1>1, <1>2, <2>1 DEF TupleGreater, s, r
<1>3. CASE a = c /\ b > d
  <2>1. SubSeq(s, 1, 2 - 1) = SubSeq(r, 1, 2 - 1)
    BY <1>1, <1>3, SameBeginning
  <2>2. 2 \in DOMAIN s \cap DOMAIN r /\ s[2] > r[2]
    BY <1>1, <1>3
  <2>3. TupleGreater(s, r)
    BY <2>1, <2>2 DEF TupleGreater
  <2> QED BY <2>3 DEF s, r
<1> QED BY <1>2, <1>3

\* A trimmed release ends where its last part is not zero, so that two that
\* agree part by part are equal.
LEMMA SameParts ==
  ASSUME NEW t \in Seq(Nat), NEW u \in Seq(Nat), Len(t) \in Nat \ {0}, Len(u) \in Nat \ {0},
         Len(t) = 1 \/ t[Len(t)] # 0, Len(u) = 1 \/ u[Len(u)] # 0,
         \A i \in Nat \ {0} : Digit(t, i) = Digit(u, i)
  PROVE  t = u
<1>1. DOMAIN t = 1..Len(t) /\ DOMAIN u = 1..Len(u)
  BY LenProperties
<1>2. ASSUME Len(t) > Len(u) PROVE FALSE
  <2>1. Len(t) \notin DOMAIN u /\ Len(t) \in DOMAIN t /\ t[Len(t)] # 0
    BY <1>1, <1>2
  <2> QED BY <2>1 DEF Digit
<1>3. ASSUME Len(u) > Len(t) PROVE FALSE
  <2>1. Len(u) \notin DOMAIN t /\ Len(u) \in DOMAIN u /\ u[Len(u)] # 0
    BY <1>1, <1>3
  <2> QED BY <2>1 DEF Digit
<1>4. Len(t) = Len(u)
  BY <1>2, <1>3
<1>5. \A i \in 1..Len(t) : t[i] = u[i]
  BY <1>1, <1>4 DEF Digit
<1> QED BY <1>4, <1>5, SeqEqual

\* The bot calls every later version newer.
LEMMA FollowingIsNewer ==
  ASSUME NEW v \in Versions, NEW w \in Versions, Precedes(w, v)
  PROVE  IsNewer(v, w)
<1>0. /\ v.release \in Seq(Nat) /\ v.release # <<>> /\ v.rank \in Nat /\ v.number \in Nat
      /\ w.release \in Seq(Nat) /\ w.release # <<>> /\ w.rank \in Nat /\ w.number \in Nat
  BY ReleaseAssumption DEF ReleaseAssumption
<1>1. PICK t : t = Trimmed(v.release)
  OBVIOUS
<1>2. PICK u : u = Trimmed(w.release)
  OBVIOUS
<1>3. /\ t \in Seq(Nat) /\ Len(t) \in Nat \ {0} /\ DOMAIN t = 1..Len(t)
      /\ \A i \in Nat \ {0} : Part(v, i) = Digit(t, i)
      /\ Len(t) = 1 \/ t[Len(t)] # 0
  BY <1>0, <1>1, TrimmedParts, LenProperties DEF Part, Digit
<1>4. /\ u \in Seq(Nat) /\ Len(u) \in Nat \ {0} /\ DOMAIN u = 1..Len(u)
      /\ \A i \in Nat \ {0} : Part(w, i) = Digit(u, i)
      /\ Len(u) = 1 \/ u[Len(u)] # 0
  BY <1>0, <1>2, TrimmedParts, LenProperties DEF Part, Digit
<1>5. PICK differ : differ = {i \in DOMAIN w.release \cup DOMAIN v.release : Part(w, i) # Part(v, i)}
  OBVIOUS
<1>6. /\ DOMAIN v.release = 1..Len(v.release) /\ Len(v.release) \in Nat
      /\ DOMAIN w.release = 1..Len(w.release) /\ Len(w.release) \in Nat
  BY <1>0, LenProperties
<1>7. \A i \in Nat \ {0} : i \notin differ => Digit(t, i) = Digit(u, i)
  BY <1>3, <1>4, <1>5 DEF Part
<1>8. IF differ = {} THEN w.rank < v.rank \/ (w.rank = v.rank /\ w.number < v.number)
      ELSE \E i \in differ : Part(w, i) < Part(v, i) /\ \A j \in differ : i <= j
  BY <1>5 DEF Precedes
<1>9. CASE differ = {}
  <2>1. t = u
    BY <1>3, <1>4, <1>7, <1>9, SameParts
  <2>2. TupleGreater(Label(v), Label(w))
    BY <1>0, <1>8, <1>9, GreaterLabel DEF Label
  <2> QED BY <1>1, <1>2, <2>1, <2>2 DEF IsNewer
<1>10. CASE differ # {}
  <2>1. PICK i \in differ : Part(w, i) < Part(v, i) /\ \A j \in differ : i <= j
    BY <1>8, <1>10
  <2>2. i \in Nat \ {0}
    BY <1>5, <1>6
  <2>3. Digit(t, i) \in Nat /\ Digit(u, i) \in Nat /\ Digit(u, i) < Digit(t, i)
    BY <1>3, <1>4, <2>1, <2>2, LenProperties DEF Digit
  <2>4. i \in DOMAIN t /\ i <= Len(t)
    BY <1>3, <2>2, <2>3 DEF Digit
  <2>5. \A j \in 1..(i - 1) : j \in Nat \ {0} /\ j \notin differ
    BY <2>1, <2>2
  <2>6. \A j \in 1..(i - 1) : j \in DOMAIN u => t[j] = u[j]
    <3>1. \A j \in 1..(i - 1) : j \in DOMAIN t
      BY <1>3, <2>2, <2>4
    <3> QED BY <1>7, <2>5, <3>1 DEF Digit
  <2>7. CASE i \in DOMAIN u
    <3>1. t[i] > u[i] /\ i <= Len(u)
      BY <1>4, <2>3, <2>4, <2>7 DEF Digit
    <3>2. SubSeq(t, 1, i - 1) = SubSeq(u, 1, i - 1)
      <4>1. i - 1 \in Nat /\ i - 1 <= Len(t) /\ i - 1 <= Len(u)
        BY <1>3, <1>4, <2>2, <2>4, <3>1
      <4>2. \A j \in 1..(i - 1) : t[j] = u[j]
        BY <1>4, <2>2, <2>6, <3>1
      <4> QED BY <1>3, <1>4, <4>1, <4>2, SameBeginning
    <3>3. TupleGreater(t, u)
      BY <2>4, <2>7, <3>1, <3>2 DEF TupleGreater
    <3> QED BY <1>1, <1>2, <3>3 DEF IsNewer
  <2>8. CASE i \notin DOMAIN u
    <3>1. Len(u) < i /\ Len(u) < Len(t)
      BY <1>3, <1>4, <2>2, <2>4, <2>8
    <3>2. SubSeq(t, 1, Len(u)) = SubSeq(u, 1, Len(u))
      <4>1. Len(u) \in Nat /\ Len(u) <= Len(t)
        BY <1>3, <1>4, <3>1
      <4>2. \A j \in 1..Len(u) : t[j] = u[j]
        BY <1>4, <2>2, <2>6, <3>1
      <4>3. t \in Seq(Nat) /\ u \in Seq(Nat) /\ Len(u) <= Len(u)
        BY <1>3, <1>4, <4>1
      <4> QED BY <4>1, <4>2, <4>3, SameBeginning
    <3>3. SubSeq(u, 1, Len(u)) = u
      <4>1. 1 \in 1..(Len(u) + 1) /\ Len(u) \in 0..Len(u)
        BY <1>4
      <4>2. /\ SubSeq(u, 1, Len(u)) \in Seq(Nat) /\ Len(SubSeq(u, 1, Len(u))) = Len(u)
            /\ \A j \in 1..Len(u) : SubSeq(u, 1, Len(u))[j] = u[j]
        BY <1>4, <4>1, SubSeqProperties
      <4> QED BY <1>4, <4>2, SeqEqual
    <3>4. TupleGreater(t, u)
      BY <3>1, <3>2, <3>3 DEF TupleGreater
    <3> QED BY <1>1, <1>2, <3>4 DEF IsNewer
  <2> QED BY <2>7, <2>8
<1> QED BY <1>9, <1>10

\* compare_versions is the order of versions: what the bot calls newer is what
\* follows part by part, missing parts being zeros, and then by its label, for
\* releases of any length (version_sort_key, _trim_release_zeros).
THEOREM NewerIsFollowing ==
  \A v \in Versions, w \in Versions : IsNewer(v, w) <=> Precedes(w, v)
BY NewerFollows, FollowingIsNewer

-----------------------------------------------------------------------------
\* Half a pending update is none.
Whole(r) == r.from = Unknown <=> r.to = Unknown

\* The notices that were sent, in their order
Noticed ==
    /\ starter.version \in Versions \cup {Unknown}
    /\ starter.at # "up" => notices = <<>>
    /\ notices \in Seq(Versions)
    /\ notices # <<>> => starter.version \in Versions
    /\ \A i \in 1..Len(notices) :
          /\ IsNewer(notices[i], starter.version)
          /\ i > 1 => notices[i] # notices[i - 1]

\* The inductive invariant
OrderInv ==
    /\ PendingInv /\ Noticed /\ Whole(row)
    /\ starter.at = "loaded" => Whole(starter.loaded)

\* What is written names both versions of an update, or neither.
LEMMA WrittenWhole ==
  ASSUME NEW was, NEW current PROVE Whole(WrittenRow(was, current))
<1> DEFINE p == Merged(was.version, current, [from |-> was.from, to |-> was.to])
<1>1. CASE p.from = p.to \/ ~IsPending(p)
  BY <1>1 DEF WrittenRow, Normal, Whole
<1>2. CASE ~(p.from = p.to \/ ~IsPending(p))
  BY <1>2 DEF WrittenRow, Normal, Whole, IsPending
<1> QED BY <1>1, <1>2

\* Every step keeps the invariant.
LEMMA OrderStep ==
  ASSUME OrderInv, [ReleaseNext]_releaseVars PROVE OrderInv'
<1>0. PendingInv' /\ PendingInv
  BY PendingStep DEF OrderInv
<1>1. CASE UNCHANGED releaseVars
  BY <1>0, <1>1 DEF releaseVars, OrderInv, Noticed, Whole
<1>2. ASSUME NEW v \in Versions \cup {Unknown}, LoadState(v) PROVE OrderInv'
  <2>1. PICK read \in {row, NoRow} :
           starter' = [at |-> "loaded", version |-> v, loaded |-> read]
    BY <1>2 DEF LoadState
  <2>2. UNCHANGED <<row, notices>> /\ notices = <<>> /\ Whole(read)
    BY <1>2, <2>1 DEF LoadState, OrderInv, Noticed, Whole, NoRow
  <2>3. Len(notices) = 0
    BY <2>2
  <2> QED BY <1>0, <2>1, <2>2, <2>3 DEF OrderInv, Noticed, Whole
<1>3. CASE SaveState
  <2>1. row' = WrittenRow(starter.loaded, starter.version) /\ starter.at = "loaded"
        /\ UNCHANGED notices
    BY <1>3 DEF SaveState, WrittenRow
  <2>2. starter'.at = "up" /\ starter'.version = starter.version
    BY <1>3 DEF SaveState, PendingInv, Starter, OrderInv
  <2>3. Noticed'
    BY <2>1, <2>2 DEF OrderInv, Noticed
  <2> QED BY <1>0, <2>1, <2>2, <2>3, WrittenWhole DEF OrderInv, Whole
<1>4. CASE BeginDelivery \/ \E i \in DOMAIN deliveries : DeliveryFails(i)
  BY <1>0, <1>4 DEF BeginDelivery, DeliveryFails, OrderInv, Noticed, Whole
<1>5. CASE Stops
  <2>1. starter' = [at |-> "down", version |-> Unknown, loaded |-> NoRow]
        /\ notices' = <<>> /\ UNCHANGED row
    BY <1>5 DEF Stops
  <2>2. Noticed'
    BY <2>1 DEF Noticed
  <2> QED BY <1>0, <2>1, <2>2 DEF OrderInv, Whole
<1>6. ASSUME NEW v \in Versions, CheckRelease(v) PROVE OrderInv'
  <2>1. /\ starter.at = "up" /\ starter.version # Unknown /\ IsNewer(v, starter.version)
        /\ \A i \in DOMAIN notices : notices[i] = v => i # Len(notices)
        /\ notices' = Append(notices, v) /\ UNCHANGED <<row, starter>>
    BY <1>6 DEF CheckRelease, Due
  <2>2. /\ notices \in Seq(Versions) /\ Len(notices) \in Nat /\ DOMAIN notices = 1..Len(notices)
        /\ notices' \in Seq(Versions) /\ Len(notices') = Len(notices) + 1
        /\ \A i \in 1..Len(notices) : notices'[i] = notices[i]
        /\ notices'[Len(notices) + 1] = v
    BY <2>1, AppendProperties, LenProperties DEF OrderInv, Noticed
  <2>3. ASSUME NEW i \in 1..Len(notices')
        PROVE  IsNewer(notices'[i], starter'.version) /\ (i > 1 => notices'[i] # notices'[i - 1])
    <3>1. CASE i \in 1..Len(notices)
      <4>1. i > 1 => i - 1 \in 1..Len(notices)
        BY <2>2, <3>1
      <4> QED BY <2>1, <2>2, <3>1, <4>1 DEF OrderInv, Noticed
    <3>2. CASE i = Len(notices) + 1
      <4>1. i > 1 => i - 1 \in 1..Len(notices) /\ i - 1 = Len(notices)
        BY <2>2, <3>2
      <4> QED BY <2>1, <2>2, <3>2, <4>1
    <3> QED BY <2>2, <3>1, <3>2
  <2>4. Noticed'
    BY <2>1, <2>2, <2>3 DEF OrderInv, Noticed
  <2> QED BY <1>0, <2>1, <2>4 DEF OrderInv, Whole
<1>7. ASSUME NEW i \in DOMAIN deliveries, ClearPending(i) PROVE OrderInv'
  <2>1. UNCHANGED <<starter, notices>>
    BY <1>7 DEF ClearPending
  <2>2. Whole(row')
    <3>1. CASE Pending = deliveries[i]
      <4>1. row' = [row EXCEPT !.from = Unknown, !.to = Unknown]
        BY <1>7, <3>1 DEF ClearPending
      <4>2. row' = [version |-> row.version, from |-> Unknown, to |-> Unknown]
        BY <1>0, <4>1 DEF PendingInv, Row
      <4> QED BY <4>2 DEF Whole
    <3>2. CASE Pending # deliveries[i]
      BY <1>7, <3>2 DEF ClearPending, OrderInv
    <3> QED BY <3>1, <3>2
  <2> QED BY <1>0, <2>1, <2>2 DEF OrderInv, Noticed, Whole
<1> QED BY <1>1, <1>2, <1>3, <1>4, <1>5, <1>6, <1>7 DEF ReleaseNext

\* For any versions, with any number of parts: every notice names a version
\* that follows the one running, never the same twice in a row, and a pending
\* update leads from another version to the one that runs
\* (evaluate_release_check, is_newer_version).
THEOREM ReleasesOrderedAlways == ReleaseSpec => []ReleasesOrdered
<1>1. ReleaseInit => OrderInv
  <2> SUFFICES ASSUME ReleaseInit PROVE OrderInv
    OBVIOUS
  <2>1. PendingInv
    BY DEF ReleaseInit, NoRow, Unknown, PendingInv, Row, Chained, Starter, Loaded
  <2>2. Noticed
    BY DEF ReleaseInit, Noticed
  <2> QED BY <2>1, <2>2 DEF ReleaseInit, OrderInv, Whole, NoRow
<1>2. OrderInv /\ [ReleaseNext]_releaseVars => OrderInv'
  BY OrderStep
<1>3. OrderInv => ReleasesOrdered
  <2> SUFFICES ASSUME OrderInv PROVE ReleasesOrdered
    OBVIOUS
  <2>1. ASSUME NEW i \in DOMAIN notices
        PROVE  Precedes(starter.version, notices[i]) /\ (i > 1 => notices[i] # notices[i - 1])
    <3>1. /\ i \in 1..Len(notices) /\ notices[i] \in Versions /\ starter.version \in Versions
      BY LenProperties, ElementOfSeq DEF OrderInv, Noticed
    <3> QED BY <3>1, NewerFollows DEF OrderInv, Noticed
  <2>2. /\ IsPending(Pending) => row.to = row.version /\ row.from # row.to
        /\ row.from = Unknown <=> row.to = Unknown
    BY DEF OrderInv, PendingInv, Chained, IsPending, Pending, Whole
  <2> QED BY <2>1, <2>2 DEF ReleasesOrdered
<1> QED BY <1>1, <1>2, <1>3, PTL DEF ReleaseSpec

-----------------------------------------------------------------------------
(***************************************************************************)
(* Edits of the configuration.                                             *)
(***************************************************************************)
\* An edit
Record ==
    [at : {"idle", "refused", "failed", "prepared", "applying", "undoing", "undone", "kept"},
     original : Seq(Assignment), restored : BOOLEAN]

EditTypeOK ==
    /\ text \in Seq(Assignment)
    /\ edits \in [Settings -> Record]

\* What an open edit has read is what it wrote over, unless it is stale.
EditReads(n) ==
    /\ At(n) = "prepared" => text = edits[n].original
    /\ At(n) = "applying" => text = Updated(edits[n].original, n)
    /\ At(n) = "undoing" => text \in {edits[n].original, Updated(edits[n].original, n)}
    /\ At(n) = "undoing" /\ edits[n].restored => text = edits[n].original

\* What an edit promises of the file unless it is lost, as in EditsAtomic
EditHolds(n) ==
    /\ At(n) \in {"applying", "kept"} => Values(text, n) = {New}
    /\ At(n) = "failed" => Values(text, n) \in {{New}, Values(edits[n].original, n)}
    /\ At(n) \in {"undoing", "undone"} /\ edits[n].restored =>
          Values(text, n) = Values(edits[n].original, n)

EditFits(n) ==
    /\ n \notin stale => EditReads(n)
    /\ n \notin lost => EditHolds(n)
    /\ At(n) = "idle" => n \notin stale /\ n \notin lost

\* The inductive invariant
EditInv ==
    /\ EditTypeOK
    /\ \A n \in Settings : EditFits(n)

\* An update sets its own setting and no other.
LEMMA UpdatedValues ==
  ASSUME NEW t \in Seq(Assignment), NEW n \in STRING
  PROVE  /\ Updated(t, n) \in Seq(Assignment)
         /\ Values(Updated(t, n), n) = {New}
         /\ \A m \in STRING \ {n} : Values(Updated(t, n), m) = Values(t, m)
<1>0. /\ DOMAIN t = 1..Len(t) /\ Len(t) \in Nat
      /\ \A i \in DOMAIN t : t[i] \in Assignment
  BY LenProperties, ElementOfSeq
<1>1. CASE Occurrences(t, n) = {}
  <2> DEFINE new == [name |-> n, value |-> New]
             u == Append(t, new)
  <2>1. u = Updated(t, n)
    BY <1>1 DEF Updated
  <2>2. new \in Assignment /\ new.name = n /\ new.value = New
    BY DEF Assignment
  <2> HIDE DEF new
  <2>3. /\ u \in Seq(Assignment) /\ Len(u) = Len(t) + 1
        /\ u[Len(t) + 1] = new /\ \A i \in 1..Len(t) : u[i] = t[i]
    BY <2>2, AppendProperties
  <2>4. DOMAIN u = DOMAIN t \cup {Len(t) + 1} /\ Len(t) + 1 \notin DOMAIN t
    BY <1>0, <2>3, LenProperties
  <2> HIDE DEF u
  <2>5. Occurrences(u, n) = {Len(t) + 1}
    BY <1>0, <1>1, <2>2, <2>3, <2>4 DEF Occurrences
  <2>6. \A m \in STRING \ {n} : Occurrences(u, m) = Occurrences(t, m)
    BY <1>0, <2>2, <2>3, <2>4 DEF Occurrences
  <2>7. Values(u, n) = {New}
    BY <2>2, <2>3, <2>5 DEF Values
  <2>8. \A m \in STRING \ {n} : Values(u, m) = Values(t, m)
    BY <1>0, <2>3, <2>6 DEF Values, Occurrences
  <2> QED BY <2>1, <2>3, <2>7, <2>8
<1>2. CASE Occurrences(t, n) # {}
  <2> DEFINE u == [i \in DOMAIN t |->
                     IF t[i].name = n THEN [t[i] EXCEPT !.value = New] ELSE t[i]]
  <2>1. u = Updated(t, n)
    BY <1>2 DEF Updated
  <2>2. \A i \in DOMAIN t : /\ u[i] \in Assignment /\ u[i].name = t[i].name
                            /\ u[i].value = IF t[i].name = n THEN New ELSE t[i].value
    BY <1>0 DEF Assignment
  <2>3. DOMAIN u = DOMAIN t
    OBVIOUS
  <2> HIDE DEF u
  <2>4. u \in Seq(Assignment)
    <3>1. u \in [1..Len(t) -> Assignment]
      <4>1. u = [i \in 1..Len(t) |-> u[i]]
        BY <1>0 DEF u
      <4> QED BY <1>0, <2>2, <4>1
    <3> QED BY <1>0, <3>1, IsASeq
  <2>5. \A m \in STRING : Occurrences(u, m) = Occurrences(t, m)
    BY <2>2, <2>3 DEF Occurrences
  <2>6. Values(u, n) = {New}
    <3>1. \A i \in Occurrences(u, n) : u[i].value = New
      BY <2>2, <2>3 DEF Occurrences
    <3>2. Occurrences(u, n) # {}
      BY <1>2, <2>5
    <3> QED BY <3>1, <3>2 DEF Values
  <2>7. ASSUME NEW m \in STRING \ {n} PROVE Values(u, m) = Values(t, m)
    <3>1. \A i \in Occurrences(t, m) : u[i].value = t[i].value
      BY <2>2 DEF Occurrences
    <3>2. Occurrences(u, m) = Occurrences(t, m)
      BY <2>5
    <3> QED BY <3>1, <3>2 DEF Values
  <2> QED BY <2>1, <2>4, <2>6, <2>7
<1> QED BY <1>1, <1>2

\* No edit is under way at first.
LEMMA ConfigStarts == ConfigInit => EditInv
<1> SUFFICES ASSUME ConfigInit PROVE EditInv
  OBVIOUS
<1>1. <<>> \in Seq(Assignment)
  BY EmptySeq
<1>2. EditTypeOK
  BY <1>1, ConfigAssumption DEF ConfigInit, EditTypeOK, Record
<1> QED BY <1>2 DEF ConfigInit, EditInv, EditFits, EditReads, EditHolds, At

\* A step of the edit n, as far as the others see it: the file keeps the values
\* of their settings unless n is stale.
LEMMA OthersKeep ==
  ASSUME EditInv, NEW n \in Settings, Written(n),
         \A m \in Settings \ {n} : edits'[m] = edits[m],
         n \notin stale => \A m \in STRING \ {n} : Values(text', m) = Values(text, m)
  PROVE  /\ \A m \in Settings \ {n} : EditFits(m)'
         /\ n \in stale' <=> n \in stale
         /\ n \in lost' <=> n \in lost
<1>1. ASSUME NEW m \in Settings \ {n} PROVE EditFits(m)'
  <2>1. edits'[m] = edits[m] /\ EditFits(m)
    BY <1>1 DEF EditInv
  <2>2. n \notin stale => Values(text', m) = Values(text, m)
    BY ConfigAssumption
  <2>3. CASE text' = text
    <3>1. stale' = stale /\ lost' = lost
      BY <2>3 DEF Written
    <3> QED BY <2>1, <2>3, <3>1 DEF EditFits, EditReads, EditHolds, At
  <2>4. CASE text' # text
    <3>1. /\ m \in stale' <=> m \in stale \/ IsOpen(m)
          /\ m \in lost' <=> m \in lost \/ (n \in stale /\ At(m) \notin {"idle", "prepared"})
      BY <2>4 DEF Written
    <3>2. At(m)' = At(m)
      BY <2>1 DEF At
    <3>3. m \notin stale' => EditReads(m)'
      BY <3>1, <3>2 DEF IsOpen, EditReads
    <3>4. m \notin lost' => EditHolds(m)'
      <4>1. CASE At(m) \in {"idle", "prepared"}
        BY <3>2, <4>1 DEF EditHolds
      <4>2. CASE n \notin stale
        BY <2>1, <2>2, <3>1, <3>2, <4>2 DEF EditFits, EditHolds
      <4> QED BY <3>1, <4>1, <4>2
    <3>5. At(m)' = "idle" => m \notin stale' /\ m \notin lost'
      BY <2>1, <3>1, <3>2 DEF EditFits, IsOpen
    <3> QED BY <3>3, <3>4, <3>5 DEF EditFits
  <2> QED BY <2>3, <2>4
<1>2. (n \in stale' <=> n \in stale) /\ (n \in lost' <=> n \in lost)
  BY DEF Written
<1> QED BY <1>1, <1>2

\* The stages of an edit
EditAt(n, place, original, restored) ==
    edits' = [edits EXCEPT ![n] = [at |-> place, original |-> original, restored |-> restored]]

\* An edit is its three fields.
LEMMA EditMoves ==
  ASSUME EditTypeOK, NEW n \in Settings,
         edits' \in [Settings -> Record], \A m \in Settings \ {n} : edits'[m] = edits[m]
  PROVE  EditAt(n, edits'[n].at, edits'[n].original, edits'[n].restored)
<1>1. edits'[n] = [at |-> edits'[n].at, original |-> edits'[n].original,
                   restored |-> edits'[n].restored]
  BY DEF Record
<1> QED BY <1>1 DEF EditAt, EditTypeOK

\* Only where it is changes.
LEMMA PlaceMoves ==
  ASSUME EditTypeOK, NEW n \in Settings,
         NEW place \in {"idle", "refused", "failed", "prepared", "applying", "undoing", "undone",
                        "kept"},
         edits' = [edits EXCEPT ![n].at = place]
  PROVE  /\ EditAt(n, place, edits[n].original, edits[n].restored)
         /\ edits[n].restored \in BOOLEAN /\ edits[n].original \in Seq(Assignment)
<1>1. /\ edits' \in [Settings -> Record] /\ edits'[n].at = place
      /\ edits'[n].original = edits[n].original /\ edits'[n].restored = edits[n].restored
      /\ \A m \in Settings \ {n} : edits'[m] = edits[m]
  BY DEF EditTypeOK, Record
<1>2. edits[n].restored \in BOOLEAN /\ edits[n].original \in Seq(Assignment)
  BY DEF EditTypeOK, Record
<1> QED BY <1>1, <1>2, EditMoves

\* The old text has been written back, or has not.
LEMMA UndoMoves ==
  ASSUME EditTypeOK, NEW n \in Settings, NEW flag \in BOOLEAN,
         edits' = [edits EXCEPT ![n].at = "undoing", ![n].restored = flag]
  PROVE  EditAt(n, "undoing", edits[n].original, flag)
<1>1. /\ edits' \in [Settings -> Record] /\ edits'[n].at = "undoing"
      /\ edits'[n].original = edits[n].original /\ edits'[n].restored = flag
      /\ \A m \in Settings \ {n} : edits'[m] = edits[m]
  BY DEF EditTypeOK, Record
<1> QED BY <1>1, EditMoves

\* The text has been read and written in one step.
LEMMA ReadMoves ==
  ASSUME EditTypeOK, NEW n \in Settings, NEW place \in {"failed", "kept"},
         NEW t \in Seq(Assignment),
         edits' = [edits EXCEPT ![n].original = t, ![n].at = place]
  PROVE  EditAt(n, place, t, edits[n].restored)
<1>1. /\ edits' \in [Settings -> Record] /\ edits'[n].at = place
      /\ edits'[n].original = t /\ edits'[n].restored = edits[n].restored
      /\ \A m \in Settings \ {n} : edits'[m] = edits[m]
  BY DEF EditTypeOK, Record
<1> QED BY <1>1, EditMoves

\* A step of an edit that has read its original keeps what the edits promise.
LEMMA WritingStep ==
  ASSUME EditInv, NEW n \in Settings, At(n) \in {"prepared", "applying"}, Written(n),
         NEW place \in {"applying", "undoing", "kept"}, NEW restored \in BOOLEAN,
         EditAt(n, place, edits[n].original, restored),
         text' \in {text, edits[n].original, Updated(edits[n].original, n)},
         place \in {"applying", "kept"} =>
            text' = Updated(edits[n].original, n) \/ (text' = text /\ At(n) = "applying"),
         place = "undoing" /\ restored => text' = edits[n].original
  PROVE  EditInv'
<1> DEFINE original == edits[n].original
<1>1. /\ original \in Seq(Assignment) /\ n \in STRING
      /\ edits'[n] = [at |-> place, original |-> original, restored |-> restored]
      /\ edits' = [edits EXCEPT ![n] = edits'[n]]
  BY ConfigAssumption DEF EditInv, EditTypeOK, Record, EditAt
<1>2. /\ Updated(original, n) \in Seq(Assignment)
      /\ Values(Updated(original, n), n) = {New}
      /\ \A m \in STRING \ {n} : Values(Updated(original, n), m) = Values(original, m)
  BY <1>1, UpdatedValues
<1>3. EditTypeOK'
  BY <1>1, <1>2 DEF EditInv, EditTypeOK, Record, EditAt
<1>4. n \notin stale => text \in {original, Updated(original, n)} /\ EditReads(n)
  BY DEF EditInv, EditFits, EditReads
<1>5. n \notin stale => \A m \in STRING \ {n} : Values(text', m) = Values(text, m)
  BY <1>2, <1>4
<1>6. /\ \A m \in Settings \ {n} : EditFits(m)'
      /\ n \in stale' <=> n \in stale
      /\ n \in lost' <=> n \in lost
  <2>1. \A m \in Settings \ {n} : edits'[m] = edits[m]
    BY DEF EditAt, EditInv, EditTypeOK
  <2> QED BY <1>5, <2>1, OthersKeep
<1>7. At(n)' = place /\ edits'[n].original = original /\ edits'[n].restored = restored
  BY <1>1 DEF At
<1>8. n \notin stale' => EditReads(n)'
  BY <1>4, <1>6, <1>7 DEF EditReads
<1>9. n \notin lost' => EditHolds(n)'
  <2>1. n \notin lost /\ At(n) = "applying" => Values(text, n) = {New}
    BY DEF EditInv, EditFits, EditHolds
  <2> QED BY <1>2, <1>6, <1>7, <2>1 DEF EditHolds
<1>10. EditFits(n)'
  BY <1>7, <1>8, <1>9 DEF EditFits
<1> QED BY <1>3, <1>6, <1>10 DEF EditInv

\* Rolling back keeps the invariant.
LEMMA RollBackStep ==
  ASSUME EditInv, NEW n \in Settings, At(n) \in {"prepared", "applying"}, Written(n), RollBack(n)
  PROVE  EditInv'
<1>1. PICK outcome \in {"done", "before", "after"} :
        /\ Writes(edits[n].original, outcome)
        /\ edits' = [edits EXCEPT ![n].at = "undoing", ![n].restored = outcome = "done"]
  BY DEF RollBack
<1> DEFINE restored == outcome = "done"
<1>2. EditAt(n, "undoing", edits[n].original, restored)
  <2>1. EditTypeOK
    BY DEF EditInv
  <2>2. CASE outcome = "done"
    <3>1. edits' = [edits EXCEPT ![n].at = "undoing", ![n].restored = TRUE]
      BY <1>1, <2>2
    <3>2. EditAt(n, "undoing", edits[n].original, TRUE)
      BY <2>1, <3>1, UndoMoves
    <3> QED BY <2>2, <3>2
  <2>3. CASE outcome # "done"
    <3>1. edits' = [edits EXCEPT ![n].at = "undoing", ![n].restored = FALSE]
      BY <1>1, <2>3
    <3>2. EditAt(n, "undoing", edits[n].original, FALSE)
      BY <2>1, <3>1, UndoMoves
    <3> QED BY <2>3, <3>2
  <2> QED BY <2>2, <2>3
<1>3. text' \in {text, edits[n].original} /\ (restored => text' = edits[n].original)
  BY <1>1 DEF Writes
<1>4. restored \in BOOLEAN
  OBVIOUS
<1> HIDE DEF restored
<1> QED BY <1>2, <1>3, <1>4, WritingStep

\* Every step keeps the invariant.
LEMMA ConfigStep ==
  ASSUME EditInv, [ConfigNext]_configVars PROVE EditInv'
<1>1. CASE UNCHANGED configVars
  BY <1>1 DEF configVars, EditInv, EditTypeOK, EditFits, EditReads, EditHolds, At
<1>2. ASSUME NEW n \in Settings, PrepareEdit(n) PROVE EditInv'
  <2>0. EditTypeOK
    BY DEF EditInv
  <2>1. PICK place \in {"refused", "prepared"}, original \in {edits[n].original, text} :
          /\ EditAt(n, place, original, edits[n].restored)
          /\ place = "prepared" => original = text
    <3>1. CASE edits' = [edits EXCEPT ![n] = [@ EXCEPT !.at = "refused"]]
      <4>1. edits' = [edits EXCEPT ![n].at = "refused"]
        BY <3>1
      <4> QED BY <2>0, <4>1, PlaceMoves
    <3>2. CASE edits' = [edits EXCEPT ![n] = [@ EXCEPT !.at = "prepared", !.original = text]]
      <4>1. /\ edits' \in [Settings -> Record] /\ edits'[n].at = "prepared"
            /\ edits'[n].original = text /\ edits'[n].restored = edits[n].restored
            /\ \A m \in Settings \ {n} : edits'[m] = edits[m]
        BY <2>0, <3>2 DEF EditTypeOK, Record
      <4> QED BY <2>0, <4>1, EditMoves
    <3> QED BY <1>2, <3>1, <3>2 DEF PrepareEdit
  <2>2. /\ UNCHANGED <<text, stale, lost>> /\ At(n) = "idle"
        /\ edits'[n] = [at |-> place, original |-> original, restored |-> edits[n].restored]
        /\ \A m \in Settings \ {n} : edits'[m] = edits[m]
    BY <1>2, <2>0, <2>1 DEF PrepareEdit, EditAt, EditTypeOK
  <2>3. EditTypeOK'
    <3>1. original \in Seq(Assignment) /\ edits[n].restored \in BOOLEAN
      BY <2>0, <2>1 DEF EditTypeOK, Record
    <3> QED BY <2>0, <2>1, <2>2, <3>1 DEF EditAt, EditTypeOK, Record
  <2>4. \A m \in Settings : EditFits(m)'
    BY <2>1, <2>2 DEF EditInv, EditFits, EditReads, EditHolds, At
  <2> QED BY <2>3, <2>4 DEF EditInv
<1>3. ASSUME NEW n \in Settings, UpdateAssignment(n) PROVE EditInv'
  <2>0. /\ text \in Seq(Assignment) /\ n \in STRING
        /\ At(n) = "idle" /\ Written(n)
    BY <1>3, ConfigAssumption DEF UpdateAssignment, EditInv, EditTypeOK
  <2>1. PICK place \in {"refused", "failed", "kept"}, original \in {edits[n].original, text} :
          /\ EditAt(n, place, original, edits[n].restored)
          /\ text' \in {text, Updated(text, n)}
          /\ place # "refused" => original = text
          /\ place = "kept" => text' = Updated(text, n)
    <3>0. EditTypeOK
      BY DEF EditInv
    <3>1. CASE UNCHANGED text /\ edits' = [edits EXCEPT ![n].at = "refused"]
      <4>1. EditAt(n, "refused", edits[n].original, edits[n].restored)
        BY <3>0, <3>1, PlaceMoves
      <4> QED BY <3>1, <4>1
    <3>2. CASE /\ text' = Updated(text, n)
               /\ edits' = [edits EXCEPT ![n].original = text, ![n].at = "kept"]
      <4>1. EditAt(n, "kept", text, edits[n].restored)
        BY <2>0, <3>0, <3>2, ReadMoves
      <4> QED BY <3>2, <4>1
    <3>3. CASE /\ text' \in {text, Updated(text, n)}
               /\ edits' = [edits EXCEPT ![n].original = text, ![n].at = "failed"]
      <4>1. EditAt(n, "failed", text, edits[n].restored)
        BY <2>0, <3>0, <3>3, ReadMoves
      <4> QED BY <3>3, <4>1
    <3>4. \/ UNCHANGED text /\ edits' = [edits EXCEPT ![n].at = "refused"]
          \/ /\ text' = Updated(text, n)
             /\ edits' = [edits EXCEPT ![n].original = text, ![n].at = "kept"]
          \/ /\ text' \in {text, Updated(text, n)}
             /\ edits' = [edits EXCEPT ![n].original = text, ![n].at = "failed"]
      BY <1>3 DEF UpdateAssignment, Writes
    <3> QED BY <3>1, <3>2, <3>3, <3>4
  <2>2. /\ edits'[n] = [at |-> place, original |-> original, restored |-> edits[n].restored]
        /\ \A m \in Settings \ {n} : edits'[m] = edits[m]
    BY <2>1 DEF EditAt, EditInv, EditTypeOK
  <2>3. /\ Updated(text, n) \in Seq(Assignment)
        /\ Values(Updated(text, n), n) = {New}
        /\ \A m \in STRING \ {n} : Values(Updated(text, n), m) = Values(text, m)
    BY <2>0, UpdatedValues
  <2>4. EditTypeOK'
    <3>1. EditTypeOK /\ text' \in Seq(Assignment)
      BY <2>0, <2>1, <2>3 DEF EditInv
    <3>2. original \in Seq(Assignment) /\ edits[n].restored \in BOOLEAN
      BY <2>0, <2>1, <3>1 DEF EditTypeOK, Record
    <3> QED BY <2>1, <3>1, <3>2 DEF EditTypeOK, Record, EditAt
  <2>5. \A m \in STRING \ {n} : Values(text', m) = Values(text, m)
    BY <2>1, <2>3
  <2>6. \A m \in Settings \ {n} : EditFits(m)'
    BY <2>0, <2>2, <2>5, OthersKeep
  <2>7. EditFits(n)'
    BY <2>1, <2>2, <2>3 DEF EditFits, EditReads, EditHolds, At
  <2> QED BY <2>4, <2>6, <2>7 DEF EditInv
<1>4. ASSUME NEW n \in Settings, WriteEdit(n) PROVE EditInv'
  <2>0. At(n) = "prepared" /\ Written(n)
    BY <1>4 DEF WriteEdit
  <2>1. CASE /\ Writes(Updated(edits[n].original, n), "done")
             /\ edits' = [edits EXCEPT ![n].at = "applying"]
    <3>1. /\ text' = Updated(edits[n].original, n) /\ edits[n].restored \in BOOLEAN
          /\ EditAt(n, "applying", edits[n].original, edits[n].restored)
      <4>1. EditTypeOK /\ text' = Updated(edits[n].original, n)
        BY <2>1 DEF EditInv, Writes
      <4> QED BY <2>1, <4>1, PlaceMoves
    <3> QED BY <2>0, <3>1, WritingStep
  <2>2. CASE RollBack(n)
    BY <2>0, <2>2, RollBackStep
  <2>3. CASE /\ text' = Updated(edits[n].original, n)
             /\ edits' = [edits EXCEPT ![n].at = "undoing", ![n].restored = FALSE]
    <3>1. EditAt(n, "undoing", edits[n].original, FALSE)
      <4>1. EditTypeOK
        BY DEF EditInv
      <4> QED BY <2>3, <4>1, UndoMoves
    <3> QED BY <2>0, <2>3, <3>1, WritingStep
  <2> QED BY <1>4, <2>1, <2>2, <2>3 DEF WriteEdit
<1>5. ASSUME NEW n \in Settings, ApplyEnds(n) PROVE EditInv'
  <2>0. At(n) = "applying" /\ Written(n)
    BY <1>5 DEF ApplyEnds
  <2>1. CASE UNCHANGED text /\ edits' = [edits EXCEPT ![n].at = "kept"]
    <3>1. EditAt(n, "kept", edits[n].original, edits[n].restored) /\ edits[n].restored \in BOOLEAN
      <4>1. EditTypeOK
        BY DEF EditInv
      <4> QED BY <2>1, <4>1, PlaceMoves
    <3> QED BY <2>0, <2>1, <3>1, WritingStep
  <2>2. CASE RollBack(n)
    BY <2>0, <2>2, RollBackStep
  <2> QED BY <1>5, <2>1, <2>2 DEF ApplyEnds
<1>6. ASSUME NEW n \in Settings, Undone(n) PROVE EditInv'
  <2>1. /\ UNCHANGED <<text, stale, lost>> /\ At(n) = "undoing"
        /\ EditAt(n, "undone", edits[n].original, edits[n].restored)
    <3>1. EditTypeOK /\ edits' = [edits EXCEPT ![n].at = "undone"]
      BY <1>6 DEF EditInv, Undone
    <3> QED BY <1>6, <3>1, PlaceMoves DEF Undone
  <2>2. /\ edits'[n] = [at |-> "undone", original |-> edits[n].original, restored |-> edits[n].restored]
        /\ \A m \in Settings \ {n} : edits'[m] = edits[m]
        /\ EditTypeOK'
    <3>1. edits[n].original \in Seq(Assignment) /\ edits[n].restored \in BOOLEAN
      BY DEF EditInv, EditTypeOK, Record
    <3> QED BY <2>1, <3>1 DEF EditAt, EditInv, EditTypeOK, Record
  <2>3. \A m \in Settings : EditFits(m)'
    BY <2>1, <2>2 DEF EditInv, EditFits, EditReads, EditHolds, At
  <2> QED BY <2>2, <2>3 DEF EditInv
<1> QED BY <1>1, <1>2, <1>3, <1>4, <1>5, <1>6 DEF ConfigNext

\* For any settings and any text, however edits overlap: an edit that has
\* returned is in the file, one that has raised has left the values it found
\* unless its rollback is reported as failed (apply_config_edit_transaction), or,
\* without a rollback, the values it found or its own (update_assignment); and
\* only an edit that had read an older text can undo that.
THEOREM EditsAtomicAlways == ConfigSpec => []EditsAtomic
<1>1. EditInv => EditsAtomic
  BY DEF EditInv, EditFits, EditReads, EditHolds, EditsAtomic
<1> QED BY <1>1, ConfigStarts, ConfigStep, PTL DEF ConfigSpec

-----------------------------------------------------------------------------
(***************************************************************************)
(* The transport of OMEMO.                                                 *)
(***************************************************************************)
\* A message that is received, and one that is sent
Inbound ==
    [at : {"called", "waiting", "decrypting", "ended"},
     result : {"none", "original", "rejected", "decrypted"},
     payload : BOOLEAN, reset : BOOLEAN, enabled : BOOLEAN, plugin : BOOLEAN]

AllStanzas == UNION {[made -> SUBSET Recipients] : made \in SUBSET Namespaces}

Outbound ==
    [at : {"encrypting", "sending", "sent", "raised"}, left : SUBSET Recipients,
     named : SUBSET Recipients, made : AllStanzas, done : SUBSET Namespaces,
     attempt : Nat, many : BOOLEAN]

\* What the receiver has found out by the time it decrypts
InboundInv ==
    /\ inbound \in Inbound /\ ready \in BOOLEAN
    /\ inbound.result = "original" => ~inbound.payload
    /\ inbound.at \in {"waiting", "decrypting"} \/ inbound.result = "decrypted" =>
          inbound.enabled /\ ~inbound.reset
    /\ inbound.at = "decrypting" \/ inbound.result = "decrypted" => ready

\* Every attempt but the first has lost a recipient; what this attempt has made
\* is for those who are left, and what it has sent is what it has made.
OutboundInv ==
    /\ outbound \in Outbound
    /\ outbound.left # {} /\ outbound.left = Recipients \ outbound.named
    /\ outbound.attempt + Cardinality(outbound.left) <= Cardinality(Recipients) + 1
    /\ wire \in [Namespaces -> SUBSET Recipients]
    /\ \A ns \in DOMAIN outbound.made :
          outbound.made[ns] # {} /\ outbound.made[ns] \subseteq outbound.left
    /\ \A ns \in outbound.done : wire[ns] = outbound.made[ns]
    /\ outbound.at \in {"sending", "sent"} => DOMAIN outbound.made # {}
    /\ outbound.at = "encrypting" => outbound.done = {}
    /\ outbound.at = "sent" => outbound.done = DOMAIN outbound.made

\* The inductive invariant
TransportInv == InboundInv /\ OutboundInv

\* What an encryption may return, and nothing, are among all stanzas.
LEMMA StanzasMade ==
  /\ NoStanzas \in AllStanzas /\ DOMAIN NoStanzas = {}
  /\ \A made \in AllStanzas : DOMAIN made \subseteq Namespaces
  /\ \A left \in SUBSET Recipients : \A made \in Stanzas(left) :
        /\ made \in AllStanzas /\ DOMAIN made # {}
        /\ \A ns \in DOMAIN made : made[ns] # {} /\ made[ns] \subseteq left
<1>1. NoStanzas \in AllStanzas /\ DOMAIN NoStanzas = {}
  <2>1. NoStanzas \in [{} -> SUBSET Recipients] /\ DOMAIN NoStanzas = {}
    BY DEF NoStanzas
  <2>2. {} \in SUBSET Namespaces
    OBVIOUS
  <2> QED BY <2>1, <2>2 DEF AllStanzas
<1>2. \A made \in AllStanzas : DOMAIN made \subseteq Namespaces
  BY DEF AllStanzas
<1>3. ASSUME NEW left \in SUBSET Recipients, NEW made \in Stanzas(left)
      PROVE  /\ made \in AllStanzas /\ DOMAIN made # {}
             /\ \A ns \in DOMAIN made : made[ns] # {} /\ made[ns] \subseteq left
  <2>1. PICK D \in (SUBSET Namespaces) \ {{}} : made \in [D -> (SUBSET left) \ {{}}]
    BY DEF Stanzas
  <2>2. DOMAIN made = D /\ made \in [D -> SUBSET Recipients] /\ D \in SUBSET Namespaces
    BY <2>1
  <2>3. made \in AllStanzas
    BY <2>2 DEF AllStanzas
  <2>4. \A ns \in DOMAIN made : made[ns] # {} /\ made[ns] \subseteq left
    BY <2>1
  <2>5. DOMAIN made # {}
    BY <2>1
  <2> QED BY <2>3, <2>4, <2>5
<1> QED BY <1>1, <1>2, <1>3

\* Nothing has been received or sent at first.
LEMMA TransportStarts == TransportInit => TransportInv
<1> SUFFICES ASSUME TransportInit PROVE TransportInv
  OBVIOUS
<1>1. InboundInv
  BY DEF TransportInit, InboundInv, Inbound
<1>2. Cardinality(Recipients) \in Nat
  BY TransportAssumption, FS_CardinalityType
<1>3. /\ outbound \in Outbound /\ outbound.left = Recipients /\ outbound.named = {}
      /\ outbound.done = {} /\ outbound.attempt = 1 /\ outbound.at = "encrypting"
      /\ outbound.made = NoStanzas
  BY StanzasMade DEF TransportInit, Outbound
<1>4. wire \in [Namespaces -> SUBSET Recipients]
  BY DEF TransportInit
<1> QED BY <1>1, <1>2, <1>3, <1>4, TransportAssumption, StanzasMade
        DEF TransportInv, OutboundInv

\* Fewer are left after an attempt that goes on.
LEMMA FewerLeft ==
  ASSUME NEW left \in SUBSET Recipients, NEW named
  PROVE  /\ Cardinality(left) \in Nat /\ Cardinality(left \ named) \in Nat
         /\ left \ named # left => Cardinality(left \ named) < Cardinality(left)
         /\ left \ named # {} => Cardinality(left \ named) > 0
<1>1. IsFiniteSet(left) /\ IsFiniteSet(left \ named)
  BY TransportAssumption, FS_Subset
<1>2. Cardinality(left) \in Nat /\ Cardinality(left \ named) \in Nat
  BY <1>1, FS_CardinalityType
<1>3. left \ named # left => Cardinality(left \ named) < Cardinality(left)
  <2>1. /\ Cardinality(left \ named) <= Cardinality(left)
        /\ Cardinality(left) = Cardinality(left \ named) => left = left \ named
    <3>1. left \ named \in SUBSET left
      OBVIOUS
    <3> QED BY <1>1, <3>1, FS_Subset
  <2> QED BY <1>2, <2>1
<1>4. left \ named # {} => Cardinality(left \ named) # 0
  BY <1>1, FS_EmptySet
<1> QED BY <1>2, <1>3, <1>4

\* Leaving out the recipients that an error names keeps the invariant.
LEMMA LeaveOutStep ==
  ASSUME OutboundInv, NEW named \in SUBSET Recipients, LeaveOut(named),
         outbound.at # "sent", UNCHANGED wire
  PROVE  OutboundInv'
<1> DEFINE left == outbound.left \ named
<1>1. /\ outbound \in Outbound /\ Cardinality(Recipients) \in Nat
      /\ outbound.left \in SUBSET Recipients /\ outbound.attempt \in Nat
  BY TransportAssumption, FS_CardinalityType DEF OutboundInv, Outbound
<1>2. CASE ~outbound.many \/ left = outbound.left \/ left = {}
  <2>1. outbound' = [outbound EXCEPT !.at = "raised"]
    BY <1>2 DEF LeaveOut, SendsTo
  <2>2. /\ outbound' \in Outbound /\ outbound'.at = "raised" /\ outbound'.left = outbound.left
        /\ outbound'.named = outbound.named /\ outbound'.done = outbound.done
        /\ outbound'.attempt = outbound.attempt /\ outbound'.made = outbound.made
    BY <1>1, <2>1 DEF Outbound
  <2> QED BY <2>2 DEF OutboundInv
<1>3. CASE outbound.many /\ left # outbound.left /\ left # {}
  <2>1. /\ Cardinality(outbound.left) \in Nat /\ Cardinality(left) \in Nat
        /\ Cardinality(left) < Cardinality(outbound.left) /\ Cardinality(left) > 0
    BY <1>1, <1>3, FewerLeft
  <2>2. outbound.attempt < Attempts
    BY <1>1, <2>1 DEF OutboundInv, Attempts
  <2>3. outbound' = [outbound EXCEPT
               !.left = left, !.named = outbound.named \cup named,
               !.attempt = outbound.attempt + 1, !.made = NoStanzas, !.done = {},
               !.at = "encrypting"]
    BY <1>3, <2>2 DEF LeaveOut
  <2>4. /\ outbound' \in Outbound /\ outbound'.at = "encrypting" /\ outbound'.left = left
        /\ outbound'.named = outbound.named \cup named /\ outbound'.done = {}
        /\ outbound'.attempt = outbound.attempt + 1 /\ outbound'.made = NoStanzas
    <3> HIDE DEF left
    <3>1. left \in SUBSET Recipients /\ outbound.named \cup named \in SUBSET Recipients
      BY <1>1 DEF Outbound, left
    <3>2. outbound'.at = "encrypting" /\ outbound'.left = left /\ outbound'.done = {}
      BY <1>1, <2>3 DEF Outbound
    <3>3. /\ outbound'.named = outbound.named \cup named
          /\ outbound'.attempt = outbound.attempt + 1 /\ outbound'.made = NoStanzas
      BY <1>1, <2>3 DEF Outbound
    <3> DEFINE s == [outbound EXCEPT !.left = left, !.named = outbound.named \cup named]
               next == [s EXCEPT !.attempt = outbound.attempt + 1]
               cleared == [next EXCEPT !.made = NoStanzas]
               u == [cleared EXCEPT !.done = {}]
    <3>4. s \in Outbound
      BY <1>1, <3>1 DEF Outbound
    <3>5. outbound' = [u EXCEPT !.at = "encrypting"]
      BY <2>3
    <3> HIDE DEF s
    <3>8. next \in Outbound
      BY <1>1, <3>4 DEF Outbound
    <3> HIDE DEF next
    <3>9. cleared \in Outbound
      BY <3>8, StanzasMade DEF Outbound
    <3> HIDE DEF cleared
    <3>6. u \in Outbound
      BY <3>9 DEF Outbound
    <3> HIDE DEF u
    <3>7. outbound' \in Outbound
      BY <3>5, <3>6 DEF Outbound
    <3> QED BY <3>1, <3>2, <3>3, <3>7
  <2>5. left = Recipients \ (outbound.named \cup named)
    BY DEF OutboundInv
  <2>6. outbound'.attempt + Cardinality(outbound'.left) <= Cardinality(Recipients) + 1
    <3> HIDE DEF left
    <3> QED BY <1>1, <2>1, <2>4 DEF OutboundInv
  <2> QED BY <1>3, <2>4, <2>5, <2>6, StanzasMade DEF OutboundInv
<1> QED BY <1>2, <1>3

\* Every step keeps the invariant.
LEMMA TransportStep ==
  ASSUME TransportInv, [TransportNext]_transportVars PROVE TransportInv'
<1> USE DEF TransportInv
<1>1. CASE UNCHANGED transportVars
  BY <1>1 DEF transportVars, InboundInv, OutboundInv
<1>2. CASE Inspect \/ ReadyOrTimeout \/ Decrypted \/ BecomeReady
  <2>1. OutboundInv'
    BY <1>2 DEF Inspect, ReadyOrTimeout, Decrypted, BecomeReady, OutboundInv
  <2>2. CASE Inspect
    BY <2>1, <2>2 DEF Inspect, Receives, InboundInv, Inbound
  <2>3. CASE ReadyOrTimeout
    BY <2>1, <2>3 DEF ReadyOrTimeout, Receives, InboundInv, Inbound
  <2>4. CASE Decrypted
    BY <2>1, <2>4 DEF Decrypted, Receives, InboundInv, Inbound
  <2>5. CASE BecomeReady
    BY <2>1, <2>5 DEF BecomeReady, InboundInv
  <2> QED BY <1>2, <2>1, <2>2, <2>3, <2>4, <2>5
<1>3. CASE Encrypt
  <2>1. InboundInv'
    BY <1>3 DEF Encrypt, InboundInv
  <2>2. UNCHANGED wire /\ outbound.at = "encrypting"
    BY <1>3 DEF Encrypt
  <2>3. ASSUME NEW made \in Stanzas(outbound.left),
               outbound' = [outbound EXCEPT !.at = "sending", !.made = made]
        PROVE  OutboundInv'
    <3>1. /\ outbound \in Outbound /\ made \in AllStanzas /\ DOMAIN made # {}
          /\ \A ns \in DOMAIN made : made[ns] # {} /\ made[ns] \subseteq outbound.left
      BY StanzasMade DEF OutboundInv, Outbound
    <3>2. /\ outbound' \in Outbound /\ outbound'.at = "sending" /\ outbound'.left = outbound.left
          /\ outbound'.named = outbound.named /\ outbound'.done = outbound.done
          /\ outbound'.attempt = outbound.attempt /\ outbound'.made = made
      BY <2>3, <3>1 DEF Outbound
    <3>3. outbound.done = {}
      BY <2>2 DEF OutboundInv
    <3> QED BY <2>2, <3>1, <3>2, <3>3 DEF OutboundInv
  <2>4. ASSUME NEW named \in SUBSET Recipients, LeaveOut(named) PROVE OutboundInv'
    BY <2>2, <2>4, LeaveOutStep
  <2> QED BY <1>3, <2>1, <2>3, <2>4 DEF Encrypt
<1>4. ASSUME NEW ns \in Namespaces, SendStanza(ns) PROVE TransportInv'
  <2>1. InboundInv'
    BY <1>4 DEF SendStanza, InboundInv
  <2>2. CASE /\ wire' = [wire EXCEPT ![ns] = outbound.made[ns]]
             /\ outbound' = [outbound EXCEPT !.done = @ \cup {ns},
                  !.at = IF outbound.done \cup {ns} = DOMAIN outbound.made THEN "sent" ELSE @]
    <3> DEFINE place == IF outbound.done \cup {ns} = DOMAIN outbound.made
                        THEN "sent" ELSE outbound.at
    <3>1. /\ outbound.at = "sending" /\ outbound \in Outbound /\ ns \in DOMAIN outbound.made
          /\ outbound.made[ns] \in SUBSET Recipients
      BY <1>4 DEF SendStanza, OutboundInv, Outbound
    <3>2. place \in {"sent", "sending"} /\ outbound.done \cup {ns} \in SUBSET Namespaces
      BY <3>1 DEF Outbound
    <3>3. outbound' = [outbound EXCEPT !.done = outbound.done \cup {ns}, !.at = place]
      BY <2>2
    <3>4. /\ outbound' \in Outbound /\ outbound'.at = place /\ outbound'.left = outbound.left
          /\ outbound'.named = outbound.named /\ outbound'.done = outbound.done \cup {ns}
          /\ outbound'.attempt = outbound.attempt /\ outbound'.made = outbound.made
      <4> HIDE DEF place
      <4> QED BY <3>1, <3>2, <3>3 DEF Outbound
    <3>5. /\ wire' \in [Namespaces -> SUBSET Recipients]
          /\ \A m \in Namespaces : wire'[m] = IF m = ns THEN outbound.made[ns] ELSE wire[m]
      BY <2>2, <3>1 DEF OutboundInv, Outbound
    <3>6. \A m \in outbound'.done : wire'[m] = outbound'.made[m]
      BY <3>1, <3>4, <3>5 DEF OutboundInv, Outbound
    <3>7. outbound'.at = "sent" => outbound'.done = DOMAIN outbound'.made
      BY <3>1, <3>4
    <3> QED BY <2>1, <3>1, <3>2, <3>4, <3>5, <3>6, <3>7 DEF OutboundInv
  <2>3. ASSUME NEW named \in SUBSET Recipients, LeaveOut(named), UNCHANGED wire PROVE OutboundInv'
    BY <1>4, <2>3, LeaveOutStep DEF SendStanza
  <2> QED BY <1>4, <2>1, <2>2, <2>3 DEF SendStanza
<1> QED BY <1>1, <1>2, <1>3, <1>4 DEF TransportNext, Receive, SendOut

\* For any recipients and namespaces, whichever attempts fail for whom, and
\* whatever each encryption makes: nothing encrypted is passed on as it came, a
\* call that sent has sent all that its last encryption made, for nobody but
\* those no error has named, and the attempts suffice until none is left (decrypt_incoming_message,
\* encrypt_and_send).
THEOREM TransportAlwaysFailsClosed == TransportSpec => []TransportFailsClosed
<1>1. TransportInv => TransportFailsClosed
  BY DEF TransportInv, InboundInv, OutboundInv, Inbound, Outbound, TransportFailsClosed
<1> QED BY <1>1, TransportStarts, TransportStep, PTL DEF TransportSpec

-----------------------------------------------------------------------------
(***************************************************************************)
(* Backup archives.                                                        *)
(***************************************************************************)
\* The builder is a record.
BuilderRecord ==
    builder = [at |-> builder.at, next |-> builder.next, members |-> builder.members,
               files |-> builder.files]

\* What was added was listed, but for the file between the two, and nothing
\* required was passed over.
BuilderInv ==
    /\ BuilderRecord /\ builder.next \in Nat \ {0}
    /\ builder.at \in {"idle", "adding", "listing", "built", "raised"}
    /\ builder.at \in {"adding", "built"} => DOMAIN builder.members = DOMAIN builder.files
    /\ builder.at = "listing" =>
          /\ builder.next <= Len(Sources)
          /\ DOMAIN builder.members = DOMAIN builder.files \cup {Item}
    /\ builder.at = "built" =>
          /\ builder.next > Len(Sources)
          /\ \A n \in DOMAIN builder.files : builder.members[n] = builder.files[n]
    /\ builder.at # "raised" => \A i \in 1..(builder.next - 1) :
          i <= Len(Sources) /\ Sources[i] \in Required => Sources[i] \in DOMAIN builder.members

\* The files of an archive are those of its list, with their contents if they
\* are asked for.
Sound(a, checksums) ==
    ~a.legacy => \A n \in DOMAIN a.files :
                    n \in DOMAIN a.members /\ (checksums => a.members[n] = a.files[n])

\* The stager is a record.
StagerRecord ==
    stager = [at |-> stager.at, members |-> stager.members, staged |-> stager.staged,
              source |-> stager.source, legacy |-> stager.legacy, checksums |-> stager.checksums]

\* While the members are extracted the archive may be another one, or be
\* damaged, but never one that verification would refuse for its list.
StagerInv ==
    /\ DOMAIN archive = ArchiveFields
    /\ StagerRecord /\ stager.at \in {"idle", "extracting", "staged", "raised"}
    /\ stager.at = "extracting" =>
          /\ Required \subseteq stager.members
          /\ archive.legacy => stager.legacy
          /\ Sound(archive, stager.checksums)
    /\ stager.at = "staged" =>
          /\ Required \subseteq DOMAIN stager.staged
          /\ stager.source.legacy => stager.legacy
          /\ ~stager.source.legacy /\ stager.checksums =>
               \A n \in DOMAIN stager.staged \cap DOMAIN stager.source.files :
                  stager.staged[n] = stager.source.files[n]

\* The inductive invariant
ArchiveInv == BuilderInv /\ StagerInv

\* An archive that was built, field by field.
LEMMA ArchiveFieldsOf ==
  ASSUME NEW members, NEW list
  PROVE  LET a == Archive(members, list) IN
         /\ DOMAIN a = ArchiveFields /\ a.members = members /\ a.files = list /\ ~a.legacy
         /\ ~a.damaged
  BY DEF Archive, ArchiveFields

\* Nothing is built or staged at first.
LEMMA ArchiveStarts == ArchiveInit => ArchiveInv
<1> SUFFICES ASSUME ArchiveInit PROVE ArchiveInv
  OBVIOUS
<1>1. BuilderInv
  BY DEF ArchiveInit, BuilderInv, BuilderRecord
<1>2. StagerInv
  BY ArchiveAssumption DEF ArchiveInit, StagerInv, StagerRecord
<1> QED BY <1>1, <1>2 DEF ArchiveInv

\* The builder's own step from one file to the next.
LEMMA Passed ==
  ASSUME BuilderInv, builder.at # "raised", builder.next <= Len(Sources),
         NEW members, DOMAIN builder.members \subseteq DOMAIN members,
         Item \in Required => Item \in DOMAIN members,
         NEW i \in 1..builder.next, Sources[i] \in Required
  PROVE  Sources[i] \in DOMAIN members
<1>1. CASE i = builder.next
  BY <1>1 DEF Item
<1>2. CASE i # builder.next
  <2>1. i \in 1..(builder.next - 1) /\ i <= Len(Sources)
    BY <1>2, ArchiveAssumption DEF BuilderInv
  <2> QED BY <2>1 DEF BuilderInv
<1> QED BY <1>1, <1>2

\* The steps of the builder keep its invariant.
LEMMA BuilderStep ==
  ASSUME BuilderInv, BuildCalled \/ AddSource \/ ListSource \/ BuildFails \/ PublishArchive
  PROVE  BuilderInv'
<1> USE ArchiveAssumption
<1>1. CASE BuildCalled
  BY <1>1 DEF BuildCalled, Builds, BuilderInv, BuilderRecord
<1>2. CASE AddSource /\ Item \in DOMAIN live
  <2> DEFINE more == Put(builder.members, Item, live[Item])
  <2>1. builder' = [at |-> "listing", next |-> builder.next, members |-> more,
                    files |-> builder.files]
    <3> DEFINE s == [builder EXCEPT !.at = "listing"]
    <3>1. builder' = [s EXCEPT !.members = more]
      BY <1>2 DEF AddSource, Builds
    <3>2. s = [at |-> "listing", next |-> builder.next, members |-> builder.members,
               files |-> builder.files]
      BY DEF BuilderInv, BuilderRecord
    <3> HIDE DEF s, more
    <3> QED BY <3>1, <3>2
  <2>2. DOMAIN more = DOMAIN builder.members \cup {Item}
    BY DEF Put
  <2>3. builder.at = "adding" /\ builder.next <= Len(Sources) /\ Item' = Item
    BY <1>2, <2>1 DEF AddSource, Item
  <2> HIDE DEF more
  <2> QED BY <2>1, <2>2, <2>3 DEF BuilderInv, BuilderRecord
<1>3. CASE AddSource /\ Item \notin DOMAIN live /\ Item \notin Required
  <2>1. builder' = [at |-> "adding", next |-> builder.next + 1, members |-> builder.members,
                    files |-> builder.files]
    BY <1>3 DEF AddSource, Builds, Skipped, BuilderInv, BuilderRecord
  <2>2. builder.at = "adding" /\ builder.next <= Len(Sources)
    BY <1>3 DEF AddSource
  <2>3. \A i \in 1..builder.next : Sources[i] \in Required => Sources[i] \in DOMAIN builder.members
    BY <1>3, <2>2, Passed
  <2> QED BY <2>1, <2>2, <2>3 DEF BuilderInv, BuilderRecord
<1>4. CASE ListSource /\ Item \in DOMAIN live
  <2> DEFINE more == Put(builder.files, Item, live[Item])
  <2>1. builder' = [at |-> "adding", next |-> builder.next + 1, members |-> builder.members,
                    files |-> more]
    <3> DEFINE s == [at |-> "adding", next |-> builder.next + 1, members |-> builder.members,
                     files |-> builder.files]
    <3>1. Skipped = s
      <4> DEFINE u == [builder EXCEPT !.next = builder.next + 1]
      <4>1. Skipped = [u EXCEPT !.at = "adding"]
        BY DEF Skipped
      <4>2. u = [at |-> builder.at, next |-> builder.next + 1, members |-> builder.members,
                 files |-> builder.files]
        BY DEF BuilderInv, BuilderRecord
      <4> HIDE DEF u
      <4> QED BY <4>1, <4>2
    <3>2. builder' = [Skipped EXCEPT !.files = Put(Skipped.files, Item, live[Item])]
      BY <1>4 DEF ListSource, Builds
    <3>3. builder' = [s EXCEPT !.files = Put(s.files, Item, live[Item])]
      BY <3>1, <3>2
    <3>4. s.files = builder.files
      OBVIOUS
    <3>5. builder' = [s EXCEPT !.files = more]
      BY <3>3, <3>4
    <3> HIDE DEF more
    <3> QED BY <3>5
  <2>2. DOMAIN more = DOMAIN builder.files \cup {Item}
    BY DEF Put
  <2>3. builder.at = "listing" /\ builder.next <= Len(Sources)
    BY <1>4 DEF ListSource, BuilderInv
  <2>4. DOMAIN builder.members = DOMAIN builder.files \cup {Item}
    BY <2>3 DEF BuilderInv
  <2>5. \A i \in 1..builder.next : Sources[i] \in Required => Sources[i] \in DOMAIN builder.members
    BY <2>3, <2>4, Passed
  <2> HIDE DEF more
  <2>6. /\ builder'.at = "adding" /\ builder'.next = builder.next + 1
        /\ builder'.members = builder.members /\ builder'.files = more
    BY <2>1
  <2>7. BuilderRecord'
    BY <2>1, <2>6 DEF BuilderRecord
  <2>8. builder.next \in Nat \ {0}
    BY DEF BuilderInv
  <2>9. (builder.next + 1) - 1 = builder.next /\ builder.next + 1 \in Nat \ {0}
    BY <2>8
  <2> QED BY <2>2, <2>4, <2>5, <2>6, <2>7, <2>9 DEF BuilderInv
<1>5. CASE PublishArchive /\ Verified(Archive(builder.members, builder.files), {}, FALSE, TRUE)
  <2>1. PICK end \in {"built", "raised"} : builder' = [builder EXCEPT !.at = end]
    BY <1>5 DEF PublishArchive
  <2>2. builder' = [at |-> end, next |-> builder.next, members |-> builder.members,
                    files |-> builder.files]
    BY <2>1 DEF BuilderInv, BuilderRecord
  <2>3. builder.at = "adding" /\ builder.next > Len(Sources)
    BY <1>5 DEF PublishArchive
  <2>4. \A n \in DOMAIN builder.files : builder.members[n] = builder.files[n]
    BY <1>5, ArchiveFieldsOf DEF Verified
  <2> QED BY <2>1, <2>2, <2>3, <2>4 DEF BuilderInv, BuilderRecord
<1>6. CASE builder' = [builder EXCEPT !.at = "raised"]
  BY <1>6 DEF BuilderInv, BuilderRecord
<1> QED BY <1>1, <1>2, <1>3, <1>4, <1>5, <1>6
       DEF AddSource, ListSource, BuildFails, PublishArchive, Builds

\* An archive that is published matches its list, so it may replace the one
\* that is being extracted.
LEMMA PublishedIsSound ==
  ASSUME StagerInv, PublishArchive PROVE StagerInv'
<1>1. CASE UNCHANGED archive
  BY <1>1 DEF PublishArchive, StagerInv, StagerRecord, Sound
<1>2. CASE Verified(Archive(builder.members, builder.files), {}, FALSE, TRUE)
  <2> DEFINE built == Archive(builder.members, builder.files)
  <2>1. archive' = built /\ UNCHANGED stager
    BY <1>2 DEF PublishArchive
  <2>2. DOMAIN built = ArchiveFields /\ ~built.legacy
    BY ArchiveFieldsOf
  <2>3. Sound(built, stager.checksums)
    BY <1>2, <2>2 DEF Verified, Sound
  <2> HIDE DEF built
  <2> QED BY <2>1, <2>2, <2>3 DEF StagerInv, StagerRecord, Sound
<1> QED BY <1>1, <1>2 DEF PublishArchive

\* The steps of the stager, and decay, keep its invariant.
LEMMA StagerStep ==
  ASSUME StagerInv, VerifyForStage \/ ExtractMembers \/ Decays PROVE StagerInv'
<1>1. CASE VerifyForStage
  <2> DEFINE fine == archive # NoArchive /\ Verified(archive, Required, stager.legacy, stager.checksums)
             there == Names \cap DOMAIN archive.members
             at == IF fine THEN "extracting" ELSE "raised"
  <2>1. stager' = [at |-> at, members |-> there, staged |-> stager.staged,
                   source |-> stager.source, legacy |-> stager.legacy, checksums |-> stager.checksums]
    <3>1. stager' = [stager EXCEPT !.at = at, !.members = there]
      BY <1>1 DEF VerifyForStage
    <3> DEFINE s == [stager EXCEPT !.at = at]
    <3>2. stager' = [s EXCEPT !.members = there]
      BY <3>1
    <3> HIDE DEF at, there
    <3>3. s = [at |-> at, members |-> stager.members, staged |-> stager.staged,
               source |-> stager.source, legacy |-> stager.legacy, checksums |-> stager.checksums]
      BY DEF StagerInv, StagerRecord
    <3> HIDE DEF s
    <3> QED BY <3>2, <3>3
  <2>2. UNCHANGED archive
    BY <1>1 DEF VerifyForStage
  <2>3. fine => /\ Required \subseteq there /\ (archive.legacy => stager.legacy)
                /\ Sound(archive, stager.checksums)
    BY ArchiveAssumption DEF Verified, Sound
  <2>4. at \in {"extracting", "raised"} /\ (at = "extracting" => fine)
    OBVIOUS
  <2> HIDE DEF fine, there, at
  <2> QED BY <2>1, <2>2, <2>3, <2>4 DEF StagerInv, StagerRecord, Sound
<1>2. CASE ExtractMembers
  <2>1. CASE stager' = [stager EXCEPT !.at = "raised"]
    BY <1>2, <2>1 DEF ExtractMembers, StagerInv, StagerRecord
  <2>2. CASE stager.members \subseteq DOMAIN archive.members /\
             stager' = [stager EXCEPT !.at = "staged", !.source = archive,
                         !.staged = [n \in stager.members |-> archive.members[n]]]
    <3> DEFINE out == [n \in stager.members |-> archive.members[n]]
    <3>1. stager' = [at |-> "staged", members |-> stager.members, staged |-> out,
                     source |-> archive, legacy |-> stager.legacy, checksums |-> stager.checksums]
      <4> DEFINE s == [stager EXCEPT !.at = "staged"]
                 u == [s EXCEPT !.source = archive]
      <4>1. stager' = [u EXCEPT !.staged = out]
        BY <2>2
      <4>2. s = [at |-> "staged", members |-> stager.members, staged |-> stager.staged,
                 source |-> stager.source, legacy |-> stager.legacy, checksums |-> stager.checksums]
        BY DEF StagerInv, StagerRecord
      <4> HIDE DEF s, out
      <4>3. u = [at |-> "staged", members |-> stager.members, staged |-> stager.staged,
                 source |-> archive, legacy |-> stager.legacy, checksums |-> stager.checksums]
        BY <4>2
      <4> HIDE DEF u
      <4> QED BY <4>1, <4>3
    <3>2. DOMAIN out = stager.members /\ \A n \in stager.members : out[n] = archive.members[n]
      OBVIOUS
    <3>3. UNCHANGED archive /\ stager.at = "extracting"
      BY <1>2 DEF ExtractMembers
    <3>4. ~archive.legacy /\ stager.checksums => \A n \in DOMAIN out \cap DOMAIN archive.files :
              out[n] = archive.files[n]
      BY <3>2, <3>3 DEF StagerInv, Sound
    <3>5. Required \subseteq DOMAIN out /\ (archive.legacy => stager.legacy)
      BY <3>2, <3>3 DEF StagerInv
    <3> HIDE DEF out
    <3> QED BY <3>1, <3>3, <3>4, <3>5 DEF StagerInv, StagerRecord
  <2> QED BY <1>2, <2>1, <2>2 DEF ExtractMembers
<1>3. CASE Decays
  <2>1. /\ DOMAIN archive' = DOMAIN archive /\ UNCHANGED stager
        /\ archive'.legacy = archive.legacy /\ archive'.members = archive.members
        /\ archive'.files = archive.files
    BY <1>3 DEF Decays, StagerInv, ArchiveFields
  <2> QED BY <2>1 DEF StagerInv, StagerRecord, Sound
<1> QED BY <1>1, <1>2, <1>3

\* Every step keeps the invariant.
LEMMA ArchiveStep ==
  ASSUME ArchiveInv, [ArchiveNext]_archiveVars PROVE ArchiveInv'
<1> USE DEF ArchiveInv
<1>1. CASE BuildCalled \/ AddSource \/ ListSource \/ BuildFails
  <2>1. BuilderInv'
    BY <1>1, BuilderStep
  <2>2. UNCHANGED <<archive, stager>>
    BY <1>1 DEF BuildCalled, AddSource, ListSource, BuildFails, Builds
  <2> QED BY <2>1, <2>2 DEF StagerInv, StagerRecord, Sound
<1>2. CASE PublishArchive
  BY <1>2, BuilderStep, PublishedIsSound
<1>3. CASE VerifyForStage \/ ExtractMembers \/ Decays
  <2>1. UNCHANGED builder
    BY <1>3 DEF VerifyForStage, ExtractMembers, Decays
  <2>2. BuilderInv'
    BY <2>1 DEF BuilderInv, BuilderRecord, Item
  <2> QED BY <1>3, <2>2, StagerStep
<1>4. CASE UNCHANGED <<archive, builder, stager>>
  BY <1>4 DEF BuilderInv, BuilderRecord, Item, StagerInv, StagerRecord, Sound
<1> QED BY <1>1, <1>2, <1>3, <1>4 DEF ArchiveNext, LiveChanges, archiveVars

\* The invariant says what the property says.
LEMMA ArchiveInvMeans == ArchiveInv => BackupsSound
<1> SUFFICES ASSUME ArchiveInv PROVE BackupsSound
  OBVIOUS
<1>1. ASSUME builder.at = "built", NEW r \in Required PROVE r \in DOMAIN builder.members
  <2>1. PICK i \in DOMAIN Sources : r = Sources[i]
    BY ArchiveAssumption DEF Names
  <2>2. i \in 1..Len(Sources)
    BY ArchiveAssumption
  <2>3. i \in 1..(builder.next - 1)
    BY <1>1, <2>2, ArchiveAssumption DEF ArchiveInv, BuilderInv
  <2> QED BY <1>1, <2>1, <2>2, <2>3 DEF ArchiveInv, BuilderInv
<1>2. builder.at = "built" => \A n \in DOMAIN builder.members :
         n \in DOMAIN builder.files /\ builder.members[n] = builder.files[n]
  BY DEF ArchiveInv, BuilderInv
<1> QED BY <1>1, <1>2 DEF BackupsSound, ArchiveInv, StagerInv

\* For any files, and while the bot writes them and the archive decays or is
\* replaced: a backup that was built matches its list and is complete, and what
\* is staged comes whole from one archive that does (build_backup_archive,
\* stage_backup_archive).
THEOREM BackupsSoundAlways == ArchiveSpec => []BackupsSound
<1>1. ArchiveSpec => []ArchiveInv
  BY ArchiveStarts, ArchiveStep, PTL DEF ArchiveSpec
<1> QED BY <1>1, ArchiveInvMeans, PTL

-----------------------------------------------------------------------------
(***************************************************************************)
(* Affiliation queries.                                                    *)
(***************************************************************************)
\* What an attempt may come to
Kinds == Conditions \cup {"items", "error", "timeout"}

QueryTypeOK ==
    /\ query \in [at : QueryEnds \cup {"asking", "pausing"}, attempt : 1..MaxQueries,
                  came : Seq(Kinds)]
    /\ answers \in [1..MaxQueries -> (Kinds \ {"timeout"}) \cup {"none"}]

\* How far a query has come: every attempt but the current one was transient.
QueryProgress ==
    /\ Len(query.came) \in {query.attempt - 1, query.attempt}
    /\ query.at = "asking" => Len(query.came) = query.attempt - 1
    /\ query.at = "pausing" =>
          /\ Len(query.came) = query.attempt /\ query.attempt < MaxQueries
          /\ Retryable(query.came[query.attempt])

\* The inductive invariant
QueryInv == QueryTypeOK /\ QueryProgress /\ QueriesAsThePolicySays

\* A query begins with its first attempt.
LEMMA QueryInit == AffiliationInit => QueryInv
<1> SUFFICES ASSUME AffiliationInit PROVE QueryInv
  OBVIOUS
<1>1. /\ query = [at |-> "asking", attempt |-> 1, came |-> <<>>]
      /\ answers = [n \in 1..MaxQueries |-> "none"]
      /\ MaxQueries \in Nat \ {0}
  BY AffiliationAssumption DEF AffiliationInit
<1>2. <<>> \in Seq(Kinds) /\ Len(<<>>) = 0
  BY EmptySeq
<1>3. QueryTypeOK
  BY <1>1, <1>2 DEF QueryTypeOK
<1> QED BY <1>1, <1>2, <1>3 DEF QueryInv, QueryProgress, QueriesAsThePolicySays, QueryEnds

\* One more outcome at the end.
LEMMA OutcomeAppended ==
  ASSUME NEW came \in Seq(Kinds), NEW kind \in Kinds
  PROVE  /\ Append(came, kind) \in Seq(Kinds)
         /\ Len(Append(came, kind)) = Len(came) + 1
         /\ Append(came, kind)[Len(came) + 1] = kind
         /\ \A i \in DOMAIN came : Append(came, kind)[i] = came[i]
         /\ DOMAIN came = 1..Len(came) /\ Len(came) \in Nat
         /\ DOMAIN Append(came, kind) = 1..(Len(came) + 1)
  BY AppendProperties, LenProperties

\* An attempt that fails is followed by another exactly when the policy says
\* so, which keeps the invariant.
LEMMA QueryFails ==
  ASSUME QueryInv, query.at = "asking", NEW kind \in Kinds, AttemptFails(kind)
  PROVE  QueryInv'
<1>0. MaxQueries \in Nat \ {0}
  BY AffiliationAssumption
<1> DEFINE came == query.came
           end == IF ~Retryable(kind) \/ query.attempt = MaxQueries THEN "failed" ELSE "pausing"
<1>1. /\ query' = [at |-> end, attempt |-> query.attempt, came |-> Append(came, kind)]
      /\ UNCHANGED answers
  BY DEF AttemptFails, QueryInv, QueryTypeOK
<1>2. came \in Seq(Kinds) /\ Len(came) = query.attempt - 1 /\ query.attempt \in 1..MaxQueries
  BY DEF QueryInv, QueryTypeOK, QueryProgress
<1> HIDE DEF came
<1>3. QueryTypeOK'
  BY <1>1, <1>2, OutcomeAppended DEF QueryInv, QueryTypeOK, QueryEnds
<1>4. Len(query'.came) = query.attempt /\ query'.came[query.attempt] = kind
  BY <1>0, <1>1, <1>2, OutcomeAppended
<1>5. QueryProgress'
  BY <1>0, <1>1, <1>2, <1>4 DEF QueryProgress, Retryable
<1>6. \A i \in DOMAIN came : Retryable(came[i]) /\ query'.came[i] = came[i]
  BY <1>0, <1>1, <1>2, OutcomeAppended DEF QueryInv, QueriesAsThePolicySays, Retryable, came
<1>7. DOMAIN came = 1..(query.attempt - 1) /\ DOMAIN query'.came = 1..query.attempt
  BY <1>0, <1>1, <1>2, OutcomeAppended
<1>8. QueriesAsThePolicySays'
  BY <1>0, <1>1, <1>2, <1>4, <1>6, <1>7 DEF QueriesAsThePolicySays, Retryable
<1> QED BY <1>3, <1>5, <1>8 DEF QueryInv

\* Every step keeps the invariant.
LEMMA QueryStep ==
  ASSUME QueryInv, [AffiliationNext]_affiliationVars PROVE QueryInv'
<1>0. MaxQueries \in Nat \ {0} /\ "timeout" \notin Conditions
  BY AffiliationAssumption
<1> USE DEF QueryInv
<1>1. CASE UNCHANGED affiliationVars
  BY <1>1 DEF affiliationVars, QueryTypeOK, QueryProgress, QueriesAsThePolicySays, Retryable
<1>2. CASE RequestEnds
  <2>1. CASE answers[query.attempt] = "items"
    <3>1. /\ query' = [at |-> "ok", attempt |-> query.attempt, came |-> Append(query.came, "items")]
          /\ UNCHANGED answers /\ query.at = "asking"
      BY <1>2, <2>1 DEF RequestEnds, QueryTypeOK, AttemptFails
    <3>2. /\ query.came \in Seq(Kinds) /\ Len(query.came) = query.attempt - 1
          /\ query.attempt \in 1..MaxQueries /\ "items" \in Kinds
      BY <3>1 DEF QueryTypeOK, QueryProgress, Kinds
    <3>3. QueryTypeOK'
      BY <3>1, <3>2, OutcomeAppended DEF QueryTypeOK, QueryEnds
    <3>4. Len(query'.came) = query.attempt
      BY <1>0, <3>1, <3>2, OutcomeAppended
    <3>5. /\ \A i \in DOMAIN query.came : query'.came[i] = query.came[i]
          /\ DOMAIN query.came = 1..(query.attempt - 1) /\ DOMAIN query'.came = 1..query.attempt
      BY <1>0, <3>1, <3>2, OutcomeAppended
    <3>6. QueriesAsThePolicySays'
      BY <1>0, <2>1, <3>1, <3>2, <3>4, <3>5 DEF QueriesAsThePolicySays
    <3> QED BY <1>0, <3>1, <3>2, <3>3, <3>4, <3>6 DEF QueryProgress
  <2>2. CASE answers[query.attempt] \notin {"none", "items"}
    <3>1. AttemptFails(answers[query.attempt]) /\ query.at = "asking"
      BY <1>2, <2>2 DEF RequestEnds
    <3>2. answers[query.attempt] \in Kinds
      BY <2>2 DEF QueryTypeOK
    <3> QED BY <3>1, <3>2, QueryFails
  <2>3. CASE answers[query.attempt] = "none"
    <3>1. AttemptFails("timeout") /\ query.at = "asking" /\ "timeout" \in Kinds
      BY <1>2, <2>3 DEF RequestEnds, Kinds
    <3> QED BY <3>1, QueryFails
  <2> QED BY <2>1, <2>2, <2>3
<1>3. CASE AskAgain
  <2>1. /\ query' = [at |-> "asking", attempt |-> query.attempt + 1, came |-> query.came]
        /\ UNCHANGED answers /\ query.at = "pausing" /\ query.attempt \in 1..MaxQueries
    BY <1>3 DEF AskAgain, QueryTypeOK
  <2>2. QueryTypeOK'
    BY <1>0, <2>1 DEF QueryTypeOK, QueryProgress, QueryEnds
  <2>3. QueryProgress'
    BY <1>0, <2>1 DEF QueryProgress
  <2>4. DOMAIN query.came = 1..query.attempt
    BY <2>1, LenProperties DEF QueryTypeOK, QueryProgress
  <2>5. ASSUME NEW i \in DOMAIN query.came PROVE Retryable(query.came[i])
    <3>1. CASE i = query.attempt
      BY <2>1, <3>1 DEF QueryProgress
    <3>2. CASE i < query.attempt
      BY <3>2 DEF QueriesAsThePolicySays, Retryable
    <3> QED BY <2>1, <2>4, <3>1, <3>2
  <2>6. QueriesAsThePolicySays'
    BY <2>1, <2>5 DEF QueriesAsThePolicySays, Retryable
  <2> QED BY <2>2, <2>3, <2>6
<1>4. CASE CancelQuery
  <2>1. query' = [at |-> "cancelled", attempt |-> query.attempt, came |-> query.came]
        /\ UNCHANGED answers
    BY <1>4 DEF CancelQuery, QueryTypeOK
  <2> QED BY <2>1 DEF QueryTypeOK, QueryProgress, QueriesAsThePolicySays, QueryEnds
<1>5. ASSUME NEW n \in 1..MaxQueries, ServerAnswers(n) PROVE QueryInv'
  <2>1. PICK answer \in Conditions \cup {"items", "error"} : answers' = [answers EXCEPT ![n] = answer]
    BY <1>5 DEF ServerAnswers
  <2>2. UNCHANGED query /\ answers[n] = "none" /\ answer \in (Kinds \ {"timeout"})
    BY <1>0, <1>5 DEF ServerAnswers, Kinds
  <2>3. QueryTypeOK'
    BY <2>1, <2>2 DEF QueryTypeOK
  <2>4. query.at = "ok" => answers'[query.attempt] = "items"
    BY <2>1, <2>2 DEF QueryTypeOK, QueriesAsThePolicySays
  <2>5. QueriesAsThePolicySays'
    BY <2>2, <2>4 DEF QueriesAsThePolicySays
  <2> QED BY <2>2, <2>3, <2>5 DEF QueryProgress, Retryable
<1> QED BY <1>1, <1>2, <1>3, <1>4, <1>5 DEF AffiliationNext

\* For any conditions, policy and number of attempts: a query goes on after
\* transient errors only, gives up after another one or when its attempts are
\* used up, and returns items only if the server answered them in that attempt
\* (query_muc_affiliation).
THEOREM QueriesFollowThePolicy == AffiliationSpec => []QueriesAsThePolicySays
<1>1. QueryInv => QueriesAsThePolicySays
  BY DEF QueryInv
<1> QED BY <1>1, QueryInit, QueryStep, PTL DEF AffiliationSpec

-----------------------------------------------------------------------------
(***************************************************************************)
(* Replies.                                                                *)
(***************************************************************************)
\* The values of the context variables, and a message that is being answered
Setting == [owner : Nat, route : {"none", "chat", "room", "occupant"}, encrypted : Flags]
Reply == [route : {"none", "chat", "room", "occupant"}, encrypted : Flags]

\* What the variables held before each handler of a context, and hold now
Frame(setting, saved, i) == IF i <= Len(saved) THEN saved[i] ELSE setting

\* What a context begins with was set outside every task, and it is the heir of
\* that message, or by the task of an older context.
Inherits(c, setting, left) ==
    IF setting.owner = NoTask
    THEN setting.route = left.route /\ setting.encrypted = left.encrypted
    ELSE setting.owner < c /\ left = Nothing

\* The first frame of a context is inherited; each of the others is the message
\* of the handler before it.
Agree(c, task, left, setting, saved, answered) ==
    /\ Inherits(c, Frame(setting, saved, 1), left)
    /\ \A i \in 1..Len(answered) :
          Frame(setting, saved, i + 1) = [owner |-> task, route |-> answered[i].route,
                                          encrypted |-> answered[i].encrypted]

RepliesTyped ==
    /\ ofTask \in Seq(BOOLEAN) /\ context \in Seq(Setting) /\ heir \in Seq(Reply)
    /\ tokens \in Seq(Seq(Setting)) /\ handling \in Seq(Seq(Reply))
    /\ Len(ofTask) = Len(context) /\ Len(heir) = Len(context)
    /\ Len(tokens) = Len(context) /\ Len(handling) = Len(context)
    /\ \A t \in DOMAIN context : Len(tokens[t]) = Len(handling[t])

FramesAgree(t) == Agree(t, CurrentTask(t), heir[t], context[t], tokens[t], handling[t])

\* The inductive invariant
RepliesInv ==
    /\ RepliesTyped
    /\ \A t \in DOMAIN context : FramesAgree(t)

\* There is one context, which handles nothing.
LEMMA RepliesStart == RepliesInit => RepliesInv
<1> SUFFICES ASSUME RepliesInit PROVE RepliesInv
  OBVIOUS
<1>1. Unset \in Setting /\ Nothing \in Reply
  BY DEF Unset, Nothing, NoTask, Setting, Reply, Flags
<1>0. PICK task \in BOOLEAN : ofTask = <<task>>
  BY DEF RepliesInit
<1>2. RepliesTyped
  BY <1>0, <1>1 DEF RepliesInit, RepliesTyped
<1>3. /\ DOMAIN context = {1} /\ tokens[1] = <<>> /\ handling[1] = <<>> /\ context[1] = Unset
      /\ heir[1] = Nothing
  BY DEF RepliesInit
<1>4. \A t \in DOMAIN context : FramesAgree(t)
  BY <1>3 DEF FramesAgree, Agree, Frame, Inherits, Unset, Nothing, NoTask
<1> QED BY <1>2, <1>4 DEF RepliesInv

\* A step in one context leaves the frames of the others alone.
LEMMA OtherFrames ==
  ASSUME RepliesInv, NEW t \in DOMAIN context, NEW u \in DOMAIN context, u # t,
         UNCHANGED <<ofTask[u], heir[u], context[u], tokens[u], handling[u]>>
  PROVE  FramesAgree(u)'
<1>1. FramesAgree(u)
  BY DEF RepliesInv
<1> QED BY <1>1 DEF FramesAgree, CurrentTask

\* A handler that begins saves what it found and sets its own message.
LEMMA Pushed ==
  ASSUME NEW t \in Nat, NEW task, NEW left, NEW old \in Setting, NEW saved \in Seq(Setting),
         NEW answered \in Seq(Reply), Len(saved) = Len(answered), NEW reply \in Reply,
         Agree(t, task, left, old, saved, answered)
  PROVE  Agree(t, task, left, [owner |-> task, route |-> reply.route, encrypted |-> reply.encrypted],
               Append(saved, old), Append(answered, reply))
<1> DEFINE n == Len(saved)
           setting == [owner |-> task, route |-> reply.route, encrypted |-> reply.encrypted]
           more == Append(saved, old)
           all == Append(answered, reply)
<1>1. /\ Len(more) = n + 1 /\ Len(all) = n + 1 /\ n \in Nat /\ n = Len(answered)
      /\ \A i \in 1..n : more[i] = saved[i] /\ all[i] = answered[i]
      /\ more[n + 1] = old /\ all[n + 1] = reply
  OBVIOUS
<1> HIDE DEF more, all, setting
<1>2. \A i \in 1..(n + 1) : Frame(setting, more, i) = Frame(old, saved, i)
  BY <1>1 DEF Frame
<1>3. Frame(setting, more, n + 1 + 1) = setting
  BY <1>1 DEF Frame
<1> HIDE DEF n
<1>4. Inherits(t, Frame(setting, more, 1), left)
  BY <1>1, <1>2 DEF Agree
<1>5. ASSUME NEW i \in 1..(n + 1)
      PROVE  Frame(setting, more, i + 1) = [owner |-> task, route |-> all[i].route,
                                            encrypted |-> all[i].encrypted]
  <2>1. CASE i = n + 1
    BY <1>1, <1>3, <2>1 DEF setting
  <2>2. CASE i \in 1..n
    <3>1. i + 1 \in 1..(n + 1)
      BY <1>1, <2>2
    <3>2. Frame(setting, more, i + 1) = Frame(old, saved, i + 1)
      BY <1>2, <3>1
    <3> QED BY <1>1, <2>2, <3>2 DEF Agree
  <2> QED BY <1>1, <2>1, <2>2
<1>6. Agree(t, task, left, setting, more, all)
  BY <1>1, <1>4, <1>5 DEF Agree
<1> QED BY <1>6 DEF setting, more, all

\* A handler that ends restores what it found.
LEMMA Popped ==
  ASSUME NEW t \in Nat, NEW task, NEW left, NEW old \in Setting, NEW saved \in Seq(Setting),
         NEW answered \in Seq(Reply), Len(saved) = Len(answered), saved # <<>>,
         Agree(t, task, left, old, saved, answered), NEW n, n = Len(saved)
  PROVE  /\ saved[n] \in Setting
         /\ SubSeq(saved, 1, n - 1) \in Seq(Setting) /\ SubSeq(answered, 1, n - 1) \in Seq(Reply)
         /\ Len(SubSeq(saved, 1, n - 1)) = Len(SubSeq(answered, 1, n - 1))
         /\ Agree(t, task, left, saved[n], SubSeq(saved, 1, n - 1), SubSeq(answered, 1, n - 1))
<1> DEFINE less == SubSeq(saved, 1, n - 1)
           few == SubSeq(answered, 1, n - 1)
<1>1. n \in Nat \ {0} /\ n = Len(answered) /\ saved[n] \in Setting
  OBVIOUS
<1>2. /\ less \in Seq(Setting) /\ few \in Seq(Reply) /\ Len(less) = n - 1 /\ Len(few) = n - 1
      /\ \A i \in 1..(n - 1) : less[i] = saved[i] /\ few[i] = answered[i]
  BY <1>1
<1> HIDE DEF less, few
<1>3. \A i \in 1..n : Frame(saved[n], less, i) = Frame(old, saved, i)
  BY <1>1, <1>2 DEF Frame
<1>4. ASSUME NEW i \in 1..(n - 1)
      PROVE  Frame(saved[n], less, i + 1) = [owner |-> task, route |-> few[i].route,
                                             encrypted |-> few[i].encrypted]
  <2>1. i + 1 \in 1..n /\ i \in 1..n
    BY <1>1
  <2> QED BY <1>1, <1>2, <1>3, <2>1 DEF Agree
<1>5. Inherits(t, Frame(saved[n], less, 1), left)
  BY <1>1, <1>3 DEF Agree
<1>6. Agree(t, task, left, saved[n], less, few)
  BY <1>2, <1>4, <1>5 DEF Agree
<1> QED BY <1>1, <1>2, <1>6 DEF less, few

\* A handler that begins keeps the invariant.
LEMMA HandleStep ==
  ASSUME RepliesInv, NEW t \in DOMAIN context, NEW message \in Incoming,
         NEW encrypted \in Flags, HandleMessage(t, message, encrypted)
  PROVE  RepliesInv'
<1> DEFINE reply == [route |-> RouteOf(message), encrypted |-> encrypted]
           setting == [owner |-> CurrentTask(t), route |-> RouteOf(message),
                       encrypted |-> encrypted]
           n == Len(tokens[t])
<1> USE DEF RepliesInv, RepliesTyped
<1>1. /\ t \in Nat \ {0} /\ n \in Nat /\ n = Len(handling[t])
      /\ context[t] \in Setting /\ tokens[t] \in Seq(Setting) /\ handling[t] \in Seq(Reply)
  OBVIOUS
<1>2. reply \in Reply /\ setting \in Setting
  BY <1>1, RepliesAssumption DEF Reply, Setting, RouteOf, Flags, CurrentTask, NoTask
<1> HIDE DEF n
<1>3. /\ tokens' = [tokens EXCEPT ![t] = Append(tokens[t], context[t])]
      /\ context' = [context EXCEPT ![t] = setting]
      /\ handling' = [handling EXCEPT ![t] = Append(handling[t], reply)]
      /\ UNCHANGED <<ofTask, heir>>
  BY DEF HandleMessage
<1> HIDE DEF reply, setting
<1>4. /\ tokens'[t] = Append(tokens[t], context[t]) /\ context'[t] = setting
      /\ handling'[t] = Append(handling[t], reply)
  BY <1>3
<1>5. RepliesTyped'
  BY <1>1, <1>2, <1>3 DEF n
<1>6. FramesAgree(t)'
  <2>0. PICK task : task = CurrentTask(t)
    OBVIOUS
  <2>1. Agree(t, task, heir[t], context[t], tokens[t], handling[t])
    BY <2>0 DEF FramesAgree
  <2>2. setting = [owner |-> task, route |-> reply.route, encrypted |-> reply.encrypted]
    BY <2>0 DEF setting, reply
  <2>4. task = CurrentTask(t)' /\ heir' = heir
    BY <1>3, <2>0 DEF CurrentTask
  <2>3. Agree(t, task, heir[t], setting, Append(tokens[t], context[t]), Append(handling[t], reply))
    BY <1>1, <1>2, <2>1, <2>2, Pushed DEF n
  <2> QED BY <1>4, <2>3, <2>4 DEF FramesAgree
<1>7. ASSUME NEW u \in DOMAIN context, u # t PROVE FramesAgree(u)'
  BY <1>3, <1>7, OtherFrames
<1>8. DOMAIN context' = DOMAIN context
  BY <1>3
<1> QED BY <1>5, <1>6, <1>7, <1>8

\* A handler that ends keeps the invariant.
LEMMA EndStep ==
  ASSUME RepliesInv, NEW t \in DOMAIN context, HandlerEnds(t)
  PROVE  RepliesInv'
<1>0. PICK n : n = Len(tokens[t])
  OBVIOUS
<1> DEFINE less == SubSeq(tokens[t], 1, n - 1)
           few == SubSeq(handling[t], 1, n - 1)
<1> USE DEF RepliesInv, RepliesTyped
<1>1. /\ t \in Nat \ {0} /\ n = Len(handling[t]) /\ tokens[t] # <<>>
      /\ context[t] \in Setting /\ tokens[t] \in Seq(Setting) /\ handling[t] \in Seq(Reply)
      /\ Agree(t, CurrentTask(t), heir[t], context[t], tokens[t], handling[t])
  BY <1>0 DEF HandlerEnds, FramesAgree
<1>2. /\ tokens' = [tokens EXCEPT ![t] = less] /\ context' = [context EXCEPT ![t] = tokens[t][n]]
      /\ handling' = [handling EXCEPT ![t] = few]
      /\ UNCHANGED <<ofTask, heir>>
  BY <1>0, <1>1 DEF HandlerEnds, ButLast
<1>3. /\ tokens[t][n] \in Setting /\ less \in Seq(Setting) /\ few \in Seq(Reply)
      /\ Len(less) = Len(few) /\ Agree(t, CurrentTask(t), heir[t], tokens[t][n], less, few)
  <2>1. t \in Nat /\ Len(tokens[t]) = Len(handling[t])
    BY <1>1
  <2> QED BY <1>0, <1>1, <2>1, Popped
<1> HIDE DEF less, few
<1>4. tokens'[t] = less /\ context'[t] = tokens[t][n] /\ handling'[t] = few
  BY <1>2
<1>5. RepliesTyped'
  <2>1. context' \in Seq(Setting) /\ Len(context') = Len(context)
    BY <1>2, <1>3
  <2>2. tokens' \in Seq(Seq(Setting)) /\ Len(tokens') = Len(tokens)
    BY <1>2, <1>3
  <2>3. handling' \in Seq(Seq(Reply)) /\ Len(handling') = Len(handling)
    BY <1>2, <1>3
  <2>4. \A u \in DOMAIN context : u # t => tokens'[u] = tokens[u] /\ handling'[u] = handling[u]
    BY <1>2
  <2>5. DOMAIN context' = DOMAIN context
    BY <1>2
  <2>6. \A u \in DOMAIN context' : Len(tokens'[u]) = Len(handling'[u])
    BY <1>3, <1>4, <2>4, <2>5
  <2> QED BY <1>2, <2>1, <2>2, <2>3, <2>6
<1>6. FramesAgree(t)'
  BY <1>2, <1>3, <1>4 DEF FramesAgree, CurrentTask
<1>7. ASSUME NEW u \in DOMAIN context, u # t PROVE FramesAgree(u)'
  BY <1>2, <1>7, OtherFrames
<1>8. DOMAIN context' = DOMAIN context
  BY <1>2
<1> QED BY <1>5, <1>6, <1>7, <1>8

\* A context that is scheduled inherits variables that it has not set.
LEMMA ScheduleStep ==
  ASSUME RepliesInv, NEW t \in DOMAIN context, NEW task \in BOOLEAN, Schedule(t, task)
  PROVE  RepliesInv'
<1> USE DEF RepliesInv, RepliesTyped
<1>0. PICK new : new = Len(context) + 1
  OBVIOUS
<1>1. /\ t \in Nat \ {0} /\ t < new /\ new \in Nat
      /\ context[t] \in Setting /\ tokens[t] \in Seq(Setting) /\ handling[t] \in Seq(Reply)
      /\ Len(tokens[t]) = Len(handling[t]) /\ heir[t] \in Reply /\ ofTask[t] \in BOOLEAN
  BY <1>0
<1>2. /\ context' = Append(context, context[t]) /\ tokens' = Append(tokens, <<>>)
      /\ handling' = Append(handling, <<>>)
      /\ ofTask' = Append(ofTask, task) /\ heir' = Append(heir, Inherited(t))
  BY DEF Schedule
<1>3. /\ <<>> \in Seq(Setting) /\ <<>> \in Seq(Reply)
  OBVIOUS
<1>10. Inherited(t) \in Reply
  <2>1. Nothing \in Reply
    BY DEF Nothing, Reply, Flags
  <2>2. handling[t] # <<>> => handling[t][Len(handling[t])] \in Reply
    BY <1>1
  <2> QED BY <1>1, <2>1, <2>2 DEF Inherited
<1>4. RepliesTyped'
  <2>1. context' \in Seq(Setting) /\ Len(context') = new
    BY <1>0, <1>1, <1>2
  <2>2. ofTask' \in Seq(BOOLEAN) /\ Len(ofTask') = new
    BY <1>0, <1>2
  <2>3. heir' \in Seq(Reply) /\ Len(heir') = new
    BY <1>0, <1>2, <1>10
  <2>4. tokens' \in Seq(Seq(Setting)) /\ Len(tokens') = new
    BY <1>0, <1>2, <1>3
  <2>5. handling' \in Seq(Seq(Reply)) /\ Len(handling') = new
    BY <1>0, <1>2, <1>3
  <2>6. ASSUME NEW u \in 1..new PROVE Len(tokens'[u]) = Len(handling'[u])
    <3>1. CASE u = new
      <4>1. tokens'[u] = <<>> /\ handling'[u] = <<>>
        BY <1>0, <1>2, <3>1
      <4> QED BY <4>1
    <3>2. CASE u # new
      <4>1. u \in DOMAIN context
        BY <1>0, <3>2
      <4>2. tokens'[u] = tokens[u] /\ handling'[u] = handling[u]
        BY <1>2, <4>1
      <4> QED BY <4>1, <4>2
    <3> QED BY <3>1, <3>2
  <2> QED BY <2>1, <2>2, <2>3, <2>4, <2>5, <2>6 DEF RepliesTyped
<1>5. ASSUME NEW u \in DOMAIN context PROVE FramesAgree(u)'
  <2>1. UNCHANGED <<ofTask[u], heir[u], context[u], tokens[u], handling[u]>>
    BY <1>2, <1>10
  <2>2. FramesAgree(u)
    OBVIOUS
  <2> QED BY <2>1, <2>2 DEF FramesAgree, CurrentTask
<1>6. FramesAgree(new)'
  <2>1. /\ context'[new] = context[t] /\ tokens'[new] = <<>> /\ handling'[new] = <<>>
        /\ heir'[new] = Inherited(t)
    BY <1>0, <1>2, <1>10
  <2>2. Inherits(new, context[t], Inherited(t))
    <3>1. Agree(t, CurrentTask(t), heir[t], context[t], tokens[t], handling[t])
      BY DEF FramesAgree
    <3>2. CASE handling[t] = <<>>
      <4>1. Frame(context[t], tokens[t], 1) = context[t] /\ Inherited(t) = heir[t]
        BY <1>1, <3>2 DEF Frame, Inherited
      <4>2. Inherits(t, context[t], heir[t])
        BY <3>1, <4>1 DEF Agree
      <4>3. context[t].owner \in Nat
        BY <1>1 DEF Setting
      <4> QED BY <1>1, <4>1, <4>2, <4>3 DEF Inherits
    <3>3. CASE handling[t] # <<>>
      <4> DEFINE n == Len(handling[t])
      <4>1. n \in 1..Len(handling[t]) /\ n = Len(tokens[t]) /\ n \in Nat
        BY <1>1, <3>3
      <4>5. Inherited(t) = IF ofTask[t] THEN Nothing ELSE handling[t][n]
        BY <3>3 DEF Inherited
      <4> HIDE DEF n
      <4>2. Frame(context[t], tokens[t], n + 1)
                = [owner |-> CurrentTask(t), route |-> handling[t][n].route,
                   encrypted |-> handling[t][n].encrypted]
        BY <3>1, <4>1 DEF Agree
      <4>3. Frame(context[t], tokens[t], n + 1) = context[t]
        BY <4>1 DEF Frame
      <4>4. /\ context[t].owner = CurrentTask(t) /\ context[t].route = handling[t][n].route
            /\ context[t].encrypted = handling[t][n].encrypted
        BY <4>2, <4>3
      <4>6. CASE ofTask[t]
        <5>1. context[t].owner = t /\ t # NoTask /\ Inherited(t) = Nothing
          BY <1>1, <4>4, <4>5, <4>6 DEF CurrentTask, NoTask
        <5> QED BY <1>1, <5>1 DEF Inherits
      <4>7. CASE ~ofTask[t]
        <5>1. context[t].owner = NoTask /\ Inherited(t) = handling[t][n]
          BY <4>4, <4>5, <4>7 DEF CurrentTask
        <5> QED BY <4>4, <5>1 DEF Inherits
      <4> QED BY <1>1, <4>6, <4>7
    <3> QED BY <3>2, <3>3
  <2>3. ASSUME NEW current PROVE Agree(new, current, Inherited(t), context[t], <<>>, <<>>)
    <3>1. Frame(context[t], <<>>, 1) = context[t]
      BY DEF Frame
    <3> QED BY <2>2, <3>1 DEF Agree
  <2> QED BY <2>1, <2>3 DEF FramesAgree
<1>7. DOMAIN context' = DOMAIN context \cup {new}
  BY <1>0, <1>2
<1>8. \A u \in DOMAIN context' : FramesAgree(u)'
  BY <1>5, <1>6, <1>7
<1> QED BY <1>4, <1>8

\* What a context gets is of the message that it is answering.
LEMMA GotIsAnswered ==
  ASSUME RepliesInv, NEW t \in DOMAIN context
  PROVE  /\ Got(t).route = Answering(t).route
         /\ Got(t).encrypted = Answering(t).encrypted
<1> USE DEF RepliesInv, RepliesTyped
<1>1. /\ t \in Nat \ {0} /\ Len(tokens[t]) = Len(handling[t]) /\ handling[t] \in Seq(Reply)
      /\ tokens[t] \in Seq(Setting) /\ context[t] \in Setting
  OBVIOUS
<1>4. Agree(t, CurrentTask(t), heir[t], context[t], tokens[t], handling[t])
  BY DEF FramesAgree
<1>2. CASE handling[t] = <<>>
  <2>1. Frame(context[t], tokens[t], 1) = context[t] /\ Answering(t) = heir[t]
    BY <1>1, <1>2 DEF Frame, Answering
  <2>2. Inherits(t, context[t], heir[t])
    BY <1>4, <2>1 DEF Agree
  <2>3. CASE context[t].owner = NoTask
    BY <2>1, <2>2, <2>3 DEF Got, Inherits
  <2>4. CASE context[t].owner # NoTask
    <3>1. context[t].owner \notin {NoTask, CurrentTask(t)} /\ heir[t] = Nothing
      BY <1>1, <2>2, <2>4 DEF Inherits, CurrentTask, NoTask, Setting
    <3> QED BY <2>1, <3>1 DEF Got, Unset, Nothing
  <2> QED BY <2>3, <2>4
<1>3. CASE handling[t] # <<>>
  <2> DEFINE n == Len(handling[t])
  <2>1. n \in 1..Len(handling[t]) /\ n = Len(tokens[t]) /\ n \in Nat
    BY <1>1, <1>3
  <2>4. Answering(t) = handling[t][n]
    BY <1>3 DEF Answering
  <2> HIDE DEF n
  <2>2. Frame(context[t], tokens[t], n + 1) = context[t]
    BY <2>1 DEF Frame
  <2>3. context[t] = [owner |-> CurrentTask(t), route |-> handling[t][n].route,
                      encrypted |-> handling[t][n].encrypted]
    BY <1>4, <2>1, <2>2 DEF Agree
  <2>5. Got(t) = context[t]
    BY <2>3 DEF Got
  <2> QED BY <2>3, <2>4, <2>5
<1> QED BY <1>2, <1>3

\* Every step keeps the invariant.
LEMMA RepliesStep ==
  ASSUME RepliesInv, [RepliesNext]_replyVars PROVE RepliesInv'
<1>1. CASE UNCHANGED replyVars
  BY <1>1 DEF replyVars, RepliesInv, RepliesTyped, FramesAgree, CurrentTask
<1> QED BY <1>1, HandleStep, EndStep, ScheduleStep DEF RepliesNext

\* For any number of tasks and callbacks and any nesting of handlers: a message
\* planned in one answers what that one is handling, or was left with by code
\* outside every task, over its route and no less encrypted unless the caller
\* says so; nothing is inherited from a task (TaskLocalReplyRoute,
\* TaskLocalEncryptionMode, plan_outbound_message).
THEOREM RepliesAnswerAlways == RepliesSpec => []RepliesAnswer
<1>1. ASSUME RepliesInv PROVE RepliesAnswer
  <2> SUFFICES ASSUME NEW c \in DOMAIN context, NEW encrypted \in Flags, NEW durable \in BOOLEAN
               PROVE  LET plan == Planned(c, encrypted, durable) IN
                      /\ plan.route = Answering(c).route
                      /\ plan.encrypted =
                            IF encrypted = "none" THEN Answering(c).encrypted ELSE encrypted
                      /\ plan.persisted => plan.encrypted # "yes"
    BY DEF RepliesAnswer
  <2>1. Got(c).route = Answering(c).route /\ Got(c).encrypted = Answering(c).encrypted
    BY <1>1, GotIsAnswered
  <2> QED BY <2>1 DEF Planned
<1> QED BY <1>1, RepliesStart, RepliesStep, PTL DEF RepliesSpec

-----------------------------------------------------------------------------
(***************************************************************************)
(* Retention.  A fold over a finite set is told by the function on its     *)
(* subsets that computes it.                                               *)
(***************************************************************************)
\* One step of the selection: what is kept of the list once its oldest file is
\* added to the others, of which F tells what is kept.
KeptFrom(keep, preserve, F, s) ==
    IF s = {} THEN {}
    ELSE IF Min(s) = preserve \/ Cardinality(F[s \ {Min(s)}]) < keep
         THEN F[s \ {Min(s)}] \cup {Min(s)} ELSE F[s \ {Min(s)}]

\* A function that tells so of every part of a list
Keeps(list, keep, preserve, F) == F = [s \in SUBSET list |-> KeptFrom(keep, preserve, F, s)]

\* What the fold of Kept says of every part of the list.
LEMMA KeptUnfold ==
  ASSUME NEW list, NEW keep, NEW preserve
  PROVE  Kept(list, keep, preserve) = (CHOOSE F : Keeps(list, keep, preserve, F))[list]
  BY DEF Kept, MapThenFoldSet, Keeps, KeptFrom, Min

\* What is kept: the preserved file and those with too few newer ones.
KeptOf(keep, preserve, s) ==
    {f \in s : f = preserve \/ Cardinality(NewerThan(f, s)) < keep}

\* The files of a list but the oldest.
LEMMA OldestLast ==
  ASSUME NEW s \in SUBSET Nat, s # {}, IsFiniteSet(s)
  PROVE  /\ Min(s) \in s /\ \A f \in s : Min(s) <= f
         /\ IsFiniteSet(s \ {Min(s)})
         /\ Cardinality(s) \in Nat /\ Cardinality(s \ {Min(s)}) \in Nat
         /\ Cardinality(s \ {Min(s)}) = Cardinality(s) - 1
         /\ NewerThan(Min(s), s) = s \ {Min(s)}
         /\ \A f \in s \ {Min(s)} : NewerThan(f, s) = NewerThan(f, s \ {Min(s)})
<1> DEFINE m == Min(s)
           r == s \ {m}
<1>1. m \in s /\ \A f \in s : m <= f
  BY LeastNatural DEF Min
<1> HIDE DEF m
<1>2. IsFiniteSet(r) /\ Cardinality(r) = Cardinality(s) - 1
  BY <1>1, FS_RemoveElement
<1>3. Cardinality(s) \in Nat /\ Cardinality(r) \in Nat
  BY <1>2, FS_CardinalityType
<1>4. \A f \in r : f \in Nat /\ m \in Nat /\ m < f /\ ~(f < m)
  BY <1>1
<1>5. NewerThan(m, s) = r
  <2>1. ~(m > m) /\ \A f \in r : f > m
    BY <1>1, <1>4
  <2> QED BY <1>1, <2>1 DEF NewerThan
<1>6. ASSUME NEW f \in r PROVE NewerThan(f, s) = NewerThan(f, r)
  <2>1. ~(m > f)
    BY <1>4
  <2> QED BY <2>1 DEF NewerThan
<1> QED BY <1>1, <1>2, <1>3, <1>5, <1>6 DEF m

\* The others are kept or not, whatever becomes of the oldest.
LEMMA OthersAsBefore ==
  ASSUME NEW keep, NEW preserve, NEW s \in SUBSET Nat, s # {}, IsFiniteSet(s)
  PROVE  KeptOf(keep, preserve, s) =
            KeptOf(keep, preserve, s \ {Min(s)}) \cup
            {f \in {Min(s)} : f = preserve \/ Cardinality(s \ {Min(s)}) < keep}
<1> DEFINE m == Min(s)
           r == s \ {m}
<1>1. m \in s /\ NewerThan(m, s) = r /\ \A f \in r : NewerThan(f, s) = NewerThan(f, r)
  BY OldestLast
<1> HIDE DEF m
<1>2. \A f : f \in KeptOf(keep, preserve, s) <=>
         \/ f \in KeptOf(keep, preserve, r)
         \/ f \in {m} /\ (f = preserve \/ Cardinality(r) < keep)
  BY <1>1 DEF KeptOf
<1> QED BY <1>2 DEF m

\* While there is room everything has been kept.
LEMMA RoomKeepsAll ==
  ASSUME NEW keep \in Nat, NEW preserve, NEW s \in SUBSET Nat, IsFiniteSet(s)
  PROVE  /\ IsFiniteSet(KeptOf(keep, preserve, s))
         /\ Cardinality(KeptOf(keep, preserve, s)) < keep => KeptOf(keep, preserve, s) = s
<1> DEFINE E(t) == KeptOf(keep, preserve, t)
           Good(t) == Cardinality(E(t)) < keep => E(t) = t
           Bad == {n \in Nat : \E t \in SUBSET s : Cardinality(t) = n /\ ~Good(t)}
<1>1. \A t \in SUBSET s : IsFiniteSet(t) /\ Cardinality(t) \in Nat
  BY FS_Subset, FS_CardinalityType
<1>2. \A t \in SUBSET s : /\ E(t) \subseteq t /\ IsFiniteSet(E(t)) /\ Cardinality(E(t)) \in Nat
  <2>1. \A t : E(t) \subseteq t
    BY DEF KeptOf
  <2> QED BY <1>1, <2>1, FS_Subset, FS_CardinalityType
<1>3. Bad = {}
  <2> SUFFICES ASSUME Bad # {} PROVE FALSE
    OBVIOUS
  <2>1. PICK n \in Bad : \A k \in Bad : n <= k
    <3>1. Bad \in SUBSET Nat
      OBVIOUS
    <3> HIDE DEF Bad
    <3> QED BY <3>1, LeastNatural
  <2>2. PICK t \in SUBSET s : Cardinality(t) = n /\ ~Good(t)
    BY <2>1
  <2>3. t # {}
    BY <1>2, <2>2
  <2> DEFINE r == t \ {Min(t)}
  <2>4. /\ Min(t) \in t /\ r \in SUBSET s
        /\ Cardinality(r) \in Nat /\ Cardinality(r) < n
    <3>1. IsFiniteSet(t) /\ t \in SUBSET Nat
      BY <1>1
    <3>2. Cardinality(r) \in Nat /\ Cardinality(r) = Cardinality(t) - 1 /\ Min(t) \in t
      BY <2>3, <3>1, OldestLast
    <3>3. n \in Nat /\ Cardinality(t) = n
      BY <2>1, <2>2
    <3>4. r \in SUBSET s
      OBVIOUS
    <3> HIDE DEF Bad, r
    <3> QED BY <3>2, <3>3, <3>4
  <2>5. Good(r)
    BY <2>1, <2>4
  <2> HIDE DEF Bad
  <2>6. E(t) = E(r) \cup {f \in {Min(t)} : f = preserve \/ Cardinality(r) < keep}
    BY <1>1, <2>3, OthersAsBefore
  <2>7. Cardinality(E(r)) <= Cardinality(E(t))
    BY <1>2, <2>6, FS_Subset
  <2>8. E(r) = r /\ Cardinality(r) < keep
    BY <1>2, <2>2, <2>4, <2>5, <2>7
  <2>9. E(t) = t
    BY <2>4, <2>6, <2>8
  <2> QED BY <2>2, <2>9
<1>4. Good(s)
  BY <1>1, <1>3
<1> QED BY <1>2, <1>4

\* One step after the other, newest first, keeps just these.
LEMMA KeptStep ==
  ASSUME NEW keep \in Nat, NEW preserve, NEW s \in SUBSET Nat, IsFiniteSet(s), NEW F,
         s # {} => F[s \ {Min(s)}] = KeptOf(keep, preserve, s \ {Min(s)})
  PROVE  KeptFrom(keep, preserve, F, s) = KeptOf(keep, preserve, s)
<1>1. CASE s = {}
  BY <1>1 DEF KeptFrom, KeptOf
<1>2. CASE s # {}
  <2> DEFINE r == s \ {Min(s)}
  <2>1. IsFiniteSet(r) /\ r \in SUBSET Nat /\ Cardinality(r) \in Nat
    BY <1>2, OldestLast
  <2>2. /\ IsFiniteSet(KeptOf(keep, preserve, r))
        /\ Cardinality(KeptOf(keep, preserve, r)) < keep => KeptOf(keep, preserve, r) = r
    BY <2>1, RoomKeepsAll
  <2>3. Cardinality(KeptOf(keep, preserve, r)) \in Nat
        /\ Cardinality(KeptOf(keep, preserve, r)) <= Cardinality(r)
    <3>1. KeptOf(keep, preserve, r) \subseteq r
      BY DEF KeptOf
    <3> QED BY <2>1, <2>2, <3>1, FS_Subset, FS_CardinalityType
  <2>4. Cardinality(KeptOf(keep, preserve, r)) < keep <=> Cardinality(r) < keep
    BY <2>1, <2>2, <2>3
  <2>5. KeptOf(keep, preserve, s) =
           KeptOf(keep, preserve, r) \cup
           {f \in {Min(s)} : f = preserve \/ Cardinality(r) < keep}
    BY <1>2, OthersAsBefore
  <2>6. F[r] = KeptOf(keep, preserve, r)
    BY <1>2
  <2>7. CASE Min(s) = preserve \/ Cardinality(r) < keep
    <3>1. KeptFrom(keep, preserve, F, s) = F[r] \cup {Min(s)}
      BY <1>2, <2>4, <2>6, <2>7 DEF KeptFrom
    <3>2. KeptOf(keep, preserve, s) = KeptOf(keep, preserve, r) \cup {Min(s)}
      BY <2>5, <2>7
    <3> QED BY <2>6, <3>1, <3>2
  <2>8. CASE ~(Min(s) = preserve \/ Cardinality(r) < keep)
    <3>1. KeptFrom(keep, preserve, F, s) = F[r]
      BY <1>2, <2>4, <2>6, <2>8 DEF KeptFrom
    <3>2. KeptOf(keep, preserve, s) = KeptOf(keep, preserve, r)
      BY <2>5, <2>8
    <3> QED BY <2>6, <3>1, <3>2
  <2> QED BY <2>7, <2>8
<1> QED BY <1>1, <1>2

\* The fold computes what is kept, whatever the list.
LEMMA KeptIs ==
  ASSUME NEW list \in SUBSET Nat, IsFiniteSet(list), NEW keep \in Nat, NEW preserve
  PROVE  Kept(list, keep, preserve) = KeptOf(keep, preserve, list)
<1>1. \A s \in SUBSET list : IsFiniteSet(s) /\ Cardinality(s) \in Nat /\ s \in SUBSET Nat
  BY FS_Subset, FS_CardinalityType
<1>2. \E F : Keeps(list, keep, preserve, F)
  <2> DEFINE F == [s \in SUBSET list |-> KeptOf(keep, preserve, s)]
  <2>1. ASSUME NEW s \in SUBSET list PROVE F[s] = KeptFrom(keep, preserve, F, s)
    <3>1. F[s \ {Min(s)}] = KeptOf(keep, preserve, s \ {Min(s)})
      OBVIOUS
    <3>2. F[s] = KeptOf(keep, preserve, s)
      OBVIOUS
    <3> HIDE DEF F
    <3> QED BY <1>1, <3>1, <3>2, KeptStep
  <2>2. F = [s \in SUBSET list |-> F[s]]
    OBVIOUS
  <2> HIDE DEF F
  <2>3. F = [s \in SUBSET list |-> KeptFrom(keep, preserve, F, s)]
    BY <2>1, <2>2
  <2> QED BY <2>3 DEF Keeps
<1> DEFINE F == CHOOSE F : Keeps(list, keep, preserve, F)
<1>3. Keeps(list, keep, preserve, F)
  BY <1>2
<1>4. Kept(list, keep, preserve) = F[list]
  BY KeptUnfold
<1> HIDE DEF F
<1>5. \A s \in SUBSET list : F[s] = KeptFrom(keep, preserve, F, s)
  BY <1>3 DEF Keeps
<1> DEFINE Bad == {n \in Nat : \E s \in SUBSET list :
                                  Cardinality(s) = n /\ F[s] # KeptOf(keep, preserve, s)}
<1>6. Bad = {}
  <2> SUFFICES ASSUME Bad # {} PROVE FALSE
    OBVIOUS
  <2>1. PICK n \in Bad : \A k \in Bad : n <= k
    <3>1. Bad \in SUBSET Nat
      OBVIOUS
    <3> HIDE DEF Bad
    <3> QED BY <3>1, LeastNatural
  <2>2. PICK s \in SUBSET list : Cardinality(s) = n /\ F[s] # KeptOf(keep, preserve, s)
    BY <2>1
  <2>3. ASSUME s # {} PROVE F[s \ {Min(s)}] = KeptOf(keep, preserve, s \ {Min(s)})
    <3> DEFINE r == s \ {Min(s)}
    <3>1. /\ Cardinality(r) \in Nat /\ Cardinality(s) \in Nat
          /\ Cardinality(r) = Cardinality(s) - 1 /\ r \in SUBSET list
      BY <1>1, <2>3, OldestLast
    <3>2. Cardinality(r) < n /\ ~(n <= Cardinality(r))
      BY <2>2, <3>1
    <3>3. Cardinality(r) \notin Bad
      BY <2>1, <3>2
    <3> QED BY <3>1, <3>3
  <2> HIDE DEF Bad
  <2>4. KeptFrom(keep, preserve, F, s) = KeptOf(keep, preserve, s)
    BY <1>1, <2>3, KeptStep
  <2> QED BY <1>5, <2>2, <2>4
<1>7. F[list] = KeptOf(keep, preserve, list)
  BY <1>1, <1>6
<1> QED BY <1>4, <1>7

-----------------------------------------------------------------------------
\* A list is of finitely many files, and has its options.
ListOK(prune) ==
    /\ prune = [list |-> prune.list, keep |-> prune.keep,
                age |-> prune.age, preserve |-> prune.preserve, end |-> prune.end]
    /\ prune.list \in SUBSET Nat /\ IsFiniteSet(prune.list)
    /\ prune.keep \in Nat

\* The inductive invariant: what is listed are finitely many files.
RetentionInv ==
    /\ time \in Nat
    /\ files \in SUBSET Nat /\ IsFiniteSet(files)
    /\ prunes = [p \in Pruners |-> prunes[p]]
    /\ \A p \in Pruners : ListOK(prunes[p])

\* What a prune may reach of the list it was given
Reached(prune) ==
    {f \in Selected(prune) : \A g \in Selected(prune) : g >= f => g \in files}

\* What may be deleted of a list
Expendable(prune, f) ==
    /\ f # prune.preserve
    /\ \/ Cardinality(NewerThan(f, prune.list)) >= prune.keep
       \/ f + prune.age < time

\* What PruneRemovesTheOldest says of a step of one prune.
OldestGo(prune, end) ==
    LET gone == files \ files'
        left == {f \in prune.list \cap files' : Expendable(prune, f)}
        alone == gone \cap companions'
    IN  /\ \A f \in gone : f \in prune.list /\ Expendable(prune, f)
        /\ \A f \in gone, g \in left : f > g
        /\ end = "returned" => left = {} /\ alone = {}
        /\ \A f, g \in alone : f = g

\* What it says of a step.
OldestFirst ==
    \A p \in Pruners :
       prunes[p].list # {} /\ prunes'[p].list = {} => OldestGo(prunes[p], prunes'[p].end)

\* The selection is just what may be deleted.
LEMMA SelectedIs ==
  ASSUME NEW prune, ListOK(prune)
  PROVE  Selected(prune) = {f \in prune.list : Expendable(prune, f)}
<1>1. Kept(prune.list, prune.keep, prune.preserve) =
         KeptOf(prune.keep, prune.preserve, prune.list)
  BY KeptIs DEF ListOK
<1>2. \A f \in prune.list : Cardinality(NewerThan(f, prune.list)) \in Nat
  <2>1. \A f : NewerThan(f, prune.list) \subseteq prune.list
    BY DEF NewerThan
  <2> QED BY <2>1, FS_Subset, FS_CardinalityType DEF ListOK
<1>3. prune.keep \in Nat
  BY DEF ListOK
<1>4. \A f \in prune.list :
         f \in KeptOf(prune.keep, prune.preserve, prune.list) <=>
            f = prune.preserve \/ ~(Cardinality(NewerThan(f, prune.list)) >= prune.keep)
  BY <1>2, <1>3 DEF KeptOf
<1>5. \A f : f \in Selected(prune) <=>
         /\ f \in prune.list
         /\ \/ f \notin KeptOf(prune.keep, prune.preserve, prune.list)
            \/ f + prune.age < time /\ f # prune.preserve
  BY <1>1 DEF Selected
<1>6. \A f : f \in Selected(prune) <=> f \in prune.list /\ Expendable(prune, f)
  BY <1>4, <1>5 DEF Expendable
<1> QED BY <1>6

\* Listing and pruning leave the lists of the others alone.
LEMMA OneList ==
  ASSUME RetentionInv, NEW p \in Pruners, NEW prune, ListOK(prune),
         prunes' = [prunes EXCEPT ![p] = prune]
  PROVE  /\ prunes' = [q \in Pruners |-> prunes'[q]]
         /\ \A q \in Pruners : prunes'[q] = IF q = p THEN prune ELSE prunes[q]
         /\ \A q \in Pruners : ListOK(prunes'[q])
<1>1. \A q \in Pruners : prunes'[q] = IF q = p THEN prune ELSE prunes[q]
  BY DEF RetentionInv
<1>2. prunes' = [q \in Pruners |-> prunes'[q]]
  BY DEF RetentionInv
<1>3. ASSUME NEW q \in Pruners PROVE ListOK(prunes'[q])
  BY <1>1 DEF RetentionInv
<1> QED BY <1>1, <1>2, <1>3

\* At first there are no files and no lists.
LEMMA RetentionInvInit == RetentionInit => RetentionInv
<1> DEFINE prune == [list |-> {}, keep |-> 0, age |-> 0, preserve |-> 0, end |-> "none"]
<1>1. ListOK(prune)
  BY FS_EmptySet DEF ListOK
<1> HIDE DEF prune
<1>2. ASSUME prunes = [p \in Pruners |-> prune]
      PROVE  prunes = [p \in Pruners |-> prunes[p]] /\ \A p \in Pruners : ListOK(prunes[p])
  BY <1>1, <1>2
<1>3. RetentionInit => prunes = [p \in Pruners |-> prune]
  BY DEF RetentionInit, prune
<1> QED BY <1>2, <1>3, FS_EmptySet DEF RetentionInit, RetentionInv

\* A new file is in no list.
LEMMA CreateFileKeeps ==
  ASSUME RetentionInv, CreateFile PROVE RetentionInv' /\ OldestFirst
<1>1. time' \in Nat /\ prunes' = prunes
  BY DEF RetentionInv, CreateFile
<1>2. files' = files \cup {time'} /\ IsFiniteSet(files')
  BY FS_AddElement DEF RetentionInv, CreateFile
<1>4. RetentionInv'
  BY <1>1, <1>2 DEF RetentionInv
<1>5. OldestFirst
  BY <1>1 DEF OldestFirst
<1> QED BY <1>4, <1>5

\* A list is of files that are there now.
LEMMA ListFilesKeeps ==
  ASSUME RetentionInv, NEW p \in Pruners, ListFiles(p) PROVE RetentionInv' /\ OldestFirst
<1>1. PICK keep \in KeepLimits, age \in AgeLimits, preserve \in {0} \cup files :
         prunes' = [prunes EXCEPT ![p] = [list |-> files, keep |-> keep,
                                          age |-> age, preserve |-> preserve,
                                          end |-> "none"]]
  BY DEF ListFiles
<1> DEFINE prune == [list |-> files, keep |-> keep, age |-> age, preserve |-> preserve,
                     end |-> "none"]
<1>2. ListOK(prune)
  BY RetentionAssumption DEF ListOK, RetentionInv
<1>3. prunes' = [prunes EXCEPT ![p] = prune]
  BY <1>1
<1> HIDE DEF prune
<1>4. /\ prunes' = [q \in Pruners |-> prunes'[q]]
      /\ \A q \in Pruners : prunes'[q] = IF q = p THEN prune ELSE prunes[q]
      /\ \A q \in Pruners : ListOK(prunes'[q])
  BY <1>2, <1>3, OneList
<1>5. UNCHANGED <<files, companions, time>> /\ prunes[p].list = {}
  BY DEF ListFiles
<1>6. RetentionInv'
  BY <1>4, <1>5 DEF RetentionInv
<1>7. OldestFirst
  BY <1>4, <1>5 DEF OldestFirst, RetentionInv
<1> QED BY <1>6, <1>7

\* How a prune may end: it has removed "removed" and the companions of "cleared".
PruneEnds(p, removed, cleared, end) ==
    /\ files' = files \ removed /\ companions' = companions \ cleared /\ time' = time
    /\ prunes[p].list # {}
    /\ prunes' = [prunes EXCEPT ![p].list = {}, ![p].end = end]

\* It keeps the invariant, and touches no other prune.
LEMMA PruneEndKeeps ==
  ASSUME RetentionInv, NEW p \in Pruners, NEW removed, NEW cleared, NEW end,
         PruneEnds(p, removed, cleared, end)
  PROVE  /\ RetentionInv'
         /\ OldestGo(prunes[p], end) => OldestFirst
<1> DEFINE half == [prunes[p] EXCEPT !.list = {}]
           prune == [half EXCEPT !.end = end]
<1>1. prunes' = [prunes EXCEPT ![p] = prune]
  BY DEF PruneEnds, RetentionInv
<1>2. ListOK(prunes[p])
  BY DEF RetentionInv
<1>3. half = [list |-> {}, keep |-> prunes[p].keep, age |-> prunes[p].age,
              preserve |-> prunes[p].preserve, end |-> prunes[p].end]
  BY <1>2 DEF ListOK
<1> HIDE DEF half
<1>4. prune = [list |-> {}, keep |-> prunes[p].keep, age |-> prunes[p].age,
               preserve |-> prunes[p].preserve, end |-> end]
  BY <1>3
<1> HIDE DEF prune
<1>5. ListOK(prune) /\ prune.list = {} /\ prune.end = end
  BY <1>2, <1>4, FS_EmptySet DEF ListOK
<1>6. /\ prunes' = [q \in Pruners |-> prunes'[q]]
      /\ \A q \in Pruners : prunes'[q] = IF q = p THEN prune ELSE prunes[q]
      /\ \A q \in Pruners : ListOK(prunes'[q])
  BY <1>1, <1>5, OneList
<1>7. files' \in SUBSET Nat /\ IsFiniteSet(files')
  BY FS_Subset DEF PruneEnds, RetentionInv
<1>8. RetentionInv'
  BY <1>6, <1>7 DEF RetentionInv, PruneEnds
<1>9. prunes'[p].end = end /\ \A q \in Pruners : q # p => prunes'[q].list = prunes[q].list
  BY <1>5, <1>6
<1>10. OldestGo(prunes[p], end) => OldestFirst
  BY <1>9 DEF OldestFirst
<1> QED BY <1>8, <1>10

\* What a prune reaches is there, may be deleted, and is newer than the rest.
LEMMA ReachedIs ==
  ASSUME RetentionInv, NEW p \in Pruners
  PROVE  /\ \A f \in Reached(prunes[p]) :
               f \in files /\ f \in prunes[p].list /\ Expendable(prunes[p], f) /\ f \in Nat
         /\ \A f \in Reached(prunes[p]), g \in prunes[p].list \cap files :
               Expendable(prunes[p], g) /\ g >= f => g \in Reached(prunes[p])
<1>1. ListOK(prunes[p])
  BY DEF RetentionInv
<1>2. Selected(prunes[p]) = {f \in prunes[p].list : Expendable(prunes[p], f)}
  BY <1>1, SelectedIs
<1>3. Selected(prunes[p]) \in SUBSET Nat
  BY <1>1, <1>2 DEF ListOK
<1>4. \A f \in Reached(prunes[p]) :
         f \in files /\ f \in prunes[p].list /\ Expendable(prunes[p], f) /\ f \in Nat
  BY <1>2, <1>3 DEF Reached
<1>5. ASSUME NEW f \in Reached(prunes[p]), NEW g \in prunes[p].list \cap files,
             Expendable(prunes[p], g), g >= f
      PROVE  g \in Reached(prunes[p])
  <2>1. g \in Selected(prunes[p]) /\ f \in Selected(prunes[p])
    BY <1>2, <1>5 DEF Reached
  <2>2. ASSUME NEW h \in Selected(prunes[p]), h >= g PROVE h \in files
    <3>1. h >= f
      BY <1>3, <1>5, <2>1, <2>2
    <3> QED BY <1>5, <3>1 DEF Reached
  <2> QED BY <2>1, <2>2 DEF Reached
<1> QED BY <1>4, <1>5

\* A prune that meets no failure
LEMMA WholePruneKeeps ==
  ASSUME RetentionInv, NEW p \in Pruners, NEW end,
         PruneEnds(p, Reached(prunes[p]), Reached(prunes[p]), end),
         end = "returned" => Reached(prunes[p]) = Selected(prunes[p])
  PROVE  RetentionInv' /\ OldestFirst
<1> DEFINE reached == Reached(prunes[p])
           gone == files \ files'
           left == {f \in prunes[p].list \cap files' : Expendable(prunes[p], f)}
<1>1. gone = reached /\ companions' = companions \ reached /\ files' = files \ reached
  BY ReachedIs DEF PruneEnds
<1>2. \A f \in gone : f \in prunes[p].list /\ Expendable(prunes[p], f)
  BY <1>1, ReachedIs
<1>3. \A f \in gone, g \in left : f > g
  <2> SUFFICES ASSUME NEW f \in gone, NEW g \in left PROVE f > g
    OBVIOUS
  <2>1. f \in reached /\ g \notin reached /\ g \in prunes[p].list \cap files
    BY <1>1
  <2>2. ~(g >= f) /\ f \in Nat /\ g \in Nat
    BY <2>1, ReachedIs DEF RetentionInv
  <2> QED BY <2>2
<1>4. end = "returned" => left = {}
  <2> SUFFICES ASSUME end = "returned", NEW g \in left PROVE FALSE
    OBVIOUS
  <2>1. g \in Selected(prunes[p])
    BY SelectedIs DEF RetentionInv
  <2> QED BY <1>1, <2>1
<1>5. gone \cap companions' = {}
  BY <1>1
<1>6. OldestGo(prunes[p], end)
  BY <1>2, <1>3, <1>4, <1>5 DEF OldestGo
<1> QED BY <1>6, PruneEndKeeps

\* A prune that a failure ends at f: the file stays, or its companion does.
LEMMA FailedPruneKeeps ==
  ASSUME RetentionInv, NEW p \in Pruners, NEW f \in Reached(prunes[p]), NEW removed,
         PruneEnds(p, removed, NewerThan(f, Reached(prunes[p])), "raised"),
         removed \in {NewerThan(f, Reached(prunes[p])),
                      NewerThan(f, Reached(prunes[p])) \cup {f}}
  PROVE  RetentionInv' /\ OldestFirst
<1> DEFINE reached == Reached(prunes[p])
           gone == files \ files'
           left == {g \in prunes[p].list \cap files' : Expendable(prunes[p], g)}
<1>1. \A g : g \in NewerThan(f, reached) <=> g \in reached /\ g > f
  BY DEF NewerThan
<1>2. /\ gone = removed /\ removed \subseteq reached /\ \A g \in removed : g = f \/ g > f
      /\ files' = files \ removed
  BY <1>1, ReachedIs DEF PruneEnds
<1>3. \A g \in gone : g \in prunes[p].list /\ Expendable(prunes[p], g)
  BY <1>2, ReachedIs
<1>4. \A g \in gone, h \in left : g > h
  <2> SUFFICES ASSUME NEW g \in gone, NEW h \in left PROVE g > h
    OBVIOUS
  <2>1. g \in reached /\ h \in prunes[p].list \cap files /\ h \notin removed
    BY <1>2
  <2>2. f \in Nat /\ g \in Nat /\ h \in Nat
    BY <2>1, ReachedIs DEF RetentionInv
  <2>3. g = f \/ g > f
    BY <1>2
  <2>4. CASE h \in reached
    <3>1. ~(h > f)
      BY <1>1, <2>1, <2>4
    <3>2. h # g
      BY <1>2, <2>1
    <3> QED BY <2>2, <2>3, <3>1, <3>2
  <2>5. CASE h \notin reached
    <3>1. ~(h >= g)
      BY <2>1, <2>5, ReachedIs
    <3> QED BY <2>2, <3>1
  <2> QED BY <2>4, <2>5
<1>5. \A g \in gone \cap companions' : g = f
  BY <1>1, <1>2 DEF PruneEnds
<1>6. OldestGo(prunes[p], "raised")
  BY <1>3, <1>4, <1>5 DEF OldestGo
<1> QED BY <1>6, PruneEndKeeps

\* A prune deletes what its list selects, as long as nothing stops it.
LEMMA PruneFilesKeeps ==
  ASSUME RetentionInv, NEW p \in Pruners, PruneFiles(p) PROVE RetentionInv' /\ OldestFirst
<1> DEFINE reached == Reached(prunes[p])
<1>1. CASE \E end : /\ PruneEnds(p, reached, reached, end)
                    /\ end = "returned" => reached = Selected(prunes[p])
  BY <1>1, WholePruneKeeps
<1>2. CASE \E f \in reached : LET before == NewerThan(f, reached) IN
              \/ PruneEnds(p, before, before, "raised")
              \/ PruneEnds(p, before \cup {f}, before, "raised")
  BY <1>2, FailedPruneKeeps
<1>3. \/ PruneEnds(p, reached, reached, IF reached = Selected(prunes[p]) THEN "returned" ELSE "raised")
      \/ \E f \in reached : LET before == NewerThan(f, reached) IN
            \/ PruneEnds(p, before, before, "raised")
            \/ f \in companions /\ PruneEnds(p, before \cup {f}, before, "raised")
  BY DEF PruneFiles, PruneEnds, Reached
<1> DEFINE end == IF reached = Selected(prunes[p]) THEN "returned" ELSE "raised"
<1>4. end = "returned" => reached = Selected(prunes[p])
  OBVIOUS
<1>5. CASE PruneEnds(p, reached, reached, end)
  BY <1>1, <1>4, <1>5
<1>6. CASE \E f \in reached : LET before == NewerThan(f, reached) IN
              \/ PruneEnds(p, before, before, "raised")
              \/ f \in companions /\ PruneEnds(p, before \cup {f}, before, "raised")
  BY <1>2, <1>6
<1> QED BY <1>3, <1>5, <1>6

\* Every step keeps the invariant, and prunes as it should.
LEMMA RetentionInvStep ==
  ASSUME RetentionInv, [RetentionNext]_retentionVars
  PROVE  RetentionInv' /\ (RetentionNext => OldestFirst)
<1>1. CASE UNCHANGED retentionVars
  <2>1. RetentionInv'
    BY <1>1 DEF RetentionInv, retentionVars
  <2>2. OldestFirst
    BY <1>1 DEF OldestFirst, RetentionInv, retentionVars
  <2> QED BY <2>1, <2>2
<1>2. CASE CreateFile
  BY <1>2, CreateFileKeeps
<1>3. CASE \E p \in Pruners : ListFiles(p) \/ PruneFiles(p)
  BY <1>3, ListFilesKeeps, PruneFilesKeeps
<1> QED BY <1>1, <1>2, <1>3 DEF RetentionNext

\* However old the list that a caller prunes by, whatever others create and
\* prune meanwhile, and whichever unlink fails: only the oldest files go, all of
\* them with their companions if the prune returns
\* (select_managed_files_for_prune, prune_managed_files).
THEOREM PruningRemovesTheOldest == RetentionSpec => PruneRemovesTheOldest
<1>1. RetentionInit => RetentionInv
  BY RetentionInvInit
<1>2. RetentionInv /\ [RetentionNext]_retentionVars => RetentionInv'
  BY RetentionInvStep
<1>3. RetentionInv /\ [RetentionNext]_retentionVars => [OldestFirst]_retentionVars
  BY RetentionInvStep
<1>4. OldestFirst =>
         \A p \in Pruners :
            LET prune == prunes[p]
                gone == files \ files'
                May(f) == /\ f # prune.preserve
                          /\ \/ Cardinality(NewerThan(f, prune.list)) >= prune.keep
                             \/ f + prune.age < time
                left == {f \in prune.list \cap files' : May(f)}
                alone == gone \cap companions'
            IN  prune.list # {} /\ prunes'[p].list = {} =>
                  /\ \A f \in gone : f \in prune.list /\ May(f)
                  /\ \A f \in gone, g \in left : f > g
                  /\ prunes'[p].end = "returned" => left = {} /\ alone = {}
                  /\ \A f, g \in alone : f = g
  BY DEF OldestFirst, OldestGo, Expendable
<1> QED BY <1>1, <1>2, <1>3, <1>4, PTL DEF RetentionSpec, PruneRemovesTheOldest
=============================================================================
