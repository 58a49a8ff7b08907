---------------------------- MODULE OmemoStorage ----------------------------
(***************************************************************************)
(* The OMEMO key store of xmpp/omemo/storage.py and plugin.py: a process   *)
(* ties the storage to the identity it runs with, opens it and stores keys *)
(* in it.  Every file operation is a step, the process may crash between   *)
(* any two of them, and while it is down the operator may change the       *)
(* identity.  Metadata and storage are written through a temporary file    *)
(* and os.replace, which makes a write one step; that file is truncated by *)
(* the next writer and left out, as are modes and backups without keys.    *)
(***************************************************************************)
EXTENDS Tables, Sequences, Naturals

CONSTANTS
    Identities,  \* (jid, resource, nick)
    MaxKeySets,  \* bound: sets of keys ever generated
    LastStamp    \* bound: timestamps are 0..LastStamp

ASSUME OmemoAssumption ==
    "none" \notin Identities /\ MaxKeySets \in Nat /\ LastStamp \in Nat

VARIABLES
    storage,   \* the JSON file: absent, without keys, or with one set of keys
    metadata,  \* the identity in the metadata file, or "none"
    backups,   \* (timestamp, counter) -> a storage moved aside
    keeper,    \* the process
    stamp,     \* the second of time.strftime
    owners     \* history: the identity that generated each set of keys

omemoVars == <<storage, metadata, backups, keeper, stamp, owners>>

Absent == <<>>
NoKeys == <<0>>
HasKeys(content) == content \notin {Absent, NoKeys}

Proceed(place) == keeper' = [keeper EXCEPT !.at = place]

\* ensure_identity_metadata up to its first change
Ensure(i) ==
    /\ keeper.at = "down"
    /\ keeper' = [keeper EXCEPT !.identity = i, !.at =
         CASE metadata = "none" -> IF keeper.reset /\ HasKeys(storage) THEN "moving" ELSE "writing"
           [] metadata = i -> "opening"
           [] OTHER -> IF keeper.reset THEN "moving" ELSE "opening"]
    /\ UNCHANGED <<storage, metadata, backups, stamp, owners>>

\* rotate_storage_identity, which the operator asks for
Rotate(i) ==
    /\ keeper.at = "down"
    /\ keeper' = [keeper EXCEPT !.identity = i, !.at = "moving"]
    /\ UNCHANGED <<storage, metadata, backups, stamp, owners>>

\* Fault: one name per second.
BackupPathBare(second) == <<second, 0>>

\* backup_path: the first name of this second that is not taken
BackupPath(second) ==
    LET Free(n) == <<second, n>> \notin DOMAIN backups
    IN  <<second, CHOOSE n \in 0..MaxKeySets : Free(n) /\ \A m \in 0..(n - 1) : ~Free(m)>>

\* backup_existing_path of the storage
MoveStorage ==
    /\ keeper.at = "moving"
    /\ storage' = Absent
    /\ backups' = IF HasKeys(storage) THEN Put(backups, BackupPath(stamp), storage) ELSE backups
    /\ Proceed("unnaming")
    /\ UNCHANGED <<metadata, stamp, owners>>

\* backup_existing_path of the metadata
MoveMetadata ==
    /\ keeper.at = "unnaming"
    /\ metadata' = "none"
    /\ Proceed("writing")
    /\ UNCHANGED <<storage, backups, stamp, owners>>

WriteMetadata ==
    /\ keeper.at = "writing"
    /\ metadata' = keeper.identity
    /\ Proceed("opening")
    /\ UNCHANGED <<storage, backups, stamp, owners>>

\* prepare_storage_file, and the storage object loads its data
OpenStorage ==
    /\ keeper.at = "opening"
    /\ storage' = IF storage = Absent THEN NoKeys ELSE storage
    /\ keeper' = [keeper EXCEPT !.at = "up", !.data = storage']
    /\ UNCHANGED <<metadata, backups, stamp, owners>>

\* _store: the first time, new keys; the whole data is written each time.
StoreKeys ==
    /\ keeper.at = "up"
    /\ \/ /\ keeper.data = NoKeys /\ Len(owners) < MaxKeySets
          /\ owners' = Append(owners, keeper.identity)
          /\ keeper' = [keeper EXCEPT !.data = <<Len(owners')>>]
       \/ HasKeys(keeper.data) /\ UNCHANGED <<owners, keeper>>
    /\ storage' = keeper'.data
    /\ UNCHANGED <<metadata, backups, stamp>>

\* The process stops or crashes.
Die ==
    /\ keeper.at # "down"
    /\ keeper' = [keeper EXCEPT !.at = "down", !.data = Absent]
    /\ UNCHANGED <<storage, metadata, backups, stamp, owners>>

NextSecond ==
    /\ stamp < LastStamp
    /\ stamp' = stamp + 1
    /\ UNCHANGED <<storage, metadata, backups, keeper, owners>>

OmemoInit ==
    /\ storage = Absent /\ metadata = "none" /\ backups = Empty
    /\ keeper \in [at : {"down"}, identity : {"none"}, reset : BOOLEAN, data : {Absent}]
    /\ stamp = 0 /\ owners = <<>>

OmemoNext ==
    \/ \E i \in Identities : Ensure(i) \/ Rotate(i)
    \/ MoveStorage \/ MoveMetadata \/ WriteMetadata \/ OpenStorage \/ StoreKeys
    \/ Die \/ NextSecond

OmemoSpec == OmemoInit /\ [][OmemoNext]_omemoVars

-----------------------------------------------------------------------------
(***************************************************************************)
(* Properties.                                                             *)
(***************************************************************************)
\* Wherever crashes hit and however often the identity changes: a process
\* that resets on a change ("storage is tied to identity") never works with
\* keys of another identity, nor does the metadata promise them to a later
\* one, and no set of keys is ever lost: it is in the storage or in a backup
\* that no later rotation, of the same second too, has overwritten.
KeysTied ==
    /\ keeper.reset /\ HasKeys(storage) =>
          /\ metadata = owners[storage[1]]
          /\ keeper.at = "up" => owners[storage[1]] = keeper.identity
    /\ \A k \in 1..Len(owners) :
          storage = <<k>> \/ \E name \in DOMAIN backups : backups[name] = <<k>>
=============================================================================
