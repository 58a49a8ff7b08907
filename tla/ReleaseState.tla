---------------------------- MODULE ReleaseState ----------------------------
(***************************************************************************)
(* The release_state row (release/state.py), the chain of undelivered      *)
(* updates (release/transitions.py), release checks (release/checks.py)    *)
(* and the order of versions (release/versions.py).                        *)
(*                                                                         *)
(* A start of the bot loads the row, merges its version into the pending   *)
(* update and saves; the update is announced later, by deliveries that may *)
(* outlive a restart, and then cleared if it is still the pending one.     *)
(* Each SQL statement is a step.  Versions are normalised: release numbers *)
(* and the rank and number of a pre-release (3 and 0: none).               *)
(***************************************************************************)
EXTENDS Sequences, Naturals

CONSTANTS
    Versions,       \* versions of the bot, and of releases
    MaxDeliveries,  \* bound: deliveries under way
    MaxNotices      \* bound: notifications of a process

ASSUME ReleaseAssumption ==
    /\ Versions \subseteq [release : Seq(Nat) \ {<<>>}, rank : 0..3, number : Nat]
    /\ MaxDeliveries \in Nat /\ MaxNotices \in Nat

VARIABLES
    row,         \* release_state: version, pending_from, pending_to
    starter,     \* the process
    deliveries,  \* announcements under way: the pending update each has read
    sent,        \* history: updates announced
    notices      \* history: versions this process has notified

releaseVars == <<row, starter, deliveries, sent, notices>>

Unknown == [release |-> <<>>, rank |-> 0, number |-> 0]
NoRow == [version |-> Unknown, from |-> Unknown, to |-> Unknown]

-----------------------------------------------------------------------------
(***************************************************************************)
(* The order of versions.                                                  *)
(***************************************************************************)
\* Fault: 1.0 is newer than 1.
Untrimmed(parts) == parts

\* _trim_release_zeros
Trimmed(parts) ==
    SubSeq(parts, 1, CHOOSE n \in 1..Len(parts) :
                         /\ n = 1 \/ parts[n] # 0
                         /\ \A i \in (n + 1)..Len(parts) : parts[i] = 0)

\* s > t, as tuples
TupleGreater(s, t) ==
    \/ \E i \in DOMAIN s \cap DOMAIN t :
          s[i] > t[i] /\ SubSeq(s, 1, i - 1) = SubSeq(t, 1, i - 1)
    \/ Len(s) > Len(t) /\ SubSeq(s, 1, Len(t)) = t

\* version_sort_key; the tuple (release, rank, number) is compared.
Label(v) == <<v.rank, v.number>>

\* compare_versions(v, w) > 0
IsNewer(v, w) ==
    \/ TupleGreater(Trimmed(v.release), Trimmed(w.release))
    \/ Trimmed(v.release) = Trimmed(w.release) /\ TupleGreater(Label(v), Label(w))

-----------------------------------------------------------------------------
(***************************************************************************)
(* Starts and announcements.                                               *)
(***************************************************************************)
NoPending == [from |-> Unknown, to |-> Unknown]
Pending == [from |-> row.from, to |-> row.to]
IsPending(p) == p.from # Unknown /\ p.to # Unknown

\* ReleaseState.__post_init__: half a pending update is none.
Normal(version, p) ==
    IF p.from = p.to \/ ~IsPending(p)
    THEN [version |-> version, from |-> Unknown, to |-> Unknown]
    ELSE [version |-> version, from |-> p.from, to |-> p.to]

\* Fault: a chain starts afresh with each update.
MergedLast(previous, current, p) ==
    IF Unknown \in {previous, current} THEN NoPending
    ELSE IF previous = current THEN p
    ELSE [from |-> previous, to |-> current]

\* merge_pending_version_transition
Merged(previous, current, p) ==
    LET chained == IsPending(p) /\ p.to = previous /\ p.from # p.to
        origin == IF chained THEN p.from ELSE previous
    IN  IF Unknown \in {previous, current} THEN NoPending
        ELSE IF previous = current THEN (IF chained THEN p ELSE NoPending)
        ELSE IF origin = current THEN NoPending
        ELSE [from |-> origin, to |-> current]

\* load(): what is there, or nothing while the database is unavailable; a save
\* that raises ends the start (Stops).
LoadState(v) ==
    /\ starter.at = "down"
    /\ \E read \in {row, NoRow} : starter' = [at |-> "loaded", version |-> v, loaded |-> read]
    /\ UNCHANGED <<row, deliveries, sent, notices>>

SaveState ==
    /\ starter.at = "loaded"
    /\ LET was == starter.loaded
       IN  row' = Normal(starter.version,
                         Merged(was.version, starter.version, [from |-> was.from, to |-> was.to]))
    /\ starter' = [starter EXCEPT !.at = "up", !.loaded = NoRow]
    /\ UNCHANGED <<deliveries, sent, notices>>

\* The pending announcement is read and sent.
BeginDelivery ==
    /\ starter.at = "up"
    /\ IsPending(Pending)
    /\ Len(deliveries) < MaxDeliveries
    /\ deliveries' = Append(deliveries, Pending)
    /\ UNCHANGED <<row, starter, sent, notices>>

Removed(i) ==
    deliveries' = SubSeq(deliveries, 1, i - 1) \o SubSeq(deliveries, i + 1, Len(deliveries))

\* clear_pending_if_matches, once the announcement has been sent
ClearPending(i) ==
    /\ sent' = sent \cup {deliveries[i]}
    /\ row' = IF Pending = deliveries[i] THEN [row EXCEPT !.from = Unknown, !.to = Unknown] ELSE row
    /\ Removed(i)
    /\ UNCHANGED <<starter, notices>>

DeliveryFails(i) ==
    /\ Removed(i)
    /\ UNCHANGED <<row, starter, sent, notices>>

Stops ==
    /\ starter.at # "down"
    /\ starter' = [at |-> "down", version |-> Unknown, loaded |-> NoRow]
    /\ notices' = <<>>
    /\ UNCHANGED <<row, deliveries, sent>>

\* evaluate_release_check and the caller's notification of version v, one check
\* after the other (the caller is external): the await of the fetch is part of
\* the step.  A fetch that fails changes nothing.
Due(v) ==
    /\ IsNewer(v, starter.version)
    /\ \A i \in DOMAIN notices : notices[i] = v => i # Len(notices)

CheckRelease(v) ==
    /\ starter.at = "up" /\ starter.version # Unknown
    /\ Len(notices) < MaxNotices
    /\ Due(v)
    /\ notices' = Append(notices, v)
    /\ UNCHANGED <<row, starter, deliveries, sent>>

ReleaseInit ==
    /\ row = NoRow
    /\ starter = [at |-> "down", version |-> Unknown, loaded |-> NoRow]
    /\ deliveries = <<>> /\ sent = {} /\ notices = <<>>

ReleaseNext ==
    \/ \E v \in Versions \cup {Unknown} : LoadState(v)
    \/ \E v \in Versions : CheckRelease(v)
    \/ SaveState \/ BeginDelivery \/ Stops
    \/ \E i \in DOMAIN deliveries : ClearPending(i) \/ DeliveryFails(i)

ReleaseSpec == ReleaseInit /\ [][ReleaseNext]_releaseVars

-----------------------------------------------------------------------------
(***************************************************************************)
(* Properties.                                                             *)
(***************************************************************************)
\* An update never goes unannounced: through restarts, crashes between load
\* and save and deliveries that end late, the beginning of a pending update
\* is given up only if that very update has been announced, the bot is back
\* at the version it began with, the version is not known, or a start that
\* found no database to load from saved what it did not find.
PendingKept ==
    [][IsPending(Pending) /\ row'.from # row.from =>
          \/ Pending \in sent'
          \/ starter.at = "loaded" /\ starter.loaded = NoRow
          \/ row'.version \in {row.from, Unknown}]_releaseVars

\* Missing numbers are zeros.
Part(v, i) == IF i \in DOMAIN v.release THEN v.release[i] ELSE 0
Precedes(v, w) ==
    LET differ == {i \in DOMAIN v.release \cup DOMAIN w.release : Part(v, i) # Part(w, i)}
    IN  IF differ = {} THEN v.rank < w.rank \/ (v.rank = w.rank /\ v.number < w.number)
        ELSE \E i \in differ : Part(v, i) < Part(w, i) /\ \A j \in differ : i <= j

\* Only releases that are newer than the running version, whatever the number
\* of their parts, are notified, none twice in a row; and a pending update
\* always leads to the version that runs, from another one.
ReleasesOrdered ==
    /\ \A i \in DOMAIN notices :
          /\ Precedes(starter.version, notices[i])
          /\ i > 1 => notices[i] # notices[i - 1]
    /\ IsPending(Pending) => row.to = row.version /\ row.from # row.to
    /\ (row.from = Unknown) <=> (row.to = Unknown)
=============================================================================
