------------------------------ MODULE Retention ------------------------------
(***************************************************************************)
(* Retention of managed files, storage/managed.py: a caller lists the      *)
(* files, newest first, and prunes by that list later; other callers       *)
(* create files and prune in between.  A prune deletes one file after the  *)
(* other, each with its companion, and raises where a file has gone or an  *)
(* unlink fails: the others stay.  A file is known by its time, which      *)
(* orders it in the list; ties by name are left out.                       *)
(***************************************************************************)
EXTENDS Naturals, FiniteSets, FiniteSetsExt, Folds

CONSTANTS
    Pruners,     \* callers that prune
    LastTime,    \* bound: files have times 1..LastTime
    KeepLimits,  \* counts to keep
    AgeLimits    \* max_age_seconds; LastTime or more: no limit

ASSUME RetentionAssumption ==
    LastTime \in Nat /\ KeepLimits \subseteq Nat /\ AgeLimits \subseteq Nat

VARIABLES
    files,       \* the directory
    companions,  \* files whose companion exists
    time,        \* the clock
    prunes       \* each caller's list and options, and how its prune ended

retentionVars == <<files, companions, time, prunes>>

CreateFile ==
    /\ time < LastTime
    /\ time' = time + 1
    /\ files' = files \cup {time'}
    /\ companions' \in {companions, companions \cup {time'}}
    /\ UNCHANGED prunes

\* list_managed_files; a list is the files in it, which are taken newest first.
ListFiles(p) ==
    /\ prunes[p].list = {}
    /\ \E keep \in KeepLimits, age \in AgeLimits, preserve \in {0} \cup files :
          prunes' = [prunes EXCEPT ![p] = [list |-> files, keep |-> keep,
                                           age |-> age, preserve |-> preserve,
                                           end |-> "none"]]
    /\ UNCHANGED <<files, companions, time>>

\* Fault: what is preserved does not count.
KeptBeyond(list, keep, preserve) ==
    MapThenFoldSet(LAMBDA f, kept : IF f = preserve \/ Cardinality(kept \ {preserve}) <= keep
                                    THEN kept \cup {f} ELSE kept,
                   {}, LAMBDA f : f, Min, list)

\* The files kept by count, one after the other, while there is room: the
\* oldest is added to those kept of the others.
Kept(list, keep, preserve) ==
    MapThenFoldSet(LAMBDA f, kept : IF f = preserve \/ Cardinality(kept) < keep
                                    THEN kept \cup {f} ELSE kept,
                   {}, LAMBDA f : f, Min, list)

\* select_managed_files_for_prune; age retention is additive.
Selected(prune) ==
    LET kept == Kept(prune.list, prune.keep, prune.preserve)
        Old(f) == f + prune.age < time /\ f # prune.preserve
    IN  {f \in prune.list : f \notin kept \/ Old(f)}

NewerThan(f, S) == {g \in S : g > f}

\* prune_managed_files: newest first, up to the first that has gone, that cannot
\* be unlinked, or whose companion cannot
PruneFiles(p) ==
    LET plan == Selected(prunes[p])
        reached == {f \in plan : \A g \in plan : g >= f => g \in files}
        Ends(removed, cleared, end) ==
            /\ files' = files \ removed /\ companions' = companions \ cleared
            /\ prunes' = [prunes EXCEPT ![p].list = {}, ![p].end = end]
    IN  /\ prunes[p].list # {}
        /\ \/ Ends(reached, reached, IF reached = plan THEN "returned" ELSE "raised")
           \/ \E f \in reached :
                 LET before == NewerThan(f, reached) IN
                 \/ Ends(before, before, "raised")
                 \/ f \in companions /\ Ends(before \cup {f}, before, "raised")
        /\ UNCHANGED time

RetentionInit ==
    /\ files = {} /\ companions = {} /\ time = 0
    /\ prunes = [p \in Pruners |-> [list |-> {}, keep |-> 0, age |-> 0, preserve |-> 0,
                                  end |-> "none"]]

RetentionNext ==
    CreateFile \/ \E p \in Pruners : ListFiles(p) \/ PruneFiles(p)

RetentionSpec == RetentionInit /\ [][RetentionNext]_retentionVars

-----------------------------------------------------------------------------
(***************************************************************************)
(* Properties.                                                             *)
(***************************************************************************)
\* "A preserved file counts toward the keep budget but is never selected.  Age
\* retention is additive": however stale its list, a prune removes a file only
\* if it is past the age limit or as many newer ones as are to be kept were
\* listed, never the preserved one, never one created since.  A prune that
\* returns has removed all of these with their companions.  One that raises
\* leaves the oldest of them, and at most one companion without its file.
PruneRemovesTheOldest ==
    [][\A p \in Pruners :
          LET prune == prunes[p]
              gone == files \ files'
              Expendable(f) == /\ f # prune.preserve
                               /\ \/ Cardinality(NewerThan(f, prune.list)) >= prune.keep
                                  \/ f + prune.age < time
              left == {f \in prune.list \cap files' : Expendable(f)}
              alone == gone \cap companions'
          IN  prune.list # {} /\ prunes'[p].list = {} =>
                /\ \A f \in gone : f \in prune.list /\ Expendable(f)
                /\ \A f \in gone, g \in left : f > g
                /\ prunes'[p].end = "returned" => left = {} /\ alone = {}
                /\ \A f, g \in alone : f = g]_retentionVars
=============================================================================
