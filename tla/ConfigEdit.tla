----------------------------- MODULE ConfigEdit -----------------------------
(***************************************************************************)
(* Edits of one Python configuration file: prepare_assignment_edit,        *)
(* update_assignment and apply_config_edit_transaction of                  *)
(* config/python_file.py.  A text is its sequence of assignments.          *)
(* Everything between two awaits is a step: writing the file and beginning *)
(* to apply it are one, so are failing and writing the old text back; an   *)
(* application awaits in between, and other edits run.  atomic_write_text  *)
(* may fail before it replaces the file or after (chmod, fsync of the      *)
(* directory).                                                             *)
(***************************************************************************)
EXTENDS Sequences, Naturals, FiniteSets

CONSTANTS
    Settings,  \* names; the edit of a setting is known by its name
    Texts      \* initial texts

VARIABLES
    text,   \* the file
    edits,  \* the edit of each setting
    stale,  \* history: open edits whose original text is no longer current
    lost    \* history: edits over whose outcome a stale edit has written

configVars == <<text, edits, stale, lost>>

Old == "old"
New == "new"

Assignment == [name : STRING, value : {Old, New}]

ASSUME ConfigAssumption == Settings \subseteq STRING /\ Texts \subseteq Seq(Assignment)

Occurrences(t, n) == {i \in DOMAIN t : t[i].name = n}
Values(t, n) == {t[i].value : i \in Occurrences(t, n)}

\* replace_or_append_assignment_text
Updated(t, n) ==
    IF Occurrences(t, n) = {}
    THEN Append(t, [name |-> n, value |-> New])
    ELSE [i \in DOMAIN t |-> IF t[i].name = n THEN [t[i] EXCEPT !.value = New] ELSE t[i]]

At(n) == edits[n].at
IsOpen(n) == At(n) \in {"prepared", "applying", "undoing"}

\* What the others have read is stale once the file changes under them, and what
\* they have written is lost where the change was made to a stale text.
Written(n) ==
    /\ stale' = IF text' = text THEN stale
                ELSE stale \cup {m \in Settings \ {n} : IsOpen(m)}
    /\ lost' = IF text' = text \/ n \notin stale THEN lost
               ELSE lost \cup {m \in Settings \ {n} : At(m) \notin {"idle", "prepared"}}

\* atomic_write_text: done, or failed before or after the replacement.
Writes(t, outcome) ==
    /\ outcome \in {"done", "before", "after"}
    /\ text' = IF outcome = "before" THEN text ELSE t

\* prepare_assignment_edit refuses a name that is assigned twice.
PrepareEdit(n) ==
    /\ At(n) = "idle"
    /\ edits' = [edits EXCEPT ![n] =
         IF Cardinality(Occurrences(text, n)) > 1
         THEN [@ EXCEPT !.at = "refused"]
         ELSE [@ EXCEPT !.at = "prepared", !.original = text]]
    /\ UNCHANGED <<text, stale, lost>>

\* update_assignment: reads, updates and writes in one step.
UpdateAssignment(n) ==
    /\ At(n) = "idle"
    /\ IF Cardinality(Occurrences(text, n)) # 1
       THEN UNCHANGED text /\ edits' = [edits EXCEPT ![n].at = "refused"]
       ELSE \E outcome \in {"done", "before", "after"} :
               /\ Writes(Updated(text, n), outcome)
               /\ edits' = [edits EXCEPT ![n].original = text,
                    ![n].at = IF outcome = "done" THEN "kept" ELSE "failed"]
    /\ Written(n)

\* Fault: a write that fails is not rolled back.
RollBackApplied(n) ==
    IF At(n) = "prepared"
    THEN text' = Updated(edits[n].original, n) /\ edits' = [edits EXCEPT ![n].at = "undone"]
    ELSE \E outcome \in {"done", "before", "after"} :
            /\ Writes(edits[n].original, outcome)
            /\ edits' = [edits EXCEPT ![n].at = "undoing", ![n].restored = outcome = "done"]

\* _rollback_config_edit up to the await of rollback_apply(file_restored)
RollBack(n) ==
    \E outcome \in {"done", "before", "after"} :
        /\ Writes(edits[n].original, outcome)
        /\ edits' = [edits EXCEPT ![n].at = "undoing", ![n].restored = outcome = "done"]

WriteEdit(n) ==
    /\ At(n) = "prepared"
    /\ \/ Writes(Updated(edits[n].original, n), "done")
          /\ edits' = [edits EXCEPT ![n].at = "applying"]
       \/ RollBack(n)
       \* The write failed late, and so does the rollback, early.
       \/ text' = Updated(edits[n].original, n)
          /\ edits' = [edits EXCEPT ![n].at = "undoing", ![n].restored = FALSE]
    /\ Written(n)

ApplyEnds(n) ==
    /\ At(n) = "applying"
    /\ \/ UNCHANGED text /\ edits' = [edits EXCEPT ![n].at = "kept"]
       \/ RollBack(n)
    /\ Written(n)

\* rollback_apply is over, whatever it raised.
Undone(n) ==
    /\ At(n) = "undoing"
    /\ edits' = [edits EXCEPT ![n].at = "undone"]
    /\ UNCHANGED <<text, stale, lost>>

ConfigInit ==
    /\ text \in Texts
    /\ edits = [n \in Settings |-> [at |-> "idle", original |-> <<>>, restored |-> TRUE]]
    /\ stale = {} /\ lost = {}

ConfigNext ==
    \E n \in Settings :
        \/ PrepareEdit(n) \/ UpdateAssignment(n) \/ WriteEdit(n) \/ ApplyEnds(n) \/ Undone(n)

ConfigSpec == ConfigInit /\ [][ConfigNext]_configVars

-----------------------------------------------------------------------------
(***************************************************************************)
(* Properties.                                                             *)
(***************************************************************************)
\* An edit that has returned is in the file; one that has raised after its
\* write or its application failed, or was cancelled, has left its setting as it
\* found it, unless the rollback is reported as failed; update_assignment, which
\* has no rollback, has left it as it was or as it should be when its write
\* raised.  This stands until an edit that has read an older text writes over it,
\* and nothing else does it harm.  rollback_apply is told that the file is
\* restored only if it is, unless others have written since it was read.
EditsAtomic ==
    \A n \in Settings :
        /\ n \notin lost =>
              /\ At(n) = "kept" => Values(text, n) = {New}
              /\ At(n) = "failed" => Values(text, n) \in {{New}, Values(edits[n].original, n)}
              /\ At(n) \in {"undoing", "undone"} /\ edits[n].restored =>
                    Values(text, n) = Values(edits[n].original, n)
        /\ n \notin stale /\ At(n) = "undoing" /\ edits[n].restored =>
              text = edits[n].original
=============================================================================
