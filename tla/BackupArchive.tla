---------------------------- MODULE BackupArchive ----------------------------
(***************************************************************************)
(* One managed backup archive of storage/backup.py and its readers:        *)
(* build_backup_archive reads files that the bot goes on writing,          *)
(* verify_backup_archive checks an archive, stage_backup_archive verifies, *)
(* opens the archive again and extracts.  The bot works on: the live files *)
(* and the archive change between two reads.  Contents are numbers and     *)
(* stand for their size and digest; names are valid; a file is absent when *)
(* it is not in the domain.                                                *)
(***************************************************************************)
EXTENDS Tables, Naturals, Sequences

CONSTANTS
    Sources,     \* sequence of member names to build from, or to stage
    Required,    \* those that must be there
    MaxContent,  \* bound: contents of a live file are 1..MaxContent
    Given        \* archives that may be there at the beginning

Names == {Sources[i] : i \in DOMAIN Sources}

ArchiveFields ==
    {"members", "files", "manifest", "legacy", "repeated", "damaged", "expected"}

\* "required" is a mark on a source, and on an entry to stage.
ASSUME ArchiveAssumption ==
    /\ MaxContent \in Nat /\ Sources \in Seq(STRING) /\ Required \subseteq Names
    /\ \A a \in Given : DOMAIN a = ArchiveFields

VARIABLES
    live,     \* the files to back up
    archive,  \* the archive at the path, or NoArchive
    builder,  \* build_backup_archive
    stager    \* stage_backup_archive

archiveVars == <<live, archive, builder, stager>>

\* members: in the ZIP; files: the manifest's list of names and digests
Archive(members, files) ==
    [members |-> members, files |-> files, manifest |-> "object", legacy |-> FALSE,
     repeated |-> FALSE, damaged |-> FALSE, expected |-> TRUE]

NoArchive == [Archive(Empty, Empty) EXCEPT !.manifest = "none"]

-----------------------------------------------------------------------------
\* Fault: the list of files need not be complete, nor its digests right.
VerifiedZip(a, required, legacyAllowed, checksums) ==
    /\ ~a.damaged /\ ~a.repeated /\ a.manifest = "object"
    /\ required \subseteq DOMAIN a.members
    /\ a.expected /\ (a.legacy => legacyAllowed)

\* verify_backup_archive finds no error; the caller may leave out the sizes and
\* digests.
Verified(a, required, legacyAllowed, checksums) ==
    /\ ~a.damaged /\ ~a.repeated /\ a.manifest = "object"
    /\ required \subseteq DOMAIN a.members
    /\ a.expected
    /\ IF a.legacy THEN legacyAllowed
       ELSE \A n \in DOMAIN a.files :
               n \in DOMAIN a.members /\ (checksums => a.members[n] = a.files[n])

-----------------------------------------------------------------------------
(***************************************************************************)
(* Building.                                                               *)
(***************************************************************************)
Item == Sources[builder.next]
Builds(b) == builder' = b /\ UNCHANGED <<live, archive, stager>>
Skipped == [builder EXCEPT !.next = @ + 1, !.at = "adding"]

BuildCalled ==
    /\ builder.at = "idle"
    /\ Builds([at |-> "adding", next |-> 1, members |-> Empty, files |-> Empty])

AddSource ==
    /\ builder.at = "adding" /\ builder.next <= Len(Sources)
    /\ IF Item \in DOMAIN live
       THEN Builds([builder EXCEPT !.at = "listing",
                                   !.members = Put(@, Item, live[Item])])
       ELSE IF Item \in Required THEN Builds([builder EXCEPT !.at = "raised"])
            ELSE Builds(Skipped)

\* The size and the digest are read from the file, not from the archive.
ListSource ==
    /\ builder.at = "listing"
    /\ IF Item \in DOMAIN live
       THEN Builds([Skipped EXCEPT !.files = Put(@, Item, live[Item])])
       ELSE Builds([builder EXCEPT !.at = "raised"])

BuildFails ==
    /\ builder.at \in {"adding", "listing"}
    /\ Builds([builder EXCEPT !.at = "raised"])

\* The temporary archive is verified and replaces the old one; what follows
\* the replacement may fail.
PublishArchive ==
    LET built == Archive(builder.members, builder.files) IN
    /\ builder.at = "adding" /\ builder.next > Len(Sources)
    /\ IF Verified(built, {}, FALSE, TRUE)
       THEN archive' = built /\ \E end \in {"built", "raised"} :
               builder' = [builder EXCEPT !.at = end]
       ELSE UNCHANGED archive /\ builder' = [builder EXCEPT !.at = "raised"]
    /\ UNCHANGED <<live, stager>>

-----------------------------------------------------------------------------
(***************************************************************************)
(* Staging.                                                                *)
(***************************************************************************)
VerifyForStage ==
    /\ stager.at = "idle"
    /\ stager' = [stager EXCEPT
         !.at = IF archive # NoArchive
                   /\ Verified(archive, Required, stager.legacy, stager.checksums)
                THEN "extracting" ELSE "raised",
         !.members = Names \cap DOMAIN archive.members]
    /\ UNCHANGED <<live, archive, builder>>

\* The members that were there at the verification are extracted.
ExtractMembers ==
    /\ stager.at = "extracting"
    /\ stager' = IF archive.damaged \/ ~(stager.members \subseteq DOMAIN archive.members)
                 THEN [stager EXCEPT !.at = "raised"]
                 ELSE [stager EXCEPT !.at = "staged", !.source = archive,
                         !.staged = [n \in stager.members |-> archive.members[n]]]
    /\ UNCHANGED <<live, archive, builder>>

-----------------------------------------------------------------------------
\* The bot writes or removes a file.
LiveChanges(n) ==
    /\ \/ \E content \in 1..MaxContent : live' = Put(live, n, content)
       \/ live' = Drop(live, {n})
    /\ UNCHANGED <<archive, builder, stager>>

\* The medium fails: a CRC no longer matches.
Decays ==
    /\ archive # NoArchive /\ ~archive.damaged
    /\ archive' = [archive EXCEPT !.damaged = TRUE]
    /\ UNCHANGED <<live, builder, stager>>

ArchiveInit ==
    /\ live = [n \in Names |-> 1]
    /\ archive \in Given
    /\ builder = [at |-> "idle", next |-> 1, members |-> Empty, files |-> Empty]
    /\ stager \in [at : {"idle"}, members : {{}}, staged : {Empty}, source : {NoArchive},
                   legacy : BOOLEAN, checksums : BOOLEAN]

ArchiveNext ==
    \/ BuildCalled \/ AddSource \/ ListSource \/ BuildFails \/ PublishArchive
    \/ VerifyForStage \/ ExtractMembers
    \/ Decays \/ \E n \in Names : LiveChanges(n)

ArchiveSpec == ArchiveInit /\ [][ArchiveNext]_archiveVars

-----------------------------------------------------------------------------
(***************************************************************************)
(* Properties.                                                             *)
(***************************************************************************)
\* Whatever the bot writes while it is read: a backup that was built holds
\* each file as its manifest lists it, with everything required, or it has
\* not replaced the one before.  What is staged comes whole from one archive,
\* undamaged, as its manifest lists it and with everything required, also when
\* the archive decays or is replaced after its verification; archives without
\* a list only if the caller accepts them, and contents other than the listed
\* ones only if the caller does without the digests.
BackupsSound ==
    /\ builder.at = "built" =>
          /\ \A n \in DOMAIN builder.members :
                n \in DOMAIN builder.files /\ builder.members[n] = builder.files[n]
          /\ Required \subseteq DOMAIN builder.members
    /\ stager.at = "staged" =>
          /\ Required \subseteq DOMAIN stager.staged
          /\ stager.source.legacy => stager.legacy
          /\ ~stager.source.legacy /\ stager.checksums =>
               \A n \in DOMAIN stager.staged \cap DOMAIN stager.source.files :
                  stager.staged[n] = stager.source.files[n]
=============================================================================
