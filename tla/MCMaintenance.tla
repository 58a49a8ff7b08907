---------------------------- MODULE MCMaintenance ----------------------------
(* Small instances of the components that keep files, settings, answers and  *)
(* deployments, and share no state: a behaviour follows one of them, and the *)
(* others stay where they began.                                             *)
EXTENDS RestoreTransaction, OmemoStorage, ConfigEdit, ReleaseState, OmemoTransport,
        BackupArchive, Retention, Deploy, Affiliations, Replies

VARIABLE followed

-----------------------------------------------------------------------------
(* Values of the constants.                                                  *)

Everything == Jobs \cup Hooks

Assigned(name) == [name |-> name, value |-> "old"]
SomeTexts == {<<>>, <<Assigned("a"), Assigned("b")>>,
              <<Assigned("b"), Assigned("a"), Assigned("a")>>}

\* 1.0rc3, 1.0 and 1.0.1b1, as two spellings of a release and a later one
Version(release, rank, number) == [release |-> release, rank |-> rank, number |-> number]
SomeVersions == {Version(<<1>>, 3, 0), Version(<<1, 0>>, 3, 0), Version(<<1, 0, 1>>, 2, 1)}

TwoSources == <<"db", "omemo">>
OneRequired == {"db"}
SoundArchive == Archive([n \in OneRequired |-> 1], [n \in OneRequired |-> 1])
SomeArchives ==
    {NoArchive, SoundArchive,
     [SoundArchive EXCEPT !.manifest = "legacy"],
     [SoundArchive EXCEPT !.manifest = "garbled"],
     [SoundArchive EXCEPT !.repeated = TRUE],
     [SoundArchive EXCEPT !.expected = FALSE],
     [SoundArchive EXCEPT !.files = [n \in OneRequired |-> 2]],
     [SoundArchive EXCEPT !.members = Empty, !.files = Empty]}

\* Revision 1 leads to 2, 2 to 3, and 1 to 4.
FourRevisions == 1..4
SomeAncestors == <<{}, {1}, {1, 2}, {1}>>
ThreeTags == <<"rc", "v2", "v1">>
TwoRemotes == {"origin", "fork"}
SomeAdvertises == [r \in TwoRemotes |-> [t \in {"v1", "v2"} |-> IF t = "v1" THEN 2 ELSE 3]]
NothingAsked == [tag |-> "none", downgrade |-> FALSE, remote |-> "none", branch |-> "none"]
SomeRequests ==
    [tag : {"v1", "v2", "none"}, downgrade : BOOLEAN, remote : {"none"}, branch : {"none"}]
        \cup {[NothingAsked EXCEPT !.remote = "fork"], [NothingAsked EXCEPT !.branch = "fork"],
              [NothingAsked EXCEPT !.remote = "gone"]}
SomeCheckouts ==
    [head : FourRevisions, detached : BOOLEAN, kept : {1..2},
     tags : {Empty, Put(Empty, "v2", 3), Put(Empty, "v1", 4)}]

-----------------------------------------------------------------------------
\* What is not followed begins in one way only.
OneTarget == target = [f \in Files |-> "old"]
OneKeeper == ~keeper.reset
OneText == text = <<>>
OneInbound == inbound.payload /\ ~inbound.reset /\ inbound.enabled /\ inbound.plugin /\ ready
OneOutbound == ~outbound.many
OneArchive == archive = NoArchive /\ ~stager.legacy /\ stager.checksums
OneDeploy ==
    /\ deploy.at = "install" /\ deploy.request = NothingAsked
    /\ checkout = [head |-> 1, detached |-> FALSE, kept |-> 1..2, tags |-> Empty]
    /\ ~service.exists
OneContext == ofTask = <<TRUE>>

Stores == <<vars, omemoVars, configVars, releaseVars, retentionVars>>
Work == <<transportVars, archiveVars, deployVars, affiliationVars, replyVars>>
maintenanceVars == <<followed, Stores, Work>>

MaintenanceInit ==
    /\ followed \in {"restore", "omemo", "config", "release", "retention",
                    "receiving", "sending", "archive", "deploy", "affiliations", "replies"}
    /\ Init /\ (followed = "restore" \/ OneTarget)
    /\ OmemoInit /\ (followed = "omemo" \/ OneKeeper)
    /\ ConfigInit /\ (followed = "config" \/ OneText)
    /\ TransportInit /\ (followed = "receiving" \/ OneInbound) /\ (followed = "sending" \/ OneOutbound)
    /\ ArchiveInit /\ (followed = "archive" \/ OneArchive)
    /\ DeployInit /\ (followed = "deploy" \/ OneDeploy)
    /\ RepliesInit /\ (followed = "replies" \/ OneContext)
    /\ ReleaseInit /\ RetentionInit /\ AffiliationInit

MaintenanceNext ==
    /\ UNCHANGED followed
    /\ \/ /\ followed = "restore" /\ Next
          /\ UNCHANGED <<omemoVars, configVars, releaseVars, retentionVars, Work>>
       \/ /\ followed = "omemo" /\ OmemoNext
          /\ UNCHANGED <<vars, configVars, releaseVars, retentionVars, Work>>
       \/ /\ followed = "config" /\ ConfigNext
          /\ UNCHANGED <<vars, omemoVars, releaseVars, retentionVars, Work>>
       \/ /\ followed = "release" /\ ReleaseNext
          /\ UNCHANGED <<vars, omemoVars, configVars, retentionVars, Work>>
       \/ /\ followed = "retention" /\ RetentionNext
          /\ UNCHANGED <<vars, omemoVars, configVars, releaseVars, Work>>
       \/ /\ \/ followed = "receiving" /\ Receive
             \/ followed = "sending" /\ SendOut
          /\ UNCHANGED <<archiveVars, deployVars, affiliationVars, replyVars, Stores>>
       \/ /\ followed = "archive" /\ ArchiveNext
          /\ UNCHANGED <<transportVars, deployVars, affiliationVars, replyVars, Stores>>
       \/ /\ followed = "deploy" /\ DeployNext
          /\ UNCHANGED <<transportVars, archiveVars, affiliationVars, replyVars, Stores>>
       \/ /\ followed = "affiliations" /\ AffiliationNext
          /\ UNCHANGED <<transportVars, archiveVars, deployVars, replyVars, Stores>>
       \/ /\ followed = "replies" /\ RepliesNext
          /\ UNCHANGED <<transportVars, archiveVars, deployVars, affiliationVars, Stores>>

MaintenanceSpec ==
    /\ MaintenanceInit /\ [][MaintenanceNext]_maintenanceVars
    /\ followed = "restore" => WF_vars(Thread) /\ WF_vars(Transaction)

\* The restore ends, one way or another (a behaviour that follows it).
FollowedRestoreEnds == followed = "restore" => RestoreEnds
=============================================================================
