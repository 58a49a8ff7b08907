------------------------------- MODULE Deploy -------------------------------
(***************************************************************************)
(* The deployment frontends' transactions: run_release_update_transaction  *)
(* and run_install_transaction of envs_xmpp_ops/deploy.py over git.py,     *)
(* service.py, systemd.py and venv.py.  One operator deploys; every        *)
(* command and hook may fail and every question may be declined.  Tags     *)
(* move on the remote meanwhile, and a unit file may appear.               *)
(*                                                                         *)
(* The operator's files are those inside the checkout; their content is    *)
(* the operator's ("kept") or not.  Printing and dry runs are left out.    *)
(***************************************************************************)
EXTENDS GitTarget, Tables, Naturals

CONSTANTS
    Revisions,    \* revisions of the repository
    Remotes,      \* names of remotes
    OwnFiles,     \* 1..OwnFiles: protected files, in order
    Requests,     \* what the operator asks for, and the remotes configured
    Checkouts,    \* checkouts before the deployment
    Advertises,   \* tags of each remote before the deployment
    MaxTagMoves   \* bound: changes of the remotes' tags

ASSUME DeployAssumption ==
    /\ "none" \notin Remotes \cup StableTags
    /\ OwnFiles \in Nat /\ MaxTagMoves \in Nat
    /\ Checkouts \subseteq [head : Revisions, detached : BOOLEAN, kept : {1..OwnFiles},
                            tags : UNION {[T -> Revisions] : T \in SUBSET StableTags}]

VARIABLES
    deploy,    \* the transaction: where it is, its request, what it has found
    checkout,  \* head, detached, local tags and the operator's files
    upstream,  \* external: remote -> tag -> revision
    service,   \* external: installed and active
    host,      \* external: the unit file and the virtualenv
    moves      \* tag changes so far

deployVars == <<deploy, checkout, upstream, service, host, moves>>
outside == <<upstream, moves>>

NextStep(place) == deploy' = [deploy EXCEPT !.at = place]
Raise == NextStep("raised")

\* A command or a hook that may fail
Hook(place, next) ==
    /\ deploy.at = place
    /\ NextStep(next) \/ Raise
    /\ UNCHANGED <<checkout, outside, service, host>>

-----------------------------------------------------------------------------
(***************************************************************************)
(* prepare_release_target and approve_release_target.                      *)
(***************************************************************************)
SelectTarget ==
    LET branch == IF checkout.detached THEN "none" ELSE deploy.request.branch
        remote == SelectRemote(DOMAIN upstream, deploy.request.remote, branch)
    IN  /\ deploy.at = "update"
        /\ \/ /\ remote # "none"
              /\ LET asked == deploy.request.tag
                     tag == IF asked = "none" THEN LatestStable(DOMAIN upstream[remote]) ELSE asked
                 IN  /\ tag \in StableTags
                     /\ deploy' = [deploy EXCEPT !.at = "inspecting", !.remote = remote, !.tag = tag]
           \/ Raise
        /\ UNCHANGED <<checkout, outside, service, host>>

Advertised == upstream[deploy.remote]

\* sync_release_tag: the local tag must agree with the remote's, and each
\* command may fail; so may validate_tag, when nothing is to be fetched.
InspectTag ==
    /\ deploy.at = "inspecting"
    /\ \/ Raise
       \/ /\ deploy.tag \in DOMAIN Advertised \ DOMAIN checkout.tags
          /\ NextStep("fetching")
       \/ /\ deploy.tag \in DOMAIN Advertised \cap DOMAIN checkout.tags
          /\ checkout.tags[deploy.tag] = Advertised[deploy.tag]
          /\ NextStep("approving")
    /\ UNCHANGED <<checkout, outside, service, host>>

\* What is fetched is what the remote has by now; validate_tag may fail then.
FetchTag ==
    /\ deploy.at = "fetching"
    /\ \/ /\ deploy.tag \in DOMAIN Advertised
          /\ checkout' = [checkout EXCEPT !.tags = Put(@, deploy.tag, Advertised[deploy.tag])]
          /\ NextStep("approving") \/ Raise
       \/ Raise /\ UNCHANGED checkout
    /\ UNCHANGED <<outside, service, host>>

Approve ==
    /\ deploy.at = "approving"
    /\ LET relation == Relation(checkout.head, checkout.tags[deploy.tag])
           answer == Approval(relation, deploy.request, checkout.detached)
       IN  CASE answer = "confirm" -> NextStep("stopping") \/ Raise
             [] answer = "unchanged" -> NextStep("unchanged")
             [] OTHER -> Raise
    /\ UNCHANGED <<checkout, outside, service, host>>

-----------------------------------------------------------------------------
(***************************************************************************)
(* The service.                                                            *)
(***************************************************************************)
\* stop_active_service, by an update or an install
StopService ==
    /\ deploy.at \in {"stopping", "halting"}
    /\ LET next == IF deploy.at = "stopping" THEN "preserving" ELSE "venv"
       IN  \/ ~service.active /\ NextStep(next) /\ UNCHANGED service
           \/ /\ service.active
              /\ service' = [service EXCEPT !.active = FALSE]
              /\ deploy' = [deploy EXCEPT !.at = next, !.stopped = TRUE]
           \/ Raise /\ UNCHANGED service
    /\ UNCHANGED <<checkout, outside, host>>

\* ask_start: the start and the look at it may fail.
AskStart ==
    /\ deploy.at = "asking"
    /\ \E end \in {"returned", "raised"} :
          deploy' = [deploy EXCEPT !.at = end, !.asked = TRUE]
    /\ UNCHANGED service \/ (service.exists /\ service' = [service EXCEPT !.active = TRUE])
    /\ UNCHANGED <<checkout, outside, host>>

\* An install that is not ready_for_start
Paused ==
    /\ deploy.at = "asking" /\ deploy.remote = "none"
    /\ NextStep("returned")
    /\ UNCHANGED <<checkout, outside, service, host>>

-----------------------------------------------------------------------------
(***************************************************************************)
(* The checkout.                                                           *)
(***************************************************************************)
\* before_checkout, and backup_checkout_files, which changes nothing else
PreserveFiles == Hook("preserving", "checkout")

\* git checkout overwrites files, also when it fails in the end.
CheckoutTarget ==
    /\ deploy.at = "checkout"
    /\ \E lost \in SUBSET (1..OwnFiles) :
          \/ /\ checkout' = [checkout EXCEPT !.head = checkout.tags[deploy.tag],
                                             !.detached = TRUE, !.kept = @ \ lost]
             /\ deploy' = [deploy EXCEPT !.at = "restoring", !.then = "applying"]
          \/ /\ checkout' = [checkout EXCEPT !.kept = @ \ lost]
             /\ deploy' = [deploy EXCEPT !.at = "restoring", !.then = "raised"]
    /\ UNCHANGED <<outside, service, host>>

\* Fault: files are restored only if the checkout succeeded.
RestoreOnSuccess ==
    /\ deploy.at = "restoring"
    /\ checkout' = IF deploy.then = "applying"
                   THEN [checkout EXCEPT !.kept = 1..OwnFiles] ELSE checkout
    /\ deploy' = [deploy EXCEPT !.at = deploy.then]
    /\ UNCHANGED <<outside, service, host>>

\* restore_checkout_files: in order; one that fails ends it, and the
\* temporary copies go with their directory.
RestoreFiles ==
    /\ deploy.at = "restoring"
    /\ \/ /\ checkout' = [checkout EXCEPT !.kept = 1..OwnFiles]
          /\ deploy' = [deploy EXCEPT !.at = deploy.then]
       \/ \E f \in 1..OwnFiles :
             /\ checkout' = [checkout EXCEPT !.kept = @ \cup 1..(f - 1)]
             /\ deploy' = [deploy EXCEPT !.at = "raised", !.broken = TRUE]
    /\ UNCHANGED <<outside, service, host>>

ApplyTarget == Hook("applying", "asking")

-----------------------------------------------------------------------------
(***************************************************************************)
(* run_install_transaction; the install hook makes the virtualenv,         *)
(* installs the checkout and the unit.                                     *)
(***************************************************************************)
Install == Hook("install", "halting")

\* create_venv_if_missing
CreateVenv ==
    /\ deploy.at = "venv"
    /\ \/ host' = [host EXCEPT !.venv = TRUE] /\ NextStep("packages")
       \/ UNCHANGED host /\ ~host.venv /\ Raise
    /\ UNCHANGED <<checkout, outside, service>>

InstallPackages == Hook("packages", "unit")

\* install_unit_if_missing: the check and the question
CheckUnit ==
    /\ deploy.at = "unit"
    /\ \/ NextStep("asking")  \* declined, or there is one
       \/ host.unit = "none" /\ ~service.exists /\ NextStep("creating")
       \/ Raise
    /\ UNCHANGED <<checkout, outside, service, host>>

\* open("x"): a unit that has appeared is kept.
CreateUnit ==
    /\ deploy.at = "creating"
    /\ IF host.unit = "none"
       THEN host' = [host EXCEPT !.unit = "own"] /\ (NextStep("verifying") \/ Raise)
       ELSE UNCHANGED host /\ NextStep("asking")
    /\ UNCHANGED <<checkout, outside, service>>

\* systemd-analyze verify, and daemon-reload
VerifyUnit ==
    /\ deploy.at = "verifying"
    /\ \/ service' = [service EXCEPT !.exists = TRUE] /\ NextStep("asking") /\ UNCHANGED host
       \/ host' = [host EXCEPT !.unit = "none"] /\ Raise /\ UNCHANGED service
       \/ Raise /\ UNCHANGED <<service, host>>  \* the reload failed
    /\ UNCHANGED <<checkout, outside>>

-----------------------------------------------------------------------------
MoveTag ==
    /\ moves < MaxTagMoves
    /\ moves' = moves + 1
    /\ \E r \in DOMAIN upstream, t \in StableTags, revision \in Revisions :
          upstream' = [upstream EXCEPT ![r] = Put(@, t, revision)]
    /\ UNCHANGED <<deploy, checkout, service, host>>

\* Another administrator installs a unit.
UnitAppears ==
    /\ host.unit = "none"
    /\ host' = [host EXCEPT !.unit = "foreign"]
    /\ UNCHANGED <<deploy, checkout, outside, service>>

DeployInit ==
    /\ deploy \in [at : {"update", "install"}, stopped : {FALSE}, asked : {FALSE}, broken : {FALSE},
                   remote : {"none"}, tag : {"none"}, then : {"none"}, request : Requests]
    /\ checkout \in Checkouts
    /\ upstream = Advertises
    /\ service \in {s \in [exists : BOOLEAN, active : BOOLEAN] : s.active => s.exists}
    /\ host = [unit |-> "none", venv |-> FALSE]
    /\ moves = 0

DeployNext ==
    \/ SelectTarget \/ InspectTag \/ FetchTag \/ Approve
    \/ StopService \/ AskStart \/ Paused
    \/ PreserveFiles \/ CheckoutTarget \/ RestoreFiles \/ ApplyTarget
    \/ Install \/ CreateVenv \/ InstallPackages \/ CheckUnit \/ CreateUnit \/ VerifyUnit
    \/ MoveTag \/ UnitAppears

DeploySpec == DeployInit /\ [][DeployNext]_deployVars

-----------------------------------------------------------------------------
(***************************************************************************)
(* Properties.                                                             *)
(***************************************************************************)
\* A checkout moves only while the service is down, and only forward along
\* its own history, or back if the operator asked for that release and allowed
\* a downgrade, however tags move on the remote in the meantime; a local tag
\* is never overwritten, and neither is a unit that somebody else installed.
DeploysForward ==
    [][/\ checkout'.head # checkout.head =>
             /\ ~service.active
             /\ \/ checkout.head \in Ancestors[checkout'.head]
                \/ /\ checkout'.head \in Ancestors[checkout.head]
                   /\ deploy.request.tag = deploy.tag /\ deploy.request.downgrade
       /\ \A t \in DOMAIN checkout.tags : checkout'.tags[t] = checkout.tags[t]
       /\ host.unit = "foreign" => host'.unit = "foreign"]_deployVars

\* However a deployment ends, the operator's files are as they were, unless
\* restoring one of them failed; and one that failed after it had stopped the
\* service leaves it stopped ("keep the service stopped so an operator can
\* inspect"), unless starting it is what failed.
FailuresLeaveStopped ==
    deploy.at \in {"returned", "unchanged", "raised"} =>
        /\ deploy.broken \/ checkout.kept = 1..OwnFiles
        /\ deploy.stopped /\ ~deploy.asked => ~service.active
=============================================================================
