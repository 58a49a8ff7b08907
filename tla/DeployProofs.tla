---------------------------- MODULE DeployProofs ----------------------------
(***************************************************************************)
(* The deployment frontends, for any history of revisions, any tags and    *)
(* remotes, any request and any number of operator files: the two promises *)
(* of a deployment follow from what is known at each place of it.          *)
(***************************************************************************)
EXTENDS Deploy, TLAPS

\* The records keep their fields.
Shapes ==
    /\ deploy = [at |-> deploy.at, stopped |-> deploy.stopped, asked |-> deploy.asked,
                 broken |-> deploy.broken, remote |-> deploy.remote, tag |-> deploy.tag,
                 then |-> deploy.then, request |-> deploy.request]
    /\ checkout = [head |-> checkout.head, detached |-> checkout.detached,
                   tags |-> checkout.tags, kept |-> checkout.kept]
    /\ service = [exists |-> service.exists, active |-> service.active]
    /\ service.active \in BOOLEAN
    /\ host = [unit |-> host.unit, venv |-> host.venv]

Targeted == {"inspecting", "fetching", "approving", "stopping", "preserving", "checkout"}

\* The release that has been chosen and approved is still the one that was
\* asked for and still where it was when it was approved.
Approved ==
    /\ deploy.at \in Targeted => deploy.request.tag \in {"none", deploy.tag}
    /\ deploy.at = "fetching" => deploy.tag \notin DOMAIN checkout.tags
    /\ deploy.at \in {"stopping", "preserving", "checkout"} =>
          Approval(Relation(checkout.head, checkout.tags[deploy.tag]),
                   deploy.request, checkout.detached) = "confirm"

\* The service is down where it must be, and a unit being verified is ours.
Down ==
    /\ deploy.at \in {"preserving", "checkout"} => ~service.active
    /\ deploy.stopped /\ ~deploy.asked => ~service.active
    /\ deploy.at = "verifying" => host.unit = "own"

\* Files are missing only until they are restored, or for good.
Kept == deploy.broken \/ deploy.at = "restoring" \/ checkout.kept = 1..OwnFiles

DeployInv == Shapes /\ Approved /\ Down /\ Kept

\* What DeploysForward says of a step.
Forward ==
    /\ checkout'.head # checkout.head =>
          /\ ~service.active
          /\ \/ checkout.head \in Ancestors[checkout'.head]
             \/ /\ checkout'.head \in Ancestors[checkout.head]
                /\ deploy.request.tag = deploy.tag /\ deploy.request.downgrade
    /\ \A t \in DOMAIN checkout.tags : checkout'.tags[t] = checkout.tags[t]
    /\ host.unit = "foreign" => host'.unit = "foreign"

-----------------------------------------------------------------------------
\* A step that only goes to another place.
LEMMA NextStepTo ==
  ASSUME DeployInv, NEW place, NextStep(place)
  PROVE  /\ deploy'.at = place /\ deploy'.stopped = deploy.stopped
         /\ deploy'.asked = deploy.asked /\ deploy'.broken = deploy.broken
         /\ deploy'.tag = deploy.tag /\ deploy'.then = deploy.then
         /\ deploy'.request = deploy.request
         /\ deploy' = [at |-> deploy'.at, stopped |-> deploy'.stopped, asked |-> deploy'.asked,
                       broken |-> deploy'.broken, remote |-> deploy'.remote,
                       tag |-> deploy'.tag, then |-> deploy'.then,
                       request |-> deploy'.request]
BY DEF DeployInv, Shapes, NextStep

\* Such a step is harmless when the new place promises nothing that the old
\* one did not.
LEMMA PlainStep ==
  ASSUME DeployInv, NEW place, NextStep(place), UNCHANGED <<checkout, service, host>>,
         deploy.at # "restoring",
         place \in Targeted => deploy.at \in Targeted,
         place = "fetching" => deploy.tag \notin DOMAIN checkout.tags,
         place \in {"stopping", "preserving", "checkout"} =>
            Approval(Relation(checkout.head, checkout.tags[deploy.tag]),
                     deploy.request, checkout.detached) = "confirm",
         place \in {"preserving", "checkout"} => ~service.active,
         place # "verifying"
  PROVE  DeployInv' /\ Forward
<1>1. /\ deploy'.at = place /\ deploy'.stopped = deploy.stopped
      /\ deploy'.asked = deploy.asked /\ deploy'.broken = deploy.broken
      /\ deploy'.tag = deploy.tag /\ deploy'.request = deploy.request
  BY NextStepTo
<1>2. Shapes'
  BY NextStepTo DEF DeployInv, Shapes
<1>3. Approved'
  BY <1>1 DEF DeployInv, Approved
<1>4. Down' /\ Kept'
  BY <1>1 DEF DeployInv, Down, Kept
<1> QED BY <1>2, <1>3, <1>4 DEF DeployInv, Forward

\* What raises goes to no place that promises anything.
LEMMA RaiseStep ==
  ASSUME DeployInv, Raise, UNCHANGED <<checkout, service, host>>, deploy.at # "restoring"
  PROVE  DeployInv' /\ Forward
BY PlainStep DEF Raise, Targeted

-----------------------------------------------------------------------------
(***************************************************************************)
(* The target.                                                             *)
(***************************************************************************)
LEMMA SelectStep ==
  ASSUME DeployInv, SelectTarget PROVE DeployInv' /\ Forward
<1>1. CASE Raise
  BY <1>1, RaiseStep DEF SelectTarget
<1>2. ASSUME ~Raise PROVE DeployInv' /\ Forward
  <2>1. PICK remote, tag :
           /\ tag = IF deploy.request.tag = "none" THEN LatestStable(DOMAIN upstream[remote])
                    ELSE deploy.request.tag
           /\ deploy' = [deploy EXCEPT !.at = "inspecting", !.remote = remote, !.tag = tag]
    BY <1>2 DEF SelectTarget
  <2>2. UNCHANGED <<checkout, service, host>> /\ deploy.at = "update"
    BY DEF SelectTarget
  <2>3. /\ deploy'.at = "inspecting" /\ deploy'.request = deploy.request /\ deploy'.tag = tag
        /\ deploy'.stopped = deploy.stopped /\ deploy'.asked = deploy.asked
        /\ deploy'.broken = deploy.broken /\ Shapes'
    BY <2>1, <2>2 DEF DeployInv, Shapes
  <2>4. Approved'
    BY <2>1, <2>3 DEF Approved
  <2>5. Down' /\ Kept' /\ Forward
    BY <2>2, <2>3 DEF DeployInv, Down, Kept, Forward
  <2> QED BY <2>3, <2>4, <2>5 DEF DeployInv
<1> QED BY <1>1, <1>2

LEMMA InspectStep ==
  ASSUME DeployInv, InspectTag PROVE DeployInv' /\ Forward
<1>1. deploy.at = "inspecting" /\ UNCHANGED <<checkout, service, host>>
  BY DEF InspectTag
<1>2. CASE Raise
  BY <1>1, <1>2, RaiseStep
<1>3. CASE deploy.tag \notin DOMAIN checkout.tags /\ NextStep("fetching")
  BY <1>1, <1>3, PlainStep DEF Targeted
<1>4. CASE NextStep("approving")
  BY <1>1, <1>4, PlainStep DEF Targeted
<1> QED BY <1>2, <1>3, <1>4 DEF InspectTag

LEMMA FetchStep ==
  ASSUME DeployInv, FetchTag PROVE DeployInv' /\ Forward
<1>1. deploy.at = "fetching" /\ UNCHANGED <<service, host>>
  BY DEF FetchTag
<1>2. CASE Raise /\ UNCHANGED checkout
  BY <1>1, <1>2, RaiseStep
<1>3. CASE /\ checkout' = [checkout EXCEPT !.tags = Put(@, deploy.tag, Advertised[deploy.tag])]
           /\ NextStep("approving") \/ Raise
  <2>1. /\ checkout'.tags = Put(checkout.tags, deploy.tag, Advertised[deploy.tag])
        /\ checkout'.head = checkout.head /\ checkout'.kept = checkout.kept /\ Shapes'
    BY <1>1, <1>3, NextStepTo DEF DeployInv, Shapes, Raise
  <2>2. \A t \in DOMAIN checkout.tags : checkout'.tags[t] = checkout.tags[t]
    BY <1>1, <2>1 DEF DeployInv, Approved, Put
  <2>3. Approved' /\ Down' /\ Kept'
    BY <1>1, <1>3, <2>1, NextStepTo DEF DeployInv, Approved, Down, Kept, Targeted, Raise
  <2> QED BY <1>1, <2>1, <2>2, <2>3 DEF DeployInv, Forward
<1> QED BY <1>2, <1>3 DEF FetchTag

LEMMA ApproveStep ==
  ASSUME DeployInv, Approve PROVE DeployInv' /\ Forward
<1> DEFINE answer == Approval(Relation(checkout.head, checkout.tags[deploy.tag]),
                              deploy.request, checkout.detached)
<1>1. /\ deploy.at = "approving" /\ UNCHANGED <<checkout, service, host>>
      /\ CASE answer = "confirm" -> NextStep("stopping") \/ Raise
           [] answer = "unchanged" -> NextStep("unchanged")
           [] OTHER -> Raise
  BY DEF Approve
<1>2. CASE Raise
  BY <1>1, <1>2, RaiseStep
<1>3. CASE answer = "confirm" /\ NextStep("stopping")
  BY <1>1, <1>3, PlainStep DEF Targeted
<1>4. CASE NextStep("unchanged")
  BY <1>1, <1>4, PlainStep DEF Targeted
<1> HIDE DEF answer
<1>5. answer = "confirm" \/ answer = "unchanged" \/ (answer # "confirm" /\ answer # "unchanged")
  OBVIOUS
<1>6. \/ Raise \/ (answer = "confirm" /\ NextStep("stopping")) \/ NextStep("unchanged")
  BY <1>1, <1>5
<1> QED BY <1>2, <1>3, <1>4, <1>6

-----------------------------------------------------------------------------
(***************************************************************************)
(* The service, the checkout and the hooks.                                *)
(***************************************************************************)
LEMMA StopStep ==
  ASSUME DeployInv, StopService PROVE DeployInv' /\ Forward
<1> DEFINE next == IF deploy.at = "stopping" THEN "preserving" ELSE "venv"
<1>1. /\ deploy.at \in {"stopping", "halting"} /\ UNCHANGED <<checkout, host>>
      /\ next \in {"preserving", "venv"} /\ (next = "preserving" => deploy.at = "stopping")
  BY DEF StopService
<1>2. CASE Raise /\ UNCHANGED service
  BY <1>1, <1>2, RaiseStep
<1>3. CASE ~service.active /\ NextStep(next) /\ UNCHANGED service
  <2>1. next \in Targeted => deploy.at \in Targeted
    BY <1>1 DEF Targeted
  <2>2. next = "preserving" => Approval(Relation(checkout.head, checkout.tags[deploy.tag]),
                                        deploy.request, checkout.detached) = "confirm"
    BY <1>1 DEF DeployInv, Approved
  <2> HIDE DEF next
  <2> QED BY <1>1, <1>3, <2>1, <2>2, PlainStep
<1>4. CASE /\ service' = [service EXCEPT !.active = FALSE]
           /\ deploy' = [deploy EXCEPT !.at = next, !.stopped = TRUE]
  <2> HIDE DEF next
  <2>1. /\ deploy'.at = next /\ deploy'.stopped /\ deploy'.asked = deploy.asked
        /\ deploy'.broken = deploy.broken /\ deploy'.tag = deploy.tag
        /\ deploy'.request = deploy.request /\ ~service'.active
    BY <1>4 DEF DeployInv, Shapes
  <2>2. Shapes'
    BY <1>1, <1>4 DEF DeployInv, Shapes
  <2>3. Approved'
    BY <1>1, <2>1 DEF DeployInv, Approved, Targeted
  <2>4. Down' /\ Kept' /\ Forward
    BY <1>1, <2>1 DEF DeployInv, Down, Kept, Forward
  <2> QED BY <2>2, <2>3, <2>4 DEF DeployInv
<1> QED BY <1>2, <1>3, <1>4 DEF StopService

LEMMA AskStep ==
  ASSUME DeployInv, AskStart PROVE DeployInv' /\ Forward
<1>1. PICK end \in {"returned", "raised"} : deploy' = [deploy EXCEPT !.at = end, !.asked = TRUE]
  BY DEF AskStart
<1>2. /\ deploy'.at = end /\ deploy'.asked /\ deploy'.broken = deploy.broken
      /\ deploy.at = "asking" /\ UNCHANGED <<checkout, host>>
  BY <1>1 DEF AskStart, DeployInv, Shapes
<1>3. service' = service \/ service' = [service EXCEPT !.active = TRUE]
  BY DEF AskStart
<1>4. /\ service' = [exists |-> service'.exists, active |-> service'.active]
      /\ service'.active \in BOOLEAN
  BY <1>3 DEF DeployInv, Shapes
<1>5. Shapes'
  BY <1>1, <1>2, <1>4 DEF DeployInv, Shapes
<1>6. Approved' /\ Down' /\ Kept' /\ Forward
  BY <1>2 DEF DeployInv, Approved, Down, Kept, Forward, Targeted
<1> QED BY <1>5, <1>6 DEF DeployInv

\* The approval of the target is the permission to go there.
LEMMA ApprovedMove ==
  ASSUME NEW head, NEW target, target # head, NEW detached,
         Approval(Relation(head, target), deploy.request, detached) = "confirm",
         deploy.request.tag \in {"none", deploy.tag}
  PROVE  \/ head \in Ancestors[target]
         \/ /\ target \in Ancestors[head]
            /\ deploy.request.tag = deploy.tag /\ deploy.request.downgrade
<1> DEFINE relation == Relation(head, target)
<1>1. relation \in {"upgrade", "downgrade", "diverged"}
  BY DEF Relation
<1>2. relation = "upgrade" => head \in Ancestors[target]
  BY DEF Relation, IsAncestor
<1>3. relation = "downgrade" => target \in Ancestors[head]
  BY DEF Relation, IsAncestor
<1> HIDE DEF relation
<1>4. Approval(relation, deploy.request, detached) = "confirm"
  BY DEF relation
<1>5. relation # "diverged"
  BY <1>1, <1>4 DEF Approval
<1>6. relation = "downgrade" => deploy.request.tag # "none" /\ deploy.request.downgrade
  BY <1>4 DEF Approval
<1> QED BY <1>1, <1>2, <1>3, <1>5, <1>6

LEMMA CheckoutStep ==
  ASSUME DeployInv, CheckoutTarget PROVE DeployInv' /\ Forward
<1>1. PICK lost \in SUBSET (1..OwnFiles) :
         \/ /\ checkout' = [checkout EXCEPT !.head = checkout.tags[deploy.tag],
                                            !.detached = TRUE, !.kept = @ \ lost]
            /\ deploy' = [deploy EXCEPT !.at = "restoring", !.then = "applying"]
         \/ /\ checkout' = [checkout EXCEPT !.kept = @ \ lost]
            /\ deploy' = [deploy EXCEPT !.at = "restoring", !.then = "raised"]
  BY DEF CheckoutTarget
<1>2. deploy.at = "checkout" /\ UNCHANGED <<service, host>>
  BY DEF CheckoutTarget
<1>3. /\ deploy'.at = "restoring" /\ deploy'.stopped = deploy.stopped
      /\ deploy'.asked = deploy.asked /\ Shapes'
  BY <1>1, <1>2 DEF DeployInv, Shapes
<1>4. /\ checkout'.tags = checkout.tags
      /\ checkout'.head \in {checkout.head, checkout.tags[deploy.tag]}
  BY <1>1 DEF DeployInv, Shapes
<1>5. /\ ~service.active /\ deploy.request.tag \in {"none", deploy.tag}
      /\ Approval(Relation(checkout.head, checkout.tags[deploy.tag]),
                  deploy.request, checkout.detached) = "confirm"
  BY <1>2 DEF DeployInv, Down, Approved, Targeted
<1>6. Forward
  BY <1>2, <1>4, <1>5, ApprovedMove DEF Forward
<1>7. Approved' /\ Down' /\ Kept'
  BY <1>2, <1>3 DEF DeployInv, Approved, Down, Kept, Targeted
<1> QED BY <1>3, <1>6, <1>7 DEF DeployInv

LEMMA RestoreFilesStep ==
  ASSUME DeployInv, RestoreFiles, deploy.then \notin Targeted \cup {"verifying", "restoring"}
  PROVE  DeployInv' /\ Forward
<1>1. deploy.at = "restoring" /\ UNCHANGED <<service, host>>
  BY DEF RestoreFiles
<1>2. CASE /\ checkout' = [checkout EXCEPT !.kept = 1..OwnFiles]
           /\ deploy' = [deploy EXCEPT !.at = deploy.then]
  <2>1. /\ deploy'.at = deploy.then /\ deploy'.stopped = deploy.stopped
        /\ deploy'.asked = deploy.asked /\ checkout'.kept = 1..OwnFiles
        /\ checkout'.head = checkout.head /\ checkout'.tags = checkout.tags /\ Shapes'
    BY <1>1, <1>2 DEF DeployInv, Shapes
  <2>2. Approved' /\ Down' /\ Kept' /\ Forward
    BY <1>1, <2>1 DEF DeployInv, Approved, Down, Kept, Forward, Targeted
  <2> QED BY <2>1, <2>2 DEF DeployInv
<1>3. ASSUME NEW f \in 1..OwnFiles,
             checkout' = [checkout EXCEPT !.kept = @ \cup 1..(f - 1)],
             deploy' = [deploy EXCEPT !.at = "raised", !.broken = TRUE]
      PROVE  DeployInv' /\ Forward
  <2>1. /\ deploy'.at = "raised" /\ deploy'.stopped = deploy.stopped
        /\ deploy'.asked = deploy.asked /\ deploy'.broken
        /\ checkout'.head = checkout.head /\ checkout'.tags = checkout.tags /\ Shapes'
    BY <1>1, <1>3 DEF DeployInv, Shapes
  <2>2. Approved' /\ Down' /\ Kept' /\ Forward
    BY <1>1, <2>1 DEF DeployInv, Approved, Down, Kept, Forward, Targeted
  <2> QED BY <2>1, <2>2 DEF DeployInv
<1> QED BY <1>2, <1>3 DEF RestoreFiles

LEMMA HookStep ==
  ASSUME DeployInv, PreserveFiles \/ ApplyTarget \/ Install \/ InstallPackages \/ Paused \/ CheckUnit
  PROVE  DeployInv' /\ Forward
<1>1. /\ UNCHANGED <<checkout, service, host>>
      /\ deploy.at \in {"preserving", "applying", "install", "packages", "asking", "unit"}
  BY DEF PreserveFiles, ApplyTarget, Install, InstallPackages, Paused, CheckUnit, Hook
<1>2. \/ Raise
      \/ deploy.at = "preserving" /\ NextStep("checkout")
      \/ \E place \in {"asking", "halting", "unit", "returned", "creating"} : NextStep(place)
  BY DEF PreserveFiles, ApplyTarget, Install, InstallPackages, Paused, CheckUnit, Hook
<1>3. CASE Raise
  BY <1>1, <1>3, RaiseStep
<1>4. CASE deploy.at = "preserving" /\ NextStep("checkout")
  <2>1. /\ ~service.active
        /\ Approval(Relation(checkout.head, checkout.tags[deploy.tag]),
                    deploy.request, checkout.detached) = "confirm"
    BY <1>4 DEF DeployInv, Down, Approved
  <2> QED BY <1>1, <1>4, <2>1, PlainStep DEF Targeted
<1>5. ASSUME NEW place \in {"asking", "halting", "unit", "returned", "creating"},
             NextStep(place)
      PROVE  DeployInv' /\ Forward
  BY <1>1, <1>5, PlainStep DEF Targeted
<1> QED BY <1>2, <1>3, <1>4, <1>5

-----------------------------------------------------------------------------
(***************************************************************************)
(* The host, and what others do to it.                                     *)
(***************************************************************************)
\* A step that leaves the checkout alone, never starts the service, keeps a
\* foreign unit and goes to a place that promises nothing about the target.
LEMMA HostStep ==
  ASSUME DeployInv, NEW place, NextStep(place), UNCHANGED checkout,
         place \notin Targeted, deploy.at # "restoring",
         service' = [exists |-> service'.exists, active |-> service.active],
         host' = [unit |-> host'.unit, venv |-> host'.venv],
         host.unit = "foreign" => host'.unit = "foreign",
         place = "verifying" => host'.unit = "own"
  PROVE  DeployInv' /\ Forward
<1>1. service'.active = service.active
  OBVIOUS
<1>2. Shapes'
  BY <1>1, NextStepTo DEF DeployInv, Shapes
<1>3. Approved'
  BY NextStepTo DEF DeployInv, Approved, Targeted
<1>4. Down' /\ Kept' /\ Forward
  BY <1>1, NextStepTo DEF DeployInv, Down, Kept, Forward, Targeted
<1> QED BY <1>2, <1>3, <1>4 DEF DeployInv

LEMMA VenvStep ==
  ASSUME DeployInv, CreateVenv PROVE DeployInv' /\ Forward
<1>1. /\ deploy.at = "venv" /\ UNCHANGED <<checkout, service>>
      /\ service = [exists |-> service.exists, active |-> service.active]
  BY DEF CreateVenv, DeployInv, Shapes
<1>2. CASE host' = [host EXCEPT !.venv = TRUE] /\ NextStep("packages")
  <2>1. host' = [unit |-> host'.unit, venv |-> host'.venv] /\ host'.unit = host.unit
    BY <1>2 DEF DeployInv, Shapes
  <2> QED BY <1>1, <1>2, <2>1, HostStep DEF Targeted
<1>3. CASE UNCHANGED host /\ Raise
  BY <1>1, <1>3, RaiseStep
<1> QED BY <1>2, <1>3 DEF CreateVenv

LEMMA CreateUnitStep ==
  ASSUME DeployInv, CreateUnit PROVE DeployInv' /\ Forward
<1>1. /\ deploy.at = "creating" /\ UNCHANGED <<checkout, service>>
      /\ service = [exists |-> service.exists, active |-> service.active]
  BY DEF CreateUnit, DeployInv, Shapes
<1>2. CASE host.unit = "none"
  <2>1. host' = [host EXCEPT !.unit = "own"]
    BY <1>2 DEF CreateUnit
  <2>2. host' = [unit |-> host'.unit, venv |-> host'.venv] /\ host'.unit = "own"
    BY <2>1 DEF DeployInv, Shapes
  <2>3. CASE NextStep("verifying")
    BY <1>1, <1>2, <2>2, <2>3, HostStep DEF Targeted
  <2>4. CASE Raise
    BY <1>1, <1>2, <2>2, <2>4, HostStep DEF Raise, Targeted
  <2> QED BY <1>2, <2>3, <2>4 DEF CreateUnit
<1>3. CASE host.unit # "none"
  BY <1>1, <1>3, PlainStep DEF CreateUnit, Targeted
<1> QED BY <1>2, <1>3

LEMMA VerifyStep ==
  ASSUME DeployInv, VerifyUnit PROVE DeployInv' /\ Forward
<1>1. /\ deploy.at = "verifying" /\ UNCHANGED checkout /\ host.unit = "own"
      /\ service = [exists |-> service.exists, active |-> service.active]
      /\ host = [unit |-> host.unit, venv |-> host.venv]
  BY DEF VerifyUnit, DeployInv, Shapes, Down
<1>2. CASE /\ service' = [service EXCEPT !.exists = TRUE] /\ NextStep("asking")
           /\ UNCHANGED host
  <2>1. service' = [exists |-> service'.exists, active |-> service.active]
    BY <1>1, <1>2
  <2> QED BY <1>1, <1>2, <2>1, HostStep DEF Targeted
<1>3. CASE host' = [host EXCEPT !.unit = "none"] /\ Raise /\ UNCHANGED service
  <2>1. host' = [unit |-> host'.unit, venv |-> host'.venv]
    BY <1>1, <1>3
  <2> QED BY <1>1, <1>3, <2>1, HostStep DEF Raise, Targeted
<1>4. CASE Raise /\ UNCHANGED <<service, host>>
  BY <1>1, <1>4, RaiseStep
<1> QED BY <1>2, <1>3, <1>4 DEF VerifyUnit

LEMMA OutsideStep ==
  ASSUME DeployInv, MoveTag \/ UnitAppears PROVE DeployInv' /\ Forward
<1>1. UNCHANGED <<deploy, checkout, service>>
  BY DEF MoveTag, UnitAppears
<1>2. host' = host \/ (host.unit = "none" /\ host' = [host EXCEPT !.unit = "foreign"])
  BY DEF MoveTag, UnitAppears
<1>3. /\ host' = [unit |-> host'.unit, venv |-> host'.venv]
      /\ host'.unit = host.unit \/ (host.unit = "none" /\ host'.unit = "foreign")
  BY <1>2 DEF DeployInv, Shapes
<1>4. Shapes'
  BY <1>1, <1>3 DEF DeployInv, Shapes
<1>5. Approved' /\ Down' /\ Kept' /\ Forward
  BY <1>1, <1>3 DEF DeployInv, Approved, Down, Kept, Forward
<1> QED BY <1>4, <1>5 DEF DeployInv

-----------------------------------------------------------------------------
\* Where a restored checkout goes on.
ThenPlace == deploy.then \in {"none", "applying", "raised"}

LEMMA ThenStep ==
  ASSUME DeployInv, ThenPlace, DeployNext PROVE ThenPlace'
<1>1. deploy'.then = deploy.then \/ deploy'.then \in {"applying", "raised"}
  BY DEF DeployInv, Shapes, DeployNext, SelectTarget, InspectTag, FetchTag, Approve, StopService,
         AskStart, Paused, PreserveFiles, CheckoutTarget, RestoreFiles, ApplyTarget, Install,
         CreateVenv, InstallPackages, CheckUnit, CreateUnit, VerifyUnit, MoveTag, UnitAppears,
         Hook, Raise, NextStep
<1> QED BY <1>1 DEF ThenPlace

LEMMA DeployStep ==
  ASSUME DeployInv /\ ThenPlace, [DeployNext]_deployVars
  PROVE  DeployInv' /\ ThenPlace' /\ Forward
<1>1. CASE UNCHANGED deployVars
  BY <1>1 DEF deployVars, outside, DeployInv, Shapes, Approved, Down, Kept, ThenPlace, Forward
<1>2. CASE RestoreFiles
  BY <1>2, RestoreFilesStep, ThenStep DEF ThenPlace, Targeted, DeployNext
<1>3. CASE DeployNext /\ ~RestoreFiles
  BY <1>3, ThenStep, SelectStep, InspectStep, FetchStep, ApproveStep, StopStep, AskStep,
     CheckoutStep, HookStep, VenvStep, CreateUnitStep, VerifyStep, OutsideStep DEF DeployNext
<1> QED BY <1>1, <1>2, <1>3

LEMMA DeployStarts == DeployInit => DeployInv /\ ThenPlace
<1> SUFFICES ASSUME DeployInit PROVE DeployInv /\ ThenPlace
  OBVIOUS
<1>1. /\ deploy \in [at : {"update", "install"}, stopped : {FALSE}, asked : {FALSE},
                     broken : {FALSE}, remote : {"none"}, tag : {"none"}, then : {"none"},
                     request : Requests]
      /\ service \in [exists : BOOLEAN, active : BOOLEAN]
      /\ host = [unit |-> "none", venv |-> FALSE]
  BY DEF DeployInit
<1>2. checkout \in [head : Revisions, detached : BOOLEAN, kept : {1..OwnFiles},
                    tags : UNION {[T -> Revisions] : T \in SUBSET StableTags}]
  BY DeployAssumption DEF DeployInit
<1>3. Shapes
  BY <1>1, <1>2 DEF Shapes
<1>4. Approved /\ Down /\ Kept /\ ThenPlace
  BY <1>1, <1>2 DEF Approved, Down, Kept, ThenPlace, Targeted
<1> QED BY <1>3, <1>4 DEF DeployInv

\* A checkout moves only while the service is down, forward or with the
\* operator's permission, and never onto another local tag or a foreign unit.
THEOREM DeploysForwardAlways == DeploySpec => DeploysForward
<1>1. DeployInv /\ ThenPlace /\ [DeployNext]_deployVars => Forward
  BY DeployStep
<1>2. DeployInv /\ ThenPlace /\ [DeployNext]_deployVars => (DeployInv /\ ThenPlace)'
  BY DeployStep
<1>3. Forward => [Forward]_deployVars
  OBVIOUS
<1>4. DeploySpec => [][Forward]_deployVars
  BY <1>1, <1>2, DeployStarts, PTL DEF DeploySpec
<1> QED BY <1>4 DEF DeploysForward, Forward

\* Whatever fails, the operator's files come back and a service that was
\* stopped stays down.
THEOREM FailuresLeaveStoppedAlways == DeploySpec => []FailuresLeaveStopped
<1>1. DeployInv /\ ThenPlace /\ [DeployNext]_deployVars => (DeployInv /\ ThenPlace)'
  BY DeployStep
<1>2. DeployInv => FailuresLeaveStopped
  BY DEF DeployInv, Down, Kept, FailuresLeaveStopped
<1> QED BY <1>1, <1>2, DeployStarts, PTL DEF DeploySpec
=============================================================================
