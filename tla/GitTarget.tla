------------------------------ MODULE GitTarget ------------------------------
(***************************************************************************)
(* Which release a checkout may be moved to: the decisions of              *)
(* envs_xmpp_ops/git.py.  Revisions are given with their ancestors; "none" *)
(* stands for the error or the missing answer.                             *)
(***************************************************************************)
EXTENDS Sequences, FiniteSets

CONSTANTS
    Ancestors,  \* revision -> its ancestors
    TagOrder,   \* tag names as git sorts them, newest version first
    StableTags  \* those of the form vX.Y.Z

\* git_is_ancestor
IsAncestor(older, newer) == older = newer \/ older \in Ancestors[newer]

\* select_release_remote: configured, the branch's, origin, the only one
SelectRemote(remotes, configured, branchRemote) ==
    IF configured # "none" THEN (IF configured \in remotes THEN configured ELSE "none")
    ELSE IF branchRemote \in remotes THEN branchRemote
    ELSE IF "origin" \in remotes THEN "origin"
    ELSE IF Cardinality(remotes) = 1 THEN CHOOSE r \in remotes : TRUE
    ELSE "none"

\* latest_stable_remote_tag
LatestStable(advertised) ==
    LET stable == SelectSeq(TagOrder, LAMBDA t : t \in advertised \cap StableTags)
    IN  IF stable = <<>> THEN "none" ELSE stable[1]

\* release_target_relation
Relation(head, target) ==
    CASE head = target -> "same"
      [] IsAncestor(head, target) /\ head # target -> "upgrade"
      [] IsAncestor(target, head) /\ head # target -> "downgrade"
      [] OTHER -> "diverged"

\* Fault: a downgrade that was asked for needs no further permission.
ApprovalOnRequest(relation, request, detached) ==
    CASE relation = "upgrade" -> "confirm"
      [] relation = "same" -> IF detached THEN "unchanged" ELSE "confirm"
      [] relation = "downgrade" -> IF request.tag = "none" THEN "unchanged" ELSE "confirm"
      [] OTHER -> "raise"

\* approve_release_target: ask, leave it, or refuse
Approval(relation, request, detached) ==
    CASE relation = "upgrade" -> "confirm"
      [] relation = "same" -> IF detached THEN "unchanged" ELSE "confirm"
      [] relation = "downgrade" -> IF request.tag = "none" THEN "unchanged"
                                   ELSE IF request.downgrade THEN "confirm" ELSE "raise"
      [] OTHER -> "raise"
=============================================================================
