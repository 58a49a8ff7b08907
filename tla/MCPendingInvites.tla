-------------------------- MODULE MCPendingInvites --------------------------
(* Two (room, inviter) pairs, which are interchangeable.                     *)
EXTENDS PendingInvites, TLC

CONSTANTS r1, r2

TwoKeys == {r1, r2}
KeySymmetry == Permutations(TwoKeys)
=============================================================================
