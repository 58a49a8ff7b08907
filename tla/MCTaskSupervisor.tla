-------------------------- MODULE MCTaskSupervisor --------------------------
(* Tasks of one or two scopes, one or two callers.                           *)
EXTENDS TaskSupervisor, TLC

CONSTANTS s1, s2, c1, c2

OneScope == {s1}
TwoScopes == {s1, s2}
OneCaller == {c1}
TwoCallers == {c1, c2}
ScopeSymmetry == Permutations(TwoScopes)

Plain == [service |-> FALSE, resilient |-> FALSE]
ResilientOneShot == [service |-> FALSE, resilient |-> TRUE]
Service == [service |-> TRUE, resilient |-> TRUE]

ResilientKinds == {ResilientOneShot, Service}
OneShotOrService == {Plain, Service}
=============================================================================
