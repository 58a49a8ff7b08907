------------------------------- MODULE Alerts -------------------------------
(***************************************************************************)
(* KeyedCooldown of runtime/suppression.py: repetitions of an event are    *)
(* denied for a while and counted, for a bounded number of keys; the key   *)
(* used least recently is forgotten first.  The window may be given with   *)
(* the call.  Each call is one step.                                       *)
(***************************************************************************)
EXTENDS Naturals, Sequences, FiniteSets, SequencesExt

CONSTANTS
    AlertKeys,
    MaxKeys,    \* max_keys
    Windows,    \* cooldown_seconds, 0 for none
    LastSecond, \* bound: the clock
    MaxChecks   \* bound: calls

ASSUME AlertsAssumption ==
    MaxKeys \in Nat /\ Windows \subseteq Nat /\ LastSecond \in Nat /\ MaxChecks \in Nat

VARIABLES
    second,    \* the clock
    cooldown,  \* _state, least recently used first: key, last, suppressed
    answer,    \* the last CooldownDecision
    seen       \* history: calls, and per key its last emission, the denials
               \* since, and the other keys used since it was

alertVars == <<second, cooldown, answer, seen>>

\* _trim keeps at least one key.
Limit == IF MaxKeys > 1 THEN MaxKeys ELSE 1

Entries(key) == {i \in DOMAIN cooldown : cooldown[i].key = key}

\* A key has one entry at most.
Without(key) ==
    IF Entries(key) = {} THEN cooldown
    ELSE RemoveAt(cooldown, CHOOSE i \in Entries(key) : TRUE)

\* Fault: an entry that is there stays where it is.
MovedNowhere(e) ==
    IF Entries(e.key) = {} THEN Append(cooldown, e)
    ELSE [i \in DOMAIN cooldown |-> IF i \in Entries(e.key) THEN e ELSE cooldown[i]]

\* move_to_end
MovedToEnd(e) == Append(Without(e.key), e)

Trimmed(entries) ==
    IF Len(entries) <= Limit THEN entries
    ELSE SubSeq(entries, Len(entries) - Limit + 1, Len(entries))

Recorded(key, emitted) ==
    /\ seen.calls < MaxChecks
    /\ seen' = [calls |-> seen.calls + 1,
                of |-> [k \in AlertKeys |->
                    IF k # key THEN [seen.of[k] EXCEPT !.others = @ \cup {key}]
                    ELSE [known |-> TRUE, others |-> {},
                          last |-> IF emitted THEN second ELSE seen.of[k].last,
                          denials |-> IF emitted THEN 0 ELSE seen.of[k].denials + 1]]]

Deny(key, window) ==
    \E i \in Entries(key) :
        LET denied == [cooldown[i] EXCEPT !.suppressed = @ + 1] IN
        /\ second - cooldown[i].last < window
        /\ cooldown' = MovedToEnd(denied)
        /\ answer' = [key |-> key, window |-> window, allowed |-> FALSE,
                      suppressed |-> denied.suppressed]
        /\ Recorded(key, FALSE)
        /\ UNCHANGED second

\* The key is reserved anew.
Allow(key, window) ==
    /\ \A i \in Entries(key) : second - cooldown[i].last >= window
    /\ cooldown' = Trimmed(MovedToEnd([key |-> key, last |-> second, suppressed |-> 0]))
    /\ \E n \in IF Entries(key) = {} THEN {0} ELSE {cooldown[i].suppressed : i \in Entries(key)} :
          answer' = [key |-> key, window |-> window, allowed |-> TRUE, suppressed |-> n]
    /\ Recorded(key, TRUE)
    /\ UNCHANGED second

ForgetKey(key) ==
    /\ cooldown' = Without(key)
    /\ seen' = [seen EXCEPT !.of[key].known = FALSE]
    /\ UNCHANGED <<second, answer>>

ClockTicks ==
    /\ second < LastSecond
    /\ second' = second + 1
    /\ UNCHANGED <<cooldown, answer, seen>>

AlertsInit ==
    /\ second = 0
    /\ cooldown = <<>>
    /\ answer = [key |-> CHOOSE k \in AlertKeys : TRUE, window |-> 0,
                 allowed |-> FALSE, suppressed |-> 0]
    /\ seen = [calls |-> 0,
               of |-> [k \in AlertKeys |->
                         [known |-> FALSE, others |-> {}, last |-> 0, denials |-> 0]]]

AlertsNext ==
    \/ ClockTicks
    \/ \E key \in AlertKeys :
          ForgetKey(key) \/ \E window \in Windows : Deny(key, window) \/ Allow(key, window)

AlertsSpec == AlertsInit /\ [][AlertsNext]_alertVars

-----------------------------------------------------------------------------
(***************************************************************************)
(* Properties.                                                             *)
(***************************************************************************)
\* A key keeps its window and its count of denials for as long as fewer than
\* max_keys other keys have been used since: an answer within that time is
\* the one an unbounded table would give.
WindowKept ==
    [][\A key \in AlertKeys :
          LET before == seen.of[key] IN
          /\ seen'.calls > seen.calls /\ answer'.key = key
          /\ before.known /\ Cardinality(before.others) < Limit
          => /\ answer'.allowed <=> second - before.last >= answer'.window
             /\ answer'.suppressed = IF answer'.allowed THEN before.denials
                                     ELSE before.denials + 1]_alertVars
=============================================================================
