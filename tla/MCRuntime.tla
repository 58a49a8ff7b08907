------------------------------ MODULE MCRuntime ------------------------------
(* Small instances of the components of the runtime that share no state: a   *)
(* behaviour follows one of them, and the others stay where they began.      *)
EXTENDS Connection, MucJoin, Rooms, Watchdog, Heartbeats, Alerts

CONSTANTS startupPhase, r1, r2, k1, k2, k3

VARIABLE followed

OnePhase == {startupPhase}
TwoRooms == {r1, r2}
ThreeKeys == {k1, k2, k3}

runtimeVars == <<followed, vars, joinVars, roomVars, watchdogVars, beatVars, alertVars>>

\* What is not followed begins in one way only.
OneJoin ==
    /\ call = [at |-> "called", attempt |-> 0, joined |-> FALSE, force |-> FALSE,
               cleanup |-> FALSE, api |-> "none", entry |-> "timed"]
    /\ ~member /\ ~mirror

OneWatchdog ==
    /\ config = [enabled |-> FALSE, supervised |-> FALSE, deferring |-> FALSE]
    /\ ~complete /\ ~readyEvent

RuntimeInit ==
    /\ followed \in {"connection", "join", "rooms", "watchdog", "heartbeats", "alerts"}
    /\ Init /\ JoinInit /\ RoomsInit /\ WatchdogInit /\ BeatInit /\ AlertsInit
    /\ followed = "join" \/ OneJoin
    /\ followed = "watchdog" \/ OneWatchdog

RuntimeNext ==
    /\ UNCHANGED followed
    /\ \/ /\ followed = "connection" /\ Next
          /\ UNCHANGED <<joinVars, roomVars, watchdogVars, beatVars, alertVars>>
       \/ /\ followed = "join" /\ JoinNext
          /\ UNCHANGED <<vars, roomVars, watchdogVars, beatVars, alertVars>>
       \/ /\ followed = "rooms" /\ RoomsNext
          /\ UNCHANGED <<vars, joinVars, watchdogVars, beatVars, alertVars>>
       \/ /\ followed = "watchdog" /\ WatchdogNext
          /\ UNCHANGED <<vars, joinVars, roomVars, beatVars, alertVars>>
       \/ /\ followed = "heartbeats" /\ BeatNext
          /\ UNCHANGED <<vars, joinVars, roomVars, watchdogVars, alertVars>>
       \/ /\ followed = "alerts" /\ AlertsNext
          /\ UNCHANGED <<vars, joinVars, roomVars, watchdogVars, beatVars>>

RuntimeSpec ==
    /\ RuntimeInit /\ [][RuntimeNext]_runtimeVars
    /\ followed = "connection" => Fairness
    /\ followed = "join" => JoinFairness
=============================================================================
