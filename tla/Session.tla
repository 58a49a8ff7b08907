------------------------------- MODULE Session -------------------------------
(***************************************************************************)
(* SessionLifecycleState of runtime/session.py: the generation of the XMPP *)
(* session and what operators are shown of it.  The methods have no await, *)
(* so each is one step; the modules that use this one say who calls them.  *)
(*                                                                         *)
(* Times are left out, except whether the duration of the startup is known *)
(* ("measured").  An error text is a Boolean.                              *)
(***************************************************************************)
EXTENDS Naturals

CONSTANTS
    Phases,   \* startup phases of the application
    NoPhase   \* None

VARIABLE session

States == {"idle", "starting", "ready", "failed", "reconnecting", "disconnected"}

Lifecycle ==
    [generation : Nat, reconnects : Nat, state : States,
     phase : Phases \cup {"session", "ready", "backoff", NoPhase},
     failed : BOOLEAN, measured : BOOLEAN]

SessionInit ==
    session = [generation |-> 0, reconnects |-> 0, state |-> "idle",
               phase |-> NoPhase, failed |-> FALSE, measured |-> FALSE]

\* Fault: a session that has ended is still current.
IsLatest(g) == g = session.generation

\* is_current
IsCurrent(g) ==
    /\ g = session.generation
    /\ session.state \in {"starting", "ready"}

\* begin
Begin ==
    session' = [generation |-> session.generation + 1,
                reconnects |-> IF session.generation = 0 THEN session.reconnects
                               ELSE session.reconnects + 1,
                state |-> "starting", phase |-> "session",
                failed |-> FALSE, measured |-> FALSE]

\* begin_phase, mark_ready and mark_failed refuse a generation that is over.
IfCurrent(g, next) ==
    session' = IF IsCurrent(g) THEN next ELSE session

BeginPhase(g, p) ==
    IfCurrent(g, [session EXCEPT !.state = "starting", !.phase = p])

MarkReady(g) ==
    IfCurrent(g, [session EXCEPT !.state = "ready", !.phase = "ready",
                                 !.failed = FALSE, !.measured = TRUE])

MarkFailed(g) ==
    IfCurrent(g, [session EXCEPT !.state = "failed", !.failed = TRUE])

MarkReconnecting ==
    session' = [session EXCEPT !.state = "reconnecting", !.phase = "backoff"]

MarkDisconnected ==
    session' = [session EXCEPT !.state = "disconnected", !.phase = NoPhase]
=============================================================================
