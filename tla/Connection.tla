----------------------------- MODULE Connection -----------------------------
(***************************************************************************)
(* run_reconnect_loop of runtime/reconnect.py with the session lifecycle,  *)
(* the transport and the application that calls both.                      *)
(*                                                                         *)
(* The transport (Slixmpp) and the application are external: a session     *)
(* starts on a transport that connects, its startup is a coroutine that    *)
(* holds its generation and may go on after the session has ended, the     *)
(* disconnect handler starts the loop unless it runs already.  Nothing     *)
(* says that the application clears ready_event, so it does not.  A        *)
(* transport whose connection attempt ends may go on trying by itself.     *)
(*                                                                         *)
(* The loop's awaits are where it is between steps: "sleeping",            *)
(* "connecting" (connect() under way), "started" and "waiting" (the two    *)
(* waits for readiness), "dropping" (disconnect_partial() under way).      *)
(***************************************************************************)
EXTENDS Session

CONSTANTS
    InitialDelay, MaxDelay,  \* backoff, in seconds
    MaxSessions,             \* bound: sessions ever started
    MaxTroubles              \* bound: losses, failed connects, slow startups

ASSUME ConnectionAssumption ==
    /\ InitialDelay \in Nat /\ MaxDelay \in Nat
    /\ MaxSessions \in Nat /\ MaxTroubles \in Nat
    /\ MaxSessions > MaxTroubles

Generations == 1..MaxSessions

VARIABLES
    transport,  \* external: "down", "connecting", or "up" once a session started
    startup,    \* external: startup coroutine of each generation
    ready,      \* ready_event
    loop,       \* the reconnect loop
    delay,      \* delay
    shutdown,   \* shutdown_requested()
    troubles,   \* history: losses, failed connects, slow startups
    lastReady,  \* history: the generation that last became ready
    since       \* history: the generation when the loop last connected

application == <<transport, startup, ready>>
reconnect == <<loop, delay>>
history == <<troubles, lastReady, since>>
vars == <<session, application, reconnect, shutdown, history>>

\* session_started()
SessionStarted == transport = "up"

Awaits == {"sleeping", "connecting", "started", "waiting", "dropping"}

Looping == loop \in Awaits \cup {"top"}

Trouble == troubles < MaxTroubles /\ troubles' = troubles + 1

-----------------------------------------------------------------------------
(***************************************************************************)
(* The transport and the application.                                      *)
(***************************************************************************)
SessionStart ==
    /\ transport = "connecting"
    /\ session.generation < MaxSessions
    /\ transport' = "up"
    /\ Begin
    /\ startup' = [startup EXCEPT ![session.generation + 1] = "running"]
    /\ UNCHANGED <<ready, reconnect, shutdown, history>>

StartupPhase(g) ==
    /\ startup[g] = "running"
    /\ \E p \in Phases : BeginPhase(g, p)
    /\ startup' = IF IsCurrent(g) THEN startup ELSE [startup EXCEPT ![g] = "over"]
    /\ UNCHANGED <<transport, ready, reconnect, shutdown, history>>

\* ready_event is set when mark_ready accepts the generation.
StartupReady(g) ==
    /\ startup[g] = "running"
    /\ MarkReady(g)
    /\ startup' = [startup EXCEPT ![g] = "over"]
    /\ ready' = (ready \/ IsCurrent(g))
    /\ lastReady' = IF IsCurrent(g) THEN g ELSE lastReady
    /\ UNCHANGED <<transport, reconnect, shutdown, troubles, since>>

StartupFails(g) ==
    /\ startup[g] = "running"
    /\ Trouble
    /\ MarkFailed(g)
    /\ startup' = [startup EXCEPT ![g] = "over"]
    /\ UNCHANGED <<transport, ready, reconnect, shutdown, lastReady, since>>

\* Fault: no upper limit.
DoubledFreely(d) == IF 2 * d > 1 THEN 2 * d ELSE 1

\* min(maximum, max(delay * 2, 1.0))
Doubled(d) ==
    LET longest == IF InitialDelay > MaxDelay THEN InitialDelay ELSE MaxDelay
        next == IF 2 * d > 1 THEN 2 * d ELSE 1
    IN  IF next < longest THEN next ELSE longest

\* The disconnect handler starts the loop, if there is none.
StartLoop ==
    IF Looping \/ shutdown
    THEN MarkDisconnected /\ UNCHANGED reconnect
    ELSE MarkReconnecting /\ loop' = "top" /\ delay' = InitialDelay

\* A session is lost, or a connection attempt fails; in the latter case the
\* transport may go on trying.
Disconnected ==
    /\ transport # "down"
    /\ Trouble
    /\ \/ transport' = "down"
       \/ transport = "connecting" /\ UNCHANGED transport
    /\ StartLoop
    /\ UNCHANGED <<startup, ready, shutdown, lastReady, since>>

Shutdown ==
    /\ ~shutdown
    /\ shutdown' = TRUE
    /\ UNCHANGED <<session, application, reconnect, history>>

-----------------------------------------------------------------------------
(***************************************************************************)
(* The loop.                                                               *)
(***************************************************************************)
Backoff == loop' = "top" /\ delay' = Doubled(delay)

LoopTop ==
    /\ loop = "top"
    /\ loop' = IF shutdown THEN "stopped" ELSE "sleeping"
    /\ UNCHANGED <<session, application, delay, shutdown, history>>

Stop ==
    /\ loop = "sleeping" /\ shutdown
    /\ loop' = "stopped"
    /\ UNCHANGED <<session, application, delay, shutdown, history>>

\* A session started during the backoff: no second connection.
JoinStarted ==
    /\ loop = "sleeping" /\ ~shutdown /\ SessionStarted
    /\ loop' = "started"
    /\ UNCHANGED <<session, application, delay, shutdown, history>>

\* Fault: session_started() is asked before the backoff only.
ConnectBlindly ==
    /\ loop = "sleeping" /\ ~shutdown
    /\ ready' = FALSE
    /\ transport' = "connecting" /\ loop' = "connecting"
    /\ since' = session.generation
    /\ UNCHANGED <<session, startup, delay, shutdown, troubles, lastReady>>

\* Fault: ready_event is not cleared.
ConnectUncleared ==
    /\ loop = "sleeping" /\ ~shutdown /\ ~SessionStarted
    /\ transport' = "connecting" /\ loop' = "connecting"
    /\ since' = session.generation
    /\ UNCHANGED <<session, startup, ready, delay, shutdown, troubles, lastReady>>

\* ready_event is cleared and connect() called.
Connect ==
    /\ loop = "sleeping" /\ ~shutdown /\ ~SessionStarted
    /\ ready' = FALSE
    /\ transport' = "connecting" /\ loop' = "connecting"
    /\ since' = session.generation
    /\ UNCHANGED <<session, startup, delay, shutdown, troubles, lastReady>>

Connected ==
    /\ loop = "connecting"
    /\ loop' = "waiting"
    /\ UNCHANGED <<session, application, delay, shutdown, history>>

\* connect() raises or returns False.
ConnectFails ==
    /\ loop = "connecting"
    /\ Trouble
    /\ transport' = IF SessionStarted THEN "up" ELSE "down"
    /\ Backoff
    /\ UNCHANGED <<session, startup, ready, shutdown, lastReady, since>>

Ready ==
    /\ loop \in {"started", "waiting"} /\ ready
    /\ loop' = "returned"
    /\ UNCHANGED <<session, application, delay, shutdown, history>>

\* Nothing is under way that could still make the session ready.
Hopeless ==
    \/ transport = "down"
    \/ transport = "up" /\ startup[session.generation] # "running"

\* Fault: the wait for readiness has no timeout once the transport is down.
TimeoutWhenUp ==
    /\ loop \in {"started", "waiting"} /\ ~ready /\ SessionStarted
    /\ IF Hopeless THEN UNCHANGED troubles ELSE Trouble
    /\ loop' = "dropping"
    /\ UNCHANGED <<session, application, delay, shutdown, lastReady, since>>

\* A timeout of a session that is still under way counts as a trouble.
Timeout ==
    /\ loop \in {"started", "waiting"} /\ ~ready
    /\ IF Hopeless THEN UNCHANGED troubles ELSE Trouble
    /\ loop' = "dropping"
    /\ UNCHANGED <<session, application, delay, shutdown, lastReady, since>>

\* disconnect_partial(); the disconnect handler finds the loop running.
Dropped ==
    /\ loop = "dropping"
    /\ transport' = "down"
    /\ IF transport = "down" THEN UNCHANGED session ELSE MarkDisconnected
    /\ Backoff
    /\ UNCHANGED <<startup, ready, shutdown, history>>

\* disconnect_partial() raises: nothing catches it.
DropFails ==
    /\ loop = "dropping"
    /\ loop' = "failed"
    /\ UNCHANGED <<session, application, delay, shutdown, history>>

\* The process cancels the loop when it shuts down.
Cancelled ==
    /\ loop \in Awaits /\ shutdown
    /\ loop' = "cancelled"
    /\ UNCHANGED <<session, application, delay, shutdown, history>>

-----------------------------------------------------------------------------
\* The application has made its first connection attempt.
Init ==
    /\ SessionInit
    /\ transport = "connecting"
    /\ startup = [g \in Generations |-> "none"]
    /\ ready = FALSE
    /\ loop = "none" /\ delay = InitialDelay
    /\ shutdown = FALSE
    /\ troubles = 0 /\ lastReady = 0 /\ since = 0

Startup(g) == StartupReady(g) \/ StartupFails(g)

LoopStep ==
    \/ LoopTop \/ Stop \/ JoinStarted \/ Connect \/ Connected \/ ConnectFails
    \/ Ready \/ Timeout \/ Dropped \/ DropFails

Next ==
    \/ SessionStart \/ Disconnected \/ Shutdown \/ LoopStep \/ Cancelled
    \/ \E g \in Generations : Startup(g) \/ StartupPhase(g)

Spec == Init /\ [][Next]_vars

\* The loop runs on, a transport that connects starts a session unless that
\* attempt fails, and a startup ends.
Fairness ==
    /\ WF_vars(LoopStep)
    /\ WF_vars(SessionStart)
    /\ \A g \in Generations : WF_vars(Startup(g))

FairSpec == Spec /\ Fairness

-----------------------------------------------------------------------------
(***************************************************************************)
(* Properties.                                                             *)
(***************************************************************************)
TypeOK ==
    /\ session \in Lifecycle
    /\ transport \in {"down", "connecting", "up"}
    /\ startup \in [Generations -> {"none", "running", "over"}]
    /\ ready \in BOOLEAN
    /\ loop \in Awaits \cup {"none", "top", "returned", "stopped", "failed", "cancelled"}
    /\ delay \in 0..(InitialDelay + MaxDelay)
    /\ delay <= InitialDelay \/ delay <= MaxDelay
    /\ shutdown \in BOOLEAN
    /\ troubles \in 0..MaxTroubles
    /\ lastReady \in 0..session.generation
    /\ since \in 0..session.generation

\* What operators are shown as ready is a session that is up: the startup of
\* a session that has ended may go on for as long as it likes, beside the
\* startup of the next one, and makes nothing ready.
ReadyMeansUp ==
    session.state = "ready" =>
        /\ transport = "up"
        /\ lastReady = session.generation

ConnectionInv == TypeOK /\ ReadyMeansUp

\* connect() is never called beside a session that started during the backoff
\* nor once the process shuts down, whenever in the loop either happens.
ConnectsOnlyWhenNeeded ==
    [][loop' = "connecting" /\ loop # "connecting" =>
          ~SessionStarted /\ ~shutdown]_vars

\* A loop that called connect() reports success only after a session that
\* began later became ready: not for readiness left over from before.
ReturnedIsReady ==
    [][loop = "waiting" /\ loop' = "returned" => lastReady > since]_vars

\* The loop ends: however sessions fail to become ready, it retries until one
\* does, unless disconnect_partial() raises or the process shuts down.
LoopEnds == Looping ~> ~Looping
=============================================================================
