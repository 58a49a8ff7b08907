--------------------------- MODULE SessionProofs ----------------------------
(***************************************************************************)
(* What the components of a session guarantee: the reconnect loop for      *)
(* every number of sessions and troubles, the rooms for every set of rooms *)
(* and late results, a confirmed join for every number of attempts and     *)
(* cancellations.                                                          *)
(***************************************************************************)
EXTENDS Connection, MucJoin, Rooms, SequenceTheorems, TLAPS

-----------------------------------------------------------------------------
(***************************************************************************)
(* The session and the reconnect loop.                                     *)
(***************************************************************************)
\* A session that can still become ready is up, and began after the loop that
\* is waiting for it called connect().
CurrentIsUp ==
    session.state \in {"starting", "ready"} =>
        /\ transport = "up"
        /\ loop \in {"connecting", "waiting"} => session.generation > since

\* Readiness is that of the latest session, and no older than the wait for it.
ReadyIsFresh ==
    /\ session.state = "ready" => lastReady = session.generation
    /\ loop \in {"connecting", "waiting"} /\ ready => lastReady > since

SessionInv == TypeOK /\ CurrentIsUp /\ ReadyIsFresh

\* A backoff that is doubled stays within the longer of its two limits.
LEMMA DoubledBounded ==
  ASSUME NEW d \in Nat
  PROVE  /\ Doubled(d) \in 0..(InitialDelay + MaxDelay)
         /\ Doubled(d) <= InitialDelay \/ Doubled(d) <= MaxDelay
  BY ConnectionAssumption DEF Doubled

\* The process starts with nothing ready.
LEMMA SessionInvInit == Init => SessionInv
<1> SUFFICES ASSUME Init PROVE SessionInv
  OBVIOUS
<1>1. session \in Lifecycle /\ session.state = "idle" /\ session.generation = 0
  BY DEF Init, SessionInit, Lifecycle, States
<1>2. delay \in 0..(InitialDelay + MaxDelay)
  BY ConnectionAssumption DEF Init
<1>3. delay <= InitialDelay
  BY ConnectionAssumption DEF Init
<1>4. troubles \in 0..MaxTroubles /\ lastReady \in 0..session.generation
      /\ since \in 0..session.generation
  BY <1>1, ConnectionAssumption DEF Init
<1>5. startup \in [Generations -> {"none", "running", "over"}]
  BY DEF Init
<1>6. TypeOK
  BY <1>1, <1>2, <1>3, <1>4, <1>5 DEF Init, TypeOK
<1>7. CurrentIsUp /\ ReadyIsFresh
  BY <1>1 DEF Init, CurrentIsUp, ReadyIsFresh
<1> QED BY <1>6, <1>7 DEF SessionInv

-----------------------------------------------------------------------------
(***************************************************************************)
(* What the methods of SessionLifecycleState do to the state.              *)
(***************************************************************************)
Generation == session.generation

\* begin() starts the next generation.
LEMMA BeginEffect ==
  ASSUME session \in Lifecycle, Begin
  PROVE  /\ session' \in Lifecycle
         /\ Generation' = Generation + 1
         /\ session'.state = "starting"
  BY DEF Begin, Lifecycle, States, Generation

\* begin_phase() does nothing unless the session is current.
LEMMA PhaseEffect ==
  ASSUME session \in Lifecycle, NEW g, NEW p \in Phases, BeginPhase(g, p)
  PROVE  /\ session' \in Lifecycle
         /\ Generation' = Generation
         /\ \/ session' = session
            \/ IsCurrent(g) /\ session'.state = "starting"
  BY DEF BeginPhase, IfCurrent, Lifecycle, States, Generation

\* mark_ready() does nothing unless the session is current.
LEMMA ReadyEffect ==
  ASSUME session \in Lifecycle, NEW g, MarkReady(g)
  PROVE  /\ session' \in Lifecycle
         /\ Generation' = Generation
         /\ IF IsCurrent(g) THEN session'.state = "ready" ELSE session' = session
  BY DEF MarkReady, IfCurrent, Lifecycle, States, Generation

\* mark_failed() makes nothing current.
LEMMA FailedEffect ==
  ASSUME session \in Lifecycle, NEW g, MarkFailed(g)
  PROVE  /\ session' \in Lifecycle
         /\ Generation' = Generation
         /\ session' = session \/ session'.state = "failed"
  BY DEF MarkFailed, IfCurrent, Lifecycle, States, Generation

\* A session that is lost is neither starting nor ready.
LEMMA LostEffect ==
  ASSUME session \in Lifecycle, MarkReconnecting \/ MarkDisconnected
  PROVE  /\ session' \in Lifecycle
         /\ Generation' = Generation
         /\ session'.state \in {"reconnecting", "disconnected"}
  BY DEF MarkReconnecting, MarkDisconnected, Lifecycle, States, Generation

-----------------------------------------------------------------------------
(***************************************************************************)
(* Every step keeps the invariant.                                         *)
(***************************************************************************)
\* A session that starts, one that is lost, a shutdown.
LEMMA ApplicationStep ==
  ASSUME SessionInv, SessionStart \/ Disconnected \/ Shutdown
  PROVE  SessionInv'
<1> USE DEF Generation
<1>t. session \in Lifecycle /\ session.generation \in Nat
  BY DEF SessionInv, TypeOK, Lifecycle
<1>1. CASE SessionStart
  <2>1. /\ session' \in Lifecycle
        /\ session'.generation = session.generation + 1
        /\ session'.state = "starting"
    BY <1>1, <1>t, BeginEffect DEF SessionStart
  <2>2. startup' \in [Generations -> {"none", "running", "over"}]
    BY <1>1 DEF SessionStart, SessionInv, TypeOK
  <2>3. TypeOK'
    BY <1>1, <1>t, <2>1, <2>2 DEF SessionStart, SessionInv, TypeOK, reconnect, history
  <2>4. CurrentIsUp'
    BY <1>1, <1>t, <2>1 DEF SessionStart, SessionInv, TypeOK, CurrentIsUp, reconnect, history
  <2>5. ReadyIsFresh'
    BY <1>1, <1>t, <2>1 DEF SessionStart, SessionInv, ReadyIsFresh, reconnect, history
  <2> QED BY <2>3, <2>4, <2>5 DEF SessionInv
<1>2. CASE Disconnected
  <2>1. /\ session' \in Lifecycle
        /\ session'.generation = session.generation
        /\ session'.state \in {"reconnecting", "disconnected"}
    BY <1>2, <1>t, LostEffect DEF Disconnected, StartLoop
  <2>2. loop' \in {loop, "top"} /\ delay' \in {delay, InitialDelay}
    BY <1>2 DEF Disconnected, StartLoop, reconnect
  <2>3. troubles' \in 0..MaxTroubles
    BY <1>2, ConnectionAssumption DEF Disconnected, Trouble, SessionInv, TypeOK
  <2>4. TypeOK'
    BY <1>2, <2>1, <2>2, <2>3, ConnectionAssumption
    DEF Disconnected, SessionInv, TypeOK
  <2>5. CurrentIsUp' /\ ReadyIsFresh'
    BY <1>2, <2>1, <2>2 DEF Disconnected, SessionInv, CurrentIsUp, ReadyIsFresh
  <2> QED BY <2>4, <2>5 DEF SessionInv
<1>3. CASE Shutdown
  BY <1>3 DEF Shutdown, SessionInv, TypeOK, CurrentIsUp, ReadyIsFresh,
              application, reconnect, history
<1> QED BY <1>1, <1>2, <1>3

\* A startup, of the current session or of one that is gone.
LEMMA StartupStep ==
  ASSUME SessionInv, NEW g \in Generations,
         StartupPhase(g) \/ StartupReady(g) \/ StartupFails(g)
  PROVE  SessionInv'
<1> USE DEF Generation
<1>t. session \in Lifecycle /\ session.generation \in Nat
  BY DEF SessionInv, TypeOK, Lifecycle
<1>1. CASE StartupPhase(g)
  <2>1. /\ session' \in Lifecycle
        /\ session'.generation = session.generation
        /\ \/ session' = session
           \/ IsCurrent(g) /\ session'.state = "starting"
    BY <1>1, <1>t, PhaseEffect DEF StartupPhase
  <2>2. startup' \in [Generations -> {"none", "running", "over"}]
    BY <1>1 DEF StartupPhase, SessionInv, TypeOK
  <2>3. TypeOK'
    BY <1>1, <2>1, <2>2 DEF StartupPhase, SessionInv, TypeOK, reconnect, history
  <2>4. CurrentIsUp' /\ ReadyIsFresh'
    BY <1>1, <2>1 DEF StartupPhase, SessionInv, CurrentIsUp, ReadyIsFresh,
                      IsCurrent, reconnect, history
  <2> QED BY <2>3, <2>4 DEF SessionInv
<1>2. CASE StartupReady(g)
  <2>1. /\ session' \in Lifecycle
        /\ session'.generation = session.generation
        /\ IF IsCurrent(g) THEN session'.state = "ready" ELSE session' = session
    BY <1>2, <1>t, ReadyEffect DEF StartupReady
  <2>2. startup' \in [Generations -> {"none", "running", "over"}]
    BY <1>2 DEF StartupReady, SessionInv, TypeOK
  <2>3. lastReady' \in 0..session'.generation /\ ready' \in BOOLEAN
    BY <1>2, <1>t, <2>1 DEF StartupReady, SessionInv, TypeOK, IsCurrent
  <2>4. TypeOK'
    BY <1>2, <2>1, <2>2, <2>3 DEF StartupReady, SessionInv, TypeOK, reconnect
  <2>5. CurrentIsUp' /\ ReadyIsFresh'
    <3>1. CASE IsCurrent(g)
      BY <1>2, <2>1, <3>1 DEF StartupReady, SessionInv, CurrentIsUp, ReadyIsFresh,
                              IsCurrent, reconnect
    <3>2. CASE ~IsCurrent(g)
      BY <1>2, <2>1, <3>2 DEF StartupReady, SessionInv, CurrentIsUp, ReadyIsFresh,
                              reconnect
    <3> QED BY <3>1, <3>2
  <2> QED BY <2>4, <2>5 DEF SessionInv
<1>3. CASE StartupFails(g)
  <2>1. /\ session' \in Lifecycle
        /\ session'.generation = session.generation
        /\ session' = session \/ session'.state = "failed"
    BY <1>3, <1>t, FailedEffect DEF StartupFails
  <2>2. startup' \in [Generations -> {"none", "running", "over"}]
    BY <1>3 DEF StartupFails, SessionInv, TypeOK
  <2>3. troubles' \in 0..MaxTroubles
    BY <1>3, ConnectionAssumption DEF StartupFails, Trouble, SessionInv, TypeOK
  <2>4. TypeOK'
    BY <1>3, <2>1, <2>2, <2>3 DEF StartupFails, SessionInv, TypeOK, reconnect
  <2>5. CurrentIsUp' /\ ReadyIsFresh'
    BY <1>3, <2>1 DEF StartupFails, SessionInv, CurrentIsUp, ReadyIsFresh, reconnect
  <2> QED BY <2>4, <2>5 DEF SessionInv
<1> QED BY <1>1, <1>2, <1>3

\* connect() is the only step of the loop that takes back what it knows of
\* readiness, and it is taken when no session is up.
LEMMA LoopStepKeeps ==
  ASSUME SessionInv, LoopStep \/ Cancelled
  PROVE  SessionInv'
<1> USE DEF Generation
<1>t. /\ session \in Lifecycle /\ session.generation \in Nat
      /\ delay \in Nat /\ troubles \in Nat
  BY ConnectionAssumption DEF SessionInv, TypeOK, Lifecycle
<1>d. /\ Doubled(delay) \in 0..(InitialDelay + MaxDelay)
      /\ Doubled(delay) <= InitialDelay \/ Doubled(delay) <= MaxDelay
  BY <1>t, DoubledBounded
<1> DEFINE Quiet == /\ UNCHANGED <<session, transport, startup, ready, delay,
                                   shutdown, lastReady, since>>
                    /\ troubles' \in 0..MaxTroubles
                    /\ loop' \notin {"connecting", "waiting"}
                    /\ loop' \in Awaits \cup {"top", "returned", "stopped",
                                              "failed", "cancelled"}
<1>1. CASE LoopTop \/ Stop \/ JoinStarted \/ Ready \/ Timeout \/ DropFails \/ Cancelled
  <2>1. Quiet
    BY <1>1, ConnectionAssumption
    DEF LoopTop, Stop, JoinStarted, Ready, Timeout, DropFails, Cancelled, Trouble,
        SessionInv, TypeOK, Awaits, application, history
  <2> QED BY <2>1 DEF SessionInv, TypeOK, CurrentIsUp, ReadyIsFresh
<1>2. CASE Connect
  <2>1. session.state \notin {"starting", "ready"}
    BY <1>2 DEF Connect, SessionStarted, SessionInv, CurrentIsUp
  <2>2. session' = session /\ since' \in 0..session'.generation
    BY <1>2, <1>t DEF Connect
  <2>3. TypeOK'
    BY <1>2, <2>2 DEF Connect, SessionInv, TypeOK, Awaits
  <2> QED BY <1>2, <2>1, <2>3, <2>2
          DEF Connect, SessionInv, CurrentIsUp, ReadyIsFresh
<1>3. CASE Connected
  BY <1>3 DEF Connected, SessionInv, TypeOK, CurrentIsUp, ReadyIsFresh, Awaits,
              application, history
<1>4. CASE ConnectFails
  <2>1. troubles' \in 0..MaxTroubles
    BY <1>4, ConnectionAssumption DEF ConnectFails, Trouble, SessionInv, TypeOK
  <2>2. TypeOK'
    BY <1>4, <1>d, <2>1 DEF ConnectFails, Backoff, SessionInv, TypeOK, Awaits
  <2>3. CurrentIsUp' /\ ReadyIsFresh'
    BY <1>4 DEF ConnectFails, Backoff, SessionStarted, SessionInv, CurrentIsUp,
                ReadyIsFresh
  <2> QED BY <2>2, <2>3 DEF SessionInv
<1>5. CASE Dropped
  <2>1. /\ session' \in Lifecycle
        /\ session'.generation = session.generation
        /\ session'.state \notin {"starting", "ready"}
    <3>1. CASE transport = "down"
      BY <1>5, <1>t, <3>1 DEF Dropped, SessionInv, CurrentIsUp
    <3>2. CASE transport # "down"
      BY <1>5, <1>t, <3>2, LostEffect DEF Dropped
    <3> QED BY <3>1, <3>2
  <2>2. TypeOK'
    BY <1>5, <1>d, <2>1 DEF Dropped, Backoff, SessionInv, TypeOK, Awaits, history
  <2>3. CurrentIsUp' /\ ReadyIsFresh'
    BY <1>5, <2>1 DEF Dropped, Backoff, CurrentIsUp, ReadyIsFresh
  <2> QED BY <2>2, <2>3 DEF SessionInv
<1> QED BY <1>1, <1>2, <1>3, <1>4, <1>5 DEF LoopStep

\* Every step keeps the invariant.
LEMMA SessionInvStep == SessionInv /\ [Next]_vars => SessionInv'
<1> SUFFICES ASSUME SessionInv, [Next]_vars PROVE SessionInv'
  OBVIOUS
<1>1. CASE UNCHANGED vars
  BY <1>1 DEF vars, application, reconnect, history, SessionInv, TypeOK,
              CurrentIsUp, ReadyIsFresh
<1>2. CASE Next
  BY <1>2, ApplicationStep, StartupStep, LoopStepKeeps DEF Next, Startup
<1> QED BY <1>1, <1>2

\* The invariant holds in every reachable state.
LEMMA SessionInvAlways == Spec => []SessionInv
  BY SessionInvInit, SessionInvStep, PTL DEF Spec

\* Whatever sessions come, go, hang and fail beside each other, the session
\* that is shown as ready is up and is the one that last became ready.
THEOREM ReadySessionIsUp == Spec => []ConnectionInv
<1>1. SessionInv => ConnectionInv
  BY DEF SessionInv, CurrentIsUp, ReadyIsFresh, ConnectionInv, ReadyMeansUp
<1> QED BY <1>1, SessionInvAlways, PTL

\* A loop that called connect() returns only when a later session got ready.
THEOREM ReturnsWhenReady == Spec => ReturnedIsReady
<1>1. SessionInv /\ [Next]_vars =>
          [loop = "waiting" /\ loop' = "returned" => lastReady > since]_vars
  <2> SUFFICES ASSUME SessionInv, Next, loop = "waiting", loop' = "returned"
               PROVE  lastReady > since
    OBVIOUS
  <2>1. ready
    BY DEF Next, SessionStart, Disconnected, StartLoop, Shutdown, LoopStep, Cancelled,
           Startup, StartupPhase, StartupReady, StartupFails, LoopTop, Stop,
           JoinStarted, Connect, Connected, ConnectFails, Ready, Timeout, Dropped,
           DropFails, Backoff, reconnect
  <2> QED BY <2>1 DEF SessionInv, ReadyIsFresh
<1> QED BY <1>1, SessionInvAlways, PTL DEF Spec, ReturnedIsReady

\* However the disconnect handler, a session's start and shutdown interleave
\* with the backoff, the loop calls connect() only if neither has happened.
THEOREM ConnectsWhenNeeded == Spec => ConnectsOnlyWhenNeeded
<1>1. Next => [loop' = "connecting" /\ loop # "connecting" => ~SessionStarted /\ ~shutdown]_vars
  <2> SUFFICES ASSUME Next, loop' = "connecting", loop # "connecting"
               PROVE  ~SessionStarted /\ ~shutdown
    OBVIOUS
  <2> QED
    BY DEF Next, SessionStart, Disconnected, StartLoop, Shutdown, LoopStep, Cancelled,
           Startup, StartupPhase, StartupReady, StartupFails, LoopTop, Stop,
           JoinStarted, Connect, Connected, ConnectFails, Ready, Timeout, Dropped,
           DropFails, Backoff, reconnect
<1> QED BY <1>1, PTL DEF Spec, ConnectsOnlyWhenNeeded

-----------------------------------------------------------------------------
(***************************************************************************)
(* The rooms.                                                              *)
(***************************************************************************)
Observation == [state : RoomStates, generation : {generation}, attempts : Nat, failures : Nat]

\* What a room's observation must agree with.
Agrees(r, o) ==
    /\ o \in Observation
    /\ o.state = "joined" => ConfirmedNow(r)
    /\ o.state = "leaving" <=> r \in leaving

\* RoomsAgree, room by room.
LEMMA RoomByRoom ==
  RoomsAgree <=> /\ generation \in Nat
                 /\ DOMAIN witness \subseteq Rooms
                 /\ leaving \subseteq DOMAIN rooms
                 /\ DOMAIN rooms \subseteq Rooms
                 /\ \A r \in DOMAIN rooms : Agrees(r, rooms[r])
  BY DEF RoomsAgree, RoomsTypeOK, Agrees, Observation

\* An observation may change its state and count one more attempt or failure.
LEMMA ObservationMoves ==
  ASSUME NEW o \in Observation, NEW s \in RoomStates
  PROVE  /\ [o EXCEPT !.state = s] \in Observation
         /\ [o EXCEPT !.state = s, !.attempts = @ + 1] \in Observation
         /\ [o EXCEPT !.state = s, !.failures = @ + 1] \in Observation
         /\ [o EXCEPT !.state = s, !.failures = 0] \in Observation
<1>1. /\ o.generation = generation /\ o.attempts \in Nat /\ o.failures \in Nat
      /\ o = [state |-> o.state, generation |-> o.generation,
             attempts |-> o.attempts, failures |-> o.failures]
  BY DEF Observation
<1>2. /\ o.attempts + 1 \in Nat /\ o.failures + 1 \in Nat
  BY <1>1
<1>3. [o EXCEPT !.state = s] \in Observation
  BY <1>1 DEF Observation
<1>4. [o EXCEPT !.state = s, !.attempts = @ + 1] \in Observation
  BY <1>1, <1>2 DEF Observation
<1>5. [o EXCEPT !.state = s, !.failures = @ + 1] \in Observation
  BY <1>1, <1>2 DEF Observation
<1>6. [o EXCEPT !.state = s, !.failures = 0] \in Observation
  BY <1>1 DEF Observation
<1> QED BY <1>3, <1>4, <1>5, <1>6

\* What configure() finds or adds agrees.
LEMMA ConfiguredAgrees ==
  ASSUME RoomsAgree, NEW r \in Rooms PROVE Agrees(r, Configured(r))
<1>1. CASE r \in DOMAIN rooms
  BY <1>1, RoomByRoom DEF Configured
<1>2. CASE r \notin DOMAIN rooms
  <2>1. r \notin leaving /\ generation \in Nat
    BY <1>2 DEF RoomsAgree, RoomsTypeOK
  <2> QED BY <1>2, <2>1 DEF Configured, Fresh, Agrees, Observation, RoomStates
<1> QED BY <1>1, <1>2

\* A confirmation counts as long as neither it nor the session changes.
LEMMA SameWitness ==
  ASSUME UNCHANGED <<generation, witness>> PROVE \A r : ConfirmedNow(r)' <=> ConfirmedNow(r)
  BY DEF ConfirmedNow

\* Within a session: one room is put, the others stay as they are.
LEMMA PutAgrees ==
  ASSUME RoomsAgree, NEW r \in Rooms, NEW o, rooms' = Put(rooms, r, o), UNCHANGED generation,
         DOMAIN witness' \subseteq Rooms, leaving' \subseteq leaving \cup {r},
         \A s \in Rooms \ {r} : (ConfirmedNow(s) => ConfirmedNow(s)') /\ (s \in leaving' <=> s \in leaving),
         o \in Observation,
         o.state = "joined" => ConfirmedNow(r)',
         o.state = "leaving" <=> r \in leaving'
  PROVE  RoomsAgree'
<1>1. /\ DOMAIN rooms' = DOMAIN rooms \cup {r} /\ rooms'[r] = o
      /\ \A s \in DOMAIN rooms \ {r} : rooms'[s] = rooms[s]
  BY DEF Put
<1>2. /\ generation' \in Nat /\ DOMAIN rooms' \subseteq Rooms /\ leaving' \subseteq DOMAIN rooms'
  BY <1>1 DEF RoomsAgree, RoomsTypeOK
<1>3. ASSUME NEW s \in DOMAIN rooms' PROVE Agrees(s, rooms[s])'
  <2>1. CASE s = r
    BY <1>1, <2>1 DEF Agrees, Observation
  <2>2. CASE s # r
    <3>1. Agrees(s, rooms[s]) /\ rooms'[s] = rooms[s] /\ s \in Rooms \ {r}
      BY <1>1, <1>2, <2>2, RoomByRoom
    <3> QED BY <3>1 DEF Agrees, Observation
  <2> QED BY <2>1, <2>2
<1>4. /\ generation' \in Nat
      /\ DOMAIN witness' \subseteq Rooms
      /\ leaving' \subseteq DOMAIN rooms'
      /\ DOMAIN rooms' \subseteq Rooms
      /\ \A s \in DOMAIN rooms' : Agrees(s, rooms[s])'
  BY <1>2, <1>3
<1> QED BY <1>4 DEF RoomsAgree, RoomsTypeOK, Agrees, Observation

\* A changed observation carries the generation of the registry.
LEMMA ChangeAgrees ==
  ASSUME RoomsAgree, NEW r \in Rooms, NEW o, Change(r, o), UNCHANGED generation,
         DOMAIN witness' \subseteq Rooms, leaving' \subseteq leaving \cup {r},
         \A s \in Rooms \ {r} : (ConfirmedNow(s) => ConfirmedNow(s)') /\ (s \in leaving' <=> s \in leaving),
         o \in Observation,
         o.state = "joined" => ConfirmedNow(r)',
         o.state = "leaving" <=> r \in leaving'
  PROVE  RoomsAgree'
<1> DEFINE put == [o EXCEPT !.generation = generation]
<1>1. put \in Observation /\ put.state = o.state
  BY DEF Observation
<1> HIDE DEF put
<1>2. rooms' = Put(rooms, r, put)
  BY DEF Change, put
<1> QED BY <1>1, <1>2, PutAgrees

\* Every step keeps the registry in agreement.
LEMMA AgreeStep ==
  ASSUME RoomsAgree, RoomsNext PROVE RoomsAgree'
<1>1. /\ generation \in Nat /\ DOMAIN witness \subseteq Rooms
      /\ leaving \subseteq DOMAIN rooms /\ DOMAIN rooms \subseteq Rooms
      /\ \A r \in DOMAIN rooms : Agrees(r, rooms[r])
  BY RoomByRoom
<1>2. CASE NewSession
  <2>1. /\ generation' = generation + 1 /\ UNCHANGED <<witness, leaving>>
        /\ DOMAIN rooms' = DOMAIN rooms
    BY <1>2 DEF NewSession
  <2>2. ASSUME NEW r \in DOMAIN rooms' PROVE Agrees(r, rooms[r])'
    <3>1. rooms'[r] = Reset(rooms[r]) /\ Agrees(r, rooms[r])
      BY <1>1, <1>2, <2>1, <2>2 DEF NewSession
    <3> QED BY <1>1, <2>1, <3>1 DEF Reset, Agrees, Observation, RoomStates
  <2> QED BY <1>1, <2>1, <2>2 DEF RoomsAgree, RoomsTypeOK, Agrees, Observation
<1>3. CASE ClearRooms
  <2>1. DOMAIN rooms' = {} /\ leaving' = {} /\ UNCHANGED <<generation, witness>>
    BY <1>3 DEF ClearRooms, Empty
  <2> QED BY <1>1, <2>1 DEF RoomsAgree, RoomsTypeOK
<1>4. ASSUME NEW r \in Rooms, Configure(r) PROVE RoomsAgree'
  <2>1. /\ rooms' = Put(rooms, r, Configured(r))
        /\ UNCHANGED <<generation, witness, leaving>>
    BY <1>4 DEF Configure
  <2>2. /\ Configured(r) \in Observation
        /\ Configured(r).state = "joined" => ConfirmedNow(r)
        /\ Configured(r).state = "leaving" <=> r \in leaving
    BY ConfiguredAgrees DEF Agrees
  <2> QED BY <1>1, <2>1, <2>2, PutAgrees, SameWitness
<1>5. ASSUME NEW r \in Rooms, BeginJoin(r) PROVE RoomsAgree'
  <2>1. Agrees(r, Configured(r))
    BY ConfiguredAgrees
  <2> DEFINE joining == [Configured(r) EXCEPT !.state = "joining", !.attempts = @ + 1]
  <2>2. joining \in Observation
    BY <2>1, ObservationMoves DEF Agrees, RoomStates
  <2>4. joining.state = "joining"
    BY <2>1 DEF Agrees, Observation
  <2> HIDE DEF joining
  <2>3. Change(r, joining) /\ leaving' = leaving \ {r} /\ UNCHANGED <<generation, witness>>
    BY <1>5 DEF BeginJoin, joining
  <2> QED BY <1>1, <2>2, <2>3, <2>4, ChangeAgrees, SameWitness
<1>6. ASSUME NEW r \in Rooms, NEW change, Mark(r, change), change \in Observation,
             change.state \notin {"leaving", "joined"}
      PROVE  RoomsAgree'
  <2>1. Agrees(r, Configured(r)) /\ UNCHANGED <<generation, witness, leaving>>
    BY <1>6, ConfiguredAgrees DEF Mark
  <2>2. CASE Configured(r).state = "leaving"
    <3>1. rooms' = Put(rooms, r, Configured(r))
      BY <1>6, <2>2 DEF Mark
    <3>2. /\ Configured(r) \in Observation
          /\ Configured(r).state = "joined" => ConfirmedNow(r)
          /\ Configured(r).state = "leaving" <=> r \in leaving
      BY <2>1 DEF Agrees
    <3> QED BY <1>1, <2>1, <3>1, <3>2, PutAgrees, SameWitness
  <2>3. CASE Configured(r).state # "leaving"
    BY <1>1, <1>6, <2>1, <2>3, ChangeAgrees, SameWitness DEF Mark, Agrees
  <2> QED BY <2>2, <2>3
<1>7. ASSUME NEW r \in Rooms, MarkDegraded(r) \/ MarkDeferred(r) \/ MarkRoomFailed(r)
      PROVE  RoomsAgree'
  <2>1. Agrees(r, Configured(r))
    BY ConfiguredAgrees
  <2>2. /\ [Configured(r) EXCEPT !.state = "degraded"] \in Observation
        /\ [Configured(r) EXCEPT !.state = "deferred"] \in Observation
        /\ [Configured(r) EXCEPT !.state = "failed", !.failures = @ + 1] \in Observation
    BY <2>1, ObservationMoves DEF Agrees, RoomStates
  <2>3. /\ [Configured(r) EXCEPT !.state = "degraded"].state = "degraded"
        /\ [Configured(r) EXCEPT !.state = "deferred"].state = "deferred"
        /\ [Configured(r) EXCEPT !.state = "failed", !.failures = @ + 1].state = "failed"
    BY <2>1 DEF Agrees, Observation
  <2> QED BY <1>6, <1>7, <2>2, <2>3 DEF MarkDegraded, MarkDeferred, MarkRoomFailed
<1>8. ASSUME NEW r \in Rooms, BeginLeave(r) PROVE RoomsAgree'
  <2>1. Agrees(r, Configured(r))
    BY ConfiguredAgrees
  <2> DEFINE going == [Configured(r) EXCEPT !.state = "leaving"]
  <2>2. going \in Observation /\ going.state = "leaving"
    BY <2>1 DEF Agrees, Observation, RoomStates
  <2> HIDE DEF going
  <2>3. /\ Change(r, going) /\ leaving' = leaving \cup {r}
        /\ witness' = Drop(witness, {r}) /\ UNCHANGED generation
    BY <1>8 DEF BeginLeave, ToState, going
  <2>4. /\ DOMAIN witness' \subseteq Rooms
        /\ \A s \in Rooms \ {r} : ConfirmedNow(s) => ConfirmedNow(s)'
    BY <1>1, <2>3 DEF ConfirmedNow, Drop
  <2> QED BY <1>1, <2>2, <2>3, <2>4, ChangeAgrees
<1>9. ASSUME NEW r \in Rooms, ForgetRoom(r) PROVE RoomsAgree'
  <2>1. /\ DOMAIN rooms' = DOMAIN rooms \ {r} /\ \A s \in DOMAIN rooms' : rooms'[s] = rooms[s]
        /\ leaving' = leaving \ {r} /\ UNCHANGED <<generation, witness>>
    BY <1>9 DEF ForgetRoom, Drop
  <2>2. ASSUME NEW s \in DOMAIN rooms' PROVE Agrees(s, rooms[s])'
    <3>1. Agrees(s, rooms[s]) /\ s # r
      BY <1>1, <2>1, <2>2
    <3> QED BY <2>1, <2>2, <3>1, SameWitness DEF Agrees, Observation
  <2> QED BY <1>1, <2>1, <2>2 DEF RoomsAgree, RoomsTypeOK, Agrees, Observation
<1>10. ASSUME NEW r \in Rooms, NEW seen \in 0..MaxRoomSessions, NEW given \in BOOLEAN,
              ConfirmSelfPresence(r, seen, given)
       PROVE  RoomsAgree'
  <2>1. (given => seen = generation) /\ UNCHANGED <<generation, leaving>>
    BY <1>10 DEF ConfirmSelfPresence, Confirms
  <2>2. CASE Configured(r).state = "leaving"
    <3>1. UNCHANGED <<rooms, witness>>
      BY <1>10, <2>2 DEF ConfirmSelfPresence
    <3> QED BY <2>1, <3>1 DEF RoomsAgree, RoomsTypeOK, ConfirmedNow
  <2>3. CASE Configured(r).state # "leaving"
    <3>1. Agrees(r, Configured(r))
      BY ConfiguredAgrees
    <3> DEFINE joined == [Configured(r) EXCEPT !.state = "joined", !.failures = 0]
               seenNow == [seen |-> seen, given |-> given, at |-> generation]
    <3>2. joined \in Observation /\ joined.state = "joined"
      BY <3>1 DEF Agrees, Observation, RoomStates
    <3>3. /\ seenNow.at = generation
          /\ seenNow.given => seenNow.seen = generation
      BY <2>1
    <3> HIDE DEF joined, seenNow
    <3>4. Change(r, joined) /\ witness' = Put(witness, r, seenNow)
      BY <1>10, <2>3 DEF ConfirmSelfPresence, joined, seenNow
    <3>5. /\ DOMAIN witness' = DOMAIN witness \cup {r} /\ witness'[r] = seenNow
          /\ \A s \in DOMAIN witness \ {r} : witness'[s] = witness[s]
      BY <3>4 DEF Put
    <3>6. /\ DOMAIN witness' \subseteq Rooms /\ ConfirmedNow(r)'
          /\ \A s \in Rooms \ {r} : ConfirmedNow(s) => ConfirmedNow(s)'
      BY <1>1, <2>1, <3>3, <3>5 DEF ConfirmedNow
    <3>7. r \notin leaving
      BY <2>3, <3>1 DEF Agrees
    <3> QED BY <1>1, <2>1, <3>2, <3>4, <3>6, <3>7, ChangeAgrees
  <2> QED BY <2>2, <2>3
<1>11. ASSUME NEW seen, NEW given, RefuseStale(seen, given) PROVE RoomsAgree'
  BY <1>11 DEF RefuseStale, roomVars, RoomsAgree, RoomsTypeOK, ConfirmedNow
<1> QED BY <1>2, <1>3, <1>4, <1>5, <1>7, <1>8, <1>9, <1>10, <1>11 DEF RoomsNext

\* A room is shown as joined only if its self-presence was confirmed since this
\* session began and no leave has begun since, by a presence of this session if
\* the caller gave the generation; and as leaving exactly while the application
\* wants to be out of it.
THEOREM RoomsAgreeAlways == RoomsSpec => []RoomsAgree
<1>1. RoomsInit => RoomsAgree
  BY DEF RoomsInit, RoomsAgree, RoomsTypeOK, Empty
<1>2. RoomsAgree /\ [RoomsNext]_roomVars => RoomsAgree'
  <2>1. RoomsAgree /\ UNCHANGED roomVars => RoomsAgree'
    BY DEF RoomsAgree, RoomsTypeOK, roomVars, ConfirmedNow
  <2> QED BY <2>1, AgreeStep
<1> QED BY <1>1, <1>2, PTL DEF RoomsSpec

-----------------------------------------------------------------------------
(***************************************************************************)
(* The confirmed join.                                                     *)
(***************************************************************************)
\* The types of the variables
JoinPlaces == JoinAwaits \cup Ends \cup {"called"}
Calls == [at : JoinPlaces, attempt : 0..MaxAttempts,
          joined : BOOLEAN, force : BOOLEAN, cleanup : BOOLEAN,
          api : {"waiter", "legacy", "none"}, entry : {"confirmed", "timed"}]
Waiters == {"none", "running", "cancelling", "ok", "raised", "cancelled"}
Pollers == {"none", "running", "cancelling", "true", "false", "ended"}
Stanzas == {"join", "leave"}
Troubles == [cancels : 0..MaxCancels, refused : BOOLEAN, leaveFailed : BOOLEAN]

\* Where the bot is once the service has handled the queue
InRoom(queue, now) == IF queue = <<>> THEN now ELSE queue[Len(queue)] = "join"

\* An attempt has sent its join and not taken it back.
Sent == \/ call.at \in {"racing", "confirming", "timing", "reaping", "expiring"}
        \/ call.at = "joined" /\ call.attempt > 0
        \/ call.at = "draining" /\ call.joined = TRUE

\* The clean-up after a failed attempt has succeeded.
Left == /\ call.at \in {"failed", "expired", "backoff"}
        /\ call.cleanup = TRUE /\ trouble.leaveFailed = FALSE

\* What was sent agrees with where the call is.
Settled ==
    /\ Sent => InRoom(stanzas, member) = TRUE \/ trouble.refused = TRUE
    /\ Left => InRoom(stanzas, member) = FALSE

\* Places where no waiter is alive
Resting == Ends \cup {"called", "leaving", "clearing", "starting", "cleaning", "backoff"}

\* Tasks are alive only where the call waits for them.
Placed ==
    /\ call.at \in Resting => ~Live(waiter)
    /\ call.at \in Resting \cup {"timing", "expiring", "draining"} => ~Live(poller)
    /\ call.at = "called" => call.attempt = 0
    /\ call.at = "backoff" => call.attempt < MaxAttempts

\* The inductive invariant
JoinIInv == JoinTypeOK /\ Placed /\ Settled

\* The variables one by one.
LEMMA Typed ==
    JoinTypeOK <=> /\ call \in Calls /\ waiter \in Waiters /\ poller \in Pollers
                   /\ stanzas \in Seq(Stanzas) /\ presences \in Seq(BOOLEAN)
                   /\ member \in BOOLEAN /\ mirror \in BOOLEAN /\ trouble \in Troubles
  BY DEF JoinTypeOK, Calls, JoinPlaces, Waiters, Pollers, Stanzas, Troubles

\* A change of one field leaves a typed call.
LEMMA CallFields ==
    ASSUME NEW c \in Calls, NEW place \in JoinPlaces, NEW n \in 0..MaxAttempts,
           NEW b \in BOOLEAN
    PROVE  /\ [c EXCEPT !.at = place] \in Calls
           /\ [c EXCEPT !.attempt = n] \in Calls
           /\ [c EXCEPT !.joined = b] \in Calls
  BY DEF Calls

\* A call that moves on to a place
Goes(place) ==
    /\ call' \in Calls /\ call'.at = place
    /\ call'.attempt = call.attempt /\ call'.joined = call.joined
    /\ call'.cleanup = call.cleanup /\ call'.entry = call.entry

\* A call that moves on changes where it is and nothing else.
LEMMA GoToGoes ==
    ASSUME call \in Calls, NEW place \in JoinPlaces, GoTo(place) PROVE Goes(place)
  BY CallFields DEF GoTo, Goes, Calls

\* An attempt starts with the clean-up, or without it.
LEMMA AttemptGoes ==
    ASSUME call \in Calls, NEW n \in 0..MaxAttempts, Attempt(n)
    PROVE  /\ call' \in Calls /\ call'.at \in {"leaving", "clearing"}
           /\ call'.attempt = n
<1> DEFINE place == IF LeavesFirst(n) THEN "leaving" ELSE "clearing"
           c1 == [call EXCEPT !.attempt = n]
           c2 == [c1 EXCEPT !.at = place]
<1>1. place \in {"leaving", "clearing"}
  OBVIOUS
<1> HIDE DEF place
<1>2. c1 \in Calls /\ c1.attempt = n
  BY DEF Calls
<1>3. call' = c2
  BY DEF Attempt, place, Calls
<1> HIDE DEF c1
<1>4. c2 \in Calls /\ c2.at = place /\ c2.attempt = n
  BY <1>1, <1>2 DEF Calls, JoinPlaces, JoinAwaits
<1> QED
  BY <1>1, <1>3, <1>4

\* A decision ends the poller and, unless it is over, reaps the waiter.
LEMMA DecideGoes ==
    ASSUME call \in Calls, NEW joined \in BOOLEAN, Decide(joined),
           waiter \in Waiters, poller \in Pollers
    PROVE  /\ call' \in Calls /\ call'.at \in {"reaping", "draining"}
           /\ call'.joined = joined
           /\ call'.at = "draining" => ~Live(poller')
           /\ waiter' \in Waiters /\ poller' \in Pollers
<1> DEFINE place == IF Live(poller) THEN "reaping" ELSE "draining"
           c1 == [call EXCEPT !.joined = joined]
           c2 == [c1 EXCEPT !.at = place]
<1>1. place \in {"reaping", "draining"} /\ (place = "draining" => ~Live(poller))
  OBVIOUS
<1>2. c1 \in Calls /\ c1.joined = joined
  BY DEF Calls
<1>3. call' = c2
  BY DEF Decide, Calls
<1> HIDE DEF c1, place
<1>4. c2 \in Calls /\ c2.at = place /\ c2.joined = joined
  BY <1>1, <1>2 DEF Calls, JoinPlaces, JoinAwaits
<1>5. /\ waiter' \in Waiters /\ poller' \in Pollers
      /\ ~Live(poller) => poller' = poller
  BY DEF Decide, CancelTask, Live, Waiters, Pollers
<1> QED
  BY <1>1, <1>3, <1>4, <1>5

\* The last stanza that was sent decides where the service will leave the bot.
LEMMA SendAppends ==
    ASSUME NEW queue \in Seq(Stanzas), NEW s \in Stanzas, NEW m
    PROVE  /\ Append(queue, s) \in Seq(Stanzas)
           /\ InRoom(Append(queue, s), m) = (s = "join")
  BY AppendProperties, LenProperties, EmptySeq DEF InRoom

\* A presence joins the queue of presences.
LEMMA PresenceAppended ==
    ASSUME NEW queue \in Seq(BOOLEAN), NEW b \in BOOLEAN
    PROVE  Append(queue, b) \in Seq(BOOLEAN)
  BY AppendProperties

\* Serving a stanza does not change where the service will leave the bot,
\* unless it refuses a join.
LEMMA ServeTakes ==
    ASSUME NEW queue \in Seq(Stanzas), queue # <<>>, NEW m, NEW n \in BOOLEAN
    PROVE  /\ Tail(queue) \in Seq(Stanzas)
           /\ n = (Head(queue) = "join") => InRoom(Tail(queue), n) = InRoom(queue, m)
           /\ Head(queue) = "join" /\ InRoom(queue, m) = FALSE =>
                 InRoom(Tail(queue), n) = FALSE
<1>1. /\ Tail(queue) \in Seq(Stanzas) /\ Len(Tail(queue)) = Len(queue) - 1
      /\ Head(queue) = queue[1] /\ Len(queue) \in Nat \ {0}
      /\ \A i \in 1..Len(Tail(queue)) : Tail(queue)[i] = queue[i + 1]
  BY HeadTailProperties, LenProperties, EmptySeq
<1>2. CASE Len(queue) = 1
  <2>1. Len(Tail(queue)) = 0
    BY <1>1, <1>2
  <2>2. Tail(queue) = <<>>
    BY <1>1, <2>1, EmptySeq
  <2> QED
    BY <1>1, <1>2, <2>2 DEF InRoom
<1>3. CASE Len(queue) > 1
  <2>1. Len(Tail(queue)) # 0 /\ Tail(queue)[Len(Tail(queue))] = queue[Len(queue)]
    BY <1>1, <1>3
  <2>2. Tail(queue) # <<>>
    BY <1>1, <2>1, EmptySeq
  <2> QED
    BY <1>1, <2>1, <2>2 DEF InRoom
<1>4. Len(queue) = 1 \/ Len(queue) > 1
  BY <1>1
<1> QED
  BY <1>1, <1>2, <1>3, <1>4

\* A call begins with nothing sent.
LEMMA JoinStarts == JoinInit => JoinIInv
<1> SUFFICES ASSUME JoinInit PROVE JoinIInv
  OBVIOUS
<1>1. JoinTypeOK
  <2>1. call \in Calls
    <3>1. 0 \in 0..MaxAttempts
      BY JoinAssumption DEF JoinAssumption
    <3> HIDE DEF JoinPlaces
    <3>2. "called" \in JoinPlaces
      BY DEF JoinPlaces
    <3> QED
      BY <3>1, <3>2 DEF JoinInit, Calls
  <2>2. trouble \in Troubles
    BY JoinAssumption DEF JoinInit, Troubles, JoinAssumption
  <2>3. stanzas \in Seq(Stanzas) /\ presences \in Seq(BOOLEAN)
    BY EmptySeq DEF JoinInit
  <2> QED
    BY <2>1, <2>2, <2>3, Typed DEF JoinInit, Waiters, Pollers
<1>2. Placed /\ Settled
  BY DEF JoinInit, Placed, Settled, Sent, Left, Live
<1> QED
  BY <1>1, <1>2 DEF JoinIInv

\* After a failed attempt another follows, or the call is over.
LEMMA OnwardPlace ==
    ASSUME call \in Calls
    PROVE  /\ Onward \in {"expired", "backoff", "failed"}
           /\ Onward = "backoff" => call.attempt < MaxAttempts
  BY DEF Onward

\* Every step keeps the invariant: the call's own, the service's and those of
\* the callers that cancel it.
LEMMA JoinStep ==
    ASSUME JoinIInv, JoinNext PROVE JoinIInv'
<1> USE JoinAssumption DEF JoinAssumption
<1>0. /\ call \in Calls /\ waiter \in Waiters /\ poller \in Pollers
      /\ stanzas \in Seq(Stanzas) /\ presences \in Seq(BOOLEAN)
      /\ member \in BOOLEAN /\ mirror \in BOOLEAN /\ trouble \in Troubles
      /\ Placed /\ Settled
  BY Typed DEF JoinIInv
<1>t. ASSUME call' \in Calls, waiter' \in Waiters, poller' \in Pollers,
             stanzas' \in Seq(Stanzas), presences' \in Seq(BOOLEAN),
             member' \in BOOLEAN, mirror' \in BOOLEAN, trouble' \in Troubles,
             Placed', Settled'
      PROVE  JoinIInv'
  BY <1>t DEF JoinIInv, JoinTypeOK, Calls, JoinPlaces, Waiters, Pollers, Stanzas, Troubles
<1> USE DEF JoinPlaces, JoinAwaits, Ends, Resting
<1>1. CASE Call
  <2>0. call.at = "called" /\ UNCHANGED <<waiter, poller, room, mirror, trouble>>
    BY <1>1 DEF Call
  <2>1. CASE GoTo("joined")
    <3>1. Goes("joined")
      BY <1>0, <2>1, GoToGoes
    <3>2. Placed'
      BY <1>0, <2>0, <3>1 DEF Goes, Placed, room
    <3>3. Settled'
      BY <1>0, <2>0, <3>1 DEF Goes, Placed, Settled, Sent, Left, room
    <3> QED
      BY <1>0, <1>t, <2>0, <3>1, <3>2, <3>3 DEF Goes, room
  <2>2. CASE Attempt(1)
    <3>1. /\ call' \in Calls /\ call'.at \in {"leaving", "clearing"}
      BY <1>0, <2>2, AttemptGoes
    <3> QED
      BY <1>0, <1>t, <2>0, <3>1 DEF Placed, Settled, Sent, Left, room
  <2>3. CASE call' = [call EXCEPT !.at = "starting", !.attempt = 1]
    <3> DEFINE c1 == [call EXCEPT !.attempt = 1]
    <3>1. c1 \in Calls
      BY <1>0 DEF Calls
    <3>2. call' = [c1 EXCEPT !.at = "starting"]
      BY <1>0, <2>3 DEF Calls
    <3> HIDE DEF c1
    <3>3. call' \in Calls /\ call'.at = "starting"
      BY <3>1, <3>2 DEF Calls
    <3> QED
      BY <1>0, <1>t, <2>0, <3>3 DEF Placed, Settled, Sent, Left, room
  <2> QED
    BY <1>1, <2>1, <2>2, <2>3 DEF Call
<1>2. CASE Leave
  <2>1. PICK place : /\ place = IF call.at = "leaving" THEN "clearing" ELSE Onward
                     /\ GoTo(place) /\ place \in JoinPlaces
                     /\ place \in {"clearing", "expired", "failed", "backoff"}
                     /\ place = "backoff" => call.attempt < MaxAttempts
    BY <1>0, <1>2, OnwardPlace DEF Leave
  <2>2. Goes(place)
    BY <1>0, <2>1, GoToGoes
  <2>3. UNCHANGED <<waiter, poller, presences, member, mirror>> /\ call.at \in {"leaving", "cleaning"}
    BY <1>2 DEF Leave
  <2>4. Placed'
    BY <1>0, <2>1, <2>2, <2>3 DEF Goes, Placed
  <2>5. CASE Send("leave") /\ UNCHANGED trouble
    <3>1. stanzas' \in Seq(Stanzas) /\ InRoom(stanzas', member') = FALSE
      BY <1>0, <2>5, SendAppends DEF Send, Stanzas
    <3>2. Settled'
      BY <2>1, <2>2, <3>1 DEF Goes, Settled, Sent, Left
    <3> QED
      BY <1>0, <1>t, <2>2, <2>3, <2>4, <2>5, <3>1, <3>2 DEF Goes
  <2>6. CASE UNCHANGED stanzas /\ trouble' = [trouble EXCEPT !.leaveFailed = TRUE]
    <3>1. trouble' \in Troubles /\ trouble'.leaveFailed = TRUE
      BY <1>0, <2>6 DEF Troubles
    <3>2. Settled'
      BY <2>1, <2>2, <3>1 DEF Goes, Settled, Sent, Left
    <3> QED
      BY <1>0, <1>t, <2>2, <2>3, <2>4, <2>6, <3>1, <3>2 DEF Goes
  <2> QED
    BY <1>2, <2>5, <2>6 DEF Leave
<1>3. CASE Clear
  <2>1. Goes("starting") /\ call.at = "clearing" /\ mirror' \in BOOLEAN
         /\ UNCHANGED <<waiter, poller, room, trouble>>
    <3>1. GoTo("starting")
      BY <1>3 DEF Clear
    <3>2. mirror' = FALSE \/ mirror' = mirror
      BY <1>3 DEF Clear
    <3>3. call.at = "clearing" /\ UNCHANGED <<waiter, poller, room, trouble>>
      BY <1>3 DEF Clear
    <3> QED BY <1>0, <1>t, <3>1, <3>2, <3>3, GoToGoes
  <2> QED
    BY <1>0, <1>t, <2>1 DEF Goes, Placed, Settled, Sent, Left, room
<1>4. CASE Start
  <2>1. /\ call.at = "starting" /\ Send("join")
        /\ waiter' = (IF call.api = "none" THEN "none" ELSE "running")
        /\ UNCHANGED <<presences, member, mirror, trouble>>
    BY <1>4 DEF Start
  <2>2. stanzas' \in Seq(Stanzas) /\ InRoom(stanzas', member') = TRUE
    BY <1>0, <2>1, SendAppends DEF Send, Stanzas
  <2>3. PICK place : /\ GoTo(place) /\ place \in {"joined", "timing", "confirming", "racing"}
                     /\ place \in {"joined", "timing"} => UNCHANGED poller
                     /\ place = "joined" => waiter' = "none"
                     /\ poller' \in {poller, "running"}
    BY <1>4 DEF Start
  <2>4. Goes(place)
    BY <1>0, <2>3, GoToGoes
  <2>5. Placed'
    BY <1>0, <2>1, <2>3, <2>4 DEF Goes, Placed, Live
  <2>6. Settled'
    BY <2>2, <2>3, <2>4 DEF Goes, Settled, Left, Live
  <2>7. waiter' \in Waiters /\ poller' \in Pollers
    BY <1>0, <2>1, <2>3 DEF Waiters, Pollers
  <2> QED
    BY <1>0, <1>t, <2>1, <2>2, <2>4, <2>5, <2>6, <2>7 DEF Goes
<1>6. CASE Presence
  <2>1. Decide(poller = "true") /\ call.at \in {"racing", "confirming"}
         /\ UNCHANGED <<room, mirror, trouble>>
    BY <1>6 DEF Presence
  <2>2. PICK b \in BOOLEAN : b = (poller = "true") /\ Decide(b)
    BY <2>1
  <2>3. /\ call' \in Calls /\ call'.at \in {"reaping", "draining"}
        /\ call'.at = "draining" => ~Live(poller')
        /\ waiter' \in Waiters /\ poller' \in Pollers
    BY <1>0, <2>2, DecideGoes
  <2> QED
    BY <1>0, <1>t, <2>1, <2>3 DEF Placed, Settled, Sent, Left, Live, room
<1>7. CASE WaiterFirst
  <2>1. call.at = "racing" /\ UNCHANGED <<room, mirror, trouble>>
    BY <1>7 DEF WaiterFirst
  <2>2. CASE \E b \in BOOLEAN : Decide(b)
    <3>1. /\ call' \in Calls /\ call'.at \in {"reaping", "draining"}
          /\ call'.at = "draining" => ~Live(poller')
          /\ waiter' \in Waiters /\ poller' \in Pollers
      BY <1>0, <2>2, DecideGoes
    <3> QED
      BY <1>0, <1>t, <2>1, <3>1 DEF Placed, Settled, Sent, Left, Live, room
  <2>3. CASE GoTo("confirming") /\ UNCHANGED <<waiter, poller>>
    <3>1. Goes("confirming")
      BY <1>0, <2>3, GoToGoes
    <3> QED
      BY <1>0, <1>t, <2>1, <2>3, <3>1 DEF Goes, Placed, Settled, Sent, Left, room
  <2> QED
    BY <1>0, <1>7, <2>2, <2>3 DEF WaiterFirst
<1>8. CASE Reap
  <2>1. /\ call.at = "reaping" /\ ~Live(poller) /\ Goes("draining")
        /\ waiter' = CancelTask(waiter) /\ UNCHANGED <<poller, room, mirror, trouble>>
    BY <1>0, <1>8, GoToGoes DEF Reap
  <2>2. waiter' \in Waiters
    BY <1>0, <2>1 DEF CancelTask, Waiters
  <2> QED
    BY <1>0, <1>t, <2>1, <2>2 DEF Goes, Placed, Settled, Sent, Left, Live, room
<1>9. CASE Drained
  <2>1. PICK place : /\ place = IF call.joined THEN "joined" ELSE IF call.cleanup THEN "cleaning" ELSE Onward
                     /\ GoTo(place) /\ place \in JoinPlaces
    BY <1>0, <1>9, OnwardPlace DEF Drained
  <2>2. Goes(place)
    BY <1>0, <2>1, GoToGoes
  <2>3. /\ call.at = "draining" /\ waiter' = "none" /\ poller' = "none"
        /\ UNCHANGED <<room, mirror, trouble>>
    BY <1>9 DEF Drained
  <2>4. /\ place \in {"joined", "cleaning", "expired", "backoff", "failed"}
        /\ place = "joined" => call.joined = TRUE
        /\ place = "backoff" => call.attempt < MaxAttempts
        /\ place \in {"expired", "backoff", "failed"} => call.cleanup = FALSE
    BY <1>0, <2>1, OnwardPlace DEF Calls
  <2>5. Placed'
    BY <2>2, <2>3, <2>4 DEF Goes, Placed, Live
  <2>6. Settled'
    BY <1>0, <2>2, <2>3, <2>4 DEF Goes, Settled, Sent, Left, room
  <2> QED
    BY <1>0, <1>t, <2>2, <2>3, <2>5, <2>6 DEF Goes, room, Waiters, Pollers
<1>10. CASE StartRaises
  <2>1. /\ call.at = "starting" /\ waiter' = "none" /\ poller' = "none"
        /\ UNCHANGED <<room, mirror, trouble>>
    BY <1>10 DEF StartRaises
  <2>2. CASE GoTo("raised")
    <3>1. Goes("raised")
      BY <1>0, <2>2, GoToGoes
    <3> QED
      BY <1>0, <1>t, <2>1, <3>1 DEF Goes, Placed, Settled, Sent, Left, Live, room, Waiters, Pollers
  <2>3. CASE call' = [call EXCEPT !.at = "draining", !.joined = FALSE]
    <3> DEFINE c1 == [call EXCEPT !.joined = FALSE]
    <3>1. c1 \in Calls /\ c1.joined = FALSE
      BY <1>0 DEF Calls
    <3>2. call' = [c1 EXCEPT !.at = "draining"]
      BY <1>0, <2>3 DEF Calls
    <3> HIDE DEF c1
    <3>3. call' \in Calls /\ call'.at = "draining" /\ call'.joined = FALSE
      BY <3>1, <3>2 DEF Calls
    <3> QED
      BY <1>0, <1>t, <2>1, <3>3 DEF Placed, Settled, Sent, Left, Live, room, Waiters, Pollers
  <2> QED
    BY <1>10, <2>2, <2>3 DEF StartRaises
<1>11. CASE Retry
  <2>1. call.at = "backoff" /\ Attempt(call.attempt + 1)
         /\ UNCHANGED <<waiter, poller, room, mirror, trouble>>
    BY <1>11 DEF Retry
  <2>2. call.attempt + 1 \in 0..MaxAttempts
    BY <1>0, <2>1 DEF Placed, Calls
  <2>3. call' \in Calls /\ call'.at \in {"leaving", "clearing"}
    BY <1>0, <2>1, <2>2, AttemptGoes
  <2> QED
    BY <1>0, <1>t, <2>1, <2>3 DEF Placed, Settled, Sent, Left, room
<1>12. CASE TimedEnds
  <2>1. /\ call.at \in {"timing", "expiring"} /\ ~Live(waiter)
        /\ UNCHANGED <<waiter, poller, room, mirror, trouble>>
    BY <1>12 DEF TimedEnds
  <2>2. ASSUME NEW place \in {"joined", "raised"}, GoTo(place) PROVE JoinIInv'
    <3>1. Goes(place)
      BY <1>0, <2>2, GoToGoes
    <3> QED
      BY <1>0, <1>t, <2>1, <3>1 DEF Goes, Placed, Settled, Sent, Left, room
  <2>3. CASE TimedOut
    <3>1. PICK place : /\ place = IF call.cleanup THEN "cleaning" ELSE "expired"
                       /\ GoTo(place)
      BY <2>3 DEF TimedOut
    <3>2. place \in {"cleaning", "expired"} /\ (place = "expired" => call.cleanup = FALSE)
      BY <1>0, <3>1 DEF Calls
    <3>3. Goes(place)
      BY <1>0, <3>1, <3>2, GoToGoes
    <3> QED
      BY <1>0, <1>t, <2>1, <3>2, <3>3 DEF Goes, Placed, Settled, Sent, Left, room
  <2> QED BY <1>12, <2>2, <2>3 DEF TimedEnds
<1>13. CASE TimeExpires
  <2>1. Goes("expiring") /\ call.at = "timing" /\ waiter' = CancelTask(waiter)
         /\ UNCHANGED <<poller, room, mirror, trouble>>
    BY <1>0, <1>13, GoToGoes DEF TimeExpires
  <2>2. waiter' \in Waiters
    BY <1>0, <2>1 DEF CancelTask, Waiters
  <2> QED
    BY <1>0, <1>t, <2>1, <2>2 DEF Goes, Placed, Settled, Sent, Left, room
<1>15. CASE UnwindWaiter
  <2>1. waiter' = "cancelling" /\ call.at = "unwinding"
         /\ UNCHANGED <<call, poller, room, mirror, trouble>>
    BY <1>15 DEF UnwindWaiter
  <2> QED
    BY <1>0, <1>t, <2>1 DEF Placed, Settled, Sent, Left, room, Waiters
<1>16. CASE Unwound
  <2>1. Goes("cancelled") /\ ~Live(poller) /\ ~Live(waiter)
         /\ UNCHANGED <<waiter, poller, room, mirror, trouble>>
    BY <1>0, <1>16, GoToGoes DEF Unwound
  <2> QED
    BY <1>0, <1>t, <2>1 DEF Goes, Placed, Settled, Sent, Left, room
<1>c. ASSUME CancelCounted
      PROVE  trouble' \in Troubles /\ trouble'.refused = trouble.refused
              /\ trouble'.leaveFailed = trouble.leaveFailed
  BY <1>0, <1>c DEF CancelCounted, Troubles
<1>17. CASE CancelledIdle
  <2>1. /\ call.at \in {"leaving", "clearing", "cleaning", "backoff"} /\ CancelCounted
        /\ Goes("cancelled") /\ UNCHANGED <<waiter, poller, presences, member, mirror>>
    BY <1>0, <1>17, GoToGoes DEF CancelledIdle
  <2>2. stanzas' \in Seq(Stanzas)
    BY <1>0, <1>17, SendAppends DEF CancelledIdle, Send, Stanzas
  <2> QED
    BY <1>0, <1>t, <1>c, <2>1, <2>2 DEF Goes, Placed, Settled, Sent, Left
<1>18. CASE CancelledBusy
  <2>1. /\ CancelCounted /\ Goes("unwinding") /\ UNCHANGED <<room, mirror>>
        /\ poller' = CancelTask(poller)
        /\ waiter' \in {waiter, CancelTask(waiter)}
    BY <1>0, <1>18, GoToGoes DEF CancelledBusy
  <2>2. waiter' \in Waiters /\ poller' \in Pollers
    BY <1>0, <2>1 DEF CancelTask, Waiters, Pollers
  <2> QED
    BY <1>0, <1>t, <1>c, <2>1, <2>2 DEF Goes, Placed, Settled, Sent, Left, room
<1>19. CASE CancelSwallowed
  <2>1. CancelCounted /\ UNCHANGED <<call, waiter, poller, room, mirror>>
    BY <1>19 DEF CancelSwallowed
  <2> QED
    BY <1>0, <1>t, <1>c, <2>1 DEF Placed, Settled, Sent, Left, room
<1>20. CASE WaiterEnds
  BY <1>0, <1>t, <1>20 DEF WaiterEnds, Placed, Settled, Sent, Left, Live, room, Waiters
<1>21. CASE Poll
  <2>1. Live(poller) /\ poller' \in {"true", "false", "ended"}
         /\ UNCHANGED <<call, waiter, room, mirror, trouble>>
    BY <1>21 DEF Poll
  <2> QED
    BY <1>0, <1>t, <2>1 DEF Placed, Settled, Sent, Left, Live, room, Pollers
<1>22. CASE ServeLeave
  <2>1. /\ stanzas # <<>> /\ Head(stanzas) = "leave" /\ stanzas' = Tail(stanzas)
        /\ member' = FALSE /\ UNCHANGED <<call, waiter, poller, mirror, trouble>>
        /\ presences' \in Seq(BOOLEAN)
    BY <1>0, <1>22, AppendProperties DEF ServeLeave
  <2>2. stanzas' \in Seq(Stanzas) /\ InRoom(stanzas', member') = InRoom(stanzas, member)
    BY <1>0, <2>1, ServeTakes
  <2> QED
    BY <1>0, <1>t, <2>1, <2>2 DEF Placed, Settled, Sent, Left
<1>23. CASE ServeJoin
  <2>1. /\ stanzas # <<>> /\ Head(stanzas) = "join" /\ stanzas' = Tail(stanzas)
        /\ UNCHANGED <<call, waiter, poller, mirror>>
    BY <1>23 DEF ServeJoin
  <2>a. stanzas' \in Seq(Stanzas)
    BY <1>0, <2>1, ServeTakes
  <2>b. presences' \in Seq(BOOLEAN)
    <3>1. presences \in Seq(BOOLEAN)
      BY <1>0
    <3>2. presences' = presences \/ presences' = Append(presences, TRUE)
      BY <1>23 DEF ServeJoin
    <3>3. Append(presences, TRUE) \in Seq(BOOLEAN)
      BY <3>1, PresenceAppended
    <3> QED
      BY <3>1, <3>2, <3>3
  <2>2. CASE member' = TRUE /\ UNCHANGED trouble
    <3>1. InRoom(stanzas', member') = InRoom(stanzas, member)
      BY <1>0, <2>1, <2>2, ServeTakes
    <3> QED
      BY <1>0, <1>t, <2>a, <2>b, <2>1, <2>2, <3>1 DEF Placed, Settled, Sent, Left
  <2>3. CASE UNCHANGED member /\ trouble' = [trouble EXCEPT !.refused = TRUE]
    <3>1. trouble' \in Troubles /\ trouble'.refused = TRUE /\ trouble'.leaveFailed = trouble.leaveFailed
      BY <1>0, <2>3 DEF Troubles
    <3>2. InRoom(stanzas, member) = FALSE => InRoom(stanzas', member') = FALSE
      BY <1>0, <2>1, <2>3, ServeTakes
    <3> QED
      BY <1>0, <1>t, <2>a, <2>b, <2>1, <2>3, <3>1, <3>2 DEF Placed, Settled, Sent, Left
  <2> QED
    BY <1>23, <2>2, <2>3 DEF ServeJoin
<1>24. CASE Arrive
  <2>1. mirror' \in BOOLEAN /\ presences' \in Seq(BOOLEAN)
         /\ UNCHANGED <<call, waiter, poller, stanzas, member, trouble>>
    BY <1>0, <1>24, HeadTailProperties DEF Arrive
  <2> QED
    BY <1>0, <1>t, <2>1 DEF Placed, Settled, Sent, Left
<1> QED
  BY <1>1, <1>2, <1>3, <1>4, <1>6, <1>7, <1>8, <1>9, <1>10, <1>11, <1>12, <1>13,
     <1>15, <1>16, <1>17, <1>18, <1>19, <1>20, <1>21, <1>22, <1>23, <1>24
  DEF JoinNext, CallerStep

\* For any number of attempts and cancellations and any timing of the answers:
\* a call leaves no task behind, a join that it reports sticks unless the
\* server refused it, and a failure with clean-up leaves no occupant unless the
\* leave failed (join_muc_confirmed).
THEOREM OutcomesAlwaysHold == JoinSpec => []OutcomeHolds
<1>1. JoinIInv /\ [JoinNext]_joinVars => JoinIInv'
  <2>1. JoinIInv /\ UNCHANGED joinVars => JoinIInv'
    BY DEF JoinIInv, JoinTypeOK, Placed, Settled, Sent, Left, joinVars
  <2> QED
    BY <2>1, JoinStep
<1>2. JoinIInv => OutcomeHolds
  <2> SUFFICES ASSUME JoinIInv PROVE OutcomeHolds
    OBVIOUS
  <2>1. TasksConsumed
    BY DEF JoinIInv, Placed, Resting, TasksConsumed
  <2>2. JoinedSticks
    BY Typed DEF JoinIInv, Settled, Sent, InRoom, JoinedSticks, Troubles
  <2>3. FailureLeavesRoom
    BY Typed DEF JoinIInv, Settled, Left, InRoom, FailureLeavesRoom, Troubles, Calls
  <2> QED
    BY <2>1, <2>2, <2>3 DEF OutcomeHolds, JoinInv, JoinIInv
<1> QED
  BY <1>1, <1>2, JoinStarts, PTL DEF JoinSpec
=============================================================================
