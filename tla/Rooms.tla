-------------------------------- MODULE Rooms --------------------------------
(***************************************************************************)
(* RoomLifecycleRegistry of runtime/rooms.py.  The application calls it    *)
(* from presence handlers, join tasks and commands, in any order, and      *)
(* before the first session too.  A self-presence may belong to a session  *)
(* that has ended; the caller gives its generation or leaves it out.       *)
(* Methods have no await, so each is one step.  Nicks, reasons and retry   *)
(* times are left out: a room has a nick exactly while it is joined, and a *)
(* confirmation without a nick raises and only configures the room.        *)
(***************************************************************************)
EXTENDS Tables, Naturals

CONSTANTS
    Rooms,          \* normalised room JIDs
    MaxRoomSessions,\* bound: sessions
    MaxRoomEvents   \* bound: attempts and failures of a room in a session

ASSUME RoomsAssumption == MaxRoomSessions \in Nat /\ MaxRoomEvents \in Nat \ {0}

VARIABLES
    generation,  \* _generation
    rooms,       \* _rooms
    witness,     \* history: the last confirmation of each room not left since: the
                 \* generations of its stanza and of the registry, and whether the
                 \* caller gave the first
    leaving      \* history: rooms the application has asked to leave

roomVars == <<generation, rooms, witness, leaving>>

RoomStates == {"configured", "joining", "joined", "degraded", "failed", "deferred", "leaving"}

Fresh == [state |-> "configured", generation |-> generation, attempts |-> 0, failures |-> 0]

\* configure(room), the first thing most methods do
Configured(r) == IF r \in DOMAIN rooms THEN rooms[r] ELSE Fresh

\* _change
Change(r, changed) == rooms' = Put(rooms, r, [changed EXCEPT !.generation = generation])

ToState(r, state) == Change(r, [Configured(r) EXCEPT !.state = state])

Configure(r) ==
    /\ rooms' = Put(rooms, r, Configured(r))
    /\ UNCHANGED <<generation, witness, leaving>>

BeginJoin(r) ==
    /\ Configured(r).attempts < MaxRoomEvents
    /\ Change(r, [Configured(r) EXCEPT !.state = "joining", !.attempts = @ + 1])
    /\ leaving' = leaving \ {r}
    /\ UNCHANGED <<generation, witness>>

\* A generation that is given must be the current one.
Confirms(seen, given) == given => seen = generation

\* confirm_self_presence of a stanza of the session "seen"
ConfirmSelfPresence(r, seen, given) ==
    /\ Confirms(seen, given)
    /\ IF Configured(r).state = "leaving"
       THEN rooms' = rooms /\ UNCHANGED witness
       ELSE /\ Change(r, [Configured(r) EXCEPT !.state = "joined", !.failures = 0])
            /\ witness' = Put(witness, r, [seen |-> seen, given |-> given, at |-> generation])
    /\ UNCHANGED <<generation, leaving>>

\* A late result of an earlier session is refused before anything is done.
RefuseStale(seen, given) ==
    /\ ~Confirms(seen, given)
    /\ UNCHANGED roomVars

\* mark_degraded, mark_failed and mark_deferred respect a leave.
Mark(r, change) ==
    /\ IF Configured(r).state = "leaving"
       THEN rooms' = Put(rooms, r, Configured(r))
       ELSE Change(r, change)
    /\ UNCHANGED <<generation, witness, leaving>>

MarkDegraded(r) == Mark(r, [Configured(r) EXCEPT !.state = "degraded"])

MarkDeferred(r) == Mark(r, [Configured(r) EXCEPT !.state = "deferred"])

MarkRoomFailed(r) ==
    /\ Configured(r).failures < MaxRoomEvents
    /\ Mark(r, [Configured(r) EXCEPT !.state = "failed", !.failures = @ + 1])

BeginLeave(r) ==
    /\ ToState(r, "leaving")
    /\ witness' = Drop(witness, {r})
    /\ leaving' = leaving \cup {r}
    /\ UNCHANGED generation

ForgetRoom(r) ==
    /\ rooms' = Drop(rooms, {r})
    /\ leaving' = leaving \ {r}
    /\ UNCHANGED <<generation, witness>>

\* Fault: what was joined stays joined.
ResetKeepsJoined(observation) ==
    [state |-> IF observation.state \in {"leaving", "joined"} THEN observation.state
               ELSE "configured",
     generation |-> generation + 1, attempts |-> 0, failures |-> 0]

\* Only the intention to leave outlives a session.
Reset(observation) ==
    [state |-> IF observation.state = "leaving" THEN "leaving" ELSE "configured",
     generation |-> generation + 1, attempts |-> 0, failures |-> 0]

NewSession ==
    /\ generation < MaxRoomSessions
    /\ generation' = generation + 1
    /\ rooms' = [r \in DOMAIN rooms |-> Reset(rooms[r])]
    /\ UNCHANGED <<witness, leaving>>

ClearRooms ==
    /\ rooms' = Empty
    /\ leaving' = {}
    /\ UNCHANGED <<generation, witness>>

RoomsInit ==
    /\ generation = 0
    /\ rooms = Empty
    /\ witness = Empty
    /\ leaving = {}

RoomsNext ==
    \/ NewSession \/ ClearRooms
    \/ \E r \in Rooms :
          \/ Configure(r) \/ BeginJoin(r) \/ MarkDegraded(r) \/ MarkDeferred(r)
          \/ MarkRoomFailed(r) \/ BeginLeave(r) \/ ForgetRoom(r)
          \/ \E seen \in 0..MaxRoomSessions, given \in BOOLEAN :
                /\ seen <= generation
                /\ ConfirmSelfPresence(r, seen, given) \/ RefuseStale(seen, given)

RoomsSpec == RoomsInit /\ [][RoomsNext]_roomVars

-----------------------------------------------------------------------------
(***************************************************************************)
(* Properties.                                                             *)
(***************************************************************************)
RoomsTypeOK ==
    /\ generation \in Nat
    /\ DOMAIN rooms \subseteq Rooms
    /\ \A r \in DOMAIN rooms :
          rooms[r] \in [state : RoomStates, generation : {generation},
                        attempts : Nat, failures : Nat]
    /\ DOMAIN witness \subseteq Rooms
    /\ leaving \subseteq Rooms

ConfirmedNow(r) ==
    /\ r \in DOMAIN witness /\ witness[r].at = generation
    /\ witness[r].given => witness[r].seen = generation

\* Whatever results arrive late and in whichever order, a room is shown as
\* joined only if its self-presence was confirmed since this session began and no
\* leave has begun since; the presence itself is of this session if the caller
\* gave its generation, which is what the parameter is for.  A room is leaving
\* exactly while the application wants to be out of it, across sessions.
RoomsAgree ==
    /\ RoomsTypeOK
    /\ \A r \in DOMAIN rooms :
          /\ rooms[r].state = "joined" => ConfirmedNow(r)
          /\ rooms[r].state = "leaving" <=> r \in leaving
    /\ leaving \subseteq DOMAIN rooms
=============================================================================
