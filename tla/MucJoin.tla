------------------------------- MODULE MucJoin -------------------------------
(***************************************************************************)
(* One join of a room: join_muc_confirmed, join_muc_with_timeout and       *)
(* await_muc_join_compat of xmpp/muc_join.py, with the two tasks that the  *)
(* first one races, and the room's server.                                 *)
(*                                                                         *)
(* The caller stands at one of the awaits of the source (JoinAwaits).  The *)
(* waiter is Slixmpp's join coroutine: it sends its stanza when it starts, *)
(* which is before the caller resumes, and ends as it likes.  The poller   *)
(* is wait_for_muc_self_presence: the predicate decides, its event only    *)
(* shortens the poll and is left out; its deadline may pass at any time.   *)
(* Stanzas and presences travel in order.  The server may refuse a join.   *)
(***************************************************************************)
EXTENDS Naturals, Sequences

CONSTANTS
    MaxAttempts,  \* retries
    MaxCancels    \* bound: cancellations of the call

ASSUME JoinAssumption == MaxAttempts \in Nat \ {0} /\ MaxCancels \in Nat

VARIABLES
    call,       \* the call: options, attempt and where it is
    waiter,     \* join_task
    poller,     \* presence_task
    stanzas,    \* external: on their way to the server
    presences,  \* external: on their way back
    member,     \* external: the server has the bot in the room
    mirror,     \* is_joined()
    trouble     \* history: cancellations, a refused join, a failed leave

joinVars == <<call, waiter, poller, stanzas, presences, member, mirror, trouble>>
room == <<stanzas, presences, member>>

JoinAwaits == {"leaving", "clearing", "starting", "racing", "confirming", "timing",
               "reaping", "draining", "expiring", "cleaning", "backoff", "unwinding"}
Ends == {"joined", "failed", "expired", "raised", "cancelled"}

JoinOver == call.at \in Ends

Live(task) == task \in {"running", "cancelling"}

\* task.cancel(), if it is not done
CancelTask(task) == IF task = "running" THEN "cancelling" ELSE task

GoTo(place) == call' = [call EXCEPT !.at = place]

Send(stanza) == stanzas' = Append(stanzas, stanza)

-----------------------------------------------------------------------------
(***************************************************************************)
(* Attempts.                                                               *)
(***************************************************************************)
\* A leave precedes the attempt.
LeavesFirst(n) == (call.force /\ n = 1) \/ (n > 1 /\ ~call.cleanup)

Attempt(n) ==
    call' = [call EXCEPT !.attempt = n,
                         !.at = IF LeavesFirst(n) THEN "leaving" ELSE "clearing"]

Call ==
    /\ call.at = "called"
    /\ \/ call.entry = "confirmed" /\ ~call.force /\ mirror /\ GoTo("joined")
       \/ call.entry = "confirmed" /\ (call.force \/ ~mirror) /\ Attempt(1)
       \/ call.entry = "timed" /\ call' = [call EXCEPT !.at = "starting", !.attempt = 1]
    /\ UNCHANGED <<waiter, poller, room, mirror, trouble>>

\* Where the call goes on when an attempt has come to nothing.
Onward == IF call.entry = "timed" THEN "expired"
         ELSE IF call.attempt < MaxAttempts THEN "backoff" ELSE "failed"

\* _best_effort_leave, before an attempt or after it
Leave ==
    /\ call.at \in {"leaving", "cleaning"}
    /\ \/ Send("leave") /\ UNCHANGED trouble
       \/ UNCHANGED stanzas /\ trouble' = [trouble EXCEPT !.leaveFailed = TRUE]
    /\ GoTo(IF call.at = "leaving" THEN "clearing" ELSE Onward)
    /\ UNCHANGED <<waiter, poller, presences, member, mirror>>

\* clear_state(), after the leave_delay, if the caller has one
Clear ==
    /\ call.at = "clearing"
    /\ mirror' = FALSE \/ UNCHANGED mirror
    /\ GoTo("starting")
    /\ UNCHANGED <<waiter, poller, room, trouble>>

\* start_muc_join_task and the presence task
Start ==
    /\ call.at = "starting"
    /\ Send("join")
    /\ waiter' = IF call.api = "none" THEN "none" ELSE "running"
    /\ IF call.entry = "timed"
       THEN GoTo(IF call.api = "none" THEN "joined" ELSE "timing") /\ UNCHANGED poller
       ELSE GoTo(IF call.api = "none" THEN "confirming" ELSE "racing") /\ poller' = "running"
    /\ UNCHANGED <<presences, member, mirror, trouble>>

\* The plugin raises before it sends anything.
StartRaises ==
    /\ call.at = "starting"
    /\ IF call.entry = "timed" THEN GoTo("raised")
       ELSE call' = [call EXCEPT !.at = "draining", !.joined = FALSE]
    /\ waiter' = "none" /\ poller' = "none"
    /\ UNCHANGED <<room, mirror, trouble>>

\* The attempt is decided; the poller is cancelled and awaited, then the waiter.
Decide(joined) ==
    /\ call' = [call EXCEPT !.joined = joined,
                            !.at = IF Live(poller) THEN "reaping" ELSE "draining"]
    /\ poller' = CancelTask(poller)
    /\ waiter' = IF Live(poller) THEN waiter ELSE CancelTask(waiter)

\* The presence task has a result: it counts, whatever the waiter says.
Presence ==
    /\ call.at \in {"racing", "confirming"}
    /\ poller \in {"true", "false"}
    /\ Decide(poller = "true")
    /\ UNCHANGED <<room, mirror, trouble>>

\* The waiter was first.
WaiterFirst ==
    /\ call.at = "racing" /\ ~Live(waiter) /\ Live(poller)
    /\ \/ waiter = "cancelled" /\ Decide(FALSE)
       \/ waiter = "raised" /\ Decide(mirror)
       \/ waiter = "ok" /\ call.api = "legacy" /\ Decide(TRUE)
       \/ waiter = "ok" /\ call.api = "waiter" /\ GoTo("confirming") /\ UNCHANGED <<waiter, poller>>
    /\ UNCHANGED <<room, mirror, trouble>>

Reap ==
    /\ call.at = "reaping" /\ ~Live(poller)
    /\ GoTo("draining")
    /\ waiter' = CancelTask(waiter)
    /\ UNCHANGED <<poller, room, mirror, trouble>>

\* Fault: the cleanup is in a finally.
DrainedAlike ==
    /\ call.at = "draining" /\ ~Live(waiter)
    /\ IF call.joined
       THEN GoTo("joined") /\ IF call.cleanup THEN Send("leave") ELSE UNCHANGED stanzas
       ELSE GoTo(IF call.cleanup THEN "cleaning" ELSE Onward) /\ UNCHANGED stanzas
    /\ waiter' = "none" /\ poller' = "none"
    /\ UNCHANGED <<presences, member, mirror, trouble>>

\* Fault: the room is left only where another attempt follows.
DrainedLazily ==
    /\ call.at = "draining" /\ ~Live(waiter)
    /\ GoTo(IF call.joined THEN "joined"
            ELSE IF call.cleanup /\ call.attempt < MaxAttempts THEN "cleaning" ELSE Onward)
    /\ waiter' = "none" /\ poller' = "none"
    /\ UNCHANGED <<room, mirror, trouble>>

\* drain_task, then the result or the cleanup
Drained ==
    /\ call.at = "draining" /\ ~Live(waiter)
    /\ GoTo(IF call.joined THEN "joined" ELSE IF call.cleanup THEN "cleaning" ELSE Onward)
    /\ waiter' = "none" /\ poller' = "none"
    /\ UNCHANGED <<room, mirror, trouble>>

Retry ==
    /\ call.at = "backoff"
    /\ Attempt(call.attempt + 1)
    /\ UNCHANGED <<waiter, poller, room, mirror, trouble>>

-----------------------------------------------------------------------------
(***************************************************************************)
(* join_muc_with_timeout; await_muc_join_compat is the same without the    *)
(* cleanup.  wait_for cancels the waiter and awaits it before it raises.   *)
(***************************************************************************)
TimeExpires ==
    /\ call.at = "timing" /\ Live(waiter)
    /\ GoTo("expiring")
    /\ waiter' = CancelTask(waiter)
    /\ UNCHANGED <<poller, room, mirror, trouble>>

\* TimeoutError
TimedOut == GoTo(IF call.cleanup THEN "cleaning" ELSE "expired")

\* The waiter's end is the call's, also after the timeout: only one that was
\* cancelled by it is a TimeoutError, or one that has raised that itself.
TimedEnds ==
    /\ call.at \in {"timing", "expiring"} /\ ~Live(waiter)
    /\ \/ waiter = "ok" /\ GoTo("joined")
       \/ waiter = "raised" /\ (GoTo("raised") \/ TimedOut)
       \/ waiter = "cancelled" /\ call.at = "timing" /\ GoTo("raised")
       \/ waiter = "cancelled" /\ call.at = "expiring" /\ TimedOut
    /\ UNCHANGED <<waiter, poller, room, mirror, trouble>>

-----------------------------------------------------------------------------
(***************************************************************************)
(* Cancellation of the call, by where it strikes.                          *)
(***************************************************************************)
CancelCounted ==
    /\ trouble.cancels < MaxCancels
    /\ trouble' = [trouble EXCEPT !.cancels = @ + 1]

\* No task is under way: the call ends at once.  A leave under way may have
\* been sent.
CancelledIdle ==
    /\ call.at \in {"leaving", "clearing", "cleaning", "backoff"}
    /\ CancelCounted
    /\ GoTo("cancelled")
    /\ \/ call.at \in {"leaving", "cleaning"} /\ Send("leave")
       \/ UNCHANGED stanzas
    /\ UNCHANGED <<waiter, poller, presences, member, mirror>>

\* Both tasks are cancelled and awaited before the call raises.
CancelledBusy ==
    /\ call.at \in {"racing", "confirming", "timing", "expiring"}
    /\ CancelCounted
    /\ GoTo("unwinding")
    /\ poller' = CancelTask(poller)
    /\ waiter' = IF Live(poller) THEN waiter ELSE CancelTask(waiter)
    /\ UNCHANGED <<room, mirror>>

\* Taken for the end of the task that is awaited: the call goes on.
CancelSwallowed ==
    /\ call.at \in {"reaping", "draining", "unwinding"}
    /\ CancelCounted
    /\ UNCHANGED <<call, waiter, poller, room, mirror>>

\* The presence task has ended: the waiter is next.
UnwindWaiter ==
    /\ call.at = "unwinding" /\ ~Live(poller) /\ waiter = "running"
    /\ waiter' = "cancelling"
    /\ UNCHANGED <<call, poller, room, mirror, trouble>>

\* Fault: the join task is not drained.
UnwoundEarly ==
    /\ call.at = "unwinding" /\ ~Live(poller)
    /\ GoTo("cancelled")
    /\ UNCHANGED <<waiter, poller, room, mirror, trouble>>

Unwound ==
    /\ call.at = "unwinding" /\ ~Live(poller) /\ ~Live(waiter)
    /\ GoTo("cancelled")
    /\ UNCHANGED <<waiter, poller, room, mirror, trouble>>

-----------------------------------------------------------------------------
(***************************************************************************)
(* The two tasks and the server.                                           *)
(***************************************************************************)
WaiterEnds ==
    /\ Live(waiter)
    /\ waiter' \in {"ok", "raised", "cancelled"}
    /\ UNCHANGED <<call, poller, room, mirror, trouble>>

\* Fault: there is no deadline.
PollForever ==
    /\ Live(poller)
    /\ \/ poller = "running" /\ mirror /\ poller' = "true"
       \/ poller = "cancelling" /\ poller' = "ended"
    /\ UNCHANGED <<call, waiter, room, mirror, trouble>>

\* wait_for_muc_self_presence: confirmed, past its deadline, or cancelled
Poll ==
    /\ Live(poller)
    /\ \/ poller = "running" /\ mirror /\ poller' = "true"
       \/ poller = "running" /\ ~mirror /\ poller' = "false"
       \/ poller = "cancelling" /\ poller' = "ended"
    /\ UNCHANGED <<call, waiter, room, mirror, trouble>>

ServeLeave ==
    /\ stanzas # <<>> /\ Head(stanzas) = "leave"
    /\ stanzas' = Tail(stanzas)
    /\ member' = FALSE
    /\ presences' = IF member THEN Append(presences, FALSE) ELSE presences
    /\ UNCHANGED <<call, waiter, poller, mirror, trouble>>

ServeJoin ==
    /\ stanzas # <<>> /\ Head(stanzas) = "join"
    /\ stanzas' = Tail(stanzas)
    /\ \/ member' = TRUE /\ presences' = Append(presences, TRUE) /\ UNCHANGED trouble
       \/ UNCHANGED <<member, presences>> /\ trouble' = [trouble EXCEPT !.refused = TRUE]
    /\ UNCHANGED <<call, waiter, poller, mirror>>

\* The presence handler of the caller.
Arrive ==
    /\ presences # <<>>
    /\ mirror' = Head(presences)
    /\ presences' = Tail(presences)
    /\ UNCHANGED <<call, waiter, poller, stanzas, member, trouble>>

-----------------------------------------------------------------------------
\* The mirror may be left over from an earlier session.
JoinInit ==
    /\ call \in [at : {"called"}, attempt : {0}, joined : {FALSE}, force : BOOLEAN,
                 cleanup : BOOLEAN, api : {"waiter", "legacy", "none"},
                 entry : {"confirmed", "timed"}]
    /\ waiter = "none" /\ poller = "none"
    /\ stanzas = <<>> /\ presences = <<>>
    /\ member \in BOOLEAN /\ mirror \in BOOLEAN
    /\ trouble = [cancels |-> 0, refused |-> FALSE, leaveFailed |-> FALSE]

CallerStep ==
    \/ Call \/ Leave \/ Clear \/ Start \/ StartRaises \/ Presence \/ WaiterFirst
    \/ Reap \/ Drained \/ Retry \/ TimeExpires \/ TimedEnds
    \/ UnwindWaiter \/ Unwound

JoinNext ==
    \/ CallerStep \/ CancelledIdle \/ CancelledBusy \/ CancelSwallowed
    \/ WaiterEnds \/ Poll \/ ServeLeave \/ ServeJoin \/ Arrive

JoinSpec == JoinInit /\ [][JoinNext]_joinVars

\* The event loop runs on, a presence wait has a deadline, and a join
\* coroutine that is cancelled ends; one that is not may hang.
JoinFairness ==
    /\ WF_joinVars(CallerStep)
    /\ WF_joinVars(Poll)
    /\ WF_joinVars(waiter = "cancelling" /\ WaiterEnds)

-----------------------------------------------------------------------------
(***************************************************************************)
(* Properties.                                                             *)
(***************************************************************************)
JoinTypeOK ==
    /\ call \in [at : JoinAwaits \cup Ends \cup {"called"}, attempt : 0..MaxAttempts,
                 joined : BOOLEAN, force : BOOLEAN, cleanup : BOOLEAN,
                 api : {"waiter", "legacy", "none"}, entry : {"confirmed", "timed"}]
    /\ waiter \in {"none", "running", "cancelling", "ok", "raised", "cancelled"}
    /\ poller \in {"none", "running", "cancelling", "true", "false", "ended"}
    /\ stanzas \in Seq({"join", "leave"}) /\ presences \in Seq(BOOLEAN)
    /\ member \in BOOLEAN /\ mirror \in BOOLEAN
    /\ trouble \in [cancels : 0..MaxCancels, refused : BOOLEAN, leaveFailed : BOOLEAN]

\* However the call ends, and whenever it is cancelled, it leaves no task
\* behind, and an attempt begins only when those of the one before are gone.
TasksConsumed ==
    call.at \in Ends \cup {"leaving", "clearing", "starting", "cleaning", "backoff"} =>
        ~Live(waiter) /\ ~Live(poller)

JoinInv == JoinTypeOK /\ TasksConsumed

\* A join that an attempt reports is one the call does not undo: once its
\* stanzas are handled the bot is in the room, unless the server refused it.
JoinedSticks ==
    call.at = "joined" /\ call.attempt > 0 /\ stanzas = <<>> /\ ~trouble.refused => member

\* A failed or expired join with cleanup leaves no ghost occupant, in
\* whichever order its last join and the answers to it travelled.
FailureLeavesRoom ==
    /\ call.at \in {"failed", "expired"} /\ call.cleanup
    /\ stanzas = <<>> /\ ~trouble.leaveFailed
    => ~member

\* The outcome of a join agrees with the room in the end, and nothing of the
\* call stays behind.
OutcomeHolds == JoinInv /\ JoinedSticks /\ FailureLeavesRoom

\* Every join ends, though its waiter may hang and the cancellation of the
\* call may be swallowed.
JoinEnds == call.at \in JoinAwaits ~> JoinOver
=============================================================================
