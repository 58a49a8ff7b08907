------------------------------ MODULE Watchdog ------------------------------
(***************************************************************************)
(* RuntimeWatchdog of runtime/watchdog.py with the tasks it creates, and   *)
(* the notifications it sends to systemd (runtime/systemd.py), each of     *)
(* which may not be accepted.                                              *)
(*                                                                         *)
(* The application is external: it calls start(), notify_ready() and       *)
(* stop() whenever it likes, start() and a second stop() also while the    *)
(* first one still waits, and may cancel a call of stop().  A task is a    *)
(* worker (_run at one of its awaits, under a supervisor also the backoff  *)
(* of its runner) or the report of a lag (_report_lag, at the callback of  *)
(* the application).  stop() sets the stop event and cancels in one step,  *)
(* so that the event alone never ends a worker.                            *)
(***************************************************************************)
EXTENDS Naturals

CONSTANTS
    MaxWatchdogTasks,  \* bound: tasks ever created
    MaxBeats   \* bound: turns of the workers

ASSUME WatchdogAssumption == MaxWatchdogTasks \in Nat /\ MaxBeats \in Nat

WatchdogTasks == 1..MaxWatchdogTasks
NoTask == 0

VARIABLES
    config,     \* enabled, supervised, deferring: options and environment
    places,     \* task -> where it is
    worker,     \* self.task
    lagAlert,   \* _lag_alert_task
    stops,      \* the calls of stop() that wait, each for its tasks
    abandoned,  \* history: tasks whose stop() timed out or was cancelled
    shown,      \* state.worker_running
    complete,   \* external: ready_predicate()
    readyEvent, \* external: ready_event is set
    deferred,   \* _ready_notification_pending: the callback is queued
    readySent,  \* _ready_sent
    health      \* heartbeats and heartbeat_suppressed

environment == <<config, complete, readyEvent>>
readiness == <<deferred, readySent>>
stopping == <<stops, abandoned>>
watchdogVars == <<environment, places, worker, lagAlert, stopping, shown, readiness, health>>

Ongoing(t) == t \in WatchdogTasks /\ places[t] \notin {"unused", "done"}

Unused(t) == places[t] = "unused" /\ \A s \in WatchdogTasks : s < t => places[s] # "unused"

Moves(t, place) == places' = [places EXCEPT ![t] = place]

-----------------------------------------------------------------------------
\* start()
StartWatchdog ==
    /\ config.enabled /\ ~Ongoing(worker)
    /\ \E t \in WatchdogTasks : Unused(t) /\ Moves(t, "readying") /\ worker' = t
    /\ shown' = TRUE
    /\ UNCHANGED <<environment, lagAlert, stopping, readiness, health>>

\* The application becomes ready, and may cease to be.
Progress ==
    /\ \/ complete' = ~complete /\ UNCHANGED readyEvent
       \/ readyEvent' = TRUE /\ ~readyEvent /\ UNCHANGED complete
    /\ UNCHANGED <<config, places, worker, lagAlert, stopping, shown, readiness, health>>

\* _wait_ready
WorkerReady(t) ==
    /\ places[t] = "readying" /\ readyEvent
    /\ Moves(t, "waiting")
    /\ shown' = TRUE
    /\ UNCHANGED <<environment, worker, lagAlert, stopping, readiness, health>>

-----------------------------------------------------------------------------
\* READY=1, accepted or not
SendReady == readySent' \in {readySent, TRUE}

\* notify_ready()
NotifyReady ==
    /\ \/ complete /\ SendReady /\ UNCHANGED deferred
       \/ /\ ~complete /\ config.deferring /\ ~deferred
          /\ deferred' = TRUE
          /\ UNCHANGED readySent
    /\ UNCHANGED <<environment, places, worker, lagAlert, stopping, shown, health>>

\* _notify_ready_if_complete
DeferredReady ==
    /\ deferred
    /\ deferred' = FALSE
    /\ IF complete THEN SendReady ELSE UNCHANGED readySent
    /\ UNCHANGED <<environment, places, worker, lagAlert, stopping, shown, health>>

-----------------------------------------------------------------------------
\* _schedule_lag_report: one report at a time
ScheduleReport ==
    IF Ongoing(lagAlert)
    THEN UNCHANGED <<places, lagAlert>>
    ELSE \E t \in WatchdogTasks : Unused(t) /\ Moves(t, "reporting") /\ lagAlert' = t

\* One turn of the loop.  A lag above the failure threshold suppresses the
\* heartbeat; one above the warning threshold is reported.
Beat(t, lag) ==
    /\ places[t] = "waiting"
    /\ health.beats + health.suppressed < MaxBeats
    /\ IF lag = "failure"
       THEN health' = [health EXCEPT !.suppressed = @ + 1]
       ELSE health' \in {health, [health EXCEPT !.beats = @ + 1]}
    /\ IF lag = "none" THEN UNCHANGED <<places, lagAlert>> ELSE ScheduleReport
    /\ UNCHANGED <<environment, worker, stopping, shown, readiness>>

\* A notification raises: _run ends, and the runner of a supervisor goes on
\* with its backoff.
WorkerFails(t) ==
    /\ places[t] = "waiting"
    /\ Moves(t, IF config.supervised THEN "backoff" ELSE "done")
    /\ shown' = FALSE
    /\ UNCHANGED <<environment, worker, lagAlert, stopping, readiness, health>>

\* The runner tries again, or has tried often enough.
WorkerRestarts(t) ==
    /\ places[t] = "backoff"
    /\ \/ Moves(t, "readying")
       \/ Moves(t, "done")
    /\ UNCHANGED <<environment, worker, lagAlert, stopping, shown, readiness, health>>

ReportEnds(t) ==
    /\ places[t] = "reporting"
    /\ Moves(t, "done")
    /\ UNCHANGED <<environment, worker, lagAlert, stopping, shown, readiness, health>>

\* The cancellation is delivered; inside its loop the worker has a finally.
CancelledEnds(t) ==
    /\ places[t] \in {"leaving", "cancelled"}
    /\ Moves(t, "done")
    /\ shown' = (shown /\ places[t] # "leaving")
    /\ UNCHANGED <<environment, worker, lagAlert, stopping, readiness, health>>

-----------------------------------------------------------------------------
(***************************************************************************)
(* stop()                                                                  *)
(***************************************************************************)
OnCancel(place) ==
    IF place = "waiting" THEN "leaving"
    ELSE IF place \in {"readying", "backoff", "reporting"} THEN "cancelled" ELSE place

\* owned: the supervisor owns the task, so that its whole scope is cancelled,
\* with a timeout.  It has forgotten an ended task if that was pruned.
StopOf(targets, owned) ==
    /\ places' = [t \in WatchdogTasks |-> IF t \in targets THEN OnCancel(places[t]) ELSE places[t]]
    /\ IF (owned /\ targets = {}) \/ worker = NoTask
       THEN shown' = FALSE /\ UNCHANGED stops
       ELSE /\ stops' = stops \cup {[of |-> worker, awaits |-> targets, timed |-> owned]}
            /\ UNCHANGED shown
    /\ worker' = NoTask /\ lagAlert' = NoTask
    /\ UNCHANGED <<environment, abandoned, readiness, health>>

Owned == {owned \in BOOLEAN : /\ owned => config.supervised /\ worker # NoTask
                              /\ config.supervised /\ Ongoing(worker) => owned}

\* Fault: the report of a lag is not cancelled.
StopWorkerOnly ==
    \E owned \in Owned :
        StopOf({t \in WatchdogTasks : Ongoing(t) /\ t = worker}, owned)

StopWatchdog ==
    \E owned \in Owned :
        StopOf({t \in WatchdogTasks : Ongoing(t) /\ (owned \/ t \in {worker, lagAlert})}, owned)

\* Its tasks have ended: STOPPING=1.
StopCompletes(stop) ==
    /\ \A t \in stop.awaits : ~Ongoing(t)
    /\ stops' = stops \ {stop}
    /\ shown' = FALSE
    /\ UNCHANGED <<environment, places, worker, lagAlert, abandoned, readiness, health>>

\* The timeout of cancel_scope, when a callback ignores its cancellation:
\* STOPPING=1 all the same.
StopGivesUp(stop) ==
    /\ stop.timed /\ \E t \in stop.awaits : Ongoing(t)
    /\ stops' = stops \ {stop}
    /\ abandoned' = abandoned \cup {t \in stop.awaits : Ongoing(t)}
    /\ shown' = FALSE
    /\ UNCHANGED <<environment, places, worker, lagAlert, readiness, health>>

\* stop() is cancelled while it waits.
StopCancelled(stop) ==
    /\ stops' = stops \ {stop}
    /\ abandoned' = abandoned \cup stop.awaits \cup {stop.of}
    /\ UNCHANGED <<environment, places, worker, lagAlert, shown, readiness, health>>

WatchdogInit ==
    /\ config \in [enabled : BOOLEAN, supervised : BOOLEAN, deferring : BOOLEAN]
    /\ places = [t \in WatchdogTasks |-> "unused"]
    /\ worker = NoTask /\ lagAlert = NoTask
    /\ stops = {} /\ abandoned = {}
    /\ shown = FALSE
    /\ complete \in BOOLEAN /\ readyEvent \in BOOLEAN
    /\ deferred = FALSE /\ readySent = FALSE
    /\ health = [beats |-> 0, suppressed |-> 0]

WatchdogNext ==
    \/ StartWatchdog \/ Progress \/ NotifyReady \/ DeferredReady \/ StopWatchdog
    \/ \E t \in WatchdogTasks :
          \/ WorkerReady(t) \/ WorkerFails(t) \/ WorkerRestarts(t)
          \/ ReportEnds(t) \/ CancelledEnds(t)
          \/ \E lag \in {"none", "warning", "failure"} : Beat(t, lag)
    \/ \E stop \in stops : StopCompletes(stop) \/ StopGivesUp(stop) \/ StopCancelled(stop)

WatchdogSpec == WatchdogInit /\ [][WatchdogNext]_watchdogVars

-----------------------------------------------------------------------------
(***************************************************************************)
(* Properties.                                                             *)
(***************************************************************************)
TaskPlaces == {"unused", "readying", "waiting", "backoff", "reporting", "leaving",
               "cancelled", "done"}

WatchdogTypeOK ==
    /\ config \in [enabled : BOOLEAN, supervised : BOOLEAN, deferring : BOOLEAN]
    /\ places \in [WatchdogTasks -> TaskPlaces]
    /\ worker \in WatchdogTasks \cup {NoTask} /\ lagAlert \in WatchdogTasks \cup {NoTask}
    /\ \A stop \in stops : /\ stop.of \in WatchdogTasks
                           /\ stop.awaits \subseteq WatchdogTasks /\ stop.timed \in BOOLEAN
    /\ abandoned \subseteq WatchdogTasks
    /\ {shown, complete, readyEvent, deferred, readySent} \subseteq BOOLEAN
    /\ health \in [beats : 0..MaxBeats, suppressed : 0..MaxBeats]

\* From a call of stop() until the next start(), whatever other calls are under
\* way, no worker or report is left that has not been cancelled, so that no
\* heartbeat tells systemd that the service is healthy.  When all calls of stop()
\* have returned, every task has ended and worker_running is false: all that can
\* be left over belongs to a stop() that timed out or was cancelled itself.
StopIsFinal ==
    /\ WatchdogTypeOK
    /\ worker = NoTask =>
          \A t \in WatchdogTasks : Ongoing(t) => places[t] \in {"leaving", "cancelled"}
    /\ worker = NoTask /\ stops = {} =>
          /\ \A t \in WatchdogTasks : Ongoing(t) => t \in abandoned
          /\ abandoned = {} => ~shown
=============================================================================
