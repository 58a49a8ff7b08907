--------------------------- MODULE TaskSupervisor ---------------------------
(***************************************************************************)
(* TaskSupervisor of runtime/tasks.py: the registry of background tasks,   *)
(* the resilient runner with its backoff and circuit breaker, and the      *)
(* cancellation of tasks, scopes and everything.                           *)
(*                                                                         *)
(* A task is done one step before its done callback runs: in between, any  *)
(* other task, and so any call of the supervisor, may run.  A cancelled    *)
(* task may end cancelled, end otherwise, or ignore the request, and the   *)
(* cancellation calls wait with a timeout that may expire at any moment.   *)
(*                                                                         *)
(* Tasks are numbered in the order of their creation, which is the order   *)
(* of the dictionary _tasks.  Heartbeats, staleness, backoff times and     *)
(* snapshots for display are left out; how long a run lasted is a choice.  *)
(***************************************************************************)
EXTENDS Naturals, FiniteSets, Tables

CONSTANTS
    Scopes,        \* owners of tasks: plugins or groups
    Callers,       \* code that calls the cancellation methods
    NoScope,       \* of a task that is not created yet
    Kinds,         \* ways to create a task, a subset of AllKinds
    RestartLimit,  \* max_restarts
    HistoryLimit,  \* _COMPLETED_ONE_SHOT_HISTORY_LIMIT
    MaxTasks,      \* bound: tasks ever created
    MaxLongRuns    \* bound: runs of a factory that last reset_after or longer

AllKinds == [service : BOOLEAN, resilient : BOOLEAN]

ASSUME SupervisorAssumption ==
    /\ Kinds \subseteq AllKinds
    /\ RestartLimit \in Nat /\ HistoryLimit \in Nat
    /\ MaxTasks \in Nat /\ MaxLongRuns \in Nat

Tasks == 1..MaxTasks

VARIABLES
    created,     \* number of tasks created
    scope, kind, \* what create() was told of each task
    life,        \* asyncio: "none", "alive", or how the task ended
    asked,       \* asyncio: tasks with a cancellation not yet delivered
    callback,    \* asyncio: tasks done whose done callback has not run
    at,          \* resilient runner: where it is
    consecutive, \* resilient runner: failures in a row
    longRuns,    \* history: long runs of each task
    burst,       \* history: runs of the factory since the last long one
    meta,        \* _tasks: task -> metadata
    byScope,     \* _by_scope: scope -> tasks
    call,        \* caller -> its cancellation call
    cleared      \* history: failures forgotten by clear_scope_failures

runner == <<at, consecutive, longRuns, burst>>
registry == <<meta, byScope>>
asyncioVars == <<life, asked, callback>>
vars == <<created, scope, kind, asyncioVars, runner, registry, call, cleared>>

Alive(t) == life[t] = "alive"
Done(t) == life[t] \in {"ok", "error", "cancelled"}

-----------------------------------------------------------------------------
(***************************************************************************)
(* The registry.                                                           *)
(***************************************************************************)
Metadata == [error : BOOLEAN, circuit : {"closed", "half-open", "open"},
             expected : BOOLEAN, finished : BOOLEAN]

NewMetadata == [error |-> FALSE, circuit |-> "closed",
                expected |-> FALSE, finished |-> FALSE]

ScopeTasks(s) == IF s \in DOMAIN byScope THEN byScope[s] ELSE {}

\* _forget_task, for a set of tasks; a scope whose last task is forgotten goes.
ForgetAll(S) ==
    LET gone == S \cap DOMAIN meta
        left(s) == byScope[s] \ gone
        emptied == {s \in DOMAIN byScope :
                      left(s) = {} /\ \E t \in gone : scope[t] = s}
    IN  /\ meta' = Drop(meta, gone)
        /\ byScope' = [s \in DOMAIN byScope \ emptied |-> left(s)]

\* Fault: every task that is done is pruned.
PrunableFailed(t) == TRUE

\* _prune_task_unless_failed keeps a task that has failed.
Prunable(t) ==
    t \in DOMAIN meta =>
        ~(meta[t].error /\ Done(t) /\ life[t] # "cancelled")

Register(t, s) ==
    /\ meta' = Put(meta, t, NewMetadata)
    /\ byScope' = Put(byScope, s, ScopeTasks(s) \cup {t})

\* create() and create_resilient()
Create ==
    /\ created < MaxTasks
    /\ LET t == created + 1 IN
        \E s \in Scopes, k \in Kinds :
            /\ created' = t
            /\ scope' = [scope EXCEPT ![t] = s]
            /\ kind' = [kind EXCEPT ![t] = k]
            /\ life' = [life EXCEPT ![t] = "alive"]
            /\ at' = [at EXCEPT ![t] = IF k.resilient THEN "start" ELSE "run"]
            /\ Register(t, s)
    /\ UNCHANGED <<asked, callback, consecutive, longRuns, burst, call, cleared>>

-----------------------------------------------------------------------------
(***************************************************************************)
(* How a task ends.                                                        *)
(***************************************************************************)
End(t, how) ==
    /\ life' = [life EXCEPT ![t] = how]
    /\ asked' = asked \ {t}
    /\ callback' = callback \cup {t}

External == <<created, scope, kind, call, cleared>>

\* The CancelledError is raised where the task awaits and leaves it.
DeliverCancel(t) ==
    /\ Alive(t) /\ t \in asked
    /\ End(t, "cancelled")
    /\ UNCHANGED <<External, runner, registry>>

\* The task's own code (the factory, or the circuit-open callback) swallows it.
IgnoreCancel(t) ==
    /\ Alive(t) /\ t \in asked /\ at[t] \in {"run", "notify"}
    /\ asked' = asked \ {t}
    /\ UNCHANGED <<External, life, callback, runner, registry>>

PlainEnds(t) ==
    /\ Alive(t) /\ ~kind[t].resilient
    /\ \E how \in {"ok", "error"} : End(t, how)
    /\ UNCHANGED <<External, runner, registry>>

-----------------------------------------------------------------------------
(***************************************************************************)
(* _resilient_runner.  A cancellation is raised at the runner's own sleeps *)
(* before anything else can happen there.                                  *)
(***************************************************************************)
Resilient(t, place) == Alive(t) /\ kind[t].resilient /\ at[t] = place

SetMeta(t, m) ==
    /\ meta' = IF t \in DOMAIN meta THEN [meta EXCEPT ![t] = m] ELSE meta
    /\ UNCHANGED byScope

\* Fault: the circuit stays half-open when the worker runs again.
RunHalfOpen(t) ==
    /\ Resilient(t, "start") \/ Resilient(t, "sleep")
    /\ t \notin asked
    /\ at' = [at EXCEPT ![t] = "run"]
    /\ burst' = [burst EXCEPT ![t] = @ + 1]
    /\ UNCHANGED <<External, asyncioVars, consecutive, longRuns, registry>>

\* sleep(0) before the first run, or the backoff, is over.
Run(t) ==
    /\ Resilient(t, "start") \/ Resilient(t, "sleep")
    /\ t \notin asked
    /\ at' = [at EXCEPT ![t] = "run"]
    /\ burst' = [burst EXCEPT ![t] = @ + 1]
    /\ SetMeta(t, [meta[t] EXCEPT !.circuit = "closed"])
    /\ UNCHANGED <<External, asyncioVars, consecutive, longRuns>>

TooMany(failures) == failures > RestartLimit

\* Fault: the name of the state is misspelled.
CircuitMisspelled(failures) == IF TooMany(failures) THEN "open" ELSE "half open"

CircuitAfter(failures) == IF TooMany(failures) THEN "open" ELSE "half-open"

\* Fault: every failure starts the count again.
FailuresForgotten(t, long) == 1

\* Fault: a long run leaves the count as it is.
FailuresKept(t, long) == consecutive[t] + 1

Failures(t, long) == IF long THEN 1 ELSE consecutive[t] + 1

\* The factory raises, or a service's factory returns.
RunFails(t) ==
    \E long \in BOOLEAN :
        LET failures == Failures(t, long) IN
        /\ Resilient(t, "run")
        /\ long => longRuns[t] < MaxLongRuns
        /\ longRuns' = IF long THEN [longRuns EXCEPT ![t] = @ + 1] ELSE longRuns
        /\ burst' = IF long THEN [burst EXCEPT ![t] = 1] ELSE burst
        /\ consecutive' = [consecutive EXCEPT ![t] = failures]
        /\ at' = [at EXCEPT ![t] = IF TooMany(failures) THEN "notify" ELSE "sleep"]
        /\ SetMeta(t, [meta[t] EXCEPT !.error = TRUE,
                                      !.circuit = CircuitAfter(failures)])
        /\ asked' = asked \ {t}
        /\ UNCHANGED <<External, life, callback>>

\* The circuit-open callback is over; the task fails.
CircuitOpen(t) ==
    /\ Resilient(t, "notify")
    /\ End(t, "error")
    /\ UNCHANGED <<External, runner, registry>>

\* A one-shot returns; the error of an earlier attempt is forgotten.
RunReturns(t) ==
    /\ Resilient(t, "run") /\ ~kind[t].service
    /\ End(t, "ok")
    /\ SetMeta(t, [meta[t] EXCEPT !.circuit = "closed", !.error = FALSE])
    /\ UNCHANGED <<External, runner>>

\* The factory raises ExpectedTaskExit.
RunExits(t) ==
    /\ Resilient(t, "run")
    /\ End(t, "ok")
    /\ SetMeta(t, [meta[t] EXCEPT !.expected = TRUE])
    /\ UNCHANGED <<External, runner>>

-----------------------------------------------------------------------------
(***************************************************************************)
(* _on_task_done.                                                          *)
(***************************************************************************)
Completed(t) ==
    /\ t \in DOMAIN meta /\ Done(t) /\ life[t] # "cancelled"
    /\ ~kind[t].service
    /\ ~meta[t].error

\* Fault: one more than the limit is kept.
ExcessOffByOne ==
    {t \in Tasks : Completed(t) /\
        Cardinality({u \in Tasks : Completed(u) /\ u > t}) >= HistoryLimit + 1}

\* _prune_completed_one_shot_history forgets the oldest of them.
Excess ==
    {t \in Tasks : Completed(t) /\
        Cardinality({u \in Tasks : Completed(u) /\ u > t}) >= HistoryLimit}

\* Task t is finished and the tasks of S are forgotten.
Settle(t, error, S) ==
    LET left(s) == byScope[s] \ (S \cup {t})
        emptied == {s \in DOMAIN byScope : left(s) = {} /\ \E u \in S : scope[u] = s}
    IN  /\ meta' = Drop([meta EXCEPT ![t].finished = TRUE,
                                     ![t].error = @ \/ error], S)
        /\ byScope' = [s \in DOMAIN byScope \ emptied |-> left(s)]

\* What the callback forgets: a service that meant to exit, and the one-shots
\* that the history has no room for.
Forgotten(t) ==
    IF life[t] # "ok" THEN {}
    ELSE IF ~kind[t].service THEN Excess
    ELSE IF meta[t].expected THEN {t} ELSE {}

OnTaskDone(t) ==
    /\ t \in callback
    /\ callback' = callback \ {t}
    /\ IF t \in DOMAIN meta THEN Settle(t, life[t] = "error", Forgotten(t))
                            ELSE UNCHANGED registry
    /\ UNCHANGED <<External, life, asked, runner>>

-----------------------------------------------------------------------------
(***************************************************************************)
(* Cancellation.  A call asks its running tasks to stop and waits for them *)
(* with a timeout, which may expire at any moment; it then prunes the      *)
(* members that are done.  cancel_all goes from scope to scope.            *)
(***************************************************************************)
Outside == <<created, scope, kind, life, callback, runner>>

\* What a call has left to do, and which tasks it has asked to stop so far.
Call(all, scopes, members, running, owed, reached) ==
    [all |-> all, scopes |-> scopes, members |-> members, running |-> running,
     owed |-> owed, reached |-> reached]

\* A caller outside of the cancellation methods
Idle == Call(FALSE, {}, {}, {}, {}, {})

Prune(S) == ForgetAll({t \in S : Prunable(t)})

Becomes(c, next) == call' = [call EXCEPT ![c] = next]

\* Fault: cancel_all returns after its first scope.
AfterOneScope(c, scopes, owed, reached, all) == Becomes(c, Idle)

\* With no scope left the call returns.
AfterScope(c, scopes, owed, reached, all) ==
    Becomes(c, IF scopes = {} THEN Idle
               ELSE Call(all, scopes, {}, {}, owed, reached))

\* The part of cancel_scope (and of cancel_task) before its await.
Ask(c, members, scopes, owed, reached, all) ==
    LET running == {t \in members : Alive(t)} IN
    /\ asked' = asked \cup running
    /\ IF running = {}
       THEN Prune(members) /\ AfterScope(c, scopes, owed, reached, all)
       ELSE /\ Becomes(c, Call(all, scopes, members, running, owed,
                               reached \cup running))
            /\ UNCHANGED registry
    /\ UNCHANGED <<Outside, cleared>>

MembersOf(s) == {t \in DOMAIN meta : scope[t] = s}

CancelTask(c) == /\ call[c] = Idle
                 /\ \E t \in 1..created : Ask(c, {t}, {}, {}, {}, FALSE)

CancelScope(c) == /\ call[c] = Idle
                  /\ \E s \in Scopes : Ask(c, MembersOf(s), {}, {}, {}, FALSE)

CancelAll(c) ==
    /\ call[c] = Idle
    /\ DOMAIN byScope # {}
    /\ Becomes(c, Call(TRUE, DOMAIN byScope, {}, {},
                       {t \in Tasks : Alive(t)}, {}))
    /\ UNCHANGED <<Outside, registry, asked, cleared>>

NextScope(c) ==
    /\ call[c] # Idle /\ call[c].running = {}
    /\ \E s \in call[c].scopes :
        Ask(c, MembersOf(s), call[c].scopes \ {s},
            call[c].owed, call[c].reached, call[c].all)

\* Fault: no timeout.
ResumeWhenDone(c) ==
    /\ call[c] # Idle /\ call[c].running # {}
    /\ \A t \in call[c].running : Done(t)
    /\ Prune(call[c].members)
    /\ AfterScope(c, call[c].scopes, call[c].owed, call[c].reached, call[c].all)
    /\ UNCHANGED <<Outside, asked, cleared>>

\* Fault: a member that has not stopped is pruned with the others.
ResumePrunesAll(c) ==
    /\ call[c] # Idle /\ call[c].running # {}
    /\ Prune(call[c].members)
    /\ AfterScope(c, call[c].scopes, call[c].owed, call[c].reached, call[c].all)
    /\ UNCHANGED <<Outside, asked, cleared>>

\* asyncio.wait returns; a member that has not stopped stays as it is.
Resume(c) ==
    /\ call[c] # Idle /\ call[c].running # {}
    /\ Prune({t \in call[c].members : t \in call[c].running => Done(t)})
    /\ AfterScope(c, call[c].scopes, call[c].owed, call[c].reached, call[c].all)
    /\ UNCHANGED <<Outside, asked, cleared>>

\* The caller is cancelled while it waits.
Abandon(c) ==
    /\ call[c] # Idle /\ call[c].running # {}
    /\ Becomes(c, Idle)
    /\ UNCHANGED <<Outside, registry, asked, cleared>>

\* clear_scope_failures
ClearFailures ==
    \E s \in Scopes :
        LET failed == {t \in MembersOf(s) : Done(t) /\ meta[t].error} IN
        /\ failed # {}
        /\ ForgetAll(failed)
        /\ cleared' = cleared \cup failed
        /\ UNCHANGED <<Outside, asked, call>>

-----------------------------------------------------------------------------
Init ==
    /\ created = 0
    /\ scope = [t \in Tasks |-> NoScope]
    /\ kind = [t \in Tasks |-> [service |-> FALSE, resilient |-> FALSE]]
    /\ life = [t \in Tasks |-> "none"]
    /\ asked = {} /\ callback = {}
    /\ at = [t \in Tasks |-> "start"]
    /\ consecutive = [t \in Tasks |-> 0]
    /\ longRuns = [t \in Tasks |-> 0]
    /\ burst = [t \in Tasks |-> 0]
    /\ meta = Empty /\ byScope = Empty
    /\ call = [c \in Callers |-> Idle]
    /\ cleared = {}

TaskStep(t) ==
    \/ DeliverCancel(t) \/ IgnoreCancel(t) \/ PlainEnds(t)
    \/ Run(t) \/ RunFails(t) \/ CircuitOpen(t) \/ RunReturns(t) \/ RunExits(t)
    \/ OnTaskDone(t)

CallStep(c) ==
    \/ CancelTask(c) \/ CancelScope(c) \/ CancelAll(c)
    \/ NextScope(c) \/ Resume(c) \/ Abandon(c)

Next ==
    \/ Create \/ ClearFailures
    \/ \E t \in Tasks : TaskStep(t)
    \/ \E c \in Callers : CallStep(c)

Spec == Init /\ [][Next]_vars

\* Sleeps end, timeouts expire and pending callbacks run.  Nothing is assumed
\* of what tasks do, in particular not that they obey a cancellation.
FairSpec ==
    /\ Spec
    /\ \A t \in Tasks : WF_vars(Run(t) \/ DeliverCancel(t))
    /\ \A c \in Callers : WF_vars(NextScope(c) \/ Resume(c))

-----------------------------------------------------------------------------
(***************************************************************************)
(* Properties.                                                             *)
(***************************************************************************)
\* Tasks, metadata, indexes and calls have their types.
TypeOK ==
    /\ created \in 0..MaxTasks
    /\ life \in [Tasks -> {"none", "alive", "ok", "error", "cancelled"}]
    /\ asked \subseteq {t \in Tasks : Alive(t)}
    /\ callback \subseteq {t \in Tasks : Done(t)}
    /\ at \in [Tasks -> {"start", "run", "sleep", "notify"}]
    /\ {consecutive, longRuns, burst} \subseteq [Tasks -> Nat]
    /\ DOMAIN meta \subseteq 1..created
    /\ \A t \in DOMAIN meta : meta[t] \in Metadata
    /\ DOMAIN byScope \subseteq Scopes
    /\ cleared \subseteq 1..created

\* Every running task is tracked and in the index of its scope.
Supervised ==
    \A t \in Tasks : Alive(t) => t \in DOMAIN meta /\ t \in ScopeTasks(scope[t])

\* A scope lists exactly its tracked tasks whose done callback has not run.
IndexAgrees ==
    \A s \in Scopes :
        ScopeTasks(s) = {t \in MembersOf(s) : ~meta[t].finished}

\* Cancelling a scope and shutting down find every running task: no timeout, no
\* ignored cancellation and no clean-up of history drops a task that still runs
\* from either of the two indexes, and the indexes, whose entries live
\* differently long, agree.
RegistryAgrees == Supervised /\ IndexAgrees

\* The circuit shown to operators is the state of the runner: half-open while
\* it backs off (snapshot reports "restarting" and stale_tasks exempts it),
\* open once it has given up, closed while it runs.
CircuitAgrees ==
    \A t \in DOMAIN meta : Alive(t) =>
        meta[t].circuit = CASE at[t] = "sleep" -> "half-open"
                            [] at[t] = "notify" -> "open"
                            [] OTHER -> "closed"

\* A worker that keeps failing is run at most RestartLimit + 1 times in a row
\* without a run of reset_after in between.
BurstBounded == \A t \in Tasks : burst[t] <= RestartLimit + 1

\* No worker is given up early: one that the runner gives up, and one that has
\* ended in an error, has just failed RestartLimit + 1 times in a row, whatever
\* it had failed before its last long run and whichever cancellations it
\* swallowed meanwhile.
NotGivenUpEarly ==
    \A t \in Tasks : kind[t].resilient /\ (at[t] = "notify" \/ life[t] = "error") =>
        burst[t] = RestartLimit + 1

\* A worker that failed for good stays visible as an open circuit until
\* somebody clears its scope's failures: cancellations, timeouts and pruning
\* leave the diagnosis alone.
OpenCircuitVisible ==
    \A t \in Tasks \ cleared :
        life[t] = "error" /\ kind[t].resilient =>
            /\ t \in DOMAIN meta
            /\ meta[t].circuit = "open" /\ meta[t].error

\* "Keep recent successful one-shots without leaking task metadata".
HistoryBounded ==
    Cardinality({t \in Tasks : Completed(t) /\ t \notin callback}) <= HistoryLimit

\* The registry as a whole: what runs is in it, failures stay, successes go.
RegistryInv == TypeOK /\ RegistryAgrees /\ OpenCircuitVisible /\ HistoryBounded

\* The runner as its operators see it, and its limit.
RunnerInv == CircuitAgrees /\ BurstBounded

\* A shutdown reaches everything: when cancel_all returns, each task that was
\* running when it began is done or was asked to stop, also when scopes come,
\* go and are cancelled by others meanwhile.
ShutdownReachesAll ==
    [][\A c \in Callers :
          call[c] # Idle /\ call'[c] = Idle /\ call[c].all /\ ~Abandon(c) =>
              \A t \in call[c].owed :
                  t \in call[c].reached \/ ~(Alive(t))']_vars

\* A cancellation call returns even when its tasks do not stop.
CallsReturn == \A c \in Callers : call[c] # Idle ~> call[c] = Idle
=============================================================================
