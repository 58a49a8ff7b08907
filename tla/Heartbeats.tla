----------------------------- MODULE Heartbeats -----------------------------
(***************************************************************************)
(* The progress signals of runtime/tasks.py: heartbeat, touch, snapshot    *)
(* and stale_tasks over tasks of one scope, in the order of the registry.  *)
(* A task calls heartbeat(scope, name) or touch(itself); what becomes of   *)
(* it otherwise is TaskSupervisor's matter and an abstract status here.    *)
(***************************************************************************)
EXTENDS Naturals, Sequences

CONSTANTS
    TaskNames,
    MaxAge,        \* max_age_seconds
    MaxBeatTasks,  \* bound: tasks
    LastBeat       \* bound: the clock

ASSUME HeartbeatsAssumption == MaxAge \in Nat /\ MaxBeatTasks \in Nat /\ LastBeat \in Nat

VARIABLES
    time,     \* _now()
    workers   \* _tasks; progress and alone are history

beatVars == <<time, workers>>

Never == LastBeat + 1

Registered == 1..Len(workers)

Namesakes(i) == {j \in Registered \ {i} : workers[j].name = workers[i].name}

Unfinished(i) == workers[i].status # "done"

CreateWorker(name, service) ==
    /\ Len(workers) < MaxBeatTasks
    /\ LET others == {j \in Registered : workers[j].name = name /\ Unfinished(j)}
           new == [name |-> name, service |-> service, status |-> "running",
                   created |-> time, beat |-> Never,
                   progress |-> time, alone |-> others = {}]
       IN  workers' = Append([j \in Registered |->
                                IF j \in others THEN [workers[j] EXCEPT !.alone = FALSE]
                                ELSE workers[j]], new)
    /\ UNCHANGED time

\* Fault: finished tasks are not passed over.
AddressedFirst(i) == {j \in Namesakes(i) \cup {i} : \A k \in Namesakes(j) : j < k}

\* The first task of that scope and name that is not done.
Addressed(i) ==
    {j \in Namesakes(i) \cup {i} :
        Unfinished(j) /\ \A k \in Namesakes(j) : Unfinished(k) => j < k}

\* heartbeat(scope, name), called by task i
Heartbeat(i) ==
    /\ workers[i].status = "running"
    /\ workers' = [j \in Registered |->
                     [workers[j] EXCEPT !.beat = IF j \in Addressed(i) THEN time ELSE @,
                                        !.progress = IF j = i THEN time ELSE @]]
    /\ UNCHANGED time

\* touch(task), called by task i
Touch(i) ==
    /\ workers[i].status = "running"
    /\ workers' = [workers EXCEPT ![i].beat = time, ![i].progress = time]
    /\ UNCHANGED time

\* The runner backs off and runs again, or the task ends.
StatusChanges(i, status) ==
    /\ Unfinished(i) /\ workers[i].status # status
    /\ workers' = [workers EXCEPT ![i].status = status]
    /\ UNCHANGED time

Second ==
    /\ time < LastBeat
    /\ time' = time + 1
    /\ UNCHANGED workers

\* The last signal of a task; for a service without one, its creation.
ProgressAt(i) ==
    IF workers[i].beat # Never THEN workers[i].beat
    ELSE IF workers[i].service THEN workers[i].created ELSE Never

\* stale_tasks, of the running tasks in snapshot
StaleTasks ==
    {i \in Registered : /\ workers[i].status = "running"
                        /\ ProgressAt(i) # Never
                        /\ time - ProgressAt(i) > MaxAge}

BeatInit == time = 0 /\ workers = <<>>

BeatNext ==
    \/ Second
    \/ \E name \in TaskNames, service \in BOOLEAN : CreateWorker(name, service)
    \/ \E i \in Registered :
          \/ Heartbeat(i) \/ Touch(i)
          \/ \E status \in {"running", "restarting", "done"} : StatusChanges(i, status)

BeatSpec == BeatInit /\ [][BeatNext]_beatVars

-----------------------------------------------------------------------------
(***************************************************************************)
(* Properties.                                                             *)
(***************************************************************************)
BeatTypeOK ==
    /\ time \in 0..LastBeat
    /\ workers \in Seq([name : TaskNames, service : BOOLEAN,
                        status : {"running", "restarting", "done"}, created : 0..LastBeat,
                        beat : 0..Never, progress : 0..LastBeat, alone : BOOLEAN])

Overdue(i) == time - workers[i].progress > MaxAge

\* A running task that has never shared its name is reported as stale exactly
\* when it owes a signal and has given none for too long.  Namesakes signal
\* for each other, but a service is reported once none of them makes progress.
HungIsReported ==
    /\ BeatTypeOK
    /\ \A i \in Registered : workers[i].status = "running" =>
          /\ workers[i].alone =>
                (i \in StaleTasks
                    <=> Overdue(i) /\ (workers[i].service \/ workers[i].beat # Never))
          /\ (workers[i].service /\ \A j \in Namesakes(i) \cup {i} : Overdue(j))
                => i \in StaleTasks
=============================================================================
