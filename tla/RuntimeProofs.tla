--------------------------- MODULE RuntimeProofs ----------------------------
(***************************************************************************)
(* What the runtime guarantees of its tasks: the supervisor's registry,    *)
(* runners and cancellations for any tasks, scopes and callers, the        *)
(* progress signals for any tasks that share names, the watchdog, and the  *)
(* cooldowns of its alerts.                                                *)
(***************************************************************************)
EXTENDS TaskSupervisor, Heartbeats, Watchdog, Alerts, SequenceTheorems,
        FiniteSetTheorems, WellFoundedInduction, TLAPS

-----------------------------------------------------------------------------
(***************************************************************************)
(* The task supervisor.                                                    *)
(***************************************************************************)
Calls == [all : BOOLEAN, scopes : SUBSET Scopes, members : SUBSET Tasks,
          running : SUBSET Tasks, owed : SUBSET Tasks, reached : SUBSET Tasks]

Lives == {"none", "alive", "ok", "error", "cancelled"}
Places == {"start", "run", "sleep", "notify"}

\* What asyncio knows of the tasks
AsyncTyped ==
    /\ created \in 0..MaxTasks
    /\ scope \in [Tasks -> Scopes \cup {NoScope}]
    /\ kind \in [Tasks -> AllKinds]
    /\ life \in [Tasks -> Lives]
    /\ \A t \in Tasks : life[t] = "none" <=> t > created
    /\ \A t \in 1..created : scope[t] \in Scopes
    /\ asked \subseteq {t \in Tasks : Alive(t)}
    /\ callback \subseteq {t \in Tasks : Done(t)}
    /\ cleared \subseteq 1..created

\* What the runners count
RunnerTyped ==
    /\ at \in [Tasks -> Places]
    /\ consecutive \in [Tasks -> Nat]
    /\ longRuns \in [Tasks -> Nat]
    /\ burst \in [Tasks -> Nat]

\* What the registry records
RegistryTyped ==
    /\ DOMAIN meta \subseteq 1..created
    /\ \A t \in DOMAIN meta : meta[t] \in Metadata
    /\ DOMAIN byScope \subseteq Scopes

Running(t) == Alive(t) /\ kind[t].resilient

\* A runner's counters agree with where it is.
RunnerOK(t) ==
    /\ burst[t] <= RestartLimit + 1
    /\ life[t] = "none" \/ (Running(t) /\ at[t] = "start") =>
          burst[t] = 0 /\ consecutive[t] = 0
    /\ Running(t) /\ at[t] = "run" =>
          burst[t] = consecutive[t] + 1 /\ consecutive[t] <= RestartLimit
    /\ Running(t) /\ at[t] = "sleep" =>
          burst[t] = consecutive[t] /\ consecutive[t] <= RestartLimit
    /\ kind[t].resilient /\ (at[t] = "notify" \/ life[t] = "error") =>
          burst[t] = RestartLimit + 1

\* The record of a task agrees with where its runner is, and a failure that
\* nobody cleared is still recorded.
ShownOK(t) ==
    /\ Alive(t) => t \in DOMAIN meta /\ meta[t].finished = FALSE
    /\ Alive(t) /\ at[t] = "sleep" => meta[t].circuit = "half-open"
    /\ Alive(t) /\ at[t] = "notify" =>
          meta[t].circuit = "open" /\ meta[t].error = TRUE
    /\ Alive(t) /\ at[t] \in {"start", "run"} => meta[t].circuit = "closed"
    /\ life[t] = "error" /\ kind[t].resilient /\ t \notin cleared =>
          t \in DOMAIN meta /\ meta[t].circuit = "open" /\ meta[t].error = TRUE

TasksOK == \A t \in Tasks : RunnerOK(t) /\ ShownOK(t)

\* The history of completed tasks
Kept == {t \in Tasks : Completed(t) /\ t \notin callback}

\* A call waits for tasks that exist, and cancel_all has reached what it owes
\* or will reach it with a scope that is still to come.
CallOK(k) ==
    /\ k.members \subseteq 1..created
    /\ k.owed \subseteq 1..created
    /\ \A t \in k.members : Alive(t) => t \in k.running
    /\ k.all => \A t \in k.owed :
                   t \in k.reached \/ ~Alive(t) \/ scope[t] \in k.scopes

CallsOK == call \in [Callers -> Calls] /\ \A c \in Callers : CallOK(call[c])

\* The inductive invariant
IInv == /\ AsyncTyped /\ RunnerTyped /\ RegistryTyped
        /\ IndexAgrees /\ TasksOK /\ HistoryBounded /\ CallsOK

-----------------------------------------------------------------------------
\* The history stays bounded as long as no completed task is added to it.
LEMMA KeptShrinks ==
    ASSUME HistoryBounded, SupervisorAssumption,
           Kept' \subseteq Kept
    PROVE  HistoryBounded'
<1>1. IsFiniteSet(Tasks)
  BY FS_Interval DEF Tasks, SupervisorAssumption
<1>2. IsFiniteSet(Kept)
  BY <1>1, FS_Subset DEF Kept
<1>3. Cardinality(Kept') \in Nat /\ Cardinality(Kept) \in Nat
       /\ Cardinality(Kept') <= Cardinality(Kept)
  BY <1>2, FS_Subset, FS_CardinalityType
<1> QED
  BY <1>3 DEF HistoryBounded, Kept, SupervisorAssumption

\* A supervisor without tasks satisfies the invariant.
LEMMA InitInv == SupervisorAssumption /\ Init => IInv
<1> SUFFICES ASSUME SupervisorAssumption, Init PROVE IInv
  OBVIOUS
<1>1. AsyncTyped
  BY DEF Init, AsyncTyped, SupervisorAssumption, Tasks, AllKinds, Lives, Alive, Done
<1>2. RunnerTyped
  BY DEF Init, RunnerTyped, Places
<1>3. RegistryTyped
  BY DEF Init, RegistryTyped, Empty
<1>4. IndexAgrees
  BY DEF Init, IndexAgrees, ScopeTasks, MembersOf, Empty
<1>5. TasksOK
  BY DEF Init, TasksOK, RunnerOK, ShownOK, Alive, Running, SupervisorAssumption
<1>6. HistoryBounded
  <2>1. {t \in Tasks : Completed(t) /\ t \notin callback} = {}
    BY DEF Init, Completed, Empty
  <2> QED
    BY <2>1, FS_EmptySet DEF HistoryBounded, SupervisorAssumption
<1>7. CallsOK
  BY DEF Init, CallsOK, CallOK, Calls, Idle, Call
<1> QED
  BY <1>1, <1>2, <1>3, <1>4, <1>5, <1>6, <1>7 DEF IInv

-----------------------------------------------------------------------------
\* A step of task t as the invariant sees it: its own record changes to one
\* that is in order, and the others stay.
Moved(t) ==
    /\ Alive(t)
    /\ UNCHANGED <<created, scope, kind, call, cleared, byScope>>
    /\ life' \in [Tasks -> Lives] /\ life'[t] # "none"
    /\ \A u \in Tasks \ {t} : life'[u] = life[u]
    /\ asked' \subseteq asked /\ (life'[t] # "alive" => t \notin asked')
    /\ callback' = IF life'[t] = "alive" THEN callback ELSE callback \cup {t}
    /\ RunnerTyped'
    /\ \A u \in Tasks \ {t} :
          at'[u] = at[u] /\ consecutive'[u] = consecutive[u] /\ burst'[u] = burst[u]
    /\ DOMAIN meta' = DOMAIN meta
    /\ \A u \in DOMAIN meta \ {t} : meta'[u] = meta[u]
    /\ meta'[t] \in Metadata /\ meta'[t].finished = FALSE
    /\ RunnerOK(t)' /\ ShownOK(t)'

\* A step of one task that leaves the registry's other records alone keeps the
\* invariant if its own record tells what the runner does.
LEMMA MovedKeeps ==
    ASSUME IInv, SupervisorAssumption, NEW t \in Tasks, Moved(t)
    PROVE  IInv'
<1> USE DEF IInv
<1>0. t \in DOMAIN meta /\ meta[t].finished = FALSE
  BY DEF Moved, TasksOK, ShownOK
<1>1. AsyncTyped'
  <2>1. \A u \in Tasks : life'[u] = "none" <=> u > created'
    BY DEF Moved, AsyncTyped, Alive
  <2>2. asked' \subseteq {u \in Tasks : Alive(u)}'
    BY DEF Moved, AsyncTyped, Alive
  <2>3. callback' \subseteq {u \in Tasks : Done(u)}'
    BY DEF Moved, AsyncTyped, Alive, Done, Lives
  <2> QED
    BY <2>1, <2>2, <2>3 DEF Moved, AsyncTyped
<1>2. RunnerTyped'
  BY DEF Moved
<1>3. RegistryTyped'
  BY DEF Moved, RegistryTyped
<1>4. IndexAgrees'
  BY <1>0 DEF Moved, IndexAgrees, ScopeTasks, MembersOf
<1>5. TasksOK'
  <2> SUFFICES ASSUME NEW u \in Tasks, u # t PROVE RunnerOK(u)' /\ ShownOK(u)'
    BY DEF Moved, TasksOK
  <2>1. RunnerOK(u)'
    BY DEF Moved, TasksOK, RunnerOK, Running, Alive
  <2>2. ShownOK(u)'
    BY DEF Moved, TasksOK, ShownOK, Alive
  <2> QED
    BY <2>1, <2>2
<1>6. HistoryBounded'
  <2>1. \A u \in Tasks : u \in Kept' => u \in Kept
    BY DEF Moved, Kept, Completed, Done, Alive
  <2> QED
    BY <2>1, KeptShrinks DEF Kept
<1>7. CallsOK'
  BY DEF Moved, CallsOK, CallOK, Alive, AsyncTyped, Tasks, Lives, Calls
<1> QED
  BY <1>1, <1>2, <1>3, <1>4, <1>5, <1>6, <1>7

\* A run that fails, with what the runner makes of it
FailsAs(t, long, failures) ==
    /\ failures = Failures(t, long)
    /\ Resilient(t, "run")
    /\ longRuns' = IF long THEN [longRuns EXCEPT ![t] = @ + 1] ELSE longRuns
    /\ burst' = IF long THEN [burst EXCEPT ![t] = 1] ELSE burst
    /\ consecutive' = [consecutive EXCEPT ![t] = failures]
    /\ at' = [at EXCEPT ![t] = IF TooMany(failures) THEN "notify" ELSE "sleep"]
    /\ SetMeta(t, [meta[t] EXCEPT !.error = TRUE,
                                  !.circuit = CircuitAfter(failures)])
    /\ asked' = asked \ {t}
    /\ UNCHANGED <<External, life, callback>>

\* Every step of a task or of its resilient runner is such a step: the record
\* shown of it agrees with what it has just done.
LEMMA TaskMoves ==
    ASSUME IInv, SupervisorAssumption, NEW t \in Tasks,
           \/ DeliverCancel(t) \/ IgnoreCancel(t) \/ PlainEnds(t)
           \/ Run(t) \/ RunFails(t) \/ CircuitOpen(t) \/ RunReturns(t) \/ RunExits(t)
    PROVE  Moved(t)
<1> USE DEF IInv
<1>0. /\ Alive(t) /\ kind[t] \in AllKinds
      /\ t \in DOMAIN meta /\ meta[t] \in Metadata /\ meta[t].finished = FALSE
      /\ RunnerOK(t) /\ ShownOK(t)
  BY DEF TasksOK, ShownOK, RegistryTyped, AsyncTyped, DeliverCancel, IgnoreCancel,
         PlainEnds, Run, RunFails, CircuitOpen, RunReturns, RunExits, Resilient
<1>e. ASSUME NEW how \in {"ok", "error", "cancelled"}, End(t, how),
             UNCHANGED <<External, runner, byScope>>,
             DOMAIN meta' = DOMAIN meta,
             \A u \in DOMAIN meta \ {t} : meta'[u] = meta[u],
             meta'[t] \in Metadata, meta'[t].finished = FALSE,
             how = "error" /\ kind[t].resilient =>
                 at[t] = "notify" /\ meta'[t].circuit = "open" /\ meta'[t].error = TRUE
      PROVE  Moved(t)
  <2>1. life'[t] = how /\ life' \in [Tasks -> Lives]
         /\ \A u \in Tasks \ {t} : life'[u] = life[u]
    BY <1>e DEF End, AsyncTyped, Lives
  <2>2. RunnerOK(t)'
    BY <1>e, <2>1, <1>0 DEF RunnerOK, Running, Alive, External, runner
  <2>3. ShownOK(t)'
    BY <1>e, <2>1, <1>0 DEF ShownOK, Alive, External, runner
  <2> QED
    BY <1>e, <1>0, <2>1, <2>2, <2>3 DEF Moved, End, External, runner, RunnerTyped
<1>m. ASSUME NEW m \in Metadata, SetMeta(t, m), m.finished = FALSE
      PROVE  /\ UNCHANGED byScope /\ DOMAIN meta' = DOMAIN meta
             /\ \A u \in DOMAIN meta \ {t} : meta'[u] = meta[u]
             /\ meta'[t] = m
  BY <1>m, <1>0 DEF SetMeta
<1>1. CASE DeliverCancel(t)
  BY <1>1, <1>e, <1>0 DEF DeliverCancel, registry
<1>2. CASE IgnoreCancel(t)
  <2>1. RunnerOK(t)' /\ ShownOK(t)'
    BY <1>2, <1>0 DEF IgnoreCancel, External, runner, registry, RunnerOK, ShownOK, Running, Alive
  <2> QED
    BY <1>2, <1>0, <2>1 DEF IgnoreCancel, Moved, External, runner, registry, RunnerTyped, AsyncTyped, Alive
<1>3. CASE PlainEnds(t)
  BY <1>3, <1>e, <1>0 DEF PlainEnds, registry
<1>4. CASE CircuitOpen(t)
  BY <1>4, <1>e, <1>0 DEF CircuitOpen, Resilient, registry, ShownOK
<1>5. CASE RunReturns(t)
  <2> DEFINE m == [meta[t] EXCEPT !.circuit = "closed", !.error = FALSE]
  <2>1. m \in Metadata /\ m.finished = FALSE
    BY <1>0 DEF Metadata
  <2> HIDE DEF m
  <2>2. SetMeta(t, m) /\ End(t, "ok")
    BY <1>5 DEF RunReturns, m
  <2> QED
    BY <1>5, <1>e, <1>m, <2>1, <2>2 DEF RunReturns
<1>6. CASE RunExits(t)
  <2> DEFINE m == [meta[t] EXCEPT !.expected = TRUE]
  <2>1. m \in Metadata /\ m.finished = FALSE
    BY <1>0 DEF Metadata
  <2> HIDE DEF m
  <2>2. SetMeta(t, m) /\ End(t, "ok")
    BY <1>6 DEF RunExits, m
  <2> QED
    BY <1>6, <1>e, <1>m, <2>1, <2>2 DEF RunExits
<1>7. CASE Run(t)
  <2> DEFINE m == [meta[t] EXCEPT !.circuit = "closed"]
  <2>1. m \in Metadata /\ m.finished = FALSE /\ m.circuit = "closed"
    BY <1>0 DEF Metadata
  <2> HIDE DEF m
  <2>2. SetMeta(t, m)
    BY <1>7 DEF Run, m
  <2>3. at'[t] = "run" /\ burst'[t] = burst[t] + 1
         /\ UNCHANGED <<External, asyncioVars, consecutive, longRuns>>
    BY <1>7 DEF Run, RunnerTyped
  <2>4. RunnerTyped' /\ \A u \in Tasks \ {t} :
           at'[u] = at[u] /\ consecutive'[u] = consecutive[u] /\ burst'[u] = burst[u]
    BY <1>7 DEF Run, RunnerTyped, Places
  <2>5. RunnerOK(t)'
    BY <1>7, <1>0, <2>3 DEF RunnerOK, Running, Alive, External, asyncioVars,
       RunnerTyped, SupervisorAssumption, Run, Resilient
  <2>6. ShownOK(t)'
    BY <1>0, <1>m, <2>1, <2>2, <2>3 DEF ShownOK, Alive, External, asyncioVars
  <2> QED
    BY <1>0, <1>m, <2>1, <2>2, <2>3, <2>4, <2>5, <2>6
    DEF Moved, External, asyncioVars, AsyncTyped, Alive
<1>8. CASE RunFails(t)
  <2>a. PICK long \in BOOLEAN : \E failures : FailsAs(t, long, failures)
    BY <1>8 DEF RunFails, FailsAs
  <2>b. PICK failures : FailsAs(t, long, failures)
    BY <2>a
  <2>1. /\ failures = Failures(t, long)
        /\ Resilient(t, "run")
        /\ longRuns' = IF long THEN [longRuns EXCEPT ![t] = @ + 1] ELSE longRuns
        /\ burst' = IF long THEN [burst EXCEPT ![t] = 1] ELSE burst
        /\ consecutive' = [consecutive EXCEPT ![t] = failures]
        /\ at' = [at EXCEPT ![t] = IF TooMany(failures) THEN "notify" ELSE "sleep"]
        /\ SetMeta(t, [meta[t] EXCEPT !.error = TRUE,
                                      !.circuit = CircuitAfter(failures)])
        /\ asked' = asked \ {t}
        /\ UNCHANGED <<External, life, callback>>
    BY <2>b DEF FailsAs
  <2> DEFINE m == [meta[t] EXCEPT !.error = TRUE, !.circuit = CircuitAfter(failures)]
  <2>2. m \in Metadata /\ m.finished = FALSE /\ m.error = TRUE
         /\ m.circuit = CircuitAfter(failures)
    BY <1>0 DEF Metadata, CircuitAfter
  <2> HIDE DEF m
  <2>3. SetMeta(t, m)
    BY <2>1 DEF m
  <2>4. failures \in Nat
    BY <2>1 DEF Failures, RunnerTyped
  <2>5. RunnerTyped' /\ \A u \in Tasks \ {t} :
           at'[u] = at[u] /\ consecutive'[u] = consecutive[u] /\ burst'[u] = burst[u]
    BY <2>1, <2>4 DEF RunnerTyped, Places
  <2>6. RunnerOK(t)'
    <3>1. /\ burst'[t] = IF long THEN 1 ELSE burst[t]
          /\ consecutive'[t] = failures
          /\ at'[t] = IF TooMany(failures) THEN "notify" ELSE "sleep"
          /\ UNCHANGED <<kind, life>>
      BY <2>1 DEF RunnerTyped, External
    <3>2. burst[t] = consecutive[t] + 1 /\ consecutive[t] <= RestartLimit
           /\ burst[t] \in Nat /\ consecutive[t] \in Nat
      BY <2>1, <1>0 DEF RunnerOK, Resilient, Running, RunnerTyped
    <3>3. failures = burst'[t] /\ burst'[t] <= RestartLimit + 1
      BY <2>1, <3>1, <3>2 DEF Failures, SupervisorAssumption
    <3> QED
      BY <3>1, <3>3, <2>4, <1>0 DEF RunnerOK, Running, Alive, TooMany, SupervisorAssumption
  <2>7. ShownOK(t)'
    <3>1. at'[t] = (IF TooMany(failures) THEN "notify" ELSE "sleep")
          /\ UNCHANGED <<kind, life, cleared>>
      BY <2>1 DEF RunnerTyped, External
    <3> QED
      BY <3>1, <2>2, <2>3, <1>m, <1>0 DEF ShownOK, Alive, CircuitAfter
  <2> QED
    BY <1>0, <1>m, <2>1, <2>2, <2>3, <2>5, <2>6, <2>7
    DEF Moved, External, AsyncTyped, Alive
<1> QED
  BY <1>1, <1>2, <1>3, <1>4, <1>5, <1>6, <1>7, <1>8

-----------------------------------------------------------------------------
\* The tasks of gone are in no record and in no scope any more.
ForgetsFrom(gone) ==
    /\ DOMAIN meta' = DOMAIN meta \ gone
    /\ \A t \in DOMAIN meta' : meta'[t] = meta[t]
    /\ \A s \in Scopes : ScopeTasks(s)' = ScopeTasks(s) \ gone
    /\ DOMAIN byScope' \subseteq DOMAIN byScope

\* Forgetting removes tasks from the records and from their scopes.
LEMMA ForgetAllForgets ==
    ASSUME NEW S, ForgetAll(S), IndexAgrees
    PROVE  ForgetsFrom(S)
<1> DEFINE gone == S \cap DOMAIN meta
           left(s) == byScope[s] \ gone
           emptied == {s \in DOMAIN byScope :
                         left(s) = {} /\ \E t \in gone : scope[t] = s}
<1>1. meta' = Drop(meta, gone)
       /\ byScope' = [s \in DOMAIN byScope \ emptied |-> left(s)]
  BY DEF ForgetAll
<1>2. DOMAIN meta' = DOMAIN meta \ S /\ \A t \in DOMAIN meta' : meta'[t] = meta[t]
  BY <1>1 DEF Drop
<1>3. DOMAIN byScope' = DOMAIN byScope \ emptied
       /\ \A s \in DOMAIN byScope' : byScope'[s] = byScope[s] \ gone
  BY <1>1
<1>4. \A s \in emptied : byScope[s] \ gone = {}
  OBVIOUS
<1> HIDE DEF emptied, left
<1>5. ASSUME NEW s \in Scopes PROVE ScopeTasks(s)' = ScopeTasks(s) \ S
  <2>1. ScopeTasks(s) \subseteq DOMAIN meta
    BY DEF IndexAgrees, MembersOf
  <2>2. CASE s \in DOMAIN byScope'
    BY <2>1, <2>2, <1>3 DEF ScopeTasks
  <2>3. CASE s \notin DOMAIN byScope'
    BY <2>1, <2>3, <1>3, <1>4 DEF ScopeTasks
  <2> QED
    BY <2>2, <2>3
<1> QED
  BY <1>2, <1>3, <1>5 DEF ForgetsFrom

\* Tasks that may be forgotten
Harmless(S) ==
    \A t \in S : /\ ~Alive(t)
                 /\ life[t] = "error" => t \in cleared' \/ t \notin DOMAIN meta
                                           \/ meta[t].error = FALSE

\* The invariant but for the calls
RegistryKept ==
    /\ AsyncTyped' /\ RunnerTyped' /\ RegistryTyped'
    /\ IndexAgrees' /\ TasksOK' /\ HistoryBounded'

\* Forgetting tasks that are not alive, and no failure that nobody cleared,
\* keeps the registry's part of the invariant.
LEMMA ForgetKeeps ==
    ASSUME IInv, SupervisorAssumption, NEW S, ForgetAll(S), Harmless(S),
           UNCHANGED Outside, asked' \subseteq {t \in Tasks : Alive(t)},
           cleared \subseteq cleared', cleared' \subseteq 1..created
    PROVE  RegistryKept
<1> USE DEF IInv, Outside
<1>0. ForgetsFrom(S)
  BY ForgetAllForgets
<1>1. AsyncTyped' /\ RunnerTyped'
  BY DEF AsyncTyped, Alive, Done, runner, RunnerTyped
<1>2. RegistryTyped'
  BY <1>0 DEF ForgetsFrom, RegistryTyped
<1>3. IndexAgrees'
  BY <1>0 DEF ForgetsFrom, IndexAgrees, MembersOf
<1>4. TasksOK'
  <2> SUFFICES ASSUME NEW u \in Tasks PROVE RunnerOK(u)' /\ ShownOK(u)'
    BY DEF TasksOK
  <2>1. RunnerOK(u)'
    BY DEF TasksOK, RunnerOK, Running, Alive, runner
  <2>2. ShownOK(u)'
    BY <1>0 DEF ForgetsFrom, Harmless, TasksOK, ShownOK, Alive, runner
  <2> QED
    BY <2>1, <2>2
<1>5. HistoryBounded'
  <2>1. \A u \in Tasks : u \in Kept' => u \in Kept
    BY <1>0 DEF ForgetsFrom, Kept, Completed, Done
  <2> QED
    BY <2>1, KeptShrinks DEF Kept
<1> QED
  BY <1>1, <1>2, <1>3, <1>4, <1>5 DEF RegistryKept

\* A step that leaves the registry alone keeps the registry's part.
LEMMA SameKeeps ==
    ASSUME IInv, SupervisorAssumption, UNCHANGED <<Outside, registry, cleared>>,
           asked' \subseteq {t \in Tasks : Alive(t)}
    PROVE  RegistryKept
<1> USE DEF IInv, Outside, registry
<1>1. AsyncTyped' /\ RunnerTyped' /\ RegistryTyped'
  BY DEF AsyncTyped, Alive, Done, runner, RunnerTyped, RegistryTyped
<1>2. IndexAgrees'
  BY DEF IndexAgrees, MembersOf, ScopeTasks
<1>3. TasksOK'
  BY DEF TasksOK, RunnerOK, ShownOK, Running, Alive, runner
<1>4. HistoryBounded'
  <2>1. \A u \in Tasks : u \in Kept' => u \in Kept
    BY DEF Kept, Completed, Done
  <2> QED
    BY <2>1, KeptShrinks DEF Kept
<1> QED
  BY <1>1, <1>2, <1>3, <1>4 DEF RegistryKept

-----------------------------------------------------------------------------
\* What clear_scope_failures() does to a scope
ClearsOf(s, failed) ==
    /\ failed = {t \in MembersOf(s) : Done(t) /\ meta[t].error}
    /\ ForgetAll(failed)
    /\ cleared' = cleared \cup failed
    /\ UNCHANGED <<Outside, asked, call>>

\* clear_scope_failures() keeps the invariant.
LEMMA ClearKeeps ==
    ASSUME IInv, SupervisorAssumption, ClearFailures
    PROVE  IInv'
<1>0. PICK s \in Scopes : \E failed : ClearsOf(s, failed)
  BY DEF ClearFailures, ClearsOf
<1>1. PICK failed :
        /\ failed = {t \in MembersOf(s) : Done(t) /\ meta[t].error}
        /\ ForgetAll(failed)
        /\ cleared' = cleared \cup failed
        /\ UNCHANGED <<Outside, asked, call>>
  BY <1>0 DEF ClearsOf
<1>2. Harmless(failed)
  BY <1>1 DEF Harmless, Alive, Done
<1>3. failed \subseteq 1..created
  BY <1>1 DEF IInv, RegistryTyped, MembersOf
<1>4. RegistryKept
  BY <1>1, <1>2, <1>3, ForgetKeeps DEF IInv, AsyncTyped
<1>5. CallsOK'
  BY <1>1 DEF IInv, CallsOK, CallOK, Alive, Outside
<1> QED
  BY <1>4, <1>5 DEF IInv, RegistryKept

\* create() keeps the invariant.
LEMMA CreateKeeps ==
    ASSUME IInv, SupervisorAssumption, Create
    PROVE  IInv'
<1> USE DEF IInv
<1>0. PICK t : t = created + 1
  OBVIOUS
<1>1. PICK s \in Scopes, k \in Kinds :
            /\ created' = t
            /\ scope' = [scope EXCEPT ![t] = s]
            /\ kind' = [kind EXCEPT ![t] = k]
            /\ life' = [life EXCEPT ![t] = "alive"]
            /\ at' = [at EXCEPT ![t] = IF k.resilient THEN "start" ELSE "run"]
            /\ Register(t, s)
  BY <1>0 DEF Create
<1>2. UNCHANGED <<asked, callback, consecutive, longRuns, burst, call, cleared>>
  BY DEF Create
<1>3. /\ t \in Tasks /\ t = created + 1 /\ created \in Nat /\ life[t] = "none"
      /\ t \notin 1..created /\ 1..created \subseteq 1..t
      /\ \A u \in 1..t : u = t \/ u \in 1..created
      /\ k \in AllKinds /\ NewMetadata \in Metadata
      /\ k.resilient \in BOOLEAN
  BY <1>0 DEF Create, Tasks, AsyncTyped, SupervisorAssumption, AllKinds, NewMetadata, Metadata
<1>4. /\ life'[t] = "alive" /\ \A u \in Tasks \ {t} : life'[u] = life[u]
      /\ kind'[t] = k /\ \A u \in Tasks \ {t} : kind'[u] = kind[u]
      /\ scope'[t] = s /\ \A u \in Tasks \ {t} : scope'[u] = scope[u]
      /\ at'[t] = (IF k.resilient THEN "start" ELSE "run")
      /\ \A u \in Tasks \ {t} : at'[u] = at[u]
  BY <1>1, <1>3 DEF AsyncTyped, RunnerTyped
<1>5. /\ DOMAIN meta' = DOMAIN meta \cup {t} /\ meta'[t] = NewMetadata
      /\ \A u \in DOMAIN meta : meta'[u] = meta[u]
  BY <1>1, <1>3 DEF Register, Put, RegistryTyped
<1>6. /\ DOMAIN byScope' = DOMAIN byScope \cup {s}
      /\ ScopeTasks(s)' = ScopeTasks(s) \cup {t}
      /\ \A z \in Scopes \ {s} : ScopeTasks(z)' = ScopeTasks(z)
  BY <1>1 DEF Register, Put, ScopeTasks
<1>7. \A u \in 1..created : u \in Tasks \ {t}
  BY <1>3 DEF AsyncTyped, Tasks, SupervisorAssumption
<1>8. AsyncTyped'
  <2>1. /\ scope' \in [Tasks -> Scopes \cup {NoScope}]
        /\ kind' \in [Tasks -> AllKinds] /\ life' \in [Tasks -> Lives]
    BY <1>1, <1>3 DEF AsyncTyped, Lives
  <2>2. \A u \in Tasks : life'[u] = "none" <=> u > created'
    BY <1>1, <1>3, <1>4 DEF AsyncTyped, Tasks
  <2>3. \A u \in 1..created' : scope'[u] \in Scopes
    BY <1>1, <1>3, <1>4, <1>7 DEF AsyncTyped
  <2>4. asked' \subseteq {u \in Tasks : Alive(u)}' /\ callback' \subseteq {u \in Tasks : Done(u)}'
    BY <1>2, <1>3, <1>4 DEF AsyncTyped, Alive, Done
  <2>5. cleared' \subseteq 1..created' /\ created' \in 0..MaxTasks
    BY <1>1, <1>2, <1>3 DEF AsyncTyped, Tasks
  <2> QED
    BY <2>1, <2>2, <2>3, <2>4, <2>5 DEF AsyncTyped
<1>9. RunnerTyped'
  BY <1>1, <1>2 DEF RunnerTyped, Places
<1>10. RegistryTyped'
  BY <1>1, <1>3, <1>5, <1>6 DEF RegistryTyped
<1>11. IndexAgrees'
  <2> SUFFICES ASSUME NEW z \in Scopes
               PROVE  (ScopeTasks(z) = {u \in MembersOf(z) : ~meta[u].finished})'
    BY DEF IndexAgrees
  <2>1. ScopeTasks(z) = {u \in MembersOf(z) : ~meta[u].finished}
    BY DEF IndexAgrees
  <2>2. \A u \in DOMAIN meta : u # t /\ u \in Tasks \ {t}
    BY <1>3, <1>7 DEF RegistryTyped
  <2>3. \A u : u \in {w \in MembersOf(z) : ~meta[w].finished}' <=>
               u \in {w \in MembersOf(z) : ~meta[w].finished} \/ (u = t /\ z = s)
    BY <2>2, <1>4, <1>5 DEF MembersOf, NewMetadata
  <2> QED
    BY <2>1, <2>3, <1>6
<1>12. TasksOK'
  <2>0. RunnerOK(t)'
    BY <1>2, <1>3, <1>4 DEF TasksOK, RunnerOK, Alive, Running
  <2>1. ShownOK(t)'
    BY <1>4, <1>5 DEF ShownOK, Alive, NewMetadata
  <2> SUFFICES ASSUME NEW u \in Tasks \ {t} PROVE RunnerOK(u)' /\ ShownOK(u)'
    BY <2>0, <2>1 DEF TasksOK
  <2>2. RunnerOK(u)'
    BY <1>2, <1>4 DEF TasksOK, RunnerOK, Running, Alive
  <2>3. ShownOK(u)'
    BY <1>2, <1>4, <1>5 DEF TasksOK, ShownOK, Alive
  <2> QED
    BY <2>2, <2>3
<1>13. HistoryBounded'
  <2>1. \A u \in Tasks : u \in Kept' => u \in Kept
    BY <1>2, <1>4, <1>5 DEF Kept, Completed, Done
  <2> QED
    BY <2>1, KeptShrinks DEF Kept
<1>14. CallsOK'
  <2> SUFFICES ASSUME NEW c \in Callers PROVE CallOK(call[c])'
    BY <1>2 DEF CallsOK
  <2>1. CallOK(call[c]) /\ call'[c] = call[c]
    BY <1>2 DEF CallsOK
  <2>2. \A u \in 1..created : (Alive(u)' <=> Alive(u)) /\ scope'[u] = scope[u]
    BY <1>4, <1>7 DEF Alive
  <2>3. call[c].members \subseteq 1..created' /\ call[c].owed \subseteq 1..created'
    BY <2>1, <1>1, <1>3 DEF CallOK
  <2> QED
    BY <2>1, <2>2, <2>3 DEF CallOK
<1> QED
  BY <1>8, <1>9, <1>10, <1>11, <1>12, <1>13, <1>14

-----------------------------------------------------------------------------
\* A set of naturals has a least member.
LEMMA LeastTask ==
  ASSUME NEW S \in SUBSET Nat, S # {}
  PROVE  \E m \in S : \A k \in S : m <= k
<1>1. PICK m \in S : \A k \in S : <<k, m>> \notin OpToRel(<, Nat)
  BY NatLessThanWellFounded, WFMin
<1>2. \A k \in S : ~(k < m)
  BY <1>1 DEF OpToRel
<1> QED
  BY <1>2

\* If fewer than limit members of a finite set are newer than each one that is
\* kept, no more than limit are kept.
LEMMA NewestBounded ==
    ASSUME NEW S \in SUBSET Nat, IsFiniteSet(S), NEW limit \in Nat,
           NEW K \in SUBSET S,
           \A t \in K : Cardinality({u \in S : u > t}) < limit
    PROVE  Cardinality(K) <= limit
<1> SUFFICES ASSUME ~(Cardinality(K) <= limit) PROVE FALSE
  OBVIOUS
<1>1. IsFiniteSet(K) /\ Cardinality(K) \in Nat
  BY FS_Subset, FS_CardinalityType
<1>2. K # {}
  BY <1>1, FS_EmptySet
<1>3. PICK m \in K : \A k \in K : m <= k
  BY <1>2, LeastTask
<1> DEFINE newer == {u \in S : u > m}
<1>4. K \ {m} \subseteq newer
  BY <1>3
<1>5. IsFiniteSet(newer) /\ newer \subseteq S
  BY FS_Subset
<1> HIDE DEF newer
<1>6. Cardinality(K \ {m}) = Cardinality(K) - 1
  BY <1>1, FS_RemoveElement
<1>7. Cardinality(K \ {m}) <= Cardinality(newer) /\ Cardinality(newer) \in Nat
  BY <1>4, <1>5, FS_Subset, FS_CardinalityType
<1>8. Cardinality(newer) < limit
  BY DEF newer
<1> QED
  BY <1>1, <1>6, <1>7, <1>8

\* What the done callback makes of the registry
SettledAs(t, error, S) ==
    /\ DOMAIN meta' = DOMAIN meta \ S
    /\ \A u \in DOMAIN meta' \ {t} : meta'[u] = meta[u]
    /\ t \notin S => /\ meta'[t] \in Metadata /\ meta'[t].finished = TRUE
                     /\ meta'[t].circuit = meta[t].circuit
                     /\ meta'[t].error = (meta[t].error \/ error)
    /\ \A s \in Scopes : ScopeTasks(s)' = ScopeTasks(s) \ (S \cup {t})
    /\ DOMAIN byScope' \subseteq DOMAIN byScope

\* The done callback marks a task as finished, takes it from its scope and
\* drops the records beyond the history.
LEMMA SettleSettles ==
    ASSUME NEW t \in DOMAIN meta, meta[t] \in Metadata, NEW error \in BOOLEAN,
           NEW S, Settle(t, error, S)
    PROVE  SettledAs(t, error, S)
<1> DEFINE left(s) == byScope[s] \ (S \cup {t})
           emptied == {s \in DOMAIN byScope :
                         left(s) = {} /\ \E u \in S : scope[u] = s}
           settled == [meta EXCEPT ![t].finished = TRUE, ![t].error = @ \/ error]
<1>1. meta' = Drop(settled, S)
       /\ byScope' = [s \in DOMAIN byScope \ emptied |-> left(s)]
  BY DEF Settle
<1>2. /\ DOMAIN settled = DOMAIN meta
      /\ \A u \in DOMAIN meta \ {t} : settled[u] = meta[u]
  OBVIOUS
<1>3. /\ settled[t] \in Metadata /\ settled[t].finished = TRUE
      /\ settled[t].circuit = meta[t].circuit
      /\ settled[t].error = (meta[t].error \/ error)
  BY DEF Metadata
<1> HIDE DEF settled
<1>4. /\ DOMAIN meta' = DOMAIN meta \ S
      /\ \A u \in DOMAIN meta \ S : meta'[u] = settled[u]
  BY <1>1, <1>2 DEF Drop
<1>5. DOMAIN byScope' = DOMAIN byScope \ emptied
       /\ \A s \in DOMAIN byScope' : byScope'[s] = byScope[s] \ (S \cup {t})
  BY <1>1
<1>6. \A s \in emptied : byScope[s] \ (S \cup {t}) = {}
  OBVIOUS
<1> HIDE DEF emptied, left
<1>7. \A s \in Scopes : ScopeTasks(s)' = ScopeTasks(s) \ (S \cup {t})
  BY <1>5, <1>6 DEF ScopeTasks
<1> QED
  BY <1>2, <1>3, <1>4, <1>5, <1>7 DEF SettledAs

\* The done callback keeps the invariant: it adds one record to the history and
\* prunes the history to its limit.
LEMMA DoneKeeps ==
    ASSUME IInv, SupervisorAssumption, NEW t \in Tasks, OnTaskDone(t)
    PROVE  IInv'
<1> USE DEF IInv
<1>0. /\ t \in callback /\ callback' = callback \ {t}
      /\ UNCHANGED <<External, life, asked, runner>> /\ Done(t)
  BY DEF OnTaskDone, AsyncTyped
<1>1. AsyncTyped' /\ RunnerTyped'
  BY <1>0 DEF AsyncTyped, RunnerTyped, External, runner, Alive, Done
<1>2. CallsOK'
  BY <1>0 DEF CallsOK, CallOK, External, Alive
<1>3. ASSUME NEW u \in Tasks PROVE RunnerOK(u)'
  BY <1>0 DEF TasksOK, RunnerOK, Running, Alive, External, runner
<1>4. CASE t \notin DOMAIN meta
  <2>1. UNCHANGED <<meta, byScope>>
    BY <1>4 DEF OnTaskDone, registry
  <2>2. RegistryTyped' /\ IndexAgrees'
    BY <1>0, <2>1 DEF RegistryTyped, IndexAgrees, ScopeTasks, MembersOf, External
  <2>3. ASSUME NEW u \in Tasks PROVE ShownOK(u)'
    BY <1>0, <2>1 DEF TasksOK, ShownOK, Alive, External, runner
  <2>4. HistoryBounded'
    <3>1. \A u \in Tasks : u \in Kept' => u \in Kept
      BY <1>0, <1>4, <2>1 DEF Kept, Completed, Done, External
    <3> QED
      BY <3>1, KeptShrinks DEF Kept
  <2>5. TasksOK'
    BY <1>3, <2>3 DEF TasksOK
  <2> QED
    BY <1>1, <1>2, <2>2, <2>4, <2>5
<1>5. CASE t \in DOMAIN meta
  <2>0. PICK error : error = (life[t] = "error") /\ error \in BOOLEAN
    OBVIOUS
  <2>1. PICK S : S = Forgotten(t)
    OBVIOUS
  <2>2. SettledAs(t, error, S)
    <3>1. Settle(t, error, S)
      BY <1>5, <2>0, <2>1 DEF OnTaskDone
    <3> QED
      BY <3>1, <2>0, <1>5, SettleSettles DEF RegistryTyped
  <2>3. \A u \in S : Done(u) /\ (life[u] = "error" => u \in DOMAIN meta /\ meta[u].error = FALSE)
    BY <2>1, <1>0, <1>5 DEF Forgotten, Excess, Completed, RegistryTyped, Metadata
  <2>4. RegistryTyped'
    BY <2>2, <1>0 DEF SettledAs, RegistryTyped, External
  <2>5. IndexAgrees'
    BY <2>2, <1>0 DEF SettledAs, IndexAgrees, MembersOf, External
  <2>6. ASSUME NEW u \in Tasks PROVE ShownOK(u)'
    <3>1. ShownOK(u) /\ (Alive(u))' = Alive(u) /\ UNCHANGED <<life, kind, at, cleared>>
      BY <1>0 DEF TasksOK, Alive, External, runner
    <3>2. CASE u = t
      <4>1. ~Alive(u)
        BY <1>0, <3>2 DEF Done, Alive
      <4>2. CASE life[u] = "error" /\ kind[u].resilient /\ u \notin cleared
        <5>1. u \notin S /\ meta[u].circuit = "open" /\ meta[u].error = TRUE
          BY <2>3, <3>1, <4>2 DEF ShownOK
        <5>2. u \in DOMAIN meta' /\ meta'[u].circuit = "open" /\ meta'[u].error = TRUE
          BY <2>2, <3>2, <1>5, <5>1 DEF SettledAs
        <5> QED
          BY <3>1, <4>1, <5>2 DEF ShownOK
      <4> QED
        BY <3>1, <4>1, <4>2 DEF ShownOK
    <3>3. CASE u # t
      <4>1. u \notin S => (u \in DOMAIN meta' <=> u \in DOMAIN meta)
                          /\ (u \in DOMAIN meta => meta'[u] = meta[u])
        BY <2>2, <3>3 DEF SettledAs
      <4>2. CASE u \in S
        BY <2>3, <3>1, <4>2 DEF ShownOK, Done, Alive
      <4>3. CASE u \notin S
        BY <3>1, <4>1, <4>3 DEF ShownOK
      <4> QED
        BY <4>2, <4>3
    <3> QED
      BY <3>2, <3>3
  <2>7. TasksOK'
    BY <1>3, <2>6 DEF TasksOK
  <2>8. HistoryBounded'
    <3>0. \A u \in Tasks : Completed(u)' => Completed(u) /\ u \notin S
      BY <2>0, <2>2, <1>0 DEF SettledAs, Completed, Done, External
    <3>1. CASE life[t] = "ok" /\ ~kind[t].service
      <4>1. S = Excess
        BY <3>1, <2>1 DEF Forgotten
      <4> DEFINE all == {u \in Tasks : Completed(u)}
      <4>0. IsFiniteSet(Tasks) /\ Tasks \in SUBSET Nat
        BY FS_Interval DEF Tasks, SupervisorAssumption
      <4>2. IsFiniteSet(all) /\ all \in SUBSET Nat
        BY <4>0, FS_Subset
      <4>3. \A u \in Kept' : u \in all /\ u \notin Excess
        BY <3>0, <4>1 DEF Kept
      <4>4. \A u \in Kept' : Cardinality({w \in all : w > u}) < HistoryLimit
        <5> SUFFICES ASSUME NEW u \in Kept'
                     PROVE  Cardinality({w \in all : w > u}) < HistoryLimit
          OBVIOUS
        <5>1. {w \in all : w > u} = {w \in Tasks : Completed(w) /\ w > u}
          OBVIOUS
        <5>2. ~(Cardinality({w \in Tasks : Completed(w) /\ w > u}) >= HistoryLimit)
          BY <4>3 DEF Excess
        <5>3. Cardinality({w \in all : w > u}) \in Nat
          BY <4>2, FS_Subset, FS_CardinalityType
        <5> QED
          BY <5>1, <5>2, <5>3 DEF SupervisorAssumption
      <4> HIDE DEF all
      <4>5. PICK K \in SUBSET all : K = Kept'
        BY <4>3
      <4>6. Cardinality(K) <= HistoryLimit
        BY <4>2, <4>4, <4>5, NewestBounded DEF SupervisorAssumption
      <4> QED
        BY <4>5, <4>6 DEF HistoryBounded, Kept
    <3>2. CASE ~(life[t] = "ok" /\ ~kind[t].service)
      <4>1. ~(Completed(t)')
        BY <3>2, <2>0, <2>2, <1>0 DEF SettledAs, Completed, Done, External
      <4>2. \A u \in Tasks : u \in Kept' => u \in Kept
        BY <3>0, <4>1, <1>0 DEF Kept
      <4> QED
        BY <4>2, KeptShrinks DEF Kept
    <3> QED
      BY <3>1, <3>2
  <2> QED
    BY <1>1, <1>2, <2>4, <2>5, <2>7, <2>8
<1> QED
  BY <1>4, <1>5

-----------------------------------------------------------------------------
\* A call that holds the invariant of calls leaves the others as they are.
LEMMA BecomesKeeps ==
    ASSUME IInv, NEW c \in Callers, NEW k \in Calls, Becomes(c, k), CallOK(k),
           UNCHANGED Outside
    PROVE  CallsOK'
<1>1. call' \in [Callers -> Calls]
  BY DEF IInv, CallsOK, Becomes
<1>2. ASSUME NEW d \in Callers PROVE CallOK(call[d])'
  <2>1. CallOK(call'[d])
    BY DEF IInv, CallsOK, Becomes
  <2> QED
    BY <2>1 DEF CallOK, Outside, Alive
<1> QED
  BY <1>1, <1>2 DEF CallsOK

\* No call is a call in order.
LEMMA IdleOK == Idle \in Calls /\ CallOK(Idle)
  BY DEF Idle, Call, Calls, CallOK

\* Pruning tasks that are not alive keeps the registry's part.
LEMMA PruneKeeps ==
    ASSUME IInv, SupervisorAssumption, NEW S \in SUBSET Tasks, Prune(S),
           \A t \in S : ~Alive(t), UNCHANGED Outside, UNCHANGED cleared,
           asked' \subseteq {t \in Tasks : Alive(t)}
    PROVE  RegistryKept
<1>1. PICK gone : gone = {t \in S : Prunable(t)}
  OBVIOUS
<1>2. ForgetAll(gone)
  BY <1>1 DEF Prune
<1>3. Harmless(gone)
  BY <1>1 DEF Harmless, Prunable, Done, IInv, RegistryTyped, Metadata
<1> QED
  BY <1>2, <1>3, ForgetKeeps DEF IInv, AsyncTyped

\* What follows the scope that a call has finished with holds the invariant of
\* calls.
LEMMA AfterScopeKeeps ==
    ASSUME IInv, NEW c \in Callers, NEW scopes \in SUBSET Scopes,
           NEW owed \in SUBSET (1..created), NEW reached \in SUBSET Tasks,
           NEW all \in BOOLEAN, UNCHANGED Outside,
           all => \A t \in owed : t \in reached \/ ~Alive(t) \/ scope[t] \in scopes,
           AfterScope(c, scopes, owed, reached, all)
    PROVE  CallsOK'
<1>1. PICK k : k = IF scopes = {} THEN Idle ELSE Call(all, scopes, {}, {}, owed, reached)
  OBVIOUS
<1>2. owed \subseteq Tasks
  BY SupervisorAssumption DEF IInv, AsyncTyped, Tasks, SupervisorAssumption
<1>3. k \in Calls /\ CallOK(k)
  BY <1>1, <1>2, IdleOK DEF Call, Calls, CallOK
<1>4. Becomes(c, k)
  BY <1>1 DEF AfterScope
<1> QED
  BY <1>3, <1>4, BecomesKeeps

\* Asking the members of a scope to stop keeps the invariant: each is recorded
\* as reached, or it is no longer alive.
LEMMA AskKeeps ==
    ASSUME IInv, SupervisorAssumption, NEW c \in Callers,
           NEW members \in SUBSET (1..created), NEW scopes \in SUBSET Scopes,
           NEW owed \in SUBSET (1..created), NEW reached \in SUBSET Tasks,
           NEW all \in BOOLEAN,
           all => \A t \in owed : \/ t \in reached \/ ~Alive(t)
                                 \/ scope[t] \in scopes \/ t \in members,
           Ask(c, members, scopes, owed, reached, all)
    PROVE  IInv'
<1>0. 1..created \subseteq Tasks
  BY SupervisorAssumption DEF IInv, AsyncTyped, Tasks, SupervisorAssumption
<1>1. PICK running \in SUBSET members :
        /\ running = {t \in members : Alive(t)}
        /\ asked' = asked \cup running
        /\ IF running = {}
           THEN Prune(members) /\ AfterScope(c, scopes, owed, reached, all)
           ELSE /\ Becomes(c, Call(all, scopes, members, running, owed,
                                   reached \cup running))
                /\ UNCHANGED registry
        /\ UNCHANGED <<Outside, cleared>>
  BY DEF Ask
<1>2. asked' \subseteq {t \in Tasks : Alive(t)}
  BY <1>0, <1>1 DEF IInv, AsyncTyped
<1>3. CASE running = {}
  <2>1. Prune(members) /\ AfterScope(c, scopes, owed, reached, all)
         /\ \A t \in members : ~Alive(t)
    BY <1>1, <1>3
  <2>2. RegistryKept
    BY <1>0, <1>1, <1>2, <2>1, PruneKeeps
  <2>3. CallsOK'
    BY <1>1, <2>1, AfterScopeKeeps
  <2> QED
    BY <2>2, <2>3 DEF RegistryKept, IInv
<1>4. CASE running # {}
  <2>1. PICK k : k = Call(all, scopes, members, running, owed, reached \cup running)
    OBVIOUS
  <2>2. k \in Calls /\ CallOK(k)
    BY <1>0, <1>1, <2>1 DEF Call, Calls, CallOK
  <2>3. CallsOK'
    BY <1>1, <1>4, <2>1, <2>2, BecomesKeeps
  <2>4. RegistryKept
    BY <1>1, <1>2, <1>4, SameKeeps
  <2> QED
    BY <2>3, <2>4 DEF RegistryKept, IInv
<1> QED
  BY <1>3, <1>4

\* Every step of a cancel_scope or cancel_all call keeps the invariant.
LEMMA CallKeeps ==
    ASSUME IInv, SupervisorAssumption, NEW c \in Callers, CallStep(c)
    PROVE  IInv'
<1>0. call[c] \in Calls /\ CallOK(call[c])
  BY DEF IInv, CallsOK
<1>1. \A s : MembersOf(s) \in SUBSET (1..created)
  BY DEF IInv, RegistryTyped, MembersOf
<1>2. CASE CancelTask(c)
  <2>1. PICK t \in 1..created : Ask(c, {t}, {}, {}, {}, FALSE)
    BY <1>2 DEF CancelTask
  <2>2. {t} \in SUBSET (1..created)
    OBVIOUS
  <2> QED
    BY <2>1, <2>2, AskKeeps
<1>3. CASE CancelScope(c)
  <2>1. PICK s \in Scopes : Ask(c, MembersOf(s), {}, {}, {}, FALSE)
    BY <1>3 DEF CancelScope
  <2> QED
    BY <1>1, <2>1, AskKeeps
<1>4. CASE CancelAll(c)
  <2>1. PICK k : k = Call(TRUE, DOMAIN byScope, {}, {}, {t \in Tasks : Alive(t)}, {})
    OBVIOUS
  <2>2. \A t \in Tasks : Alive(t) => t \in 1..created /\ scope[t] \in DOMAIN byScope
    <3> SUFFICES ASSUME NEW t \in Tasks, Alive(t)
                 PROVE  t \in 1..created /\ scope[t] \in DOMAIN byScope
      OBVIOUS
    <3>1. t \in DOMAIN meta /\ ~meta[t].finished /\ t \in 1..created /\ scope[t] \in Scopes
      BY DEF IInv, TasksOK, ShownOK, RegistryTyped, AsyncTyped
    <3>2. t \in ScopeTasks(scope[t])
      BY <3>1 DEF IInv, IndexAgrees, MembersOf
    <3> QED
      BY <3>1, <3>2 DEF ScopeTasks
  <2>3. k \in Calls /\ CallOK(k)
    BY <2>1, <2>2 DEF Call, Calls, CallOK, IInv, RegistryTyped
  <2>4. CallsOK'
    BY <1>4, <2>1, <2>3, BecomesKeeps DEF CancelAll
  <2>5. RegistryKept
    BY <1>4, SameKeeps DEF CancelAll, IInv, AsyncTyped
  <2> QED
    BY <2>4, <2>5 DEF RegistryKept, IInv
<1>5. CASE NextScope(c)
  <2>1. PICK s \in call[c].scopes :
          Ask(c, MembersOf(s), call[c].scopes \ {s},
              call[c].owed, call[c].reached, call[c].all)
    BY <1>5 DEF NextScope
  <2>2. call[c].all => \A t \in call[c].owed :
           \/ t \in call[c].reached \/ ~Alive(t)
           \/ scope[t] \in call[c].scopes \ {s} \/ t \in MembersOf(s)
    BY <1>0 DEF CallOK, MembersOf, IInv, TasksOK, ShownOK, AsyncTyped, Calls
  <2>3. /\ call[c].scopes \ {s} \in SUBSET Scopes /\ call[c].owed \in SUBSET (1..created)
        /\ call[c].reached \in SUBSET Tasks /\ call[c].all \in BOOLEAN
    BY <1>0 DEF CallOK, Calls
  <2> QED
    BY <1>1, <2>1, <2>2, <2>3, AskKeeps
<1>6. CASE Resume(c)
  <2>1. PICK S : S = {t \in call[c].members : t \in call[c].running => Done(t)}
    OBVIOUS
  <2>2. Prune(S)
    BY <1>6, <2>1 DEF Resume
  <2>3. S \in SUBSET Tasks /\ \A t \in S : ~Alive(t)
    BY <1>0, <2>1 DEF CallOK, Calls, Alive, Done
  <2>4. RegistryKept
    BY <1>6, <2>2, <2>3, PruneKeeps DEF Resume, IInv, AsyncTyped
  <2>5. CallsOK'
    BY <1>0, <1>6, AfterScopeKeeps DEF Resume, CallOK, Calls
  <2> QED
    BY <2>4, <2>5 DEF RegistryKept, IInv
<1>7. CASE Abandon(c)
  <2>1. CallsOK'
    BY <1>7, IdleOK, BecomesKeeps DEF Abandon
  <2>2. RegistryKept
    BY <1>7, SameKeeps DEF Abandon, IInv, AsyncTyped
  <2> QED
    BY <2>1, <2>2 DEF RegistryKept, IInv
<1> QED
  BY <1>2, <1>3, <1>4, <1>5, <1>6, <1>7 DEF CallStep

\* Every step keeps the invariant.
LEMMA NextInv == SupervisorAssumption /\ IInv /\ [Next]_vars => IInv'
<1> SUFFICES ASSUME SupervisorAssumption, IInv, [Next]_vars PROVE IInv'
  OBVIOUS
<1>1. CASE UNCHANGED vars
  <2>1. RegistryKept
    BY <1>1, SameKeeps DEF vars, asyncioVars, Outside, IInv, AsyncTyped
  <2>2. CallsOK'
    BY <1>1 DEF vars, asyncioVars, IInv, CallsOK, CallOK, Alive
  <2> QED
    BY <2>1, <2>2 DEF RegistryKept, IInv
<1>2. ASSUME NEW t \in Tasks, TaskStep(t) PROVE IInv'
  BY <1>2, TaskMoves, MovedKeeps, DoneKeeps DEF TaskStep
<1> QED
  BY <1>1, <1>2, CreateKeeps, ClearKeeps, CallKeeps DEF Next

\* The invariant holds in every reachable state.
LEMMA InvAlways == Spec => []IInv
<1>1. Init => IInv
  BY InitInv, SupervisorAssumption
<1>2. IInv /\ [Next]_vars => IInv'
  BY NextInv, SupervisorAssumption
<1> QED
  BY <1>1, <1>2, PTL DEF Spec

\* For any tasks, scopes, callers and history limit: the registry knows every
\* task that is alive, its index by scope agrees with its records, an open
\* circuit stays visible until its scope's failures are cleared, and completed
\* tasks are remembered up to the limit (TaskSupervisor).
THEOREM RegistryAlways == Spec => []RegistryInv
<1>1. IInv => RegistryInv
  <2> SUFFICES ASSUME IInv PROVE RegistryInv
    OBVIOUS
  <2>1. TypeOK
    BY DEF IInv, AsyncTyped, RunnerTyped, RegistryTyped, TypeOK, Lives, Places
  <2>2. Supervised
    BY DEF IInv, Supervised, TasksOK, ShownOK, IndexAgrees, MembersOf, AsyncTyped, RegistryTyped
  <2>3. OpenCircuitVisible
    BY DEF IInv, OpenCircuitVisible, TasksOK, ShownOK
  <2> QED
    BY <2>1, <2>2, <2>3 DEF RegistryInv, RegistryAgrees, IInv
<1> QED
  BY <1>1, InvAlways, PTL

\* For any limit, whatever failed before the last long run and whichever
\* cancellations were swallowed: no worker is given up before it has failed
\* RestartLimit + 1 times in a row (_resilient_runner).
THEOREM NeverGivenUpEarly == Spec => []NotGivenUpEarly
<1>1. IInv => NotGivenUpEarly
  BY DEF IInv, TasksOK, RunnerOK, NotGivenUpEarly
<1> QED
  BY <1>1, InvAlways, PTL

\* For any limit and any interleaving of runs, failures, backoffs and
\* cancellations: the circuit shown of a task that is alive is the state of its
\* runner, and a burst of failures without a long run in between ends at the
\* limit (_resilient_runner).
THEOREM RunnerAlways == Spec => []RunnerInv
<1>1. IInv => RunnerInv
  <2> SUFFICES ASSUME IInv PROVE RunnerInv
    OBVIOUS
  <2>1. BurstBounded
    BY DEF IInv, BurstBounded, TasksOK, RunnerOK
  <2>2. CircuitAgrees
    <3> SUFFICES ASSUME NEW t \in DOMAIN meta, Alive(t)
                 PROVE  meta[t].circuit = CASE at[t] = "sleep" -> "half-open"
                                            [] at[t] = "notify" -> "open"
                                            [] OTHER -> "closed"
      BY DEF CircuitAgrees
    <3>1. t \in Tasks /\ at[t] \in Places /\ ShownOK(t)
      BY SupervisorAssumption DEF IInv, RegistryTyped, AsyncTyped, RunnerTyped, TasksOK, Tasks, SupervisorAssumption
    <3>2. CASE at[t] = "sleep"
      BY <3>1, <3>2 DEF ShownOK
    <3>3. CASE at[t] = "notify"
      BY <3>1, <3>3 DEF ShownOK
    <3>4. CASE at[t] \in {"start", "run"}
      BY <3>1, <3>4 DEF ShownOK
    <3> QED
      BY <3>1, <3>2, <3>3, <3>4 DEF Places
  <2> QED
    BY <2>1, <2>2 DEF RunnerInv
<1> QED
  BY <1>1, InvAlways, PTL

\* cancel_all as the property sees it, for one caller
Reaches(c) ==
    call[c] # Idle /\ call'[c] = Idle /\ call[c].all /\ ~Abandon(c) =>
        \A t \in call[c].owed : t \in call[c].reached \/ ~(Alive(t))'

\* A call is over after a scope only when no scope is left.
LEMMA AfterLastScope ==
    ASSUME IInv, NEW c \in Callers, NEW scopes, NEW owed, NEW reached, NEW all,
           AfterScope(c, scopes, owed, reached, all), call'[c] = Idle
    PROVE  scopes = {}
<1>1. CASE scopes # {}
  <2>1. call'[c] = Call(all, scopes, {}, {}, owed, reached)
    BY <1>1 DEF AfterScope, Becomes, IInv, CallsOK
  <2> QED
    BY <2>1, <1>1 DEF Idle, Call
<1> QED
  BY <1>1

\* A step of one call leaves the others alone.
LEMMA OneCallMoves ==
    ASSUME NEW c, NEW d, d # c, CallStep(d)
    PROVE  call'[c] = call[c] \/ c \notin DOMAIN call
  BY DEF CallStep, CancelTask, CancelScope, CancelAll, NextScope, Resume, Abandon,
         Ask, AfterScope, Becomes

\* cancel_all ends only after it has reached every task that it owes.
LEMMA CallReaches ==
    ASSUME IInv, NEW c \in Callers, CallStep(c)
    PROVE  Reaches(c)
<1> SUFFICES ASSUME call[c] # Idle, call'[c] = Idle, call[c].all, ~Abandon(c),
                    NEW t \in call[c].owed, t \notin call[c].reached
             PROVE  ~(Alive(t))'
  BY DEF Reaches
<1>0. ~Alive(t) \/ (scope[t] \in call[c].scopes /\ t \in MembersOf(scope[t]))
  BY SupervisorAssumption DEF IInv, CallsOK, CallOK, TasksOK, ShownOK, MembersOf,
     AsyncTyped, Tasks, SupervisorAssumption
<1>1. CASE NextScope(c)
  <2>1. PICK s \in call[c].scopes :
          Ask(c, MembersOf(s), call[c].scopes \ {s},
              call[c].owed, call[c].reached, call[c].all)
    BY <1>1 DEF NextScope
  <2>2. PICK running : running = {u \in MembersOf(s) : Alive(u)}
    OBVIOUS
  <2>3. CASE running = {}
    <3>1. call[c].scopes \ {s} = {}
      BY <2>1, <2>2, <2>3, AfterLastScope DEF Ask
    <3> QED
      BY <1>0, <2>1, <2>2, <2>3, <3>1 DEF Ask, Outside, Alive
  <2>4. CASE running # {}
    <3>1. call'[c] = Call(call[c].all, call[c].scopes \ {s}, MembersOf(s), running,
                          call[c].owed, call[c].reached \cup running)
      BY <2>1, <2>2, <2>4 DEF Ask, Becomes, IInv, CallsOK
    <3> QED
      BY <3>1, <2>4 DEF Idle, Call
  <2> QED
    BY <2>3, <2>4
<1>2. CASE Resume(c)
  <2>1. call[c].scopes = {}
    BY <1>2, AfterLastScope DEF Resume
  <2> QED
    BY <1>0, <1>2, <2>1 DEF Resume, Outside, Alive
<1> QED
  BY <1>1, <1>2 DEF CallStep, CancelTask, CancelScope, CancelAll

\* However tasks are created and finish meanwhile, with any number of callers:
\* when cancel_all returns, each task that was running when it began is done or
\* was asked to stop (TaskSupervisor.cancel_all).
THEOREM ShutdownReaches == Spec => ShutdownReachesAll
<1>1. IInv /\ [Next]_vars => [\A c \in Callers : Reaches(c)]_vars
  <2> SUFFICES ASSUME IInv, Next, NEW c \in Callers PROVE Reaches(c)
    OBVIOUS
  <2>1. CASE call'[c] = call[c]
    BY <2>1 DEF Reaches
  <2>2. ASSUME NEW d \in Callers, CallStep(d) PROVE Reaches(c)
    BY <2>1, <2>2, CallReaches, OneCallMoves DEF IInv, CallsOK
  <2>3. ASSUME NEW t \in Tasks, TaskStep(t) PROVE call'[c] = call[c]
    BY <2>3 DEF TaskStep, DeliverCancel, IgnoreCancel, PlainEnds, Run, RunFails,
       CircuitOpen, RunReturns, RunExits, OnTaskDone, External
  <2>4. CASE Create \/ ClearFailures
    BY <2>1, <2>4 DEF Create, ClearFailures
  <2> QED
    BY <2>1, <2>2, <2>3, <2>4 DEF Next
<1>2. [\A c \in Callers : Reaches(c)]_vars <=>
      [\A c \in Callers :
          call[c] # Idle /\ call'[c] = Idle /\ call[c].all /\ ~Abandon(c) =>
              \A t \in call[c].owed :
                  t \in call[c].reached \/ ~(Alive(t))']_vars
  BY DEF Reaches
<1> QED
  BY <1>1, <1>2, InvAlways, PTL DEF Spec, ShutdownReachesAll

-----------------------------------------------------------------------------
(***************************************************************************)
(* The progress signals.                                                   *)
(***************************************************************************)
Workers == [name : TaskNames, service : BOOLEAN,
            status : {"running", "restarting", "done"}, created : 0..LastBeat,
            beat : 0..Never, progress : 0..LastBeat, alone : BOOLEAN]

\* When a task last gave a signal, or else began
LastSignal(w) == IF w.beat # Never THEN w.beat ELSE w.created

\* Nothing in the record lies in the future.
Past(w, now) == w.progress <= now /\ LastSignal(w) <= now

\* A task that has never shared its name speaks for itself.
SpeaksForItself(ws, i) ==
    ws[i].alone = TRUE /\ ws[i].status # "done" =>
        /\ ws[i].progress = LastSignal(ws[i])
        /\ \A j \in DOMAIN ws \ {i} :
              ws[j].name = ws[i].name => ws[j].status = "done"

\* Some namesake made progress when the task last gave a signal.
SomebodyMoved(ws, i) ==
    \E j \in DOMAIN ws : /\ ws[j].name = ws[i].name
                         /\ LastSignal(ws[i]) <= ws[j].progress

\* The records tell no lies about the tasks' progress.
Honest(ws, now) ==
    \A i \in DOMAIN ws :
        Past(ws[i], now) /\ SpeaksForItself(ws, i) /\ SomebodyMoved(ws, i)

BeatInv == BeatTypeOK /\ Honest(workers, time)

\* The records of a table of workers are typed.
LEMMA WorkersTyped ==
    ASSUME NEW ws \in Seq(Workers)
    PROVE  /\ Len(ws) \in Nat /\ DOMAIN ws = 1..Len(ws)
           /\ \A i \in DOMAIN ws : ws[i] \in Workers
  BY LenProperties

\* A table built by position is a sequence.
LEMMA TableIsQueue ==
    ASSUME NEW n \in Nat, NEW f \in [1..n -> Workers]
    PROVE  f \in Seq(Workers) /\ Len(f) = n
  BY SMT

\* The fields that a step may change, and those that stay.
Same(v, w) ==
    /\ v.name = w.name /\ v.service = w.service /\ v.created = w.created

\* What the steps need of the invariant, spelt out
BeatInvFacts ==
    /\ time \in 0..LastBeat /\ LastBeat \in Nat /\ MaxAge \in Nat /\ MaxBeatTasks \in Nat
    /\ workers \in Seq(Workers) /\ Len(workers) \in Nat
    /\ DOMAIN workers = 1..Len(workers) /\ Registered = 1..Len(workers)
    /\ \A i \in Registered : workers[i] \in Workers
    /\ Honest(workers, time)

\* What the steps need of the invariant, spelt out.
LEMMA Facts == BeatInv => BeatInvFacts
  BY WorkersTyped, HeartbeatsAssumption
  DEF BeatInv, BeatInvFacts, BeatTypeOK, Workers, Registered, HeartbeatsAssumption

\* The parts that a step has to show.
LEMMA InvOf ==
    ASSUME time' \in 0..LastBeat, workers' \in Seq(Workers), Honest(workers', time')
    PROVE  BeatInv'
  BY DEF BeatInv, BeatTypeOK, Workers, Honest, Past, SpeaksForItself, SomebodyMoved

\* The clock never reads as "no signal yet".
LEMMA ClockBelowNever ==
    ASSUME NEW now \in 0..LastBeat
    PROVE  now \in 0..Never /\ now # Never /\ now <= now
  BY HeartbeatsAssumption DEF HeartbeatsAssumption, Never

\* The changes of a record by name
Chosen(v, here, now, before) == v = IF here THEN now ELSE before
BeatSet(u, w, b) == u = [w EXCEPT !.beat = b]
ProgressSet(v, u, p) == v = [u EXCEPT !.progress = p]

\* A signal changes the beat of a record and nothing else.
LEMMA BeatOne ==
    ASSUME NEW w \in Workers, NEW b \in 0..Never, NEW u, BeatSet(u, w, b)
    PROVE  /\ u \in Workers /\ Same(u, w) /\ u.beat = b /\ u.progress = w.progress
           /\ u.status = w.status /\ u.alone = w.alone
  BY DEF Workers, Same, BeatSet, ProgressSet

\* Progress changes the progress of a record and nothing else.
LEMMA ProgressOne ==
    ASSUME NEW u \in Workers, NEW p \in 0..LastBeat, NEW v, ProgressSet(v, u, p)
    PROVE  /\ v \in Workers /\ Same(v, u) /\ v.beat = u.beat /\ v.progress = p
           /\ v.status = u.status /\ v.alone = u.alone
  BY DEF Workers, Same, BeatSet, ProgressSet

\* A record after a step that may signal for it, make it progress, or both.
LEMMA SignalledOne ==
    ASSUME NEW w \in Workers, NEW now \in 0..LastBeat, NEW beats \in BOOLEAN, NEW moves \in BOOLEAN,
           NEW b, Chosen(b, beats, now, w.beat), NEW p, Chosen(p, moves, now, w.progress),
           NEW u, BeatSet(u, w, b), NEW v, ProgressSet(v, u, p)
    PROVE  /\ v \in Workers /\ Same(v, w) /\ v.status = w.status /\ v.alone = w.alone
           /\ LastSignal(v) = IF beats THEN now ELSE LastSignal(w)
           /\ v.progress = IF moves THEN now ELSE w.progress
<1>1. b \in 0..Never /\ p \in 0..LastBeat
  <2>1. w.beat \in 0..Never /\ w.progress \in 0..LastBeat
    BY DEF Workers
  <2> QED
    BY <2>1, ClockBelowNever DEF Chosen
<1>2. /\ u \in Workers /\ Same(u, w) /\ u.beat = b
      /\ u.status = w.status /\ u.alone = w.alone
  BY <1>1, BeatOne
<1>3. /\ v \in Workers /\ Same(v, u) /\ v.beat = u.beat /\ v.progress = p
      /\ v.status = u.status /\ v.alone = u.alone
  BY <1>1, <1>2, ProgressOne
<1>4. LastSignal(v) = IF beats THEN now ELSE LastSignal(w)
  BY <1>2, <1>3, ClockBelowNever DEF LastSignal, Same, Chosen
<1> QED
  BY <1>2, <1>3, <1>4 DEF Same, Chosen

\* Two changes of a record are one after the other.
LEMMA TwoFields ==
    ASSUME NEW w \in Workers, NEW b, NEW p
    PROVE  [w EXCEPT !.beat = b, !.progress = p] = [[w EXCEPT !.beat = b] EXCEPT !.progress = p]
  BY DEF Workers

\* What task i's signal for the tasks of A makes of the record of task k.
Signalled(v, w, beats, moves, now) ==
    /\ v.name = w.name /\ v.status = w.status /\ v.alone = w.alone
    /\ beats => LastSignal(v) = now
    /\ ~beats => LastSignal(v) = LastSignal(w)
    /\ moves => v.progress = now
    /\ ~moves => v.progress = w.progress

\* The whole table after task i's signal for the tasks of A
Signals(ws, vs, n, i, A, now) ==
    \A k \in 1..n : Signalled(vs[k], ws[k], k \in A, k = i, now)

\* The tasks of A are namesakes of i, and one that is alone signals for itself.
ForNamesakes(ws, n, i, A) ==
    /\ \A j \in A : ws[j].name = ws[i].name
    /\ \A k \in 1..n : ws[k].alone = TRUE /\ ws[k].status # "done" => (k \in A <=> k = i)

\* A task that makes progress and signals for namesakes only, itself included
\* when it is alone, leaves every record honest.
LEMMA SignalsHonest ==
    ASSUME NEW ws \in Seq(Workers), NEW vs \in Seq(Workers), NEW now \in 0..LastBeat,
           NEW n \in Nat, DOMAIN ws = 1..n, DOMAIN vs = 1..n, Honest(ws, now),
           NEW i \in 1..n, NEW A \in SUBSET (1..n),
           ForNamesakes(ws, n, i, A), Signals(ws, vs, n, i, A, now)
    PROVE  Honest(vs, now)
<1>1. ASSUME NEW k \in 1..n PROVE Past(vs[k], now)
  <2>1. Past(ws[k], now) /\ Signalled(vs[k], ws[k], k \in A, k = i, now) /\ now <= now
    BY DEF Honest, Signals
  <2> QED
    BY <2>1, ClockBelowNever DEF Past, Signalled
<1>2. ASSUME NEW k \in 1..n PROVE SpeaksForItself(vs, k)
  <2>0. SpeaksForItself(ws, k) /\ Signalled(vs[k], ws[k], k \in A, k = i, now)
    BY DEF Honest, Signals
  <2> SUFFICES ASSUME ws[k].alone = TRUE, ws[k].status # "done"
               PROVE  /\ vs[k].progress = LastSignal(vs[k])
                      /\ \A j \in 1..n \ {k} : vs[j].name = vs[k].name => vs[j].status = "done"
    BY <2>0 DEF SpeaksForItself, Signalled
  <2>1. vs[k].progress = LastSignal(vs[k])
    <3>1. k \in A <=> k = i
      BY DEF ForNamesakes
    <3>2. ws[k].progress = LastSignal(ws[k])
      BY <2>0 DEF SpeaksForItself
    <3> QED
      BY <2>0, <3>1, <3>2 DEF Signalled
  <2>2. ASSUME NEW j \in 1..n \ {k}, vs[j].name = vs[k].name PROVE vs[j].status = "done"
    <3>1. Signalled(vs[j], ws[j], j \in A, j = i, now)
      BY DEF Signals
    <3> QED
      BY <2>0, <2>2, <3>1 DEF SpeaksForItself, Signalled
  <2> QED
    BY <2>1, <2>2
<1>3. ASSUME NEW k \in 1..n PROVE SomebodyMoved(vs, k)
  <2>0. /\ Signalled(vs[k], ws[k], k \in A, k = i, now)
        /\ Past(ws[k], now) /\ SomebodyMoved(ws, k)
    BY DEF Honest, Signals
  <2>1. CASE k \in A
    <3>1. Signalled(vs[i], ws[i], i \in A, i = i, now) /\ ws[k].name = ws[i].name
      BY <2>1 DEF Signals, ForNamesakes
    <3>2. vs[i].name = vs[k].name /\ LastSignal(vs[k]) = now /\ vs[i].progress = now
      BY <2>0, <2>1, <3>1 DEF Signalled
    <3> QED
      BY <3>2, ClockBelowNever DEF SomebodyMoved
  <2>2. CASE k \notin A
    <3>1. PICK j \in 1..n : ws[j].name = ws[k].name /\ LastSignal(ws[k]) <= ws[j].progress
      BY <2>0 DEF SomebodyMoved
    <3>2. Signalled(vs[j], ws[j], j \in A, j = i, now)
      BY DEF Signals
    <3>3. vs[j].name = vs[k].name /\ LastSignal(vs[k]) <= vs[j].progress
      BY <2>0, <2>2, <3>1, <3>2 DEF Signalled, Past
    <3> QED
      BY <3>3 DEF SomebodyMoved
  <2> QED
    BY <2>1, <2>2
<1> QED
  BY <1>1, <1>2, <1>3 DEF Honest

\* The table that heartbeat() and touch() write
SignalTable(i, A) ==
    workers' = [j \in Registered |->
                  [workers[j] EXCEPT !.beat = IF j \in A THEN time ELSE workers[j].beat,
                                     !.progress = IF j = i THEN time
                                                  ELSE workers[j].progress]]

\* The table that heartbeat() and touch() write, record by record.
LEMMA SignalledAt ==
    ASSUME NEW i \in Registered, NEW A \in SUBSET Registered, SignalTable(i, A),
           NEW j \in Registered, workers[j] \in Workers, time \in 0..LastBeat
    PROVE  workers'[j] \in Workers /\ Signalled(workers'[j], workers[j], j \in A, j = i, time)
<1>1. PICK beats \in BOOLEAN : beats <=> j \in A
  OBVIOUS
<1>2. PICK moves \in BOOLEAN : moves <=> j = i
  OBVIOUS
<1>3. PICK b : Chosen(b, beats, time, workers[j].beat)
  BY DEF Chosen
<1>4. PICK p : Chosen(p, moves, time, workers[j].progress)
  BY DEF Chosen
<1>5. workers'[j] = [workers[j] EXCEPT !.beat = b, !.progress = p]
  <2>1. b = IF j \in A THEN time ELSE workers[j].beat
    BY <1>1, <1>3 DEF Chosen
  <2>2. p = IF j = i THEN time ELSE workers[j].progress
    BY <1>2, <1>4 DEF Chosen
  <2> QED
    BY <2>1, <2>2 DEF SignalTable
<1>6. PICK u : BeatSet(u, workers[j], b)
  BY DEF BeatSet
<1>7. PICK v : ProgressSet(v, u, p)
  BY DEF ProgressSet
<1>8. workers'[j] = v
  BY <1>5, <1>6, <1>7, TwoFields DEF BeatSet, ProgressSet
<1>9. /\ v \in Workers /\ Same(v, workers[j])
      /\ v.status = workers[j].status /\ v.alone = workers[j].alone
      /\ LastSignal(v) = IF beats THEN time ELSE LastSignal(workers[j])
      /\ v.progress = IF moves THEN time ELSE workers[j].progress
  BY <1>3, <1>4, <1>6, <1>7, SignalledOne
<1>10. Signalled(v, workers[j], j \in A, j = i, time)
  BY <1>1, <1>2, <1>9 DEF Signalled, Same
<1> QED
  BY <1>8, <1>9, <1>10

\* heartbeat() and touch() keep the invariant: both write such a table.
LEMMA SignalKeeps ==
    ASSUME BeatInv, NEW i \in Registered, NEW A \in SUBSET Registered,
           ForNamesakes(workers, Len(workers), i, A), SignalTable(i, A), UNCHANGED time
    PROVE  BeatInv'
<1>0. BeatInvFacts
  BY Facts
<1>1. time \in 0..LastBeat /\ workers \in Seq(Workers) /\ Honest(workers, time)
  BY <1>0 DEF BeatInvFacts
<1>2. Len(workers) \in Nat /\ DOMAIN workers = 1..Len(workers) /\ Registered = 1..Len(workers)
  BY <1>0 DEF BeatInvFacts
<1>3. ASSUME NEW j \in Registered
      PROVE  workers'[j] \in Workers /\ Signalled(workers'[j], workers[j], j \in A, j = i, time)
  <2>1. workers[j] \in Workers
    BY <1>0 DEF BeatInvFacts
  <2> QED
    BY <1>1, <2>1, SignalledAt
<1>4. workers' \in Seq(Workers) /\ DOMAIN workers' = 1..Len(workers)
  <2>1. workers' \in [1..Len(workers) -> Workers]
    BY <1>2, <1>3 DEF SignalTable
  <2> QED
    BY <1>2, <2>1, TableIsQueue
<1>5. Honest(workers', time)
  <2>1. PICK n \in Nat : n = Len(workers)
    BY <1>2
  <2>2. PICK vs \in Seq(Workers) : vs = workers'
    BY <1>4
  <2>3. /\ DOMAIN workers = 1..n /\ DOMAIN vs = 1..n /\ i \in 1..n /\ A \in SUBSET (1..n)
        /\ ForNamesakes(workers, n, i, A)
    BY <1>2, <1>4, <2>1, <2>2
  <2>4. Signals(workers, vs, n, i, A, time)
    BY <1>2, <1>3, <2>1, <2>2 DEF Signals
  <2> QED
    BY <1>1, <2>2, <2>3, <2>4, SignalsHonest
<1> QED
  BY <1>1, <1>4, <1>5, InvOf

\* A new task keeps the invariant: it has signalled now, and an unfinished
\* namesake is no longer alone.
LEMMA CreateWorkerKeeps ==
    ASSUME BeatInv, NEW name \in TaskNames, NEW service \in BOOLEAN,
           CreateWorker(name, service)
    PROVE  BeatInv'
<1>0. BeatInvFacts
  BY Facts
<1> USE <1>0 DEF BeatInvFacts
<1>1. PICK others : others = {j \in Registered : workers[j].name = name /\ Unfinished(j)}
  OBVIOUS
<1>2. PICK alone \in BOOLEAN : alone = (others = {})
  OBVIOUS
<1>3. PICK new : new = [name |-> name, service |-> service, status |-> "running",
                        created |-> time, beat |-> Never, progress |-> time, alone |-> alone]
  OBVIOUS
<1>4. PICK old : old = [j \in Registered |-> IF j \in others THEN [workers[j] EXCEPT !.alone = FALSE]
                                             ELSE workers[j]]
  OBVIOUS
<1>5. workers' = Append(old, new) /\ UNCHANGED time
  BY <1>1, <1>2, <1>3, <1>4 DEF CreateWorker
<1>6. new \in Workers /\ LastSignal(new) = time
  BY <1>3 DEF Workers, Never, LastSignal
<1>7. ASSUME NEW j \in Registered
      PROVE  /\ old[j] \in Workers /\ Same(old[j], workers[j])
             /\ old[j].beat = workers[j].beat /\ old[j].progress = workers[j].progress
             /\ old[j].status = workers[j].status
             /\ old[j].alone = TRUE => workers[j].alone = TRUE /\ j \notin others
             /\ LastSignal(old[j]) = LastSignal(workers[j])
  <2>1. CASE j \in others
    <3>1. old[j] = [workers[j] EXCEPT !.alone = FALSE]
      BY <1>4, <2>1
    <3> QED
      BY <3>1 DEF Workers, Same, LastSignal
  <2>2. CASE j \notin others
    <3>1. old[j] = workers[j]
      BY <1>4, <2>2
    <3> QED
      BY <2>2, <3>1 DEF Same
  <2> QED
    BY <2>1, <2>2
<1>8. old \in Seq(Workers) /\ Len(old) = Len(workers)
  <2>1. old \in [1..Len(workers) -> Workers]
    BY <1>4, <1>7
  <2> QED
    BY <2>1, TableIsQueue
<1>9. PICK n : n = Len(workers) + 1
  OBVIOUS
<1>10. /\ workers' \in Seq(Workers) /\ DOMAIN workers' = 1..n /\ workers'[n] = new
       /\ \A j \in Registered : workers'[j] = old[j]
       /\ \A j \in 1..n : j = n \/ j \in Registered
       /\ n \in 1..n /\ n \notin Registered /\ Registered \subseteq 1..n
  BY <1>5, <1>6, <1>8, <1>9, AppendProperties, LenProperties
<1>11. Past(workers'[n], time') /\ SomebodyMoved(workers', n)
  BY <1>3, <1>5, <1>6, <1>10 DEF Past, SomebodyMoved
<1>12. SpeaksForItself(workers', n)
  <2> SUFFICES ASSUME alone = TRUE, NEW j \in Registered, old[j].name = name
               PROVE  old[j].status = "done"
    BY <1>3, <1>6, <1>10 DEF SpeaksForItself
  <2>1. j \notin others
    BY <1>2
  <2> QED
    BY <1>1, <1>7, <2>1 DEF Same, Unfinished
<1>13. ASSUME NEW k \in Registered
       PROVE  Past(workers'[k], time') /\ SomebodyMoved(workers', k)
  <2>1. Past(workers[k], time) /\ SomebodyMoved(workers, k)
    BY DEF Honest
  <2>2. Past(workers'[k], time')
    BY <1>5, <1>7, <1>10, <2>1 DEF Past
  <2>3. PICK j \in Registered : workers[j].name = workers[k].name
                                /\ LastSignal(workers[k]) <= workers[j].progress
    BY <2>1 DEF SomebodyMoved
  <2>4. workers'[j].name = workers'[k].name /\ LastSignal(workers'[k]) <= workers'[j].progress
    <3>1. workers'[j] = old[j] /\ workers'[k] = old[k]
      BY <1>10
    <3>2. old[j].name = workers[j].name /\ old[j].progress = workers[j].progress
      BY <1>7 DEF Same
    <3>3. old[k].name = workers[k].name /\ LastSignal(old[k]) = LastSignal(workers[k])
      BY <1>7 DEF Same
    <3> QED
      BY <2>3, <3>1, <3>2, <3>3
  <2> QED
    BY <1>10, <2>2, <2>4 DEF SomebodyMoved
<1>14. ASSUME NEW k \in Registered PROVE SpeaksForItself(workers', k)
  <2> SUFFICES ASSUME old[k].alone = TRUE, old[k].status # "done"
               PROVE  /\ old[k].progress = LastSignal(old[k])
                      /\ \A j \in DOMAIN workers' \ {k} :
                            workers'[j].name = old[k].name => workers'[j].status = "done"
    BY <1>10 DEF SpeaksForItself
  <2>1. /\ workers[k].alone = TRUE /\ workers[k].status # "done" /\ k \notin others
        /\ SpeaksForItself(workers, k)
    BY <1>7 DEF Honest
  <2>2. old[k].name # name
    BY <1>1, <1>7, <2>1 DEF Unfinished, Same
  <2>3. old[k].progress = LastSignal(old[k])
    BY <1>7, <2>1 DEF SpeaksForItself
  <2>4. ASSUME NEW j \in Registered \ {k}, old[j].name = old[k].name
        PROVE  old[j].status = "done"
    BY <1>7, <2>1, <2>4 DEF SpeaksForItself, Same
  <2>5. new.name = name
    BY <1>3
  <2> QED
    BY <1>10, <2>2, <2>3, <2>4, <2>5
<1>15. Honest(workers', time')
  BY <1>10, <1>11, <1>12, <1>13, <1>14 DEF Honest
<1> QED
  BY <1>5, <1>10, <1>15, InvOf

\* A change of status changes nothing else of a record.
LEMMA StatusOne ==
    ASSUME NEW w \in Workers, NEW status \in {"running", "restarting", "done"},
           NEW v, v = [w EXCEPT !.status = status]
    PROVE  /\ v \in Workers /\ Same(v, w) /\ v.beat = w.beat /\ v.progress = w.progress
           /\ v.alone = w.alone /\ v.status = status
  BY DEF Workers, Same

\* A task that backs off, runs again or ends keeps the invariant.
LEMMA StatusKeeps ==
    ASSUME BeatInv, NEW i \in Registered, NEW status \in {"running", "restarting", "done"},
           StatusChanges(i, status)
    PROVE  BeatInv'
<1>0. BeatInvFacts
  BY Facts
<1> USE <1>0 DEF BeatInvFacts
<1>1. workers[i].status # "done" /\ workers' = [workers EXCEPT ![i].status = status] /\ UNCHANGED time
  BY DEF StatusChanges, Unfinished
<1>2. ASSUME NEW j \in Registered
      PROVE  /\ workers'[j] \in Workers /\ Same(workers'[j], workers[j])
             /\ workers'[j].beat = workers[j].beat /\ workers'[j].progress = workers[j].progress
             /\ workers'[j].alone = workers[j].alone
             /\ workers[j].status = "done" => workers'[j].status = "done"
             /\ LastSignal(workers'[j]) = LastSignal(workers[j])
  <2>1. CASE j = i
    <3>1. PICK v : v = [workers[j] EXCEPT !.status = status]
      OBVIOUS
    <3>2. workers'[j] = v
      BY <1>1, <2>1, <3>1
    <3>3. /\ v \in Workers /\ Same(v, workers[j]) /\ v.beat = workers[j].beat
          /\ v.progress = workers[j].progress /\ v.alone = workers[j].alone
      BY <3>1, StatusOne
    <3>4. LastSignal(v) = LastSignal(workers[j])
      BY <3>3 DEF LastSignal, Same
    <3> QED
      BY <1>1, <2>1, <3>2, <3>3, <3>4
  <2>2. CASE j # i
    <3>1. workers'[j] = workers[j]
      BY <1>1, <2>2
    <3> QED
      BY <3>1 DEF Same
  <2> QED
    BY <2>1, <2>2
<1>3. workers' \in [1..Len(workers) -> Workers]
  BY <1>1, <1>2
<1>4. workers' \in Seq(Workers) /\ DOMAIN workers' = Registered
  BY <1>3, TableIsQueue
<1>5. ASSUME NEW k \in Registered
      PROVE  Past(workers'[k], time') /\ SpeaksForItself(workers', k) /\ SomebodyMoved(workers', k)
  <2>1. Past(workers[k], time) /\ SpeaksForItself(workers, k) /\ SomebodyMoved(workers, k)
    BY DEF Honest
  <2>2. Past(workers'[k], time')
    BY <1>1, <1>2, <2>1 DEF Past
  <2>3. SomebodyMoved(workers', k)
    BY <1>2, <1>4, <2>1 DEF SomebodyMoved, Same
  <2>4. SpeaksForItself(workers', k)
    <3>1. workers'[k].status # "done" => workers[k].status # "done"
      BY <1>2
    <3> QED
      BY <1>2, <1>4, <2>1, <3>1 DEF SpeaksForItself, Same
  <2> QED
    BY <2>2, <2>3, <2>4
<1> QED
  BY <1>1, <1>4, <1>5, InvOf DEF Honest

\* Every step keeps the invariant.
LEMMA BeatStep ==
    ASSUME BeatInv, [BeatNext]_beatVars PROVE BeatInv'
<1>0. BeatInvFacts
  BY Facts
<1> USE <1>0 DEF BeatInvFacts
<1>1. CASE UNCHANGED beatVars
  BY <1>1, InvOf DEF beatVars
<1>2. CASE Second
  <2>1. time' \in 0..LastBeat /\ time' = time + 1 /\ UNCHANGED workers
    BY <1>2 DEF Second
  <2>2. \A i \in Registered : LastSignal(workers[i]) \in Nat /\ workers[i].progress \in Nat
    BY DEF LastSignal, Workers, Never
  <2>3. ASSUME NEW i \in Registered
        PROVE  /\ Past(workers[i], time') /\ SpeaksForItself(workers, i)
               /\ SomebodyMoved(workers, i)
    <3>1. /\ Past(workers[i], time) /\ SpeaksForItself(workers, i)
          /\ SomebodyMoved(workers, i)
      BY DEF Honest
    <3>2. Past(workers[i], time')
      BY <2>1, <2>2, <3>1 DEF Past
    <3> QED
      BY <3>1, <3>2
  <2>4. Honest(workers', time')
    BY <2>1, <2>3 DEF Honest
  <2> QED
    BY <2>1, <2>4, InvOf
<1>3. ASSUME NEW i \in Registered, Heartbeat(i) PROVE BeatInv'
  <2>1. /\ workers[i].status = "running" /\ UNCHANGED time
        /\ SignalTable(i, Addressed(i))
    BY <1>3 DEF Heartbeat, SignalTable
  <2>2. PICK A : A = Addressed(i)
    OBVIOUS
  <2>3. A \in SUBSET Registered /\ \A j \in A : workers[j].name = workers[i].name /\ workers[j].status # "done"
    BY <2>2 DEF Addressed, Namesakes, Unfinished
  <2>4. ASSUME NEW k \in Registered, workers[k].alone = TRUE, workers[k].status # "done"
        PROVE  k \in A <=> k = i
    <3>1. \A j \in Registered \ {k} : workers[j].name = workers[k].name => workers[j].status = "done"
      BY <2>4 DEF Honest, SpeaksForItself
    <3>2. k \in A => k = i
      BY <2>1, <2>3, <3>1
    <3>3. k = i => k \in A
      BY <2>2, <2>4, <3>1 DEF Addressed, Namesakes, Unfinished
    <3> QED
      BY <3>2, <3>3
  <2>5. ForNamesakes(workers, Len(workers), i, A)
    BY <2>3, <2>4 DEF ForNamesakes
  <2> QED
    BY <2>1, <2>2, <2>3, <2>5, SignalKeeps
<1>4. ASSUME NEW i \in Registered, Touch(i) PROVE BeatInv'
  <2>1. /\ workers[i].status = "running" /\ UNCHANGED time
        /\ workers' = [workers EXCEPT ![i].beat = time, ![i].progress = time]
    BY <1>4 DEF Touch
  <2> DEFINE once == [workers EXCEPT ![i].beat = time]
  <2>2. workers' = [once EXCEPT ![i].progress = time]
    BY <2>1
  <2>3. ASSUME NEW j \in Registered
        PROVE  workers'[j] = [workers[j] EXCEPT !.beat = IF j \in {i} THEN time ELSE workers[j].beat,
                                                !.progress = IF j = i THEN time
                                                             ELSE workers[j].progress]
    <3>1. CASE j = i
      BY <2>1, <3>1
    <3>2. CASE j # i
      <4>1. workers'[j] = workers[j]
        BY <2>1, <3>2
      <4>2. [workers[j] EXCEPT !.beat = workers[j].beat, !.progress = workers[j].progress] = workers[j]
        BY DEF Workers
      <4> QED
        BY <3>2, <4>1, <4>2
    <3> QED
      BY <3>1, <3>2
  <2>4. DOMAIN workers' = Registered
    BY <2>1
  <2>5. SignalTable(i, {i})
    BY <2>1, <2>3, <2>4 DEF SignalTable
  <2>6. {i} \in SUBSET Registered /\ ForNamesakes(workers, Len(workers), i, {i})
    BY DEF ForNamesakes
  <2> QED
    BY <2>1, <2>5, <2>6, SignalKeeps
<1> QED
  BY <1>1, <1>2, <1>3, <1>4, CreateWorkerKeeps, StatusKeeps DEF BeatNext

\* Among any tasks, however they share names: a running task that never shared
\* its name is reported as stale exactly when it owes a signal and has given
\* none for too long, and a service is reported once none of its namesakes
\* makes progress (stale_tasks).
THEOREM HungTasksReported == BeatSpec => []HungIsReported
<1>1. BeatInit => BeatInv
  <2> SUFFICES ASSUME BeatInit PROVE BeatInv
    OBVIOUS
  <2>1. time = 0 /\ workers = <<>> /\ Len(workers) = 0
    BY DEF BeatInit
  <2>2. BeatTypeOK
    BY <2>1, EmptySeq, HeartbeatsAssumption DEF BeatTypeOK, HeartbeatsAssumption
  <2> QED
    BY <2>1, <2>2 DEF BeatInv, Honest
<1>2. BeatInv /\ [BeatNext]_beatVars => BeatInv'
  BY BeatStep
<1>3. BeatInv => HungIsReported
  <2> SUFFICES ASSUME BeatInv PROVE HungIsReported
    OBVIOUS
  <2>0. BeatInvFacts
    BY Facts
  <2> USE <2>0 DEF BeatInvFacts
  <2> SUFFICES ASSUME NEW i \in Registered, workers[i].status = "running"
               PROVE  /\ workers[i].alone =>
                           (i \in StaleTasks
                              <=> Overdue(i) /\ (workers[i].service \/ workers[i].beat # Never))
                      /\ (workers[i].service /\ \A j \in Namesakes(i) \cup {i} : Overdue(j))
                           => i \in StaleTasks
    BY DEF HungIsReported, BeatInv
  <2>1. /\ workers[i] \in Workers /\ Past(workers[i], time)
        /\ SpeaksForItself(workers, i) /\ SomebodyMoved(workers, i)
    BY DEF Honest
  <2>2. LastSignal(workers[i]) \in 0..LastBeat /\ LastSignal(workers[i]) # Never
    BY <2>1 DEF Past, LastSignal, Workers, Never
  <2>3. workers[i].service \/ workers[i].beat # Never => ProgressAt(i) = LastSignal(workers[i])
    BY DEF ProgressAt, LastSignal
  <2>4. ~(workers[i].service \/ workers[i].beat # Never) => ProgressAt(i) = Never
    BY DEF ProgressAt
  <2>5. CASE workers[i].alone
    <3>1. workers[i].progress = LastSignal(workers[i])
      BY <2>1, <2>5 DEF SpeaksForItself, Workers
    <3>2. i \in StaleTasks <=> ProgressAt(i) # Never /\ time - ProgressAt(i) > MaxAge
      BY DEF StaleTasks
    <3> QED
      BY <2>2, <2>3, <2>4, <2>5, <3>1, <3>2 DEF Overdue
  <2>6. ASSUME workers[i].service, \A j \in Namesakes(i) \cup {i} : Overdue(j)
        PROVE  i \in StaleTasks
    <3>1. PICK j \in Registered : workers[j].name = workers[i].name
                                  /\ LastSignal(workers[i]) <= workers[j].progress
      BY <2>1 DEF SomebodyMoved
    <3>2. Overdue(j)
      BY <2>6, <3>1 DEF Namesakes
    <3>3. workers[j].progress \in 0..LastBeat
      BY DEF Workers
    <3>4. time - LastSignal(workers[i]) > MaxAge
      BY <2>2, <3>1, <3>2, <3>3 DEF Overdue
    <3> QED
      BY <2>2, <2>3, <2>6, <3>4 DEF StaleTasks
  <2> QED
    BY <2>5, <2>6
<1> QED
  BY <1>1, <1>2, <1>3, PTL DEF BeatSpec

-----------------------------------------------------------------------------
(***************************************************************************)
(* The watchdog.                                                           *)
(***************************************************************************)
\* What runs uncancelled is what stop() would find, and what is cancelled is
\* waited for, or was given up.
StopOrder ==
    /\ worker = NoTask => lagAlert = NoTask
    /\ \A t \in WatchdogTasks :
          /\ places[t] \in {"readying", "waiting", "backoff"} => t = worker
          /\ places[t] = "reporting" => t = lagAlert
          /\ places[t] \in {"leaving", "cancelled"} =>
                t \in abandoned \/ \E stop \in stops : t \in stop.awaits
    /\ worker = NoTask /\ stops = {} /\ abandoned = {} => ~shown

\* The inductive invariant
WatchdogInv == WatchdogTypeOK /\ StopOrder

\* The flags are Booleans.
LEMMA FlagsTyped ==
  {shown, complete, readyEvent, deferred, readySent} \subseteq BOOLEAN
    <=> /\ shown \in BOOLEAN /\ complete \in BOOLEAN /\ readyEvent \in BOOLEAN
        /\ deferred \in BOOLEAN /\ readySent \in BOOLEAN
  BY Zenon

\* The watchdog starts with no task.
LEMMA WatchdogStarts == WatchdogInit => WatchdogInv
<1> SUFFICES ASSUME WatchdogInit PROVE WatchdogInv
  OBVIOUS
<1>1. {shown, complete, readyEvent, deferred, readySent} \subseteq BOOLEAN
  BY Zenon DEF WatchdogInit
<1>2. health \in [beats : 0..MaxBeats, suppressed : 0..MaxBeats]
  BY WatchdogAssumption DEF WatchdogInit
<1>3. WatchdogTypeOK
  BY <1>1, <1>2 DEF WatchdogInit, WatchdogTypeOK, TaskPlaces
<1>4. StopOrder
  BY DEF WatchdogInit, StopOrder
<1> QED BY <1>3, <1>4 DEF WatchdogInv

\* A task that takes up another place
LEMMA MovesTo ==
  ASSUME places \in [WatchdogTasks -> TaskPlaces], NEW t \in WatchdogTasks,
         NEW place \in TaskPlaces, Moves(t, place)
  PROVE  /\ places' \in [WatchdogTasks -> TaskPlaces]
         /\ places'[t] = place
         /\ \A s \in WatchdogTasks : s # t => places'[s] = places[s]
  BY DEF Moves

\* start(), the loop of the worker and the ends of tasks
LEMMA WatchdogTaskStep ==
  ASSUME WatchdogInv, NEW t \in WatchdogTasks,
         \/ WorkerReady(t) \/ WorkerFails(t) \/ WorkerRestarts(t)
         \/ ReportEnds(t) \/ CancelledEnds(t)
  PROVE  WatchdogInv'
<1> USE DEF WatchdogInv
<1>1. /\ UNCHANGED <<config, complete, readyEvent, worker, lagAlert, stops, abandoned,
                     deferred, readySent, health>>
      /\ shown' \in BOOLEAN
  BY FlagsTyped DEF WorkerReady, WorkerFails, WorkerRestarts, ReportEnds, CancelledEnds,
     environment, readiness, stopping, WatchdogTypeOK
<1>2. {shown, complete, readyEvent, deferred, readySent}' \subseteq BOOLEAN
  BY <1>1, FlagsTyped, Zenon DEF WatchdogTypeOK
<1>3. ASSUME NEW place \in TaskPlaces, Moves(t, place) PROVE WatchdogTypeOK'
  BY <1>1, <1>2, <1>3, MovesTo DEF WatchdogTypeOK
<1>4. CASE WorkerReady(t)
  BY <1>1, <1>3, <1>4, MovesTo DEF WorkerReady, WatchdogTypeOK, StopOrder, TaskPlaces, WatchdogTasks, NoTask
<1>5. CASE WorkerFails(t)
  <2> DEFINE place == IF config.supervised THEN "backoff" ELSE "done"
  <2>1. place \in TaskPlaces /\ place \in {"backoff", "done"} /\ Moves(t, place) /\ places[t] = "waiting" /\ shown' = FALSE
    BY <1>5 DEF WorkerFails, TaskPlaces
  <2> HIDE DEF place
  <2> QED BY <1>1, <1>3, <2>1, MovesTo DEF WatchdogTypeOK, StopOrder, TaskPlaces
<1>6. CASE WorkerRestarts(t)
  <2>1. PICK place \in {"readying", "done"} : Moves(t, place) /\ places[t] = "backoff" /\ UNCHANGED shown
    BY <1>6 DEF WorkerRestarts
  <2>2. place \in TaskPlaces
    BY DEF TaskPlaces
  <2> QED BY <1>1, <1>3, <2>1, <2>2, MovesTo DEF WatchdogTypeOK, StopOrder, TaskPlaces
<1>7. CASE ReportEnds(t)
  BY <1>1, <1>3, <1>7, MovesTo DEF ReportEnds, WatchdogTypeOK, StopOrder, TaskPlaces
<1>8. CASE CancelledEnds(t)
  BY <1>1, <1>3, <1>8, MovesTo DEF CancelledEnds, WatchdogTypeOK, StopOrder, TaskPlaces
<1> QED BY <1>4, <1>5, <1>6, <1>7, <1>8

\* start()
LEMMA StartStep ==
  ASSUME WatchdogInv, StartWatchdog PROVE WatchdogInv'
<1> USE DEF WatchdogInv
<1>1. PICK t \in WatchdogTasks : Unused(t) /\ Moves(t, "readying") /\ worker' = t
  BY DEF StartWatchdog
<1>2. /\ UNCHANGED <<config, complete, readyEvent, lagAlert, stops, abandoned,
                     deferred, readySent, health>>
      /\ shown' = TRUE /\ ~Ongoing(worker)
  BY DEF StartWatchdog, environment, readiness, stopping
<1>3. {shown, complete, readyEvent, deferred, readySent}' \subseteq BOOLEAN
  BY <1>2, FlagsTyped, Zenon DEF WatchdogTypeOK
<1>4. /\ places' \in [WatchdogTasks -> TaskPlaces] /\ places'[t] = "readying"
      /\ \A s \in WatchdogTasks : s # t => places'[s] = places[s]
  BY <1>1, MovesTo DEF WatchdogTypeOK, TaskPlaces
<1>5. WatchdogTypeOK'
  BY <1>1, <1>2, <1>3, <1>4 DEF WatchdogTypeOK
<1>6. worker' # NoTask
  BY <1>1, WatchdogAssumption DEF WatchdogTasks, NoTask
<1>7. \A s \in WatchdogTasks : places[s] \notin {"readying", "waiting", "backoff"}
  BY <1>2 DEF StopOrder, Ongoing
<1>8. StopOrder'
  BY <1>1, <1>2, <1>4, <1>6, <1>7 DEF StopOrder
<1> QED BY <1>5, <1>8

\* A turn of the loop
LEMMA BeatsStep ==
  ASSUME WatchdogInv, NEW t \in WatchdogTasks, NEW lag \in {"none", "warning", "failure"}, Beat(t, lag)
  PROVE  WatchdogInv'
<1> USE DEF WatchdogInv
<1>1. /\ UNCHANGED <<config, complete, readyEvent, worker, stops, abandoned, shown,
                     deferred, readySent>>
      /\ places[t] = "waiting" /\ health.beats + health.suppressed < MaxBeats
  BY DEF Beat, environment, readiness, stopping
<1>2. health' \in [beats : 0..MaxBeats, suppressed : 0..MaxBeats]
  BY <1>1, WatchdogAssumption DEF Beat, WatchdogTypeOK
<1>3. {shown, complete, readyEvent, deferred, readySent}' \subseteq BOOLEAN
  BY <1>1, Zenon DEF WatchdogTypeOK
<1>4. t = worker /\ worker # NoTask
  BY <1>1, WatchdogAssumption DEF StopOrder, WatchdogTasks, NoTask
<1>5. CASE UNCHANGED <<places, lagAlert>>
  <2>1. WatchdogTypeOK'
    BY <1>1, <1>2, <1>3, <1>5 DEF WatchdogTypeOK
  <2>2. StopOrder'
    BY <1>1, <1>5 DEF StopOrder
  <2> QED BY <2>1, <2>2
<1>6. CASE ~Ongoing(lagAlert) /\ \E s \in WatchdogTasks : Unused(s) /\ Moves(s, "reporting") /\ lagAlert' = s
  <2>1. PICK s \in WatchdogTasks : Unused(s) /\ Moves(s, "reporting") /\ lagAlert' = s
    BY <1>6
  <2>2. /\ places' \in [WatchdogTasks -> TaskPlaces] /\ places'[s] = "reporting"
        /\ \A r \in WatchdogTasks : r # s => places'[r] = places[r]
    BY <2>1, MovesTo DEF WatchdogTypeOK, TaskPlaces
  <2>3. WatchdogTypeOK'
    BY <1>1, <1>2, <1>3, <2>1, <2>2 DEF WatchdogTypeOK
  <2>4. \A r \in WatchdogTasks : places[r] # "reporting"
    BY <1>6 DEF StopOrder, Ongoing
  <2>5. StopOrder'
    BY <1>1, <1>4, <2>1, <2>2, <2>4 DEF StopOrder
  <2> QED BY <2>3, <2>5
<1> QED BY <1>5, <1>6 DEF Beat, ScheduleReport

\* stop() is called.
LEMMA StopStep ==
  ASSUME WatchdogInv, StopWatchdog PROVE WatchdogInv'
<1> USE DEF WatchdogInv
<1>1. PICK owned \in Owned :
        StopOf({t \in WatchdogTasks : Ongoing(t) /\ (owned \/ t \in {worker, lagAlert})}, owned)
  BY DEF StopWatchdog
<1> DEFINE targets == {t \in WatchdogTasks : Ongoing(t) /\ (owned \/ t \in {worker, lagAlert})}
<1>2. /\ owned \in BOOLEAN /\ targets \subseteq WatchdogTasks
      /\ \A t \in WatchdogTasks : Ongoing(t) /\ t \in {worker, lagAlert} => t \in targets
      /\ \A t \in targets : Ongoing(t)
      /\ owned => worker # NoTask
  BY DEF Owned
<1>3. StopOf(targets, owned)
  BY <1>1
<1> HIDE DEF targets
<1>4. /\ UNCHANGED <<config, complete, readyEvent, abandoned, deferred, readySent, health>>
      /\ worker' = NoTask /\ lagAlert' = NoTask
      /\ places' = [t \in WatchdogTasks |-> IF t \in targets THEN OnCancel(places[t]) ELSE places[t]]
  BY <1>3 DEF StopOf, environment, readiness
<1>5. /\ places' \in [WatchdogTasks -> TaskPlaces]
      /\ \A t \in WatchdogTasks : t \notin targets => places'[t] = places[t]
      /\ \A t \in targets : places'[t] \in {"leaving", "cancelled"}
  <2>1. \A t \in WatchdogTasks : places[t] \in TaskPlaces
    BY DEF WatchdogTypeOK
  <2>2. \A t \in targets : OnCancel(places[t]) \in {"leaving", "cancelled"}
    BY <1>2, <2>1 DEF OnCancel, Ongoing, TaskPlaces
  <2> QED BY <1>2, <1>4, <2>1, <2>2 DEF TaskPlaces
<1>6. \A t \in WatchdogTasks : places[t] \in {"readying", "waiting", "backoff", "reporting"} => t \in targets
  BY <1>2 DEF StopOrder, Ongoing
<1>7. CASE /\ (owned /\ targets = {}) \/ worker = NoTask
           /\ shown' = FALSE /\ UNCHANGED stops
  <2>1. targets = {}
    <3>1. ASSUME NEW t \in targets, worker = NoTask, ~owned PROVE FALSE
      BY <1>2, <3>1, WatchdogAssumption DEF targets, StopOrder, Ongoing, WatchdogTasks, NoTask
    <3> QED BY <1>2, <1>7, <3>1
  <2>2. {shown, complete, readyEvent, deferred, readySent}' \subseteq BOOLEAN
    BY <1>4, <1>7, FlagsTyped, Zenon DEF WatchdogTypeOK
  <2>3. WatchdogTypeOK'
    BY <1>4, <1>5, <1>7, <2>2 DEF WatchdogTypeOK
  <2>4. StopOrder'
    BY <1>4, <1>5, <1>6, <1>7, <2>1 DEF StopOrder
  <2> QED BY <2>3, <2>4
<1>8. CASE /\ worker # NoTask
           /\ stops' = stops \cup {[of |-> worker, awaits |-> targets, timed |-> owned]}
           /\ UNCHANGED shown
  <2> DEFINE stop == [of |-> worker, awaits |-> targets, timed |-> owned]
  <2>1. stop.of \in WatchdogTasks /\ stop.awaits = targets /\ stop.timed \in BOOLEAN /\ stop \in stops'
    BY <1>2, <1>8 DEF WatchdogTypeOK
  <2>2. stops' = stops \cup {stop}
    BY <1>8
  <2> HIDE DEF stop
  <2>3. {shown, complete, readyEvent, deferred, readySent}' \subseteq BOOLEAN
    BY <1>4, <1>8, Zenon DEF WatchdogTypeOK
  <2>4. WatchdogTypeOK'
    BY <1>2, <1>4, <1>5, <2>1, <2>2, <2>3 DEF WatchdogTypeOK
  <2>5. StopOrder'
    BY <1>4, <1>5, <1>6, <2>1, <2>2 DEF StopOrder
  <2> QED BY <2>4, <2>5
<1> QED BY <1>3, <1>7, <1>8 DEF StopOf

\* A call of stop() ends.
LEMMA StopEndsStep ==
  ASSUME WatchdogInv, NEW stop \in stops,
         StopCompletes(stop) \/ StopGivesUp(stop) \/ StopCancelled(stop)
  PROVE  WatchdogInv'
<1> USE DEF WatchdogInv
<1>1. /\ UNCHANGED <<config, complete, readyEvent, places, worker, lagAlert,
                     deferred, readySent, health>>
      /\ stops' = stops \ {stop}
  BY DEF StopCompletes, StopGivesUp, StopCancelled, environment, readiness
<1>2. /\ shown' \in BOOLEAN /\ abandoned \subseteq abandoned' /\ abandoned' \subseteq WatchdogTasks
      /\ \A t \in stop.awaits : Ongoing(t) => t \in abandoned'
      /\ shown' => abandoned' # {}
  BY FlagsTyped DEF StopCompletes, StopGivesUp, StopCancelled, WatchdogTypeOK
<1>3. {shown, complete, readyEvent, deferred, readySent}' \subseteq BOOLEAN
  BY <1>1, <1>2, FlagsTyped, Zenon DEF WatchdogTypeOK
<1>4. WatchdogTypeOK'
  BY <1>1, <1>2, <1>3 DEF WatchdogTypeOK
<1>5. StopOrder'
  BY <1>1, <1>2 DEF StopOrder, Ongoing
<1> QED BY <1>4, <1>5

\* Every step keeps the invariant.
LEMMA WatchdogStep ==
  ASSUME WatchdogInv, [WatchdogNext]_watchdogVars PROVE WatchdogInv'
<1>1. ASSUME UNCHANGED <<config, places, worker, lagAlert, stops, abandoned, shown, health>>,
             {shown, complete, readyEvent, deferred, readySent}' \subseteq BOOLEAN
      PROVE  WatchdogInv'
  BY <1>1 DEF WatchdogInv, WatchdogTypeOK, StopOrder
<1>2. {shown, complete, readyEvent, deferred, readySent} \subseteq BOOLEAN
  BY DEF WatchdogInv, WatchdogTypeOK
<1>3. CASE UNCHANGED watchdogVars
  <2>1. {shown, complete, readyEvent, deferred, readySent}' \subseteq BOOLEAN
    BY <1>2, <1>3, Zenon DEF watchdogVars, environment, readiness
  <2> QED BY <1>1, <1>3, <2>1 DEF watchdogVars, environment, stopping
<1>4. CASE Progress \/ NotifyReady \/ DeferredReady
  <2>1. UNCHANGED <<config, places, worker, lagAlert, stops, abandoned, shown, health>>
    BY <1>4 DEF Progress, NotifyReady, DeferredReady, environment, stopping
  <2>2. complete' \in BOOLEAN /\ readyEvent' \in BOOLEAN
    BY <1>2, <1>4, FlagsTyped, Zenon DEF Progress, NotifyReady, DeferredReady, environment
  <2>3. deferred' \in BOOLEAN /\ readySent' \in BOOLEAN
    BY <1>2, <1>4, FlagsTyped DEF Progress, NotifyReady, DeferredReady, SendReady, readiness
  <2>4. shown' \in BOOLEAN
    BY <1>2, <2>1, FlagsTyped
  <2>5. {shown, complete, readyEvent, deferred, readySent}' \subseteq BOOLEAN
    BY <2>2, <2>3, <2>4, Zenon
  <2> QED BY <1>1, <2>1, <2>5
<1> QED
  BY <1>3, <1>4, WatchdogTaskStep, StartStep, BeatsStep, StopStep, StopEndsStep DEF WatchdogNext

\* For any number of tasks and heartbeats, however starts, failures and restarts
\* of the worker, lag reports, readiness and calls of stop() interleave: after a
\* stop() and before the next start() nothing runs uncancelled, and when the calls
\* of stop() have returned, only what one of them gave up is left
\* (RuntimeWatchdog.stop).
THEOREM StoppedIsFinal == WatchdogSpec => []StopIsFinal
<1>1. WatchdogInv => StopIsFinal
  <2> SUFFICES ASSUME WatchdogInv PROVE StopIsFinal
    OBVIOUS
  <2>1. \A t \in WatchdogTasks : places[t] \in TaskPlaces /\ t # NoTask
    BY WatchdogAssumption DEF WatchdogInv, WatchdogTypeOK, WatchdogTasks, NoTask
  <2>2. worker = NoTask =>
          \A t \in WatchdogTasks : Ongoing(t) => places[t] \in {"leaving", "cancelled"}
    BY <2>1 DEF WatchdogInv, StopOrder, Ongoing, TaskPlaces
  <2>3. worker = NoTask /\ stops = {} =>
          /\ \A t \in WatchdogTasks : Ongoing(t) => t \in abandoned
          /\ abandoned = {} => ~shown
    BY <2>2 DEF WatchdogInv, StopOrder
  <2> QED BY <2>2, <2>3 DEF WatchdogInv, StopIsFinal
<1> QED BY <1>1, WatchdogStarts, WatchdogStep, PTL DEF WatchdogSpec

-----------------------------------------------------------------------------
(***************************************************************************)
(* The cooldowns of alerts.                                                *)
(***************************************************************************)
\* The entries of the table, and what is recorded of a key
Reservations == [key : AlertKeys, last : Nat, suppressed : Nat]

Usage == [known : BOOLEAN, others : SUBSET AlertKeys, last : Nat, denials : Nat]

\* An entry tells what has become of its key.
Matches(c, of) ==
    \A i \in DOMAIN c :
        /\ of[c[i].key].known
        /\ c[i].last = of[c[i].key].last
        /\ c[i].suppressed = of[c[i].key].denials

\* Keys further on in the table have been used since.
InOrder(c, of) ==
    \A i, j \in DOMAIN c :
        i < j => c[i].key # c[j].key /\ c[j].key \in of[c[i].key].others

\* A key is in the table until enough others have been used.
Present(c, of) ==
    \A k \in AlertKeys :
        of[k].known /\ Cardinality(of[k].others) < Limit =>
            \E i \in DOMAIN c : c[i].key = k

\* The history is typed.
UsageOK(of) ==
    /\ of \in [AlertKeys -> Usage]
    /\ \A k \in AlertKeys : IsFiniteSet(of[k].others)

\* A table that tells of every use
TableOK(c, of) ==
    c \in Seq(Reservations) /\ UsageOK(of) /\ Matches(c, of) /\ InOrder(c, of) /\ Present(c, of)

\* The inductive invariant
AlertInv ==
    /\ second \in Nat
    /\ seen = [calls |-> seen.calls, of |-> seen.of] /\ seen.calls \in Nat
    /\ TableOK(cooldown, seen.of)

\* The table has room for at least one key.
LEMMA LimitIsNatural == Limit \in Nat /\ Limit > 0
  BY AlertsAssumption DEF Limit

\* A key has one entry at most.
LEMMA OneEntry ==
  ASSUME AlertInv, NEW i \in DOMAIN cooldown, NEW j \in DOMAIN cooldown,
         cooldown[i].key = cooldown[j].key
  PROVE  i = j
<1>1. DOMAIN cooldown = 1..Len(cooldown) /\ Len(cooldown) \in Nat
  BY LenProperties DEF AlertInv, TableOK
<1>2. ~(i < j) /\ ~(j < i)
  BY DEF AlertInv, TableOK, InOrder
<1> QED BY <1>1, <1>2

\* Taking a key out leaves the others, in their order.
LEMMA WithoutIs ==
  ASSUME AlertInv, NEW key \in AlertKeys
  PROVE  /\ Without(key) \in Seq(Reservations)
         /\ \A i \in DOMAIN Without(key) :
               \E m \in DOMAIN cooldown : Without(key)[i] = cooldown[m] /\ cooldown[m].key # key
         /\ \A i, j \in DOMAIN Without(key) : i < j =>
               \E m, n \in DOMAIN cooldown :
                  m < n /\ Without(key)[i] = cooldown[m] /\ Without(key)[j] = cooldown[n]
         /\ \A m \in DOMAIN cooldown : cooldown[m].key # key =>
               \E i \in DOMAIN Without(key) : Without(key)[i] = cooldown[m]
<1> DEFINE c == cooldown
           w == Without(key)
<1>1. c \in Seq(Reservations) /\ DOMAIN c = 1..Len(c) /\ Len(c) \in Nat
  BY LenProperties DEF AlertInv, TableOK
<1>2. CASE Entries(key) = {}
  <2>1. w = c /\ \A i \in DOMAIN c : c[i].key # key
    BY <1>2 DEF Without, Entries
  <2> HIDE DEF w, c
  <2> QED BY <1>1, <2>1 DEF w, c
<1>3. CASE Entries(key) # {}
  <2> DEFINE p == CHOOSE i \in Entries(key) : TRUE
  <2>1. p \in 1..Len(c) /\ c[p].key = key
    BY <1>1, <1>3 DEF Entries
  <2>2. w = SubSeq(c, 1, p - 1) \o SubSeq(c, p + 1, Len(c))
    BY <1>3 DEF Without, RemoveAt
  <2>3. \A i \in 1..Len(c) : c[i].key = key => i = p
    BY <1>1, <2>1, OneEntry
  <2> HIDE DEF p, w
  <2> DEFINE before == SubSeq(c, 1, p - 1)
             after == SubSeq(c, p + 1, Len(c))
  <2>4. p - 1 \in Int /\ p + 1 \in Int /\ p \in Nat /\ Len(c) \in Nat /\ Len(c) \in Int
    BY <1>1, <2>1
  <2>5. \A i \in 1..Len(c) : c[i] \in Reservations
    BY <1>1, ElementOfSeq
  <2>6. /\ before \in Seq(Reservations) /\ Len(before) = p - 1
        /\ \A i \in 1..(p - 1) : before[i] = c[i]
    <3>1. \A i \in 1..(p - 1) : c[i] \in Reservations
      BY <2>1, <2>4, <2>5
    <3> HIDE DEF c
    <3>2. /\ before \in Seq(Reservations)
          /\ Len(before) = IF 1 <= p - 1 THEN (p - 1) - 1 + 1 ELSE 0
          /\ \A i \in 1..((p - 1) - 1 + 1) : before[i] = c[1 + i - 1]
      BY <2>4, <3>1, SubSeqProperties
    <3> HIDE DEF before
    <3> QED BY <2>1, <2>4, <3>2
  <2>7. /\ after \in Seq(Reservations) /\ Len(after) = Len(c) - p
        /\ \A i \in 1..(Len(c) - p) : after[i] = c[p + i]
    <3>1. \A i \in (p + 1)..Len(c) : c[i] \in Reservations
      BY <2>1, <2>4, <2>5
    <3> HIDE DEF c
    <3>2. /\ after \in Seq(Reservations)
          /\ Len(after) = IF p + 1 <= Len(c) THEN Len(c) - (p + 1) + 1 ELSE 0
          /\ \A i \in 1..(Len(c) - (p + 1) + 1) : after[i] = c[(p + 1) + i - 1]
      BY <2>4, <3>1, SubSeqProperties
    <3> HIDE DEF after
    <3> QED BY <2>1, <2>4, <3>2
  <2> HIDE DEF before, after, c
  <2>8. /\ w \in Seq(Reservations)
        /\ Len(w) = Len(before) + Len(after)
        /\ \A i \in 1..(Len(before) + Len(after)) :
              w[i] = IF i <= Len(before) THEN before[i] ELSE after[i - Len(before)]
    BY <2>2, <2>6, <2>7, ConcatProperties DEF before, after
  <2>9. /\ Len(w) = Len(c) - 1 /\ DOMAIN w = 1..(Len(c) - 1)
        /\ \A i \in 1..(Len(c) - 1) : w[i] = IF i < p THEN c[i] ELSE c[i + 1]
    <3>1. Len(w) = Len(c) - 1
      BY <2>4, <2>6, <2>7, <2>8
    <3>2. DOMAIN w = 1..(Len(c) - 1)
      BY <2>8, <3>1, LenProperties
    <3>3. ASSUME NEW i \in 1..(Len(c) - 1) PROVE w[i] = IF i < p THEN c[i] ELSE c[i + 1]
      <4>0. i \in 1..(Len(before) + Len(after))
        BY <2>4, <2>6, <2>7
      <4>1. CASE i < p
        <5>1. i <= Len(before) /\ i \in 1..(p - 1)
          BY <2>4, <2>6, <4>1
        <5> QED BY <2>6, <2>8, <4>0, <4>1, <5>1
      <4>2. CASE ~(i < p)
        <5>1. ~(i <= Len(before)) /\ i - Len(before) \in 1..(Len(c) - p)
              /\ p + (i - Len(before)) = i + 1
          BY <2>1, <2>4, <2>6, <4>2
        <5> QED BY <2>7, <2>8, <4>0, <4>2, <5>1
      <4> QED BY <4>1, <4>2
    <3> QED BY <3>1, <3>2, <3>3
  <2> DEFINE Was(i) == IF i < p THEN i ELSE i + 1
  <2>10. \A i \in DOMAIN w : Was(i) \in DOMAIN c /\ w[i] = c[Was(i)] /\ Was(i) # p
    BY <1>1, <2>1, <2>4, <2>9
  <2>11. \A i, j \in DOMAIN w : i < j => Was(i) < Was(j)
    BY <2>1, <2>4, <2>9
  <2>12. ASSUME NEW m \in DOMAIN c, m # p PROVE \E i \in DOMAIN w : w[i] = c[m]
    <3>1. CASE m < p
      BY <1>1, <2>1, <2>4, <2>9, <3>1
    <3>2. CASE ~(m < p)
      <4>1. m - 1 \in DOMAIN w /\ ~(m - 1 < p) /\ (m - 1) + 1 = m
        BY <1>1, <2>1, <2>4, <2>9, <2>12, <3>2
      <4> QED BY <2>9, <4>1
    <3> QED BY <3>1, <3>2
  <2> HIDE DEF Was
  <2>13. \A i \in DOMAIN w : \E m \in DOMAIN c : w[i] = c[m] /\ c[m].key # key
    BY <1>1, <2>3, <2>10
  <2>14. \A i, j \in DOMAIN w : i < j => \E m, n \in DOMAIN c : m < n /\ w[i] = c[m] /\ w[j] = c[n]
    BY <2>10, <2>11
  <2>15. \A m \in DOMAIN c : c[m].key # key => \E i \in DOMAIN w : w[i] = c[m]
    BY <2>1, <2>12
  <2> QED BY <2>8, <2>13, <2>14, <2>15 DEF w, c
<1> QED BY <1>2, <1>3

-----------------------------------------------------------------------------
\* What a use of a key makes of the history
UsedAs(key, last, denials) ==
    [k \in AlertKeys |->
        IF k # key THEN [seen.of[k] EXCEPT !.others = @ \cup {key}]
        ELSE [known |-> TRUE, others |-> {}, last |-> last, denials |-> denials]]

\* The history after a use of a key, record by record.
LEMMA UsedAsIs ==
  ASSUME AlertInv, NEW key \in AlertKeys, NEW last \in Nat, NEW denials \in Nat
  PROVE  LET of == UsedAs(key, last, denials) IN
         /\ UsageOK(of)
         /\ of[key].known /\ of[key].last = last /\ of[key].denials = denials
         /\ \A k \in AlertKeys : k # key =>
               /\ of[k].known = seen.of[k].known
               /\ of[k].last = seen.of[k].last
               /\ of[k].denials = seen.of[k].denials
               /\ of[k].others = seen.of[k].others \cup {key}
<1> DEFINE of == UsedAs(key, last, denials)
<1>1. \A k \in AlertKeys :
         of[k] = IF k # key THEN [seen.of[k] EXCEPT !.others = @ \cup {key}]
                 ELSE [known |-> TRUE, others |-> {}, last |-> last, denials |-> denials]
  BY DEF UsedAs
<1>2. of = [k \in AlertKeys |-> of[k]]
  BY DEF UsedAs
<1>3. \A k \in AlertKeys : seen.of[k] \in Usage /\ IsFiniteSet(seen.of[k].others)
  BY DEF AlertInv, TableOK, UsageOK
<1> HIDE DEF of
<1>4. /\ of[key] \in Usage /\ of[key].others = {} /\ of[key].known
      /\ of[key].last = last /\ of[key].denials = denials
  <2>1. of[key] = [known |-> TRUE, others |-> {}, last |-> last, denials |-> denials]
    BY <1>1
  <2> QED BY <2>1 DEF Usage
<1>5. ASSUME NEW k \in AlertKeys, k # key
      PROVE  /\ of[k] \in Usage
             /\ of[k].known = seen.of[k].known
             /\ of[k].last = seen.of[k].last
             /\ of[k].denials = seen.of[k].denials
             /\ of[k].others = seen.of[k].others \cup {key}
  <2>1. of[k] = [seen.of[k] EXCEPT !.others = @ \cup {key}]
    BY <1>1, <1>5
  <2>2. seen.of[k] \in Usage
    BY <1>3
  <2> QED BY <2>1, <2>2 DEF Usage
<1>6. ASSUME NEW k \in AlertKeys PROVE of[k] \in Usage /\ IsFiniteSet(of[k].others)
  <2>1. CASE k = key
    BY <1>4, <2>1, FS_EmptySet
  <2>2. CASE k # key
    <3>1. IsFiniteSet(seen.of[k].others \cup {key})
      BY <1>3, FS_AddElement
    <3> QED BY <1>5, <2>2, <3>1
  <2> QED BY <2>1, <2>2
<1>7. of \in [AlertKeys -> Usage]
  BY <1>2, <1>6
<1>8. UsageOK(of)
  BY <1>6, <1>7 DEF UsageOK
<1> QED BY <1>4, <1>5, <1>8 DEF of

\* A table from which a key was taken, and to which an entry for it is added
\* that tells of this use, tells of every use.
LEMMA EntryMoved ==
  ASSUME AlertInv, NEW key \in AlertKeys, NEW last \in Nat, NEW denials \in Nat,
         NEW e, e = [key |-> key, last |-> last, suppressed |-> denials]
  PROVE  TableOK(MovedToEnd(e), UsedAs(key, last, denials))
<1> DEFINE of == UsedAs(key, last, denials)
           w == Without(key)
           c == MovedToEnd(e)
<1>1. /\ UsageOK(of)
      /\ of[key].known /\ of[key].last = last /\ of[key].denials = denials
      /\ \A k \in AlertKeys : k # key =>
            /\ of[k].known = seen.of[k].known
            /\ of[k].last = seen.of[k].last
            /\ of[k].denials = seen.of[k].denials
            /\ of[k].others = seen.of[k].others \cup {key}
  BY UsedAsIs
<1>2. e \in Reservations /\ e.key = key /\ e.last = last /\ e.suppressed = denials
  BY DEF Reservations
<1>3. c = Append(w, e)
  BY <1>2 DEF MovedToEnd
<1>4. /\ w \in Seq(Reservations)
      /\ \A i \in DOMAIN w :
            \E m \in DOMAIN cooldown : w[i] = cooldown[m] /\ cooldown[m].key # key
      /\ \A i, j \in DOMAIN w : i < j =>
            \E m, n \in DOMAIN cooldown : m < n /\ w[i] = cooldown[m] /\ w[j] = cooldown[n]
      /\ \A m \in DOMAIN cooldown : cooldown[m].key # key =>
            \E i \in DOMAIN w : w[i] = cooldown[m]
  BY WithoutIs
<1> HIDE DEF of, w, c
<1>5. /\ c \in Seq(Reservations) /\ Len(w) \in Nat
      /\ DOMAIN w = 1..Len(w) /\ DOMAIN c = 1..(Len(w) + 1)
      /\ \A i \in 1..Len(w) : c[i] = w[i]
      /\ c[Len(w) + 1] = e
  BY <1>2, <1>3, <1>4, AppendProperties, LenProperties
<1>6. \A i \in DOMAIN w : w[i].key \in AlertKeys /\ w[i].key # key
  <2>1. \A i \in DOMAIN w : w[i] \in Reservations
    BY <1>4, <1>5, ElementOfSeq
  <2>2. \A i \in DOMAIN w : w[i].key # key
    BY <1>4
  <2> QED BY <2>1, <2>2 DEF Reservations
<1>7. Matches(c, of)
  <2> SUFFICES ASSUME NEW i \in DOMAIN c
               PROVE  /\ of[c[i].key].known
                      /\ c[i].last = of[c[i].key].last
                      /\ c[i].suppressed = of[c[i].key].denials
    BY DEF Matches
  <2>1. CASE i = Len(w) + 1
    BY <1>1, <1>2, <1>5, <2>1
  <2>2. CASE i # Len(w) + 1
    <3>1. i \in DOMAIN w /\ c[i] = w[i]
      BY <1>5, <2>2
    <3>2. PICK m \in DOMAIN cooldown : w[i] = cooldown[m]
      BY <1>4, <3>1
    <3>3. /\ seen.of[w[i].key].known
          /\ w[i].last = seen.of[w[i].key].last
          /\ w[i].suppressed = seen.of[w[i].key].denials
      BY <3>2 DEF AlertInv, TableOK, Matches
    <3> QED BY <1>1, <1>6, <3>1, <3>3
  <2> QED BY <2>1, <2>2
<1>8. InOrder(c, of)
  <2> SUFFICES ASSUME NEW i \in DOMAIN c, NEW j \in DOMAIN c, i < j
               PROVE  c[i].key # c[j].key /\ c[j].key \in of[c[i].key].others
    BY DEF InOrder
  <2>1. i \in DOMAIN w /\ c[i] = w[i]
    BY <1>5
  <2>2. CASE j = Len(w) + 1
    BY <1>1, <1>2, <1>5, <1>6, <2>1, <2>2
  <2>3. CASE j # Len(w) + 1
    <3>1. j \in DOMAIN w /\ c[j] = w[j]
      BY <1>5, <2>3
    <3>2. PICK m \in DOMAIN cooldown, n \in DOMAIN cooldown :
             m < n /\ w[i] = cooldown[m] /\ w[j] = cooldown[n]
      BY <1>4, <2>1, <3>1
    <3>3. w[i].key # w[j].key /\ w[j].key \in seen.of[w[i].key].others
      BY <3>2 DEF AlertInv, TableOK, InOrder
    <3> QED BY <1>1, <1>6, <2>1, <3>1, <3>3
  <2> QED BY <2>2, <2>3
<1>9. Present(c, of)
  <2> SUFFICES ASSUME NEW k \in AlertKeys, of[k].known, Cardinality(of[k].others) < Limit
               PROVE  \E i \in DOMAIN c : c[i].key = k
    BY DEF Present
  <2>1. CASE k = key
    <3>1. Len(w) + 1 \in DOMAIN c
      BY <1>5
    <3> QED BY <1>2, <1>5, <2>1, <3>1
  <2>2. CASE k # key
    <3>1. seen.of[k].known /\ of[k].others = seen.of[k].others \cup {key}
      BY <1>1, <2>2
    <3>2. IsFiniteSet(of[k].others) /\ seen.of[k].others \subseteq of[k].others
      BY <1>1, <3>1 DEF UsageOK
    <3>3. /\ Cardinality(seen.of[k].others) \in Nat /\ Cardinality(of[k].others) \in Nat
          /\ Cardinality(seen.of[k].others) <= Cardinality(of[k].others)
      BY <3>2, FS_Subset, FS_CardinalityType
    <3>4. Cardinality(seen.of[k].others) < Limit
      BY <3>3, LimitIsNatural
    <3>5. PICK m \in DOMAIN cooldown : cooldown[m].key = k
      BY <3>1, <3>4 DEF AlertInv, TableOK, Present
    <3>6. PICK i \in DOMAIN w : w[i] = cooldown[m]
      BY <1>4, <2>2, <3>5
    <3>7. i \in DOMAIN c /\ c[i] = w[i]
      BY <1>5
    <3> QED BY <3>5, <3>6, <3>7
  <2> QED BY <2>1, <2>2
<1> QED BY <1>1, <1>5, <1>7, <1>8, <1>9 DEF TableOK, of, c

\* Those that are dropped have enough others after them.
LEMMA TrimKeeps ==
  ASSUME NEW c, NEW of, TableOK(c, of)
  PROVE  TableOK(Trimmed(c), of)
<1>1. c \in Seq(Reservations) /\ DOMAIN c = 1..Len(c) /\ Len(c) \in Nat
  BY LenProperties DEF TableOK
<1>2. CASE Len(c) <= Limit
  BY <1>2 DEF Trimmed
<1>3. CASE ~(Len(c) <= Limit)
  <2> DEFINE d == Len(c) - Limit
             t == SubSeq(c, d + 1, Len(c))
  <2>1. d \in Nat /\ d > 0 /\ Len(c) = d + Limit /\ Limit \in Nat /\ d + 1 <= Len(c)
    BY <1>1, <1>3, LimitIsNatural
  <2>2. Trimmed(c) = t
    BY <1>3 DEF Trimmed
  <2> HIDE DEF d
  <2>3. /\ t \in Seq(Reservations) /\ DOMAIN t = 1..Limit
        /\ \A i \in 1..Limit : t[i] = c[d + i]
    <3>1. \A i \in (d + 1)..Len(c) : c[i] \in Reservations
      BY <1>1, <2>1, ElementOfSeq
    <3>2. d + 1 \in Int /\ Len(c) \in Int
      BY <1>1, <2>1
    <3>3. /\ t \in Seq(Reservations)
          /\ Len(t) = IF d + 1 <= Len(c) THEN Len(c) - (d + 1) + 1 ELSE 0
          /\ \A i \in 1..(Len(c) - (d + 1) + 1) : t[i] = c[(d + 1) + i - 1]
      BY <3>1, <3>2, SubSeqProperties
    <3> HIDE DEF t
    <3>4. Len(t) = Limit /\ DOMAIN t = 1..Len(t)
      BY <2>1, <3>3, LenProperties
    <3>5. \A i \in 1..Limit : i \in 1..(Len(c) - (d + 1) + 1) /\ (d + 1) + i - 1 = d + i
      BY <2>1
    <3> QED BY <3>3, <3>4, <3>5
  <2> HIDE DEF t
  <2>4. \A i \in DOMAIN t : d + i \in DOMAIN c /\ t[i] = c[d + i]
    BY <1>1, <2>1, <2>3
  <2>5. Matches(t, of)
    BY <2>4 DEF TableOK, Matches
  <2>6. InOrder(t, of)
    <3> SUFFICES ASSUME NEW i \in DOMAIN t, NEW j \in DOMAIN t, i < j
                 PROVE  t[i].key # t[j].key /\ t[j].key \in of[t[i].key].others
      BY DEF InOrder
    <3>1. d + i < d + j
      BY <2>1, <2>3
    <3> QED BY <2>4, <3>1 DEF TableOK, InOrder
  <2>7. Present(t, of)
    <3> SUFFICES ASSUME NEW k \in AlertKeys, of[k].known, Cardinality(of[k].others) < Limit
                 PROVE  \E i \in DOMAIN t : t[i].key = k
      BY DEF Present
    <3>1. PICK m \in DOMAIN c : c[m].key = k
      BY DEF TableOK, Present
    <3>2. CASE m > d
      <4>1. m - d \in DOMAIN t /\ d + (m - d) = m
        BY <1>1, <2>1, <2>3, <3>2
      <4> QED BY <2>4, <3>1, <4>1
    <3>3. CASE ~(m > d)
      <4> DEFINE f == [i \in 1..Limit |-> t[i].key]
                 later == of[k].others
      <4>1. \A i \in 1..Limit : m < d + i
        BY <1>1, <2>1, <3>3
      <4>2. \A i \in 1..Limit : t[i].key \in later
        BY <2>3, <2>4, <3>1, <4>1 DEF TableOK, InOrder
      <4>3. f \in [1..Limit -> later]
        BY <4>2
      <4>4. IsFiniteSet(1..Limit) /\ Cardinality(1..Limit) = Limit
        <5>1. 1 \in Int /\ Limit \in Int /\ Limit > 0
          BY LimitIsNatural
        <5>2. IsFiniteSet(1..Limit) /\ Cardinality(1..Limit) = IF 1 > Limit THEN 0 ELSE Limit - 1 + 1
          BY <5>1, FS_Interval
        <5> QED BY <5>1, <5>2
      <4>5. IsFiniteSet(later)
        BY DEF TableOK, UsageOK
      <4>6. \A i, j \in 1..Limit : i # j => f[i] # f[j]
        <5> SUFFICES ASSUME NEW i \in 1..Limit, NEW j \in 1..Limit, i # j
                     PROVE  t[i].key # t[j].key
          OBVIOUS
        <5>1. i < j \/ j < i
          BY <2>1
        <5> QED BY <2>3, <2>6, <5>1 DEF InOrder
      <4> HIDE DEF f, later
      <4>7. ~(Cardinality(later) < Limit)
        BY <4>3, <4>4, <4>5, <4>6, FS_PigeonHole
      <4> QED BY <4>7 DEF later
    <3> QED BY <3>2, <3>3
  <2> QED BY <2>2, <2>3, <2>5, <2>6, <2>7 DEF TableOK
<1> QED BY <1>2, <1>3

-----------------------------------------------------------------------------
\* What WindowKept says of a step.
AnswerKept ==
    \A key \in AlertKeys :
        LET before == seen.of[key] IN
        /\ seen'.calls > seen.calls /\ answer'.key = key
        /\ before.known /\ Cardinality(before.others) < Limit
        => /\ answer'.allowed <=> second - before.last >= answer'.window
           /\ answer'.suppressed = IF answer'.allowed THEN before.denials
                                   ELSE before.denials + 1

\* The history records the use of a key.
LEMMA RecordedIs ==
  ASSUME AlertInv, NEW key \in AlertKeys, NEW emitted \in BOOLEAN, Recorded(key, emitted)
  PROVE  /\ seen' = [calls |-> seen'.calls, of |-> seen'.of]
         /\ seen'.calls = seen.calls + 1
         /\ emitted => seen'.of = UsedAs(key, second, 0)
         /\ ~emitted => seen'.of = UsedAs(key, seen.of[key].last, seen.of[key].denials + 1)
<1>1. CASE emitted
  BY <1>1 DEF Recorded, UsedAs
<1>2. CASE ~emitted
  BY <1>2 DEF Recorded, UsedAs
<1> QED BY <1>1, <1>2

\* The entry of a key tells what the history does.
LEMMA EntryTells ==
  ASSUME AlertInv, NEW key \in AlertKeys, NEW i \in Entries(key)
  PROVE  /\ cooldown[i].last = seen.of[key].last /\ cooldown[i].last \in Nat
         /\ cooldown[i].suppressed = seen.of[key].denials /\ cooldown[i].suppressed \in Nat
         /\ cooldown[i] = [key |-> key, last |-> seen.of[key].last,
                           suppressed |-> seen.of[key].denials]
         /\ Entries(key) = {i}
<1>1. i \in DOMAIN cooldown /\ cooldown[i].key = key
  BY DEF Entries
<1>2. cooldown[i] \in Reservations
  BY <1>1, ElementOfSeq, LenProperties DEF AlertInv, TableOK
<1>3. cooldown[i].last = seen.of[key].last /\ cooldown[i].suppressed = seen.of[key].denials
  BY <1>1 DEF AlertInv, TableOK, Matches
<1>4. Entries(key) = {i}
  BY <1>1, OneEntry DEF Entries
<1> QED BY <1>1, <1>2, <1>3, <1>4 DEF Reservations

\* Where enough room was left, there is an entry.
LEMMA EntryThere ==
  ASSUME AlertInv, NEW key \in AlertKeys,
         seen.of[key].known, Cardinality(seen.of[key].others) < Limit
  PROVE  Entries(key) # {}
BY DEF AlertInv, TableOK, Present, Entries

\* A denial counts one more.
LEMMA DenyKeeps ==
  ASSUME AlertInv, NEW key \in AlertKeys, NEW window \in Windows, Deny(key, window)
  PROVE  AlertInv' /\ AnswerKept
<1>1. PICK i \in Entries(key) :
         LET denied == [cooldown[i] EXCEPT !.suppressed = @ + 1] IN
         /\ second - cooldown[i].last < window
         /\ cooldown' = MovedToEnd(denied)
         /\ answer' = [key |-> key, window |-> window, allowed |-> FALSE,
                       suppressed |-> denied.suppressed]
         /\ Recorded(key, FALSE)
         /\ UNCHANGED second
  BY DEF Deny
<1> DEFINE denied == [cooldown[i] EXCEPT !.suppressed = @ + 1]
           last == seen.of[key].last
           denials == seen.of[key].denials
<1>2. /\ cooldown[i].last = last /\ last \in Nat /\ denials \in Nat
      /\ cooldown[i] = [key |-> key, last |-> last, suppressed |-> denials]
  BY EntryTells
<1> HIDE DEF last, denials
<1>3. denied = [key |-> key, last |-> last, suppressed |-> denials + 1]
  BY <1>2
<1>4. /\ seen' = [calls |-> seen'.calls, of |-> seen'.of] /\ seen'.calls = seen.calls + 1
      /\ seen'.of = UsedAs(key, last, denials + 1)
  BY <1>1, RecordedIs DEF last, denials
<1>5. denials + 1 \in Nat
  BY <1>2
<1> HIDE DEF denied
<1>6. TableOK(MovedToEnd(denied), UsedAs(key, last, denials + 1))
  BY <1>2, <1>3, <1>5, EntryMoved
<1>7. cooldown' = MovedToEnd(denied) /\ second' = second /\ second - last < window
  BY <1>1, <1>2 DEF denied
<1>8. answer' = [key |-> key, window |-> window, allowed |-> FALSE, suppressed |-> denials + 1]
  BY <1>1, <1>3 DEF denied
<1>9. AlertInv'
  BY <1>4, <1>6, <1>7 DEF AlertInv
<1>10. AnswerKept
  <2>1. window \in Nat /\ second \in Nat
    BY AlertsAssumption DEF AlertInv
  <2>2. ~(second - last >= window)
    BY <1>2, <1>7, <2>1
  <2>3. answer'.key = key /\ answer'.window = window /\ answer'.allowed = FALSE
        /\ answer'.suppressed = denials + 1
    BY <1>8
  <2> QED BY <2>2, <2>3 DEF AnswerKept, last, denials
<1> QED BY <1>9, <1>10

\* An emission begins anew, and may drop other keys.
LEMMA AllowKeeps ==
  ASSUME AlertInv, NEW key \in AlertKeys, NEW window \in Windows, Allow(key, window)
  PROVE  AlertInv' /\ AnswerKept
<1> DEFINE e == [key |-> key, last |-> second, suppressed |-> 0]
<1>1. /\ \A i \in Entries(key) : second - cooldown[i].last >= window
      /\ cooldown' = Trimmed(MovedToEnd(e))
      /\ second' = second /\ second \in Nat
      /\ Recorded(key, TRUE)
  BY DEF Allow, AlertInv
<1>2. PICK n \in IF Entries(key) = {} THEN {0} ELSE {cooldown[i].suppressed : i \in Entries(key)} :
         answer' = [key |-> key, window |-> window, allowed |-> TRUE, suppressed |-> n]
  BY DEF Allow
<1>3. /\ seen' = [calls |-> seen'.calls, of |-> seen'.of] /\ seen'.calls = seen.calls + 1
      /\ seen'.of = UsedAs(key, second, 0)
  BY <1>1, RecordedIs
<1>4. TableOK(MovedToEnd(e), UsedAs(key, second, 0))
  <2>1. 0 \in Nat /\ e = [key |-> key, last |-> second, suppressed |-> 0]
    OBVIOUS
  <2> HIDE DEF e
  <2> QED BY <1>1, <2>1, EntryMoved
<1> HIDE DEF e
<1>5. TableOK(cooldown', seen'.of)
  BY <1>1, <1>3, <1>4, TrimKeeps
<1>6. AlertInv'
  BY <1>1, <1>3, <1>5 DEF AlertInv
<1>7. AnswerKept
  <2> SUFFICES ASSUME seen.of[key].known, Cardinality(seen.of[key].others) < Limit
               PROVE  second - seen.of[key].last >= window /\ n = seen.of[key].denials
    <3>1. answer'.key = key /\ answer'.window = window /\ answer'.allowed = TRUE
          /\ answer'.suppressed = n
      BY <1>2
    <3> QED BY <3>1 DEF AnswerKept
  <2>1. PICK i \in Entries(key) : TRUE
    BY EntryThere
  <2>2. /\ cooldown[i].last = seen.of[key].last
        /\ cooldown[i].suppressed = seen.of[key].denials
        /\ Entries(key) = {i}
    BY EntryTells
  <2> QED BY <1>1, <1>2, <2>2
<1> QED BY <1>6, <1>7

\* Forgetting a key concerns no other.
LEMMA ForgetKeyKeeps ==
  ASSUME AlertInv, NEW key \in AlertKeys, ForgetKey(key)
  PROVE  AlertInv' /\ AnswerKept
<1> DEFINE of == seen.of
           w == Without(key)
<1>1. /\ cooldown' = w /\ second' = second
      /\ seen' = [seen EXCEPT !.of[key].known = FALSE]
  BY DEF ForgetKey
<1>2. /\ w \in Seq(Reservations)
      /\ \A i \in DOMAIN w :
            \E m \in DOMAIN cooldown : w[i] = cooldown[m] /\ cooldown[m].key # key
      /\ \A i, j \in DOMAIN w : i < j =>
            \E m, n \in DOMAIN cooldown : m < n /\ w[i] = cooldown[m] /\ w[j] = cooldown[n]
      /\ \A m \in DOMAIN cooldown : cooldown[m].key # key =>
            \E i \in DOMAIN w : w[i] = cooldown[m]
  BY WithoutIs
<1> HIDE DEF w
<1> DEFINE new == [of EXCEPT ![key].known = FALSE]
<1>3. \A k \in AlertKeys : of[k] \in Usage /\ IsFiniteSet(of[k].others)
  BY DEF AlertInv, TableOK, UsageOK
<1>4. of \in [AlertKeys -> Usage]
  BY DEF AlertInv, TableOK, UsageOK
<1>5. /\ new \in [AlertKeys -> Usage] /\ new[key].known = FALSE
      /\ \A k \in AlertKeys : /\ new[k].others = of[k].others
                              /\ k # key => new[k] = of[k]
  <2>1. \A k \in AlertKeys : new[k] = IF k = key THEN [of[key] EXCEPT !.known = FALSE] ELSE of[k]
    BY <1>4
  <2>2. new = [k \in AlertKeys |-> new[k]]
    BY <1>4
  <2>3. of[key] \in Usage
    BY <1>4
  <2> HIDE DEF new, of
  <2>4. new[key] = [of[key] EXCEPT !.known = FALSE]
    BY <2>1
  <2>5. new[key] \in Usage /\ new[key].known = FALSE /\ new[key].others = of[key].others
    BY <2>3, <2>4 DEF Usage
  <2>6. ASSUME NEW k \in AlertKeys, k # key PROVE new[k] = of[k] /\ new[k] \in Usage
    BY <1>3, <2>1, <2>6
  <2>7. \A k \in AlertKeys : new[k] \in Usage /\ new[k].others = of[k].others
    BY <2>5, <2>6
  <2>8. new \in [AlertKeys -> Usage]
    BY <2>2, <2>7
  <2> QED BY <2>5, <2>6, <2>7, <2>8
<1>6. \A i \in DOMAIN w : w[i].key \in AlertKeys /\ w[i].key # key
  <2>1. DOMAIN w = 1..Len(w)
    BY <1>2, LenProperties
  <2>2. \A i \in DOMAIN w : w[i] \in Reservations
    BY <1>2, <2>1, ElementOfSeq
  <2>3. \A i \in DOMAIN w : w[i].key # key
    BY <1>2
  <2> QED BY <2>2, <2>3 DEF Reservations
<1> HIDE DEF new
<1>7. UsageOK(new)
  BY <1>3, <1>5 DEF UsageOK
<1>8. Matches(w, new)
  <2> SUFFICES ASSUME NEW i \in DOMAIN w
               PROVE  /\ new[w[i].key].known
                      /\ w[i].last = new[w[i].key].last
                      /\ w[i].suppressed = new[w[i].key].denials
    BY DEF Matches
  <2>1. PICK m \in DOMAIN cooldown : w[i] = cooldown[m]
    BY <1>2
  <2>2. /\ of[w[i].key].known
        /\ w[i].last = of[w[i].key].last
        /\ w[i].suppressed = of[w[i].key].denials
    BY <2>1 DEF AlertInv, TableOK, Matches
  <2>3. new[w[i].key] = of[w[i].key]
    BY <1>5, <1>6
  <2> HIDE DEF of
  <2> QED BY <2>2, <2>3
<1>9. InOrder(w, new)
  <2> SUFFICES ASSUME NEW i \in DOMAIN w, NEW j \in DOMAIN w, i < j
               PROVE  w[i].key # w[j].key /\ w[j].key \in new[w[i].key].others
    BY DEF InOrder
  <2>1. PICK m \in DOMAIN cooldown, n \in DOMAIN cooldown :
           m < n /\ w[i] = cooldown[m] /\ w[j] = cooldown[n]
    BY <1>2
  <2>2. w[i].key # w[j].key /\ w[j].key \in of[w[i].key].others
    BY <2>1 DEF AlertInv, TableOK, InOrder
  <2> QED BY <1>5, <1>6, <2>2
<1>10. Present(w, new)
  <2> SUFFICES ASSUME NEW k \in AlertKeys, new[k].known, Cardinality(new[k].others) < Limit
               PROVE  \E i \in DOMAIN w : w[i].key = k
    BY DEF Present
  <2>1. k # key /\ new[k] = of[k]
    BY <1>5
  <2>2. of[k].known /\ Cardinality(of[k].others) < Limit
    BY <2>1
  <2>3. PICK m \in DOMAIN cooldown : cooldown[m].key = k
    BY <2>2 DEF AlertInv, TableOK, Present
  <2>4. PICK i \in DOMAIN w : w[i] = cooldown[m]
    BY <1>2, <2>1, <2>3
  <2> QED BY <2>3, <2>4
<1>11. /\ seen' = [calls |-> seen'.calls, of |-> seen'.of]
       /\ seen'.of = new /\ seen'.calls = seen.calls
  <2>1. seen' = [seen EXCEPT !.of = [of EXCEPT ![key].known = FALSE]]
    BY <1>1
  <2> QED BY <2>1 DEF new, AlertInv
<1>12. AlertInv'
  BY <1>1, <1>2, <1>7, <1>8, <1>9, <1>10, <1>11 DEF AlertInv, TableOK
<1>13. AnswerKept
  BY <1>11 DEF AnswerKept, AlertInv
<1> QED BY <1>12, <1>13

\* Every step keeps the invariant, and answers as it should.
LEMMA AlertInvStep ==
  ASSUME AlertInv, [AlertsNext]_alertVars
  PROVE  AlertInv' /\ AnswerKept
<1>1. CASE UNCHANGED alertVars
  BY <1>1 DEF AlertInv, AnswerKept, alertVars
<1>2. CASE ClockTicks
  BY <1>2 DEF AlertInv, AnswerKept, ClockTicks
<1>3. CASE \E key \in AlertKeys :
              ForgetKey(key) \/ \E window \in Windows : Deny(key, window) \/ Allow(key, window)
  BY <1>3, ForgetKeyKeeps, DenyKeeps, AllowKeeps
<1> QED BY <1>1, <1>2, <1>3 DEF AlertsNext

\* At first no key is known.
LEMMA AlertInvInit == AlertsInit => AlertInv
<1> SUFFICES ASSUME AlertsInit PROVE AlertInv
  OBVIOUS
<1> DEFINE new == [known |-> FALSE, others |-> {}, last |-> 0, denials |-> 0]
<1>1. new \in Usage /\ new.known = FALSE /\ new.others = {}
  BY DEF Usage
<1>2. /\ second = 0 /\ cooldown = <<>> /\ seen.calls = 0
      /\ seen = [calls |-> seen.calls, of |-> seen.of]
      /\ seen.of = [k \in AlertKeys |-> new]
  BY DEF AlertsInit
<1> HIDE DEF new
<1>3. UsageOK(seen.of)
  BY <1>1, <1>2, FS_EmptySet DEF UsageOK
<1>4. cooldown \in Seq(Reservations) /\ DOMAIN cooldown = {}
  BY <1>2
<1> QED BY <1>1, <1>2, <1>3, <1>4 DEF AlertInv, TableOK, Matches, InOrder, Present

\* Whatever keys are used, an answer within max_keys others of the last is the
\* one a table without a bound would give (KeyedCooldown.check and _trim).
THEOREM AnswersAreKept == AlertsSpec => WindowKept
<1>1. AlertsInit => AlertInv
  BY AlertInvInit
<1>2. AlertInv /\ [AlertsNext]_alertVars => AlertInv'
  BY AlertInvStep
<1>3. AlertInv /\ [AlertsNext]_alertVars => [AnswerKept]_alertVars
  BY AlertInvStep
<1>4. AnswerKept <=>
        \A key \in AlertKeys :
          LET before == seen.of[key] IN
          /\ seen'.calls > seen.calls /\ answer'.key = key
          /\ before.known /\ Cardinality(before.others) < Limit
          => /\ answer'.allowed <=> second - before.last >= answer'.window
             /\ answer'.suppressed = IF answer'.allowed THEN before.denials
                                     ELSE before.denials + 1
  BY DEF AnswerKept
<1> QED BY <1>1, <1>2, <1>3, <1>4, PTL DEF AlertsSpec, WindowKept
=============================================================================
