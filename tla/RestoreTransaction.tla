------------------------- MODULE RestoreTransaction -------------------------
(***************************************************************************)
(* run_restore_transaction of storage/restore.py: the coroutine that       *)
(* prepares, snapshots, publishes and validates a set of files, rolls them *)
(* back when it fails, and the worker threads in which it runs the file    *)
(* work.                                                                   *)
(*                                                                         *)
(* A thread cannot be cancelled: _run_blocking shields it, and a cancelled *)
(* coroutine waits for it a second time.  The file work goes file by file, *)
(* and replacing one file is atomic (os.replace); what may fail after the  *)
(* replacement (chmod, fsync of the directory) fails with the file already *)
(* replaced.  A hook may fail, and a hook that awaits may be cancelled.    *)
(*                                                                         *)
(* The content of a target is a version: what the runtime had, what it has *)
(* once the prepare hook has quiesced it, the restored one, or no file.    *)
(* File modes and the texts of errors are left out.                        *)
(***************************************************************************)
EXTENDS Naturals

CONSTANTS
    FileCount,   \* targets are 1..FileCount, in the caller's order
    MayFail,     \* hooks and file work that may fail
    MaxCancels   \* bound: cancellations of the transaction's task

Files == 1..FileCount
Jobs == {"snapshot", "apply", "rollback"}
Hooks == {"prepare", "validate", "before", "after", "recover"}

ASSUME RestoreAssumption ==
    /\ FileCount \in Nat \ {0}
    /\ MayFail \subseteq Jobs \cup Hooks
    /\ MaxCancels \in Nat

FileVersions == {"old", "flushed", "new", "absent"}

VARIABLES
    target,     \* live files
    base,       \* history: live files when prepare was over
    snapshots,  \* the snapshot of each target
    job,        \* thread -> its progress
    pc,         \* what the coroutine is awaiting
    waits,      \* 1 or 2: which shield of _run_blocking it is at
    phase,      \* phase
    failure,    \* the exception being handled
    trouble,    \* rollback_errors or recovery_errors is not empty
    cancels     \* cancellations so far

vars == <<target, base, snapshots, job, pc, waits, phase, failure, trouble, cancels>>

Ended == {"returned", "failed", "cancelled"}

Go(stage) == pc' = stage

-----------------------------------------------------------------------------
(***************************************************************************)
(* Worker threads.                                                         *)
(***************************************************************************)
Running(j) == job[j].state = "running"

Start(j) == job' = [job EXCEPT ![j] = [state |-> "running", next |-> 1]]

\* Fault: the last file is left out.
AdvanceShort(j) ==
    job' = IF job[j].next + 1 >= FileCount THEN [job EXCEPT ![j].state = "done"]
           ELSE [job EXCEPT ![j].next = @ + 1]

\* Fault: one file too many.
AdvancePast(j) ==
    job' = IF job[j].next > FileCount THEN [job EXCEPT ![j].state = "done"]
           ELSE [job EXCEPT ![j].next = @ + 1]

\* The thread of job j has finished a file and goes on with the next one.
Advance(j) ==
    job' = IF job[j].next = FileCount THEN [job EXCEPT ![j].state = "done"]
           ELSE [job EXCEPT ![j].next = @ + 1]

Fail(j) == /\ j \in MayFail
           /\ job' = [job EXCEPT ![j].state = "failed"]

Coroutine == <<base, pc, waits, phase, failure, trouble, cancels>>

SnapshotFile ==
    /\ Running("snapshot")
    /\ \/ /\ snapshots' = [snapshots EXCEPT
                             ![job["snapshot"].next] = target[job["snapshot"].next]]
          /\ Advance("snapshot")
       \/ Fail("snapshot") /\ UNCHANGED snapshots
    /\ UNCHANGED <<target, Coroutine>>

\* replace_restore_file, for the next file of apply or of rollback, and the
\* unlink of a target that was absent.
Publish(j, version) ==
    LET f == job[j].next IN
    /\ Running(j)
    /\ \/ target' = [target EXCEPT ![f] = version] /\ (Advance(j) \/ Fail(j))
       \/ UNCHANGED target /\ Fail(j)
    /\ UNCHANGED <<snapshots, Coroutine>>

ApplyFile == Publish("apply", "new")

\* Fault: a target that was absent before the restore is left in place.
RollbackKeepsNewFiles ==
    LET f == job["rollback"].next
    IN  Publish("rollback", IF snapshots[f] = "absent" THEN target[f] ELSE snapshots[f])

RollbackFile == Publish("rollback", snapshots[job["rollback"].next])

Thread == SnapshotFile \/ ApplyFile \/ RollbackFile

-----------------------------------------------------------------------------
(***************************************************************************)
(* The coroutine.                                                          *)
(***************************************************************************)
Threads == <<target, base, snapshots>>

\* _run_blocking: start the thread and wait for it.
Await(j) == Start(j) /\ Go(j) /\ waits' = 1

\* A failure before anything was published runs recover_unmodified, a later
\* one runs the rollback.
Handle(exc) ==
    /\ failure' = exc
    /\ Go(IF phase \in {"apply", "validate"} THEN "before" ELSE "recover")

\* The prepare hook quiesces the runtime, which may write its files.
Prepare ==
    /\ pc = "prepare"
    /\ \E flushed \in SUBSET Files :
        target' = [f \in Files |-> IF f \in flushed /\ target[f] = "old"
                                   THEN "flushed" ELSE target[f]]
    /\ base' = target'
    /\ phase' = "snapshot"
    /\ Await("snapshot")
    /\ UNCHANGED <<snapshots, failure, trouble, cancels>>

PrepareFails ==
    /\ pc = "prepare" /\ "prepare" \in MayFail
    /\ Handle("error")
    /\ UNCHANGED <<Threads, job, waits, phase, trouble, cancels>>

\* Fault: a cancelled coroutine does not wait for its thread.
FinishedEarly(j) == pc = j /\ (waits = 2 \/ job[j].state = "done")

\* The thread succeeded; after a cancellation that still raises.
Finished(j) == pc = j /\ job[j].state = "done"

SnapshotDone ==
    /\ Finished("snapshot")
    /\ IF waits = 1
       THEN phase' = "apply" /\ Await("apply") /\ UNCHANGED failure
       ELSE Handle("cancelled") /\ UNCHANGED <<job, waits, phase>>
    /\ UNCHANGED <<Threads, trouble, cancels>>

ApplyDone ==
    /\ Finished("apply")
    /\ IF waits = 1
       THEN phase' = "validate" /\ Go("validate") /\ UNCHANGED failure
       ELSE Handle("cancelled") /\ UNCHANGED phase
    /\ UNCHANGED <<Threads, job, waits, trouble, cancels>>

\* The thread failed.  Its exception replaces a CancelledError being raised.
ThreadFailed ==
    /\ pc \in {"snapshot", "apply"} /\ job[pc].state = "failed"
    /\ Handle("error")
    /\ UNCHANGED <<Threads, job, waits, phase, trouble, cancels>>

Validate ==
    /\ pc = "validate"
    /\ Go("returned")
    /\ UNCHANGED <<Threads, job, waits, phase, failure, trouble, cancels>>

ValidateFails ==
    /\ pc = "validate" /\ "validate" \in MayFail
    /\ Handle("error")
    /\ UNCHANGED <<Threads, job, waits, phase, trouble, cancels>>

\* before_rollback; whatever it raises is collected and the rollback goes on.
BeforeRollback ==
    /\ pc = "before"
    /\ Await("rollback")
    /\ trouble' \in {trouble} \cup (IF "before" \in MayFail THEN {TRUE} ELSE {})
    /\ UNCHANGED <<Threads, phase, failure, cancels>>

\* Fault: a rollback that fails is waited for until it succeeds.
RollbackMustSucceed ==
    /\ pc = "rollback" /\ job["rollback"].state = "done"
    /\ trouble' = (trouble \/ waits = 2)
    /\ Go("after")
    /\ UNCHANGED <<Threads, job, waits, phase, failure, cancels>>

\* The rollback thread is over; what it raised is collected.
RollbackDone ==
    /\ pc = "rollback" /\ job["rollback"].state \in {"done", "failed"}
    /\ trouble' = (trouble \/ waits = 2 \/ job["rollback"].state = "failed")
    /\ Go("after")
    /\ UNCHANGED <<Threads, job, waits, phase, failure, cancels>>

Raised == IF failure = "error" THEN "failed" ELSE "cancelled"

\* after_rollback or recover_unmodified, then the exception goes on.
RecoverRuntime ==
    /\ pc \in {"after", "recover"}
    /\ trouble' \in {trouble} \cup (IF pc \in MayFail THEN {TRUE} ELSE {})
    /\ Go(Raised)
    /\ UNCHANGED <<Threads, job, waits, phase, failure, cancels>>

-----------------------------------------------------------------------------
(***************************************************************************)
(* Cancellation.                                                           *)
(***************************************************************************)
\* While it waits for a thread: the first time it waits again, the second
\* time CancelledError is raised with the thread still running.
CancelWait ==
    /\ pc \in Jobs
    /\ IF waits = 1
       THEN waits' = 2 /\ UNCHANGED <<pc, failure, trouble>>
       ELSE /\ UNCHANGED waits
            /\ IF pc = "rollback"
               THEN Go("after") /\ trouble' = TRUE /\ UNCHANGED failure
               ELSE Handle("cancelled") /\ UNCHANGED trouble

\* While it awaits a hook: the hook raises CancelledError.
CancelHook ==
    \/ /\ pc \in {"prepare", "validate"}
       /\ Handle("cancelled")
       /\ UNCHANGED <<job, waits, trouble>>
    \/ /\ pc = "before" /\ Await("rollback") /\ trouble' = TRUE
       /\ UNCHANGED failure
    \/ /\ pc \in {"after", "recover"} /\ Go(Raised) /\ trouble' = TRUE
       /\ UNCHANGED <<job, waits, failure>>

Cancel ==
    /\ cancels < MaxCancels
    /\ cancels' = cancels + 1
    /\ (CancelWait /\ UNCHANGED job) \/ CancelHook
    /\ UNCHANGED <<Threads, phase>>

Init ==
    /\ target \in [Files -> {"old", "absent"}]
    /\ base = target
    /\ snapshots = target
    /\ job = [j \in Jobs |-> [state |-> "none", next |-> 1]]
    /\ pc = "prepare"
    /\ waits = 1
    /\ phase = "prepare"
    /\ failure = "none"
    /\ trouble = FALSE
    /\ cancels = 0

Transaction ==
    \/ Prepare \/ PrepareFails \/ SnapshotDone \/ ApplyDone \/ ThreadFailed
    \/ Validate \/ ValidateFails
    \/ BeforeRollback \/ RollbackDone \/ RecoverRuntime

Next == Thread \/ Transaction \/ Cancel

Spec == Init /\ [][Next]_vars

\* Threads run, and the event loop resumes the coroutine.
FairSpec == Spec /\ WF_vars(Thread) /\ WF_vars(Transaction)

-----------------------------------------------------------------------------
(***************************************************************************)
(* Properties.                                                             *)
(***************************************************************************)
\* Every variable keeps its type, and no thread goes past the last file.
TypeOK ==
    /\ {target, base, snapshots} \subseteq [Files -> FileVersions]
    /\ job \in [Jobs -> [state : {"none", "running", "done", "failed"},
                         next : Files]]
    /\ pc \in Jobs \cup Hooks \cup Ended
    /\ waits \in {1, 2}
    /\ phase \in {"prepare", "snapshot", "apply", "validate"}
    /\ failure \in {"none", "error", "cancelled"}
    /\ trouble \in BOOLEAN
    /\ cancels \in 0..MaxCancels

\* A transaction that returns has published every file.
ReturnedIsRestored == pc = "returned" => \A f \in Files : target[f] = "new"

\* "Any failure while publishing or validating triggers all-file rollback": a
\* transaction that raises has left exactly the files that were there after
\* prepare, the absent ones absent, wherever the failure or the cancellation
\* hit and whichever hook failed too; unless file work failed during the
\* rollback itself, or the task was cancelled more than once.
RaisedIsUnchanged ==
    pc \in {"failed", "cancelled"} /\ cancels <= 1 =>
        target = base \/ job["rollback"].state = "failed"

\* The runtime is never reopened, validated or told that the restore is over
\* while a thread still works on the files ("without letting cancellation
\* race the worker thread"), unless the task was cancelled more than once.
FilesQuietAtHooks ==
    pc \in Hooks \cup Ended /\ cancels <= 1 => \A j \in Jobs : ~Running(j)

\* The types and the three promises together.
RestoreSafe == TypeOK /\ ReturnedIsRestored /\ RaisedIsUnchanged /\ FilesQuietAtHooks

\* However often it is cancelled, a transaction that raises and reports no
\* rollback error has left the files as they were.
RaisedQuietlyIsUnchanged ==
    pc \in {"failed", "cancelled"} /\ ~trouble => target = base

\* The restore ends, one way or another.
RestoreEnds == <>(pc \in Ended)
=============================================================================
