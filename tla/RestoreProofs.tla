---------------------------- MODULE RestoreProofs ----------------------------
(***************************************************************************)
(* The restore, for any number of files, any set of steps that may fail    *)
(* and any number of cancellations.  RestoreSafe speaks of the end of a    *)
(* transaction; RestoreInv says what is true on the way: how far each      *)
(* thread has come with the files, which thread may still run, and which   *)
(* phases and places of the coroutine go together.                         *)
(***************************************************************************)
EXTENDS RestoreTransaction, TLAPS

Made(j) == job[j].state # "none"
Done(j) == job[j].state = "done"

\* The files that the thread of job j is through with.
Behind(j, f) == Done(j) \/ (Running(j) /\ f < job[j].next)

\* Until something is published the files are those of base; a snapshot is a
\* copy of them; then they are replaced, and put back by the rollback, unless
\* a second cancellation lets two threads work on them at once.
Progress ==
    /\ ~Made("apply") => target = base
    /\ \A f \in Files :
          /\ Behind("snapshot", f) => snapshots[f] = base[f]
          /\ Behind("apply", f) /\ ~Made("rollback") => target[f] = "new"
          /\ Behind("rollback", f) /\ cancels <= 1 => target[f] = base[f]

\* Only the thread the coroutine waits for runs, unless a second cancellation
\* has made it give up waiting.
OneThread ==
    /\ \A j \in Jobs : Running(j) /\ cancels <= 1 => pc = j
    /\ waits = 2 => cancels >= 1

\* The phases and the places of the coroutine.
Places ==
    /\ pc \in {"prepare", "snapshot", "apply", "validate"} => phase = pc
    /\ pc = "recover" => phase \in {"prepare", "snapshot"}
    /\ pc \in {"before", "rollback", "after"} => phase \in {"apply", "validate"}
    /\ pc = "returned" => phase = "validate"

\* What each phase has started and finished.
Started ==
    /\ phase = "prepare" => ~Made("snapshot")
    /\ phase \in {"prepare", "snapshot"} => ~Made("apply") /\ ~Made("rollback")
    /\ phase \in {"apply", "validate"} => Done("snapshot") /\ Made("apply")
    /\ phase = "validate" => Done("apply")
    /\ pc \in {"apply", "validate", "before", "returned"} => ~Made("rollback")
    /\ pc \in {"rollback", "after", "failed", "cancelled"} /\ phase \in {"apply", "validate"}
          => Made("rollback")

RestoreInv == TypeOK /\ Progress /\ OneThread /\ Places /\ Started

-----------------------------------------------------------------------------
(***************************************************************************)
(* Steps of a thread.                                                      *)
(***************************************************************************)
LEMMA JobTypes ==
  ASSUME TypeOK, NEW j \in Jobs
  PROVE  /\ job[j] \in [state : {"none", "running", "done", "failed"}, next : Files]
         /\ job[j].next \in Nat \ {0} /\ job[j].next <= FileCount /\ FileCount \in Nat \ {0}
BY RestoreAssumption DEF TypeOK, Files

\* A thread that finishes a file, or fails, is behind one more file at most,
\* and does nothing to another thread.
LEMMA ThreadMoves ==
  ASSUME TypeOK, NEW j \in Jobs, Running(j), Advance(j) \/ Fail(j)
  PROVE  /\ job' \in [Jobs -> [state : {"none", "running", "done", "failed"}, next : Files]]
         /\ \A k \in Jobs : /\ Made(k)' <=> Made(k)
                            /\ Done(k) => Done(k)'
                            /\ Running(k)' => Running(k)
                            /\ k # j => job'[k] = job[k]
         /\ \A f \in Files : Behind(j, f)' => Behind(j, f) \/ f = job[j].next
<1>1. /\ job[j] \in [state : {"none", "running", "done", "failed"}, next : Files]
      /\ job[j].next \in Nat \ {0} /\ job[j].next <= FileCount /\ FileCount \in Nat \ {0}
  BY JobTypes
<1>2. job \in [Jobs -> [state : {"none", "running", "done", "failed"}, next : Files]]
  BY DEF TypeOK
<1>3. CASE Fail(j)
  <2>1. job' = [job EXCEPT ![j] = [@ EXCEPT !.state = "failed"]]
    BY <1>3 DEF Fail
  <2>2. job'[j].state = "failed"
        /\ job'[j] \in [state : {"none", "running", "done", "failed"}, next : Files]
    BY <1>1, <1>2, <2>1
  <2> QED BY <1>2, <2>1, <2>2 DEF Made, Done, Running, Behind
<1>4. CASE Advance(j) /\ job[j].next = FileCount
  <2>1. job' = [job EXCEPT ![j] = [@ EXCEPT !.state = "done"]]
    BY <1>2, <1>4 DEF Advance
  <2>2. job'[j].state = "done"
        /\ job'[j] \in [state : {"none", "running", "done", "failed"}, next : Files]
    BY <1>1, <1>2, <2>1
  <2>3. \A f \in Files : f < job[j].next \/ f = job[j].next
    BY <1>1, <1>4 DEF Files
  <2> QED BY <1>2, <2>1, <2>2, <2>3 DEF Made, Done, Running, Behind
<1>5. CASE Advance(j) /\ job[j].next # FileCount
  <2> DEFINE onward == [job[j] EXCEPT !.next = @ + 1]
  <2>4. /\ onward.state = job[j].state /\ onward.next = job[j].next + 1
        /\ job[j].next + 1 \in Files
        /\ onward \in [state : {"none", "running", "done", "failed"}, next : Files]
    BY <1>1, <1>5 DEF Files
  <2>1. job' = [job EXCEPT ![j] = onward]
    BY <1>2, <1>5 DEF Advance
  <2> HIDE DEF onward
  <2>2. /\ job'[j].state = job[j].state /\ job'[j].next = job[j].next + 1
        /\ job'[j] \in [state : {"none", "running", "done", "failed"}, next : Files]
    BY <1>2, <2>1, <2>4
  <2>3. \A f \in Files : f < job[j].next + 1 => f < job[j].next \/ f = job[j].next
    BY <1>1 DEF Files
  <2> QED BY <1>2, <2>1, <2>2, <2>3 DEF Made, Done, Running, Behind
<1> QED BY <1>3, <1>4, <1>5

\* A thread that starts is behind no file.
LEMMA ThreadStarts ==
  ASSUME TypeOK, NEW j \in Jobs, Start(j)
  PROVE  /\ job' \in [Jobs -> [state : {"none", "running", "done", "failed"}, next : Files]]
         /\ \A k \in Jobs \ {j} : job'[k] = job[k]
         /\ Running(j)' /\ Made(j)' /\ ~Done(j)'
         /\ \A f \in Files : ~Behind(j, f)'
<1>1. 1 \in Files /\ \A f \in Files : ~(f < 1)
  BY RestoreAssumption DEF Files
<1>2. /\ job \in [Jobs -> [state : {"none", "running", "done", "failed"}, next : Files]]
      /\ job' = [job EXCEPT ![j] = [state |-> "running", next |-> 1]]
  BY DEF TypeOK, Start
<1>3. job'[j] = [state |-> "running", next |-> 1]
  BY <1>2
<1> QED BY <1>1, <1>2, <1>3 DEF Running, Made, Done, Behind

\* The three kinds of file work.
LEMMA ThreadStep ==
  ASSUME RestoreInv, Thread PROVE RestoreInv'
<1> USE DEF RestoreInv
<1>1. PICK j \in Jobs :
         /\ Running(j) /\ (Advance(j) \/ Fail(j))
         /\ \/ j = "snapshot" /\ SnapshotFile
            \/ j = "apply" /\ ApplyFile
            \/ j = "rollback" /\ RollbackFile
  BY DEF Thread, SnapshotFile, ApplyFile, RollbackFile, Publish, Jobs
<1> DEFINE n == job[j].next
<1>2. /\ job' \in [Jobs -> [state : {"none", "running", "done", "failed"}, next : Files]]
      /\ \A k \in Jobs : /\ Made(k)' <=> Made(k)
                         /\ Done(k) => Done(k)'
                         /\ Running(k)' => Running(k)
                         /\ k # j => job'[k] = job[k]
      /\ \A f \in Files : Behind(j, f)' => Behind(j, f) \/ f = n
  BY <1>1, ThreadMoves
<1>3. /\ UNCHANGED <<base, pc, waits, phase, failure, trouble, cancels>>
      /\ n \in Files /\ n = job[j].next
  BY <1>1, JobTypes DEF SnapshotFile, ApplyFile, RollbackFile, Publish, Coroutine
<1>4. \A k \in Jobs \ {j}, f \in Files : Behind(k, f)' <=> Behind(k, f)
  BY <1>2 DEF Behind, Done, Running
<1>5. "snapshot" \in Jobs /\ "apply" \in Jobs /\ "rollback" \in Jobs
  BY DEF Jobs
<1>6. OneThread' /\ Places'
  BY <1>2, <1>3 DEF OneThread, Places
<1>7. Started'
  BY <1>2, <1>3, <1>5 DEF Started
<1> HIDE DEF n
<1>8. /\ target \in [Files -> FileVersions] /\ base \in [Files -> FileVersions]
      /\ snapshots \in [Files -> FileVersions]
  BY DEF TypeOK
<1>9. CASE j = "snapshot"
  <2>1. /\ UNCHANGED target
        /\ \A f \in Files \ {n} : snapshots'[f] = snapshots[f]
        /\ snapshots' \in [Files -> FileVersions]
        /\ (Advance("snapshot") /\ snapshots'[n] = target[n]) \/ Fail("snapshot")
    BY <1>1, <1>3, <1>8, <1>9 DEF SnapshotFile
  <2>2. TypeOK'
    BY <1>2, <1>3, <1>8, <2>1 DEF TypeOK
  <2>3. ~Made("apply") /\ ~Made("rollback") /\ target = base
    BY <1>1, <1>9 DEF Started, Progress, Running, Done, Made, TypeOK
  <2>4. ~Made("apply")' /\ ~Made("rollback")'
    BY <1>2, <1>5, <2>3
  <2>6. \A f \in Files : ~Behind("apply", f)' /\ ~Behind("rollback", f)'
    BY <2>4 DEF Behind, Done, Running, Made
  <2>7. CASE Fail("snapshot")
    <3>1. \A f \in Files : ~Behind("snapshot", f)'
      BY <2>7, <1>5 DEF Fail, Behind, Done, Running, TypeOK
    <3> QED BY <1>3, <2>1, <2>2, <2>3, <2>6, <3>1, <1>6, <1>7 DEF Progress
  <2>8. CASE Advance("snapshot") /\ snapshots'[n] = target[n]
    <3>1. ASSUME NEW f \in Files, Behind("snapshot", f)' PROVE snapshots'[f] = base[f]
      BY <1>2, <1>9, <2>1, <2>3, <2>8, <3>1 DEF Progress
    <3> QED BY <1>3, <2>1, <2>2, <2>3, <2>6, <3>1, <1>6, <1>7 DEF Progress
  <2> QED BY <2>1, <2>7, <2>8
<1>10. CASE j = "apply"
  <2>1. /\ UNCHANGED snapshots
        /\ \A f \in Files \ {n} : target'[f] = target[f]
        /\ target' \in [Files -> FileVersions]
        /\ (Advance("apply") /\ target'[n] = "new") \/ Fail("apply")
    BY <1>1, <1>3, <1>8, <1>10 DEF ApplyFile, Publish, FileVersions
  <2>2. TypeOK'
    BY <1>2, <1>3, <1>8, <2>1 DEF TypeOK
  <2>3. Made("apply") /\ Made("apply")'
    BY <1>1, <1>2, <1>5, <1>10 DEF Made, Running
  <2>4. cancels <= 1 => pc = "apply" /\ ~Made("rollback")
    BY <1>1, <1>5, <1>10 DEF OneThread, Started, Places
  <2>5. ASSUME NEW f \in Files, Behind("apply", f)', ~Made("rollback")'
        PROVE  target'[f] = "new"
    <3>1. ~Made("rollback") /\ (Behind("apply", f) \/ f = n)
      BY <1>2, <1>5, <1>10, <2>5
    <3>2. CASE Fail("apply")
      BY <3>2, <2>5, <1>5 DEF Fail, Behind, Done, Running, TypeOK
    <3> QED BY <2>1, <3>1, <3>2 DEF Progress
  <2>6. ASSUME NEW f \in Files PROVE cancels <= 1 => ~Behind("rollback", f)'
    BY <1>2, <1>5, <2>4 DEF Behind, Made, Running, Done
  <2>7. \A f \in Files : Behind("snapshot", f)' => snapshots'[f] = base'[f]
    BY <1>3, <1>4, <1>5, <1>10, <2>1 DEF Progress
  <2> QED BY <1>3, <1>6, <1>7, <2>2, <2>3, <2>5, <2>6, <2>7 DEF Progress
<1>11. CASE j = "rollback"
  <2>1. /\ UNCHANGED snapshots
        /\ \A f \in Files \ {n} : target'[f] = target[f]
        /\ target' \in [Files -> FileVersions]
        /\ (Advance("rollback") /\ target'[n] = snapshots[n]) \/ Fail("rollback")
    BY <1>1, <1>3, <1>8, <1>11 DEF RollbackFile, Publish
  <2>2. TypeOK'
    BY <1>2, <1>3, <1>8, <2>1 DEF TypeOK
  <2>3. /\ Made("rollback") /\ Made("rollback")'
        /\ Made("apply") /\ Made("apply")' /\ Done("snapshot")
    BY <1>1, <1>2, <1>5, <1>11 DEF Made, Running, Started, TypeOK
  <2>4. ASSUME NEW f \in Files, Behind("rollback", f)', cancels <= 1
        PROVE  target'[f] = base[f]
    <3>1. Behind("rollback", f) \/ f = n
      BY <1>2, <1>11, <2>4
    <3>2. snapshots[f] = base[f]
      BY <2>3 DEF Progress, Behind
    <3>3. CASE Fail("rollback")
      BY <3>3, <2>4, <1>5 DEF Fail, Behind, Done, Running, TypeOK
    <3> QED BY <2>1, <2>4, <3>1, <3>2, <3>3 DEF Progress
  <2>5. \A f \in Files : Behind("snapshot", f)' => snapshots'[f] = base'[f]
    BY <1>3, <1>4, <1>5, <1>11, <2>1 DEF Progress
  <2> QED BY <1>3, <1>6, <1>7, <2>2, <2>3, <2>4, <2>5 DEF Progress
<1> QED BY <1>1, <1>9, <1>10, <1>11

-----------------------------------------------------------------------------
(***************************************************************************)
(* Steps of the coroutine.                                                 *)
(***************************************************************************)
\* Without work on the files and without a new thread, nothing changes for
\* the files; a cancellation more or less does not matter.
LEMMA ProgressStays ==
  ASSUME RestoreInv, UNCHANGED <<Threads, job>>, cancels' \in {cancels, cancels + 1},
         cancels' <= 1 => cancels <= 1
  PROVE  Progress'
BY DEF RestoreInv, Progress, Threads, Behind, Made, Done, Running, TypeOK

\* Nor does it when apply or rollback starts.
LEMMA ProgressStarts ==
  ASSUME RestoreInv, UNCHANGED Threads, cancels' \in {cancels, cancels + 1},
         cancels' <= 1 => cancels <= 1,
         NEW j \in {"apply", "rollback"}, Start(j), ~Made(j)
  PROVE  Progress'
<1>1. j \in Jobs /\ {"snapshot", "apply", "rollback"} = Jobs
  BY DEF Jobs
<1>2. /\ \A k \in Jobs \ {j} : job'[k] = job[k]
      /\ Made(j)' /\ \A f \in Files : ~Behind(j, f)'
  BY <1>1, ThreadStarts DEF RestoreInv
<1>3. /\ \A k \in Jobs, f \in Files : Behind(k, f)' => Behind(k, f)
      /\ \A k \in Jobs : Made(k) => Made(k)'
  BY <1>2 DEF Behind, Made, Done, Running
<1> QED BY <1>1, <1>3 DEF RestoreInv, Progress, Threads, Made

\* The coroutine handles an exception, having stopped waiting for a thread or
\* seen it end.
LEMMA HandleStep ==
  ASSUME RestoreInv, NEW exc \in {"error", "cancelled"}, Handle(exc),
         UNCHANGED <<Threads, job, waits, phase, trouble>>, cancels' \in {cancels, cancels + 1},
         pc \in {"prepare", "snapshot", "apply", "validate"},
         pc \in Jobs /\ cancels' <= 1 => ~Running(pc),
         cancels' \in 0..MaxCancels
  PROVE  RestoreInv'
<1>1. /\ pc' = IF phase \in {"apply", "validate"} THEN "before" ELSE "recover"
      /\ failure' = exc
  BY DEF Handle, Go
<1>2. TypeOK'
  BY <1>1 DEF RestoreInv, TypeOK, Hooks, Threads
<1>3. cancels \in Nat /\ cancels' \in Nat /\ cancels <= cancels'
  BY DEF RestoreInv, TypeOK
<1>4. Progress'
  BY <1>3, ProgressStays
<1>5. OneThread'
  BY <1>3 DEF RestoreInv, OneThread, Running
<1>6. Places' /\ Started'
  BY <1>1 DEF RestoreInv, Places, Started, Made, Done, TypeOK
<1> QED BY <1>2, <1>4, <1>5, <1>6 DEF RestoreInv

\* The rollback starts.
LEMMA BeginRollback ==
  ASSUME RestoreInv, pc = "before", Await("rollback"), trouble' \in BOOLEAN,
         UNCHANGED <<Threads, phase, failure>>, cancels' \in {cancels, cancels + 1},
         cancels' \in 0..MaxCancels
  PROVE  RestoreInv'
<1>1. pc' = "rollback" /\ waits' = 1 /\ Start("rollback") /\ "rollback" \in Jobs
  BY DEF Await, Go, Jobs
<1>2. /\ job' \in [Jobs -> [state : {"none", "running", "done", "failed"}, next : Files]]
      /\ \A k \in Jobs \ {"rollback"} : job'[k] = job[k]
      /\ Made("rollback")'
  BY <1>1, ThreadStarts DEF RestoreInv
<1>3. cancels \in Nat /\ cancels' \in Nat /\ cancels <= cancels'
  BY DEF RestoreInv, TypeOK
<1>4. TypeOK'
  BY <1>1, <1>2 DEF RestoreInv, TypeOK, Threads
<1>5. ~Made("rollback")
  BY DEF RestoreInv, Started
<1>6. Progress'
  BY <1>1, <1>3, <1>5, ProgressStarts
<1>7. ASSUME NEW k \in Jobs, Running(k)', cancels' <= 1 PROVE pc' = k
  <2>1. CASE k # "rollback"
    <3>1. Running(k) /\ cancels <= 1
      BY <1>2, <1>3, <1>7, <2>1 DEF Running
    <3>2. k = "before"
      BY <3>1 DEF RestoreInv, OneThread
    <3> QED BY <3>2 DEF Jobs
  <2> QED BY <1>1, <2>1
<1>8. OneThread'
  BY <1>1, <1>7 DEF OneThread
<1>9. Places' /\ Started'
  BY <1>1, <1>2 DEF RestoreInv, Places, Started, Made, Done, Jobs
<1> QED BY <1>4, <1>6, <1>8, <1>9 DEF RestoreInv

\* The coroutine goes on to a place where it has nothing to do with threads.
LEMMA Onward ==
  ASSUME RestoreInv, UNCHANGED <<Threads, job, waits>>, trouble' \in BOOLEAN,
         cancels' \in {cancels, cancels + 1}, cancels' \in 0..MaxCancels,
         pc \in Jobs /\ cancels' <= 1 => ~Running(pc),
         phase' \in {"prepare", "snapshot", "apply", "validate"},
         failure' \in {"none", "error", "cancelled"}, pc' \in Jobs \cup Hooks \cup Ended,
         Places', Started'
  PROVE  RestoreInv'
<1>1. TypeOK'
  BY DEF RestoreInv, TypeOK, Threads
<1>2. cancels \in Nat /\ cancels' \in Nat /\ cancels <= cancels'
  BY DEF RestoreInv, TypeOK
<1>3. Progress'
  BY <1>2, ProgressStays
<1>4. OneThread'
  BY <1>2 DEF RestoreInv, OneThread, Running
<1> QED BY <1>1, <1>3, <1>4 DEF RestoreInv

LEMMA PrepareStep ==
  ASSUME RestoreInv, Prepare PROVE RestoreInv'
<1>1. /\ pc = "prepare" /\ pc' = "snapshot" /\ waits' = 1 /\ Start("snapshot")
      /\ phase' = "snapshot" /\ base' = target' /\ "snapshot" \in Jobs
      /\ UNCHANGED <<snapshots, failure, trouble, cancels>>
  BY DEF Prepare, Await, Go, Jobs
<1>2. target' \in [Files -> FileVersions]
  BY DEF RestoreInv, TypeOK, Prepare, FileVersions
<1>3. /\ job' \in [Jobs -> [state : {"none", "running", "done", "failed"}, next : Files]]
      /\ \A k \in Jobs \ {"snapshot"} : job'[k] = job[k]
      /\ Made("snapshot")' /\ \A f \in Files : ~Behind("snapshot", f)'
  BY <1>1, ThreadStarts DEF RestoreInv
<1>4. TypeOK'
  BY <1>1, <1>2, <1>3 DEF RestoreInv, TypeOK, Jobs
<1>5. ~Made("apply")' /\ ~Made("rollback")'
  BY <1>1, <1>3 DEF RestoreInv, Places, Started, Made, Jobs
<1>6. Progress'
  BY <1>1, <1>3, <1>5 DEF Progress, Behind, Made, Running, Done
<1>7. OneThread'
  BY <1>1, <1>5 DEF OneThread, Jobs, Running, Made
<1>8. Places' /\ Started'
  BY <1>1, <1>3, <1>5 DEF Places, Started
<1> QED BY <1>4, <1>6, <1>7, <1>8 DEF RestoreInv

LEMMA SnapshotStep ==
  ASSUME RestoreInv, SnapshotDone PROVE RestoreInv'
<1>1. /\ pc = "snapshot" /\ Done("snapshot") /\ "snapshot" \in Jobs /\ phase = "snapshot"
      /\ UNCHANGED <<Threads, trouble, cancels>> /\ cancels \in 0..MaxCancels
      /\ ~Running("snapshot") /\ ~Made("apply") /\ ~Made("rollback")
  BY DEF RestoreInv, SnapshotDone, Finished, Done, Running, Jobs, TypeOK, Places, Started
<1>2. CASE waits = 1
  <2>1. /\ phase' = "apply" /\ pc' = "apply" /\ waits' = 1 /\ Start("apply")
        /\ UNCHANGED failure /\ "apply" \in Jobs
    BY <1>2 DEF SnapshotDone, Await, Go, Jobs
  <2>2. /\ job' \in [Jobs -> [state : {"none", "running", "done", "failed"}, next : Files]]
        /\ \A k \in Jobs \ {"apply"} : job'[k] = job[k]
        /\ Made("apply")'
    BY <2>1, ThreadStarts DEF RestoreInv
  <2>3. TypeOK'
    BY <1>1, <2>1, <2>2 DEF RestoreInv, TypeOK, Jobs, Threads
  <2>4. Progress'
    BY <1>1, <2>1, ProgressStarts
  <2>5. Done("snapshot")' /\ ~Made("rollback")' /\ ~Running("snapshot")'
    BY <1>1, <2>2 DEF Done, Made, Running, Jobs
  <2>6. OneThread'
    BY <1>1, <2>1, <2>5 DEF OneThread, Jobs, Running, Made
  <2>7. Places' /\ Started'
    BY <2>1, <2>2, <2>5 DEF Places, Started
  <2> QED BY <2>3, <2>4, <2>6, <2>7 DEF RestoreInv
<1>3. CASE waits # 1
  <2>1. Handle("cancelled") /\ UNCHANGED <<job, waits, phase>>
    BY <1>3 DEF SnapshotDone
  <2> QED BY <1>1, <2>1, HandleStep
<1> QED BY <1>2, <1>3

LEMMA ApplyStep ==
  ASSUME RestoreInv, ApplyDone PROVE RestoreInv'
<1>1. /\ pc = "apply" /\ Done("apply") /\ phase = "apply" /\ ~Running("apply")
      /\ UNCHANGED <<Threads, job, waits, trouble, cancels>> /\ cancels \in 0..MaxCancels
      /\ trouble \in BOOLEAN /\ failure \in {"none", "error", "cancelled"}
  BY DEF RestoreInv, ApplyDone, Finished, Done, Running, TypeOK, Places
<1>2. CASE waits = 1
  <2>1. phase' = "validate" /\ pc' = "validate" /\ UNCHANGED failure
    BY <1>2 DEF ApplyDone, Go
  <2>2. Places' /\ Started'
    BY <1>1, <2>1 DEF RestoreInv, Places, Started, Done, Made
  <2>3. trouble' \in BOOLEAN
    BY <1>1
  <2> QED BY <1>1, <2>1, <2>2, <2>3, Onward DEF Hooks
<1>3. CASE waits # 1
  <2>1. Handle("cancelled") /\ UNCHANGED phase
    BY <1>3 DEF ApplyDone
  <2> QED BY <1>1, <2>1, HandleStep
<1> QED BY <1>2, <1>3

\* The coroutine, whatever it does next.
LEMMA TransactionStep ==
  ASSUME RestoreInv, Transaction PROVE RestoreInv'
<1>1. /\ cancels \in 0..MaxCancels /\ trouble \in BOOLEAN
      /\ failure \in {"none", "error", "cancelled"}
      /\ phase \in {"prepare", "snapshot", "apply", "validate"}
      /\ "prepare" \notin Jobs /\ "validate" \notin Jobs /\ "before" \notin Jobs
      /\ "after" \notin Jobs /\ "recover" \notin Jobs
  BY DEF RestoreInv, TypeOK, Jobs
<1>2. CASE Prepare
  BY <1>2, PrepareStep
<1>3. CASE PrepareFails \/ ValidateFails
  BY <1>1, <1>3, HandleStep DEF PrepareFails, ValidateFails
<1>4. CASE SnapshotDone
  BY <1>4, SnapshotStep
<1>5. CASE ApplyDone
  BY <1>5, ApplyStep
<1>6. CASE ThreadFailed
  <2>1. ~Running(pc) /\ pc \in {"snapshot", "apply"}
    BY <1>6 DEF ThreadFailed, Running
  <2> QED BY <1>1, <1>6, <2>1, HandleStep DEF ThreadFailed
<1>7. CASE Validate
  <2>1. /\ pc = "validate" /\ pc' = "returned"
        /\ UNCHANGED <<Threads, job, waits, phase, failure, trouble, cancels>>
    BY <1>7 DEF Validate, Go
  <2>2. Places' /\ Started'
    BY <2>1 DEF RestoreInv, Places, Started, Done, Made
  <2>3. trouble' \in BOOLEAN
    BY <1>1, <2>1
  <2> QED BY <1>1, <2>1, <2>2, <2>3, Onward DEF Ended
<1>8. CASE BeforeRollback
  <2>1. trouble' \in BOOLEAN
    BY <1>1, <1>8 DEF BeforeRollback
  <2> QED BY <1>1, <1>8, <2>1, BeginRollback DEF BeforeRollback
<1>9. CASE RollbackDone
  <2>1. /\ pc = "rollback" /\ pc' = "after" /\ ~Running("rollback")
        /\ UNCHANGED <<Threads, job, waits, phase, failure, cancels>>
        /\ trouble' = (trouble \/ waits = 2 \/ job["rollback"].state = "failed")
    BY <1>9 DEF RollbackDone, Go, Running
  <2>2. trouble' \in BOOLEAN
    BY <2>1
  <2>3. Places' /\ Started'
    BY <2>1 DEF RestoreInv, Places, Started, Done, Made
  <2> QED BY <1>1, <2>1, <2>2, <2>3, Onward DEF Hooks
<1>10. CASE RecoverRuntime
  <2>1. /\ pc \in {"after", "recover"} /\ pc' \in {"failed", "cancelled"}
        /\ UNCHANGED <<Threads, job, waits, phase, failure, cancels>>
        /\ trouble' \in BOOLEAN
    BY <1>1, <1>10 DEF RecoverRuntime, Go, Raised
  <2>2. Places' /\ Started'
    BY <2>1 DEF RestoreInv, Places, Started, Done, Made
  <2> QED BY <1>1, <2>1, <2>2, Onward DEF Ended
<1> QED BY <1>2, <1>3, <1>4, <1>5, <1>6, <1>7, <1>8, <1>9, <1>10 DEF Transaction

LEMMA CancelStep ==
  ASSUME RestoreInv, Cancel PROVE RestoreInv'
<1>1. /\ cancels \in Nat /\ cancels' = cancels + 1 /\ cancels' \in 0..MaxCancels
      /\ UNCHANGED <<Threads, phase>>
      /\ failure \in {"none", "error", "cancelled"} /\ trouble \in BOOLEAN
      /\ phase \in {"prepare", "snapshot", "apply", "validate"}
      /\ "prepare" \notin Jobs /\ "validate" \notin Jobs /\ "before" \notin Jobs
      /\ "after" \notin Jobs /\ "recover" \notin Jobs
  BY RestoreAssumption DEF RestoreInv, TypeOK, Cancel, Jobs
<1>2. CASE CancelWait /\ UNCHANGED job /\ waits = 1
  <2>1. waits' = 2 /\ UNCHANGED <<pc, failure, trouble>>
    BY <1>2 DEF CancelWait
  <2>2. TypeOK' /\ Progress'
    BY <1>1, <1>2, <2>1, ProgressStays DEF RestoreInv, TypeOK, Threads
  <2>3. OneThread' /\ Places' /\ Started'
    BY <1>1, <1>2, <2>1 DEF RestoreInv, OneThread, Places, Started, Made, Done, Running
  <2> QED BY <2>2, <2>3 DEF RestoreInv
<1>3. CASE CancelWait /\ UNCHANGED job /\ waits # 1
  <2>1. /\ pc \in Jobs /\ UNCHANGED waits /\ ~(cancels' <= 1)
    BY <1>1, <1>3 DEF RestoreInv, TypeOK, OneThread, CancelWait
  <2>2. CASE pc = "rollback"
    <3>1. pc' = "after" /\ trouble' = TRUE /\ UNCHANGED failure
      BY <1>3, <2>2 DEF CancelWait, Go
    <3>2. Places' /\ Started'
      BY <1>1, <1>3, <2>2, <3>1 DEF RestoreInv, Places, Started, Done, Made
    <3>3. trouble' \in BOOLEAN
      BY <3>1
    <3> QED BY <1>1, <1>3, <2>1, <3>1, <3>2, <3>3, Onward DEF Hooks
  <2>3. CASE pc # "rollback"
    <3>1. Handle("cancelled") /\ UNCHANGED trouble /\ pc \in {"snapshot", "apply"}
      BY <1>3, <2>1, <2>3 DEF CancelWait, Jobs
    <3> QED BY <1>1, <1>3, <2>1, <3>1, HandleStep
  <2> QED BY <2>2, <2>3
<1>4. CASE CancelHook
  <2>1. CASE /\ pc \in {"prepare", "validate"} /\ Handle("cancelled")
             /\ UNCHANGED <<job, waits, trouble>>
    BY <1>1, <2>1, HandleStep
  <2>2. CASE pc = "before" /\ Await("rollback") /\ trouble' = TRUE /\ UNCHANGED failure
    <3>1. trouble' \in BOOLEAN
      BY <2>2
    <3> QED BY <1>1, <2>2, <3>1, BeginRollback
  <2>3. CASE /\ pc \in {"after", "recover"} /\ Go(Raised) /\ trouble' = TRUE
             /\ UNCHANGED <<job, waits, failure>>
    <3>1. pc' \in {"failed", "cancelled"} /\ trouble' \in BOOLEAN
      BY <2>3 DEF Go, Raised
    <3>2. Places' /\ Started'
      BY <1>1, <2>3, <3>1 DEF RestoreInv, Places, Started, Done, Made
    <3> QED BY <1>1, <2>3, <3>1, <3>2, Onward DEF Ended
  <2> QED BY <1>4, <2>1, <2>2, <2>3 DEF CancelHook
<1> QED BY <1>2, <1>3, <1>4 DEF Cancel

-----------------------------------------------------------------------------
\* What is true on the way is true at the ends that the properties speak of.
LEMMA EndsWell == ASSUME RestoreInv PROVE RestoreSafe
<1>1. ASSUME pc = "returned" PROVE \A f \in Files : target[f] = "new"
  BY <1>1 DEF RestoreInv, Places, Started, Progress, Behind
<1>2. ASSUME pc \in Hooks \cup Ended, cancels <= 1 PROVE \A j \in Jobs : ~Running(j)
  BY <1>2 DEF RestoreInv, OneThread, Hooks, Ended, Jobs
<1>3. ASSUME pc \in {"failed", "cancelled"}, cancels <= 1, job["rollback"].state # "failed"
      PROVE  target = base
  <2>1. CASE phase \in {"prepare", "snapshot"}
    BY <2>1 DEF RestoreInv, Started, Progress
  <2>2. CASE phase \in {"apply", "validate"}
    <3>1. /\ Made("rollback") /\ "rollback" \in Jobs /\ pc \in Ended
          /\ job["rollback"].state \in {"none", "running", "done", "failed"}
      BY <1>3, <2>2 DEF RestoreInv, Started, TypeOK, Jobs, Ended
    <3>2. Done("rollback")
      BY <1>2, <1>3, <3>1 DEF Made, Done, Running
    <3>3. \A f \in Files : target[f] = base[f]
      BY <1>3, <3>2 DEF RestoreInv, Progress, Behind
    <3>4. target \in [Files -> FileVersions] /\ base \in [Files -> FileVersions]
      BY DEF RestoreInv, TypeOK
    <3> QED BY <3>3, <3>4
  <2> QED BY <2>1, <2>2 DEF RestoreInv, TypeOK
<1> QED BY <1>1, <1>2, <1>3 DEF RestoreInv, RestoreSafe, ReturnedIsRestored,
                                RaisedIsUnchanged, FilesQuietAtHooks

\* A restore that returns has published every file, one that raises has left
\* the files as they were, and the hooks run with every thread at rest.
THEOREM RestoreSafeAlways == Spec => []RestoreSafe
<1>1. Init => RestoreInv
  <2> SUFFICES ASSUME Init PROVE RestoreInv
    OBVIOUS
  <2>1. /\ target \in [Files -> FileVersions] /\ 1 \in Files
        /\ \A j \in Jobs : job[j] = [state |-> "none", next |-> 1]
    BY RestoreAssumption DEF Init, FileVersions, Files
  <2>2. TypeOK
    <3>1. /\ {target, base, snapshots} \subseteq [Files -> FileVersions]
          /\ cancels \in 0..MaxCancels
      BY <2>1, RestoreAssumption DEF Init
    <3>2. job \in [Jobs -> [state : {"none", "running", "done", "failed"}, next : Files]]
      BY <2>1 DEF Init
    <3>3. trouble \in BOOLEAN
      BY DEF Init
    <3> QED BY <3>1, <3>2, <3>3 DEF Init, TypeOK, Hooks
  <2>3. \A j \in Jobs : ~Made(j) /\ ~Running(j) /\ ~Done(j)
    BY <2>1 DEF Made, Running, Done
  <2>4. Progress /\ Places /\ Started
    BY <2>3 DEF Init, Progress, Places, Started, Behind, Jobs
  <2>5. OneThread
    BY <2>3 DEF Init, OneThread
  <2> QED BY <2>2, <2>4, <2>5 DEF RestoreInv
<1>2. RestoreInv /\ [Next]_vars => RestoreInv'
  <2>1. RestoreInv /\ UNCHANGED vars => RestoreInv'
    BY DEF vars, RestoreInv, TypeOK, Progress, OneThread, Places, Started, Behind, Made, Done,
           Running
  <2> QED BY <2>1, ThreadStep, TransactionStep, CancelStep DEF Next
<1>3. RestoreInv => RestoreSafe
  BY EndsWell
<1> QED BY <1>1, <1>2, <1>3, PTL DEF Spec
=============================================================================
