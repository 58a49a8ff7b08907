# A TLA+ model of envs-xmpp

`envs-xmpp` is the shared core of two XMPP bots (`src/src/envs_xmpp_core`) and the
tooling that installs, updates and releases them (`src/src/envs_xmpp_ops`). This
directory holds TLA+ modules of its stateful parts, TLC configurations that check
small instances of them, and theorems about them whose proofs TLAPS checks.

The parts that are hard to get right are those where several asyncio tasks, worker
threads, a SQLite connection or an XMPP server act in an order that nobody wrote
down. Everything runs in one event loop, so a method without an `await` is one step;
at every `await` any other task may run, the awaited statement may raise and the task
may be cancelled. That is how the modules cut the code into actions.

## 1. The system

### Components

| Component (under `src/src/`) | State | Operations | Hard because |
|---|---|---|---|
| Durable outbox, `envs_xmpp_core/storage/outbox.py` | table `outbox_messages`; a lock with owner and depth; SQLite savepoints | enqueue (with dedupe key and capacity limits), claim, mark sent or failed, defer, recover, retry, delete, prune; transaction, fetch | workers hold copies of rows, report by id only, die, or are overtaken by a recovery; any statement may raise with the lock held |
| Pending room invites, `xmpp/pending_invites.py`, `xmpp/invites.py` | table `room_invites`, a cache and its index by (room, inviter), `next_id` | store, load, delete, clear, adopt, cleanup | the database comes and goes between two statements; cache and table have separate id counters; interrupted calls |
| Restore transaction, `storage/restore.py` | live files, snapshots, worker threads | prepare, snapshot, apply, validate, rollback, recover, cancel | threads cannot be cancelled; each file and each hook may fail; cancellation at any await |
| Task supervisor, `runtime/tasks.py` | `_tasks` (metadata), `_by_scope`, each resilient runner's counters | create, run, fail, back off, open circuit, done callback, cancel task, scope or all, clear failures, heartbeat, stale tasks | a task is done before its callback runs; tasks ignore cancellation; `cancel_all` awaits between scopes |
| Session lifecycle, `runtime/session.py` | generation, state, phase | begin, begin phase, mark ready, failed, reconnecting, disconnected | startups outlive their session |
| Reconnect loop, `runtime/reconnect.py` (`xmpp/connection.py` builds arguments) | backoff delay, `ready_event` | sleep, connect, wait for readiness, drop a partial session | sessions start, die and become ready during each await |
| Room registry, `runtime/rooms.py` | generation, observation of each room | begin join, confirm, degrade, fail, defer, leave, forget, new session | presence of an earlier session; leave intent |
| Confirmed MUC join, `xmpp/muc_join.py` | a join task and a presence task, raced by the call | join, race, drain, leave, retry | cancellation at any await, waiters that hang, presences that come late |
| Watchdog and systemd, `runtime/watchdog.py`, `runtime/systemd.py` | worker, lag report, pending readiness | start, notify ready, beat, stop | starts and stops overlap while a stop waits; readiness is sent in a later callback, stop may come first |
| Alerts and cooldowns, `runtime/alerts.py`, `runtime/suppression.py` | open incidents; a bounded table of times | check, reserve, evict, forget | eviction of a window that is still open |
| Health, lifecycle, diagnostics, `runtime/health.py`, `lifecycle.py`, `diagnostics.py` | a startup timeline | aggregate, report | no state worth a model |
| OMEMO, `xmpp/omemo/` | storage file, identity metadata, backups; a stanza under way | load, rotate, write; decrypt, encrypt and send, retry | a crash between file operations; an attempt that fails after it has sent a part |
| Release state, `release/` | the row of the pending update | load, merge, save, deliver, clear, check | a crash between load and save; a delivery that outlives a restart |
| Configuration, `config/` | a Python source file | prepare, apply, validate, roll back | edits overlap |
| Backups and managed files, `storage/backup.py`, `archive.py`, `files.py`, `sqlite.py`, `managed.py` | archives, directories of files | build, verify, stage, list, prune | files that change while they are read; lists that are old when they are used |
| XMPP helpers, `xmpp/*.py` (the rest) | context variables of a reply; the attempts of a query | set, reset, plan a message; query an affiliation; otherwise translation | nested handlers, tasks and callbacks that inherit a context; answers after the timeout |
| Presentation and commands, `presentation.py`, `commands.py`, `pagination.py`, `formatting.py`, `security/` | none | format and parse | pure |
| Deployment, `envs_xmpp_ops/deploy.py`, `git.py`, `service.py`, `systemd.py`, `venv.py` | checkout and its tags, service, unit, the operator's files | choose and approve a release, stop, protect, check out, restore, apply, install, start | any step fails; tags move on the remote; somebody else installs a unit |
| Release and quality tooling, `envs_xmpp_ops` (the rest) | none | run external tools | command line front ends |

### How they interact

- A bot creates its long-running workers through the **task supervisor**; the workers
  include the outbox's delivery loop. The supervisor knows tasks only by their asyncio
  state, their done callback and their metadata.
- The delivery loop calls the **outbox**: `claim_due`, transmit, then one report for
  each message. The store calls its **database** adapter, whose lock is shared with
  every other user of the connection.
- The transport's handlers call the **session lifecycle** and start the **reconnect
  loop**. The loop sees the session only through callbacks (`session_started`,
  `shutdown_requested`) and through `ready_event`; the application's startup, a
  coroutine with its own generation, sets that event.
- Startup joins rooms through **muc_join** and records what it sees in the **room
  registry**; pending **invites** are what operators accept or decline.
- A **restore** quiesces the runtime through its prepare hook, replaces the files in
  threads, and reopens the runtime through its validate or rollback hooks.
- The **watchdog** runs as a task of the supervisor, or of its own, and tells systemd;
  workers report progress by the supervisor's heartbeats, which `stale_tasks` reads.
- A **deployment** stops and starts the service from outside; the process it starts
  merges the new version into the **release state** and announces it.
- Handlers answer through the **reply** context and, if the message was encrypted,
  through the **OMEMO** transport.

## 2. Modules

| Module | Models | Source |
|---|---|---|
| `MessageQueue` | what the outbox promises its callers | abstract |
| `Outbox` | `OutboxStore` and the workers that deliver | `storage/outbox.py` |
| `OutboxDatabase` | `AsyncConnectionOutboxDatabase` | `storage/outbox.py` |
| `PendingInvites` | `PendingRoomInviteStore`, its SQL repository, `invite_is_expired` | `xmpp/pending_invites.py` |
| `RestoreTransaction` | `run_restore_transaction`, `_run_blocking`, snapshot, apply and rollback | `storage/restore.py` |
| `TaskSupervisor` | registry, resilient runner, cancellation | `runtime/tasks.py` |
| `Heartbeats` | heartbeat, touch, snapshot, `stale_tasks` | `runtime/tasks.py` |
| `Session`, `Connection` | `SessionLifecycleState`; `run_reconnect_loop` with a transport and startups | `runtime/session.py`, `reconnect.py` |
| `MucJoin` | `join_muc_confirmed` and its wrappers, the two tasks it races, the server | `xmpp/muc_join.py` |
| `Rooms` | `RoomLifecycleRegistry` | `runtime/rooms.py` |
| `Watchdog` | `RuntimeWatchdog` and the notifications to systemd | `runtime/watchdog.py`, `systemd.py` |
| `Alerts` | `KeyedCooldown` | `runtime/suppression.py` |
| `OmemoStorage` | identity metadata, rotation, key writes, crashes | `xmpp/omemo/storage.py`, `plugin.py` |
| `OmemoTransport` | `decrypt_incoming_message`, `encrypt_and_send` | `xmpp/omemo/transport.py` |
| `Replies` | reply routes, encryption mode, the outbound plan | `xmpp/messaging.py`, `outbound.py`, `omemo/context.py` |
| `Affiliations` | `query_muc_affiliation` with its retries | `xmpp/affiliations.py` |
| `ReleaseState` | the `release_state` row, deliveries, checks, the order of versions | `release/` |
| `ConfigEdit` | edits and the edit transaction of a Python configuration file | `config/python_file.py` |
| `BackupArchive` | building, verifying and staging an archive | `storage/backup.py` |
| `Retention` | listing and pruning managed files | `storage/managed.py` |
| `GitTarget`, `Deploy` | which release may be checked out; the update and install transactions | `envs_xmpp_ops/` |
| `Tables` | `Put`, `Drop`, `Empty` for dictionaries and tables | helper |
| `MC...` | instances for TLC; `MCRuntime` and `MCMaintenance` put components side by side | |
| `OutboxProofs`, `OutboxDatabaseProofs`, `PendingInvitesProofs`, `RestoreProofs`, `DeployProofs` | theorems and proofs about the module of that name | |
| `SessionProofs` | about `Connection`, `Rooms`, `MucJoin` | |
| `RuntimeProofs` | about `TaskSupervisor`, `Heartbeats`, `Watchdog`, `Alerts` | |
| `MaintenanceProofs` | about `OmemoStorage`, `OmemoTransport`, `ReleaseState`, `ConfigEdit`, `BackupArchive`, `Retention`, `Affiliations`, `Replies` | |

In each module an operator that begins with the comment "Fault:" is not part of the
model: it is a plausible bug, kept next to the definition it would replace. Each checked
property has one that breaks it, named in `PROJECT.json` under "mutants".

### Outbox and MessageQueue

`rows` is the table (a function from row id to columns), `lastId` its AUTOINCREMENT
sequence, `claims` the copies (`OutboxMessage`) that each worker holds. Each method of
`OutboxStore` that changes rows is one action, since a method is one transaction and
`OutboxDatabase` shows separately that transactions exclude each other. `Enqueue` has
the upsert with its two branches, the four capacity limits and the unique origin id;
`ClaimDue` has the window function that ranks rows by destination and the final sort;
`MarkFailed` writes back `attempts + 1` of the *copy*, as the code does. The worker is
external: it takes its batch in order, puts a message on the wire and then reports, two
steps between which it may die (`Crash`).

Times are relative to now: `Tick` makes everything one second older and stops at
`-Horizon`, beyond which no guard tells times apart (`OutboxAssumption` says so). Reads
of the clock may lag by up to `MaxLag`, because `time.time()` is called before the lock
is taken. Payloads are model values with a destination, a category and a size.

`MessageQueue` knows only the life of a message: accepted once, perhaps dead and
revived, gone exactly once, and gone only after a transmission or a deliberate discard.
`Outbox` instantiates it under the mapping `Stage`, `OnWire`, and `QueueRefinement` says
that every behaviour of the store is a behaviour of the queue.

### OutboxDatabase

A writer runs `transaction()` the way `enqueue` does (SAVEPOINT, nested `fetch_one`,
a write, RELEASE) and a reader one fetch. `Acquire`/`Release` are `_acquire` and
`_release` with `_owner` and `_depth`; `asyncio.Lock` is external (first come first
served; cancelled waiters leave the queue); `stack` is SQLite's savepoint stack, where
RELEASE of an inner savepoint merges and of the outermost commits. Every await may
raise, before or after the statement has taken effect, and `failed` remembers which
statements have: three promises hold only while SAVEPOINT (or a RELEASE or ROLLBACK)
does not raise, and the properties say so.

### PendingInvites

`db` and `dbLast` are the table and its sequence, `pending`, `index`, `nextId` the
cache. The store's lock allows one call at a time, so `call` is the program counter of
that call; each SQL statement is a step, after which the call may raise (`Raise`), the
process restart (`Restart`) or `available()` change its answer (`Flap`). Without a
database a call has no await and is one step. `Adopt` takes no lock and asks for no
database, so it may come at any await of another call. `lapse` remembers what some
promises hold up to: a call that raised after its DELETE (`"torn"`), a database that
came back after an outage or an `adopt()` beside a database or a call (`"mixed"`).

### RestoreTransaction

`pc` is what the coroutine awaits, `job` the progress of the three threads, file by
file, `waits` which of the two shields of `_run_blocking` is being awaited. Publishing a
file may fail before or after the replacement. `Cancel` may hit every await: while a
thread runs the first one is remembered, and the second one raises with the thread
still running. Files are versions (`old`, `flushed` by the prepare hook, `new`,
`absent`).

### TaskSupervisor

Tasks are numbered in order of creation. `life` and `asked` are asyncio's view of a
task, `callback` the tasks that are done and whose `_on_task_done` has not run. `meta`
and `byScope` are the two indexes. `Run`, `RunFails`, `CircuitOpen`, `RunReturns`,
`RunExits` are the paths through `_resilient_runner`; `CancelTask`, `CancelScope`,
`CancelAll`, `NextScope`, `Resume` the cancellation methods cut at their awaits. A task
may ignore a cancellation, and a caller's timeout may expire at any moment.

### Session and Connection

`Session` translates the methods of `SessionLifecycleState`; none has an await, so each
is an operator that sets `session'`. `Connection` has the awaits of
`run_reconnect_loop` as the values of `loop`. The transport and the application are
external: a session starts on a transport that is connecting; its startup holds its
generation and goes on after the session has ended; the disconnect handler starts the
loop unless it runs; the application never clears `ready_event` itself, since the API
asks only that it is set on readiness. A transport whose attempt fails may go on trying
by itself, which is how a session can start during the backoff.

### MucJoin

`call.at` is the await at which the caller stands; `waiter` is Slixmpp's join coroutine
and `poller` the task of `wait_for_muc_self_presence`. The waiter sends its stanza when
it starts and may hang, fail or ignore nothing else; the server answers stanzas in order
and may refuse. `CallerStep` resumes the caller, `Cancel` hits any of its awaits,
including those in which it drains the two tasks (`CancelSwallowed`). `FailureLeavesRoom`
speaks of calls that time out or fail, not of cancelled ones. In `join_muc_with_timeout`
the end of the waiter is the end of the call, also after the timeout, and a waiter that
raises `TimeoutError` itself is taken for one (`TimedOut`).

### Rooms

Methods of the registry have no await; each is an action, in any order, also before the
first session (generation 0). A confirmation comes with the generation of its presence
or, as by default, without (`given`). `witness` and `leaving` remember what the
application has seen and asked for: the last confirmation of a room since it was left,
and the rooms it wants to be out of. `RefuseStale` is the early return for a presence of
an earlier session; without a generation the registry cannot tell, and `RoomsAgree`
says no more than the code does.

### Watchdog, Heartbeats, Alerts

`Watchdog` has every worker and lag report ever created (`places`), whether or not the
watchdog still refers to it, and every call of `stop()` that waits (`stops`), for the
whole scope of the supervisor or for its own two tasks. `start()` and `notify_ready()`
have no guard but the code's: a second `start()` may come while a `stop()` waits, a
`stop()` may be cancelled, or give up on a callback that ignores its cancellation.
`Heartbeats` has several tasks of one name, which `heartbeat(scope, name)` cannot tell
apart; `progress` and `alone` remember who really called. `Alerts` is
the cooldown table with its eviction.

### OmemoStorage and OmemoTransport

In `OmemoStorage` every file operation is a step, `Die` may come between any two, and
the operator may change the identity while the process is down. A set of keys is the
number of its generation; `owners` says for whom. In `OmemoTransport` a sending call
loses recipients that an error names; the plugin may also return stanzas together with
errors that the code drops ("intentionally non-fatal"), so that `Stanzas` has any
non-empty part of the namespaces, each for any non-empty part of the recipients. `wire`
remembers for whom each namespace's last stanza was encrypted.

### ReleaseState

Loading, saving and clearing the row are steps; a delivery holds a copy of the pending
update and may end after the process that began it. A start may find the database
unavailable and load nothing. In `CheckRelease` the await of the fetch and the caller's
notification are one step: checks follow one another. `IsNewer` translates
`version_sort_key`, `Precedes` is its reference: missing numbers are zeros.

### ConfigEdit, BackupArchive, Retention

Each has several callers and cuts at the awaits (`ConfigEdit`) or at the file
operations (the others). A text is its sequence of assignments; contents of a file are
numbers that stand for size and digest; a managed file is its time,
and a list of them, which the code sorts, is the set of their times. `stale` and `lost`
remember which edits have read a text that is no longer the file's, and which a stale
edit has written over.

### Affiliations and Replies

`Affiliations` records what each attempt has come to, while the server answers earlier
attempts late. `Replies` has one stack of context tokens for each context, which
is a task's or that of a callback outside every task; what is scheduled starts with a
copy of its parent's context and nothing else. A value set where there is no current
task has no owner, and whoever inherits it takes it; `heir` remembers what it was about.
Planning a message changes nothing: `Planned` is what it returns, asked in every state.

### GitTarget and Deploy

`deploy.at` is the step of `run_release_update_transaction` or
`run_install_transaction`; every command and hook may fail and every question may be
declined, which is one `Raise`. `checkout` is head, tags and the operator's files inside
it, `upstream` the remotes' tags, which `MoveTag` changes between any two steps, `host`
the unit file, which may appear at any time (`UnitAppears`).

## 3. Runs

`tlc -config X.cfg M`, where `M` is the module `PROJECT.json` names. `CHECK_DEADLOCK
FALSE` is set where the system really stops: all messages used up and discarded, every
call over, the transaction ended, all tasks done, the loop returned.

| Run | Question | Bounds, and why they are enough |
|---|---|---|
| `outbox_core` | Are columns consistent, claims exclusive, late reports harmless, messages conserved, and does the store implement the queue? | two workers, two rows and one key: a claim overtaken by a recovery, a second claim and a late report of the first need two workers and one row; the second row shows that ids do not mix. One overrun, two attempts, retention of one second. |
| `outbox_limits` | Is every enqueue within all four limits, and is every batch fair? | four rows of three payloads (two sizes, two destinations, two categories), three rows or five bytes at most, two rows for a destination or category, and batches of two: the least where a destination could take a whole batch from another, and where for each limit there is an enqueue that it alone refuses. No delays or recoveries, which neither property is about. |
| `outbox_live` | Is every inflight row recovered and every pending row claimed? | two rows and batches of one, so that a claim leaves a due row behind; a worker that may crash for ever, deferrals, late clocks, a caller's origin id. |
| `outbox_lost_update` | Does `mark_sent` remove only what was sent? **Violated.** | one worker, one key. |
| `database` | Are transactions exclusive, atomic, durable, and does every call end? | three writers and a reader: one in the lock, two that queue, one that only reads. |
| `database_savepoint` | Does a held lock always have a task to release it? **Violated.** | two writers. |
| `invites` | Do cache, index and table agree, and is what `store()` answers active, fresh and durable? | two keys, three ids, expiry after one day, two days told apart, adoptions of one invite: a key replaced by a third id while another exists. |
| `restore_race` | Does a restore that reports no rollback error leave the files alone? **Violated.** | two files, two cancellations. |
| `tasks_cancel` | Do the indexes agree, does a shutdown reach every task, does the diagnosis stay? | two tasks in two scopes, two callers: one scope emptied and refilled while `cancel_all` awaits the other. |
| `tasks_restart` | Are restarts bounded, is no worker given up early, is the circuit shown the runner's, do calls end? | two resilient tasks, one restart allowed, one long run each. |
| `runtime` | Is only a live session shown as ready, is no second connection opened, does the loop end? Does a join end, confirmed only if the room is joined, with no task left and the room left if it failed? Does the room registry agree with what was seen? Is stop final, is a hung worker reported, is an event repeated only after its window? | four sessions and three losses; two attempts and two cancellations of a join; two rooms and two sessions; three tasks of the watchdog (a worker, its report and the next worker) and two turns, with any lag each; two tasks, of one name or of two; five calls with three keys for a table of two. |
| `maintenance` | Is a restore all or nothing? Are keys tied to their identity, edits atomic, updates announced, archives what they claim, prunes right, deployments forward and failures harmless? Does the OMEMO transport fail closed, does a query follow its policy, does a reply answer its own message? | three files (first, middle, last) and three cancellations; two identities and three sets of keys; two settings; versions of different length; two files of an archive; three files to prune by two callers; four revisions with a side branch, two remotes, two protected files, one move of a tag; three attempts; two contexts and two nested handlers. |

The components in `runtime` share no state, and neither do those in `maintenance`. A
product of their state spaces would show nothing more, so a behaviour *follows* one of
them (the variable `followed`, chosen at the beginning) and the others stay where they
began, in one initial state each. Every property is still checked on all behaviours of
its component: the `followed` one takes all its initial states and all its actions.
The OMEMO transport counts as two of them, receiving and sending, which share nothing.

Several properties are conjunctions of named parts, each with its own comment:
`RowsAgree` (types, columns, late reports, conservation), `LockInv` (types, mutual
exclusion, a holder that lets go), `Transactional`, `CacheInv`, `AnswersHold`,
`RestoreSafe`, `RegistryInv`, `RunnerInv`, `ConnectionInv` and `OutcomeHolds`.

What the passing runs show, beyond the table: after a recovery from a live worker
claims may overlap (`ExclusiveClaims` says until when they do not), yet nothing
vanishes and reports still reach their own row, because ids are never reused. With at
most one cancellation a failed restore puts every file back. `store()` reports
`created` truthfully even when the database disappears between its statements.

### Fairness

- `outbox_live` (`Fairness`): the application calls `claim_due` and `recover_inflight`
  again and again, a worker does something with its current message, time passes.
  Crashes, deferrals, operators and enqueues get no fairness. `PendingIsClaimed` has the
  premise that workers do not die for ever: a row whose worker dies is recovered with
  its old `available_at`, and would be the first to be claimed each time. These calls are the
  application's duty; the store offers nothing else.
- `database` (`FairSpec`): a task whose await is over is resumed, by the event loop.
  That somebody cancels a waiting task is *not* assumed, so a wait for a lock that is
  never released counts.
- `maintenance`, for a restore: threads run, and the coroutine is resumed. A hook that
  hangs for ever is excluded.
- `tasks_restart`: sleeps end and `asyncio.wait` timeouts expire. Nothing is assumed of
  tasks, in particular not that they obey a cancellation.
- `runtime`, for a join (`JoinFairness`): the caller is resumed, the poll's deadline
  passes, and a waiter that was cancelled ends. Nothing is assumed of a waiter that was
  not, nor of the server.
- `runtime`, for the loop: the loop's sleeps, timeouts and callbacks end, startups end, and after
  the bounded number of troubles a transport that connects starts a session.

### Findings

Three properties that the repository states and the code does not keep; each has a run.

1. `outbox.py:433`: `mark_sent` deletes by id whatever the row holds by now. If the
   application enqueues with the same dedupe key between the claim and the report, the
   row keeps its id and status and gets the new content (`outbox.py:324`), which is
   then deleted unsent (`outbox_lost_update`).
2. `outbox.py:92`: SAVEPOINT is executed with the lock held and before the `try`. If it
   raises or the task is cancelled in it, the lock is never released and every other
   store call waits for ever (`database_savepoint`).
3. `restore.py:220`: a second cancellation while the thread runs starts the rollback
   beside it; the apply thread publishes restored files after the rollback, which
   reports no error (`restore_race`).

Behaviour that a reader should know of and for which no document says otherwise:

- `outbox.py:100`: when RELEASE raises unexecuted the lock is freed with the savepoint
  open, and the next transaction nests in it. `ReturnedIsDurable` and
  `RaisedLeavesNoTrace` except this by `Unbalancing`.
- `outbox.py:472`: `retry_dead` revives rows without a capacity check, so the queue may
  exceed `max_pending`. `AdmissionRespectsCapacity` speaks of enqueue only.
- `pending_invites.py:390`: ids given by the cache during an outage can be those of rows
  that the table hands out later, and `adopt()` (`pending_invites.py:361`) replaces the
  cache whatever the database holds and whoever holds the lock; `IndexAgrees` and
  `AnswersTheRequest` hold until a database comes back after an outage or `adopt()` is
  called beside a database or a call, `CreatedIsFresh` always.
- `tasks.py:427`: a failed plain task has no `last_error` until its done callback has
  run. A `cancel_task`, `cancel_scope` or pruning that runs in between forgets the
  failure. `OpenCircuitVisible` is about resilient tasks, where the runner records it.
- `reconnect.py:69`: the wait for a session that started during the backoff does not
  clear `ready_event` first, so readiness left over from an earlier session ends the
  loop at once. `ReturnedIsReady` is about the other wait.
- `muc_join.py:126`: `drain_task` takes a cancellation of its caller for the drained
  task's, so that the call goes on as if it had not been cancelled (`CancelSwallowed`).
- `muc_join.py:301`: a join cancelled after its stanza was sent raises without leaving
  the room, so that the server may still make the bot an occupant.
- `config/python_file.py:199`: a rollback writes back the text of its own preparation, and
  an edit writes what it made of it. An edit prepared before another one was written
  undoes that one; `EditsAtomic` says that nothing else does.
- `config/python_file.py:92`: `update_assignment` has no rollback. When its write raises
  after the replacement (`files.py:54`), the new value stays.
- `watchdog.py:130`: `stop()` does not withdraw a deferred readiness notification, and
  `notify_ready()` does not ask whether the watchdog is stopped, so that READY=1 may
  follow STOPPING=1. `StopIsFinal` is about the worker.
- `omemo/transport.py:199`: recipients or namespaces that the plugin leaves out with an
  error get no stanza, and the caller is not told.
- `release/state.py:146`: a start that finds the database unavailable loads nothing; if
  the database is back when it saves, a pending update is dropped unannounced.
- `messaging.py:189`, `omemo/context.py:34`: a route or mode set outside every task has no
  owner, so that tasks scheduled there take it, although the docstring says "without
  leaking it into child asyncio tasks" (`messaging.py:164`). `RepliesAnswer` says exactly
  who goes on answering what.
- `tasks.py:435`: a heartbeat by name goes to the first running task of that name.
  `HungIsReported` speaks of tasks whose name is theirs alone, or that use `touch`.

## 4. Proofs

The theorems hold for every value of the constants that satisfies the module's
`...Assumption`. TLC checked the same properties on the instances above first.

**OutboxProofs.**

- `TypeCorrect`: `Spec => []TypeOK`. One lemma per rewriting of a row (`LockedType`,
  `FailedType`, `UpsertedType`, ...) says that it yields a row, one per action that the
  tables stay tables.
- `StatusAgreesAlways`: inductive relative to `TypeOK`: a lock time that is a number
  differs from NULL, and `max_attempts` is positive, so a row cannot die unattempted.
- `ClaimsAreExclusive`: until an overrun the claims are disjoint and each held row is
  inflight with the copy's attempt count. It is inductive by itself together with
  `TypeOK`: only `ClaimDue` adds holders, and it takes pending rows, which by
  the invariant nobody holds.
- `ReportsReachTheirRow`: an id is at most `lastId`, and a new row gets a larger one, so
  a held id keeps its origin.
- `MessagesNeverVanish` and `OutboxImplementsQueue` rest on `QueueInv`, which adds that a
  message marked `sent` in a worker's hands is in `delivered`, that discarded rows are
  gone and that `lastId` stays within the bound. The refinement proof maps each action:
  `Send` to `Transmit`, `MarkSent` to `Complete` or a stutter if the row had been
  removed, `MarkFailed` to `Exhaust`, `Revive` (a late report may bring a dead row back)
  or a stutter, `EnqueueExisting` and `RetryDead` to `Revive` or a stutter,
  the deletions to `Discard`.

- `RowsAgreeAlways` puts the parts together: it is the conjunction that `outbox_core`
  checks.
- `ClaimsAreFair` (`FairClaims`): rows are ranked within their destination first, and
  `Before` orders them (`RowsOrdered`), so the first due row that a claim leaves behind
  has a rank that no selected row exceeds (`SelectedFirst`, `RankRises`). Ranks count
  the rows of a destination (`RankCounts`), which bounds every destination's share by
  that row's own (`FairShares`).
- `AdmissionsFit` (`AdmissionRespectsCapacity`): `Admits` counts the other rows, and the
  admitted one is added to them (`AdmittedFits`). The bytes are a `MapThenSumSet`: that
  the recursion behind it has a solution for every finite set, the same whichever row
  is counted first, is shown by the smallest set for which it has not (`SumExists`,
  `SumIsUnique`, `BytesAdd`).

**OutboxDatabaseProofs.** `MutualExclusion` from `HolderInv`: a task inside the
connection is the owner of a locked lock. `Exclusive` is not inductive, since it does
not say that a task inside has the lock which the next one waits for. `LockAlways`
(`LockInv`) needs more (`HeldInv`): who waits is in the queue, who waits or has not
begun is not the owner, the stations of a transaction are for writers, and the depth
counts the nested fetch, so that the last release frees the lock. `TransactionsAlways`
(`Transactional`) needs `Balanced` besides: until a savepoint statement has raised, the
stack is the one savepoint of the task in a transaction, or empty; it holds that task's
write exactly between the write and its release or rollback; and a writer is durable
exactly when it has returned.

**PendingInvitesProofs.** `CacheInvAlways` and `AnswersAlwaysHold` from `InvitesInv`. An
operation is suspended at each statement, so the invariant says what the call under way
may rely on when it goes on (`CallInv`, `InTouch`), how cache and table go together
meanwhile (`Synced`: the ids agree wherever the keys do; `Mirror`: what the cache holds
is in the table, but for what the call has just deleted), and what an outage leaves of
this (`Connected`). Per statement there is one lemma; the effects of the cache's helpers
are lemmas of their own (`CacheEffect`, `ForgetEffect`, `ReplaceEffect`).

**SessionProofs.**

- `ReadySessionIsUp` and `ReturnsWhenReady` from `SessionInv`: a session that is
  starting or ready is up, and if the loop has called `connect()` it began later
  (`CurrentIsUp`); readiness belongs to the latest session and is no older than the
  wait (`ReadyIsFresh`). The first part is what makes `is_current` a sufficient guard
  for startups of dead sessions: it rejects both an old generation and the latest one
  once it was lost.
- `RoomsAgreeAlways`: `RoomsAgree` is inductive as it stands, room by room
  (`RoomByRoom`); what remains is that the fourteen methods either change one room
  within a session (`ChangeAgrees`) or all of them at its beginning.
- `OutcomesAlwaysHold` (`OutcomeHolds`) speaks of a bot whose stanzas have all been
  handled. `JoinIInv` says of every state where those under way will lead: after the
  attempt's join was sent the bot will be in the room or has been refused, after the
  clean-up it will be out of it (`Settled`), and which tasks run where (`Placed`).

- `ConnectsWhenNeeded` (`ConnectsOnlyWhenNeeded`): one step calls `connect()`, and it
  asks at that moment, not before the backoff.

**RuntimeProofs.**

- `RegistryAlways`, `RunnerAlways` and `ShutdownReaches` from one invariant of the
  supervisor (`IInv`): the registry has a row for every task that runs, which shows
  where its runner is (`ShownOK`); the runner's counters agree with its place
  (`RunnerOK`), which bounds a burst; each call waits for tasks that exist, and what
  `cancel_all` owes it has reached, or finished, or is in a scope still to come (`CallOK`).
  The bound on the history needs that pruning removes the excess whatever the order
  of completion (`NewestBounded`, by cardinality). `NeverGivenUpEarly` follows from the
  same `RunnerOK`, which has the counter equal to the failures in a row wherever the
  runner stands.
- `HungTasksReported` (`HungIsReported`) from `Honest`: no record lies in the future, a
  task alone under its name has given every signal itself (`SpeaksForItself`), and for
  every signal that a record shows some namesake had made progress (`SomebodyMoved`).
- `StoppedIsFinal` (`StopIsFinal`) from `WatchdogInv`: an uncancelled worker is the one
  the watchdog refers to, an uncancelled report likewise, and what is cancelled has a
  `stop()` that waits for it or gave it up (`StopOrder`).
- `AnswersAreKept` (`WindowKept`) from `AlertInv`: an entry tells what has become of its
  key (`Matches`), every key further on in the table was used since (`InOrder`), and a
  key is missing only once `max_keys` others were (`Present`). The last is what eviction
  must keep: a dropped entry has as many different keys after it (`TrimKeeps`, by the
  pigeonhole principle).

**RestoreProofs.** `RestoreSafeAlways` for any number of files, failing steps and
cancellations. `RestoreSafe` speaks only of the end. `RestoreInv` adds how far each
thread has come (`Progress`: what is behind the snapshot thread is a copy, what is behind
the apply thread is new, what is behind the rollback is as before), which thread may run
(`OneThread`: only the one that is waited for, unless the task was cancelled twice), and
which phases, places and threads go together (`Places`, `Started`).

**DeployProofs.** `DeploysForwardAlways` and `FailuresLeaveStoppedAlways` from
`DeployInv`: between the approval and the checkout the target, the request and the
service stay as they were approved (`Approved`, `Down`), and files are missing only
until they are restored, or for good (`Kept`). The action property is the second half of
the same step lemmas.

**MaintenanceProofs.**

- `PendingKeptAlways`: since a start loaded the row its pending update may have been
  cleared but not replaced (`Loaded`), and a pending update leads to the recorded
  version from another one (`Chained`), so that merging keeps its beginning
  (`NormalMerged`).
- `ReleasesOrderedAlways` adds that half of a pending update is none (`Whole`) and that
  each notice was newer than the running version by the code's own comparison
  (`Noticed`). `NewerIsFollowing` closes the gap to the property: comparing the tuples
  of trimmed labels, as `is_newer_version` does, is the same as comparing the numbers with
  the missing ones as zeros, for versions of any length and in both directions.
- `KeysTiedAlways` (`OmemoInv`): every backup holds one set of keys, none twice and none
  that is in the storage too (`BackupsDiffer`), and what a process that resets has
  achieved by each step (`Achieved`). That a rotation always finds a free name is
  `BackupPathIsFree`: more counters than backups.
- `EditsAtomicAlways` (`EditInv`): as long as an edit is not stale, the file is what it has
  read, or what it made of it (`EditReads`), and as long as it is not lost, its setting
  is as its outcome says (`EditHolds`); `UpdatedValues` says that an update sets its own
  setting and no other.
- `TransportAlwaysFailsClosed` (`TransportInv`): each attempt but the first has lost a
  recipient, so that attempts and those left never exceed the loop's limit together,
  and what was sent in this attempt is what its encryption made, for those who are left.
- `BackupsSoundAlways` (`ArchiveInv`): the builder's members are the manifest's, but for
  the file between its two steps, and nothing required was passed over; while the stager
  extracts, the archive may be replaced or damaged, but never by one whose files differ
  from its list undetected.
- `QueriesFollowThePolicy` (`QueryInv`): a query that goes on has met only transient
  errors and fewer than its attempts.
- `RepliesAnswerAlways` (`RepliesInv`): the frames of a context, its value and what its
  handlers will reset to, are the messages it is handling, above one frame that it
  inherited: another task's, which nobody else takes, or one without an owner, which is
  what its heir is answering.
- `PruningRemovesTheOldest` (`PruneRemovesTheOldest`): the loop keeps a file if it is the
  preserved one or if fewer than `keep` files are newer (`KeptIs`), although it counts
  only those it kept: while there is room it has kept them all (`RoomKeepsAll`). What the
  fold computes is again shown by the smallest list for which it would differ.

The assumptions on constants are those the modules name. They are typing (limits are
naturals), finiteness where the code has a finite collection, and that markers are no
data: `None` is no invite, `"none"` no identity, `Null` no time, `NoTask` no task.

Every safety and action property of the passing runs is proved. Only model-checked are
the liveness properties, since fairness and ENABLED are outside the prover's reach:
`OrphansRecovered`, `PendingIsClaimed`, `EveryCallEnds`, `CallsReturn`,
`LoopEnds`, `JoinEnds`, `FollowedRestoreEnds`; and what the runs that expect a violation
refute.

## 5. Not modelled

Wording, logging, JSON payloads, stanza contents, schema migration and argument
validation are left out everywhere. Within the modelled components:

- outbox: counts and listings, `retry_delay_seconds`;
- supervisor: the formatting of snapshots. That a backoff ends has no property: it would
  restate the fairness of the sleep. No property covers `tasks.py:427` (see
  Findings): the code does forget the failure of a plain task there, and no document
  promises otherwise;
- session: times; room registry: nicks, reasons and retry times;
- alerts: `AlertTracker`, which fills reports from recorded alerts;
- OMEMO: hints to users, the plugin's registration, the cryptography of the libraries;
- release state: HTTP access to GitHub, labels that are no version;
- configuration: schema, literals and rendering, which are functions of Python source
  text;
- backups and files: the names of companions, `resolve_managed_file`, member names, the SQLite
  snapshot (one call of the SQLite library);
- deployment: dry runs, and `require_clean`, which changes nothing.

Not modelled at all, since they keep no state whose order matters:

- health, lifecycle and diagnostics, which aggregate snapshots into reports;
- presentation, commands, pagination, formatting and redaction, pure functions on text;
- the helpers for stanzas, JIDs, occupants and avatars;
- release, audit, regression and quality tooling: command line programs that run
  external tools one after the other and print their results.

An abstract specification worth adding is an atomic file set that `RestoreTransaction`
implements with at most one cancellation; `RestoreSafe` states the same of its ends.
