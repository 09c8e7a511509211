# A TLA+ verification of the Superi engine

Superi is an offline-first media engine in Rust: some 350,000 lines in 22 crates and their tools
under `src/open/crates`.  Paths below are relative to that directory.  Most of
its code is sequential (parsers, pixels, editing algorithms) and well covered by
tests.  What is verified here are the state machines whose correctness depends on
an order of steps: threads around a lock, requests that overlap, results that
arrive late, owners called back with no lock held, a crash between two writes.

Contents: 1 the system and its parts, 2 the modules, 3 the runs, 4 fairness,
5 the proofs, 6 what the checks found, 7 what is not modelled, 8 the plan.

## 1. The system and its parts

```
superi-desktop (winit) - superi-ui (scene)
          |
superi-session   application lifecycle, engine thread, project services
          |
superi-api       commands, events, permissions
          |
superi-engine    dispatcher, history, playback, export queue, resource arbiter
          |
timeline, graph, project, media-io, codecs, audio, color, image, effects, cache
          |
superi-concurrency (pool, jobs, lifecycle, clock)   superi-gpu   superi-core
```

Parts interact by calls downwards; by callbacks upwards (the arbiter calls the
owners of memory, the pool runs closures of its clients); by atomic words and
one-shot channels between threads; and through the file system between processes.

| part | state it keeps | operations | what is hard about it | what makes it correct |
| --- | --- | --- | --- | --- |
| worker pool (`concurrency/jobs/pool.rs`, `priority.rs`) | local queues per thread and class, identity index, service cursor, counters | submit, steal, run, publish, shutdown, drop | wake-ups outside the lock, stealing, cancellation of queued jobs, failed construction | every accepted job runs once and answers once; no class starves; shutdown drains |
| job vocabulary (`concurrency/jobs.rs`) | cancellation token, deadline, dependency tracker, progress | cancel, check, record | a verdict recorded twice | verdicts are monotone and agree with the jobs |
| lifecycle coordinator (`concurrency/lifecycle.rs`) | phase, revision, pending set, wake target, failure, atomic signal | pause, resume, sleep, wake, shutdown, restart, acknowledge, fail | acknowledgements of an older phase, failure in mid-transition, end of the revisions | a phase completes by the acknowledgements of its own revision |
| application lifecycle and engine thread (`session/lifecycle.rs`, `engine.rs`) | intent, generation, command dispatcher | request shutdown, restart, recovery; the control loop | two mutexes and a snapshot carried from one to the other | a lifetime begins exactly if it was asked for |
| editor requests (`session/transport.rs`, the lease in `project_lifecycle.rs`, `execute_request` in `engine.rs`) | the host's record of the project, the queue of the engine connection, the retained editor session | query, command, time out, reopen | a command executed in memory and published later, by a thread that may go away; other processes write the same file | what was said of an edit is so; answers are current; the lease comes back |
| project publication (`project/save.rs`, authority in `persist.rs`) | a directory, writer locks, each session's active path and generation | open, save, save as, copy, backup | other processes, failures and power loss between any two steps | old or new, never a part; no lost update; an honest outcome |
| resource arbiter (`engine/resource_arbitration.rs`) | shared and per-class usage, floors, owners, admission gate | reserve, drop, set owner | pressure measured, planned and acted on in different critical sections | limits hold; nobody is degraded before everybody was asked |
| export queue (`engine/export_jobs.rs`) | job records with status, intent and trackers, attempts in the pool | submit, poll, pause, resume, retry, cancel, remove, shutdown | results that race requests, chains of prerequisites, reuse of identities | status and attempts agree; prerequisites first; final is final |
| autosave and recovery (`project/autosave.rs`, `recovery.rs`, `engine/project_recovery.rs`) | generations in a directory, schedule, recovery catalogue | configure, tick, save now, prune, discover, restore, dismiss | names used again, a catalogue that is stale when used, crash between rename, sync and removal | what was reported as published or dismissed is so after any crash; a restore takes over what was listed |
| clock, handoffs, snapshots, diagnostics (`concurrency`) | one owner's clock; ring queues; swapped snapshots | publish, read | memory order below the lock-free queue | a reader sees one published value |
| subsystem lifecycle and failure recovery (`engine/lifecycle.rs`, `error.rs`) | a state, ownership and failure per subsystem, one outstanding action, pending sets, failure records | sleep, wake, shutdown, restart, complete, fail, report, recover | a transition called off, failed or overtaken at any point; partial teardown | an action belongs to its transition; dependencies go last; running means everything is owned |
| command dispatcher and playback bridge (`engine/dispatcher.rs`, `export_dispatch.rs`) | a bounded event queue, one playback command, a recovery token | dispatch, execute on the playback thread, collect, drain | a command accepted by one thread and executed later by another; tokens that go stale | what a command reserved is still good when it completes; each command ends |
| history, transactions (`engine`) | undo and redo stacks, revisions | execute, undo, redo | one of several domains fails | all domains or none |
| playback, transport, A/V sync (`engine`) | position, direction, deadlines | play, seek, scrub | late frames and real deadlines | no frame after a newer seek |
| export transaction, derived media (`engine`) | files being written | begin, commit | interrupted writes | old or new |
| document, storage, migration, settings (`project`) | one SQLite file | encode, migrate, verify | old schemas | a round trip |
| media library, previews, processes (`session`) | a library file, child processes | import, preview, relink | serialised by one owner | one command at a time |
| cache | memory budget, disk index | insert, evict, load | index against files over a crash | the budget holds |
| gpu | device, generations, pooled textures | submit, lose, recover | device loss | no resource of a lost device is used |
| graph | nodes, edges, invalidation | edit, evaluate | reachability | what changed is evaluated again |
| timeline | tracks and clips in rational time | edits | large sequential algorithms | invariants of the document |
| api | event stream, permissions | publish, replay | a window that is overrun | a reader is told of a gap |
| audio, color, image, effects | samples and pixels | process | numerical | golden outputs |
| core, media-io, codecs, ai | values; foreign formats | parse | numerical, foreign code | round trips |
| ui, desktop, cli, tools | none that lasts | present | - | - |

The first nine are modelled, and so are the two engine parts below them; the others are
listed in section 7 with the reason.

## 2. The modules

Each module is parameterised by CONSTANTS whose assumptions it names, has one
action per operation, handler or critical section, and ends with its properties.
A variable or operator keeps the name it has in the source where TLA+ allows it.
An operator called `X_Something` is a variant of `X` with the bug one would
make there; no specification uses it.  It serves to confirm that the property it
is aimed at can fail.

| module | models | uses | proofs |
| --- | --- | --- | --- |
| `JobExecutor` | what the pool promises: an abstract specification | - | - |
| `WorkerPool` | `jobs/pool.rs`, `jobs/priority.rs`, cancellation and deadlines of `jobs.rs` | implements `JobExecutor` | `WorkerPoolProofs` |
| `ExportJobs` | `export_jobs.rs`, dependency tracker of `jobs.rs` | implements `JobExecutor` | `ExportJobsProofs` |
| `Lifecycle` | `concurrency/lifecycle.rs` | - | `LifecycleProofs` |
| `ApplicationLifecycle` | `session/lifecycle.rs`, `run_engine_control` of `session/engine.rs` | implements `Lifecycle` | `SessionProofs` |
| `EditorSession` | requests of `session/engine.rs`, the project lease of `project_lifecycle.rs`, `transport.rs` | a save as `ProjectSave` shows it | `SessionProofs` |
| `ProjectStore` | what a save promises: an abstract specification | - | - |
| `ProjectSave` | `save.rs`, the file authority of `persist.rs` | implements `ProjectStore` | `ProjectSaveProofs` |
| `ResourceArbiter` | `resource_arbitration.rs` | - | `ResourceArbiterProofs` |
| `RecoveryPoints` | `autosave.rs`, `recovery.rs`, restore in `project_recovery.rs` | - | `RecoveryPointsProofs` |
| `EngineLifecycle` | `engine/lifecycle.rs` | - | in `EngineDispatcherProofs` |
| `EngineDispatcher` | `dispatcher.rs`, `error.rs`, readiness of `export_dispatch.rs` | extends `EngineLifecycle` | `EngineDispatcherProofs` |

`MCWorkerPool`, `MCProjectSave`, `MCResourceArbiter`, `MCRecoveryPoints` and `MCEngineDispatcher` give
functions, records and symmetry sets as values to the constants of the model they extend.

### WorkerPool and JobExecutor

The owner builds the pool, shuts it down or drops it (`phase`); one client per
submission holds its handle (`client`, `result`); `N` workers run `worker_loop`
(`pc`).  All of `PoolState` is behind one mutex, so a critical section is one
action: `Submit` is `submit` up to the unlock, `Dispatch` is `take` with
`record_dispatch`, `Sleep` and `Exit` are the two ways of finding nothing,
`RecordCompletion` is the last section.  What a thread does without the mutex is
an action of its own: `NotifyOne`, `NotifyAll`, `NotifyShutdown`, `BeginJob`,
`RunBody`, `Publish`.  So a submission can be seen by a worker before its
notification, and a result by its client before the job is counted out.

`queues[w][p]` are the FIFO queues, `queuedIds` the identity index, `cursor` the
position in the 15-slot service pattern; `Dispatch` takes the first class, from
the cursor on, that any queue holds, and of it the job of the nearest thread.
Several tasks may carry one identity, which the index refuses while one of them
is queued.  Closures return a value or an error of one of the categories
`outcome_from_error` tells apart, or panic.  The condition variable may wake
without a notification.  A client with `Reuse` submits again once its handle is
spent, so that a class can stay saturated for ever.

Abstracted: names, contexts and progress; the u64 counters saturate at `MaxCount`;
time is the fact that a deadline has passed.

`JobExecutor` knows only of stages (fresh, pending, running, finished, over) and
of the mode (open, closing, closed).  `ImplementsExecutor` is the refinement: the
stage of a task is where it is found in the queues, in the hands of a worker or in
its channel.  The export queue is built on the steps of this abstract executor, and
is so independent of how the pool is implemented.

### Lifecycle and ApplicationLifecycle

`Lifecycle` has one action for each request, acknowledgement and failure, all under
the coordinator's mutex; the lock-free `LifecycleSignal` is read by `Load` and
acted upon in a later step, when it may have moved on.  `Begin` is
`begin_transition` with its refusal when the revisions are used up (56 bits in the
code, `MaxRevision` here), where the caller has already changed the wake target.
Requests that are refused or find nothing to do change nothing and are not listed.
`acked` and `intended` are history for the properties.

`ApplicationLifecycle` is the composition: clients hold the owner mutex over two
calls of the coordinator (`BeginIntent`, then `EndIntent` or `AbandonIntent`), and
`request_recovery` looks at the failure before it takes the mutex
(`CheckRecovery`).  The engine thread is `run_engine_control`: `Poll` loads the
signal and turns to `Link` or `TearDown`, then `AcknowledgeObserved`, and then
`AfterAcknowledgement`, which takes the owner mutex with the snapshot it got
before.  Linking or tearing down may fail (`EngineFails`), and the connection's
owner may be gone (`Disconnected`).

### EditorSession

A transport thread that serves the desktop takes the mutex of the host's project state
(`lease`) for the whole of a request: it puts the request into the engine connection's
bounded queue (`Begin`), waits for the answer, a command without a timeout and a query
with one (`TimeOut`), and accepts a command's outcome by reading the file again
(`Answered`).  The engine thread serves one request at a time and keeps one editor session
over many of them: `Take`, `Find` (`require_connected` and `editor_session_for`),
`RequireDurableMatch`, `Execute`, and for a command `Open` and `Replace`.  Each step is an
action because other processes publish to the same file in between (`ForeignEdit`), and
each may fail.  `DropDispatcher` and `Return` are the two things the loop does to requests and to
the session; `ApplicationLifecycle` says when.

The session has two views: `durable`, what the file held when it was last seen, and `memory`,
what its dispatcher has executed.  A command that fails after `Execute` leaves them apart, and
the session is given up (`Retained`).  A project is the set of edits recorded in it; its
revision is the number of those that author something, so that an inspection, which is only
entered in the command log, changes the file and not the revision.  `fate` and `during` are
history for the properties.

Abstracted: one project and one file; `replace` is atomic, refused if the file is not the one
that was opened, and may fail after it published, which is what `ProjectSave` shows of a save;
undo is one more edit; playback commands take the way of queries; identities that do not match
are failures of the step that compares them.

### ProjectSave and ProjectStore

Sessions are processes with one `ProjectDatabase` each: `active`, `accepted` and
`writable` are its authority.  A save is `Plan` (the whole of `plan_command`: where
to, replace or require absent, what is expected there), then `Reserve`, `Build`,
`SyncCandidate`, and either `AcquireLock`, `Verify`, `Rename` or `Link`, then
`SyncPublished`, `SyncParent`, and for a linked candidate `RemoveCandidate` and
`SyncCleanup`.  Any step may fail (`FailUnpublished`, `FailPublished`), any process
may be killed, and power may be lost between any two steps.

The file system is external: each project name has a set `atDisk` of the files it
may turn out to be after a power loss, which grows with each rename and shrinks to
the current file when the directory is synchronised; a file that was never flushed
is torn.

Abstracted: a file is written once, by the save that reserved it, so its number
stands for the generation (digest, length, time, device, inode) the code compares;
a candidate's name is its file's number; all names are in one directory; that
SQLite flushes the candidate when it is closed is not relied on; a copied mode and
the refusal of other hard links are left out.  A backup is a copy.
A project is not deleted between a save's verification and its rename: the crate's
documentation excludes programs that ignore the writer lock there.

`ProjectStore` knows of no candidates, locks, generations or stages: a name has a complete
project or none, a request changes it in one step (`Store`) and at most once, over the project
the client works on only if that still is what the client saw, and success is told together with a
synchronisation (`Confirm`), after which a power loss cannot bring the old project back.
`ImplementsStore` is the refinement.  What a name has is the content of its file, and a file that
is not a flushed project has a content that is no project (`Torn`), so the abstract store
could not show it; a request is stored from the rename on; what a client saw is the authority of its
session.  The store says which projects have lost their name (`replaced`), because success says
nothing of a project that another client has replaced since.

### ResourceArbiter

`reserve` holds the admission gate for the whole call (`Acquire` to `Admit`), but
takes the accounting mutex anew for each look: `Measure`, then for every candidate
of `reclaim_for` a `Look` at the pressure, a `Plan` of what to ask, and the owner's
callback with neither mutex nor snapshot in hand (`CallOwner`, `OwnerReturns` or
`OwnerPanics`).  `Drop` is a reservation dropped by any thread at any of these
points.  The release of the gate is merged with the final critical section, where
nothing else observable happens.  `Enters` is the thread-local check that refuses a
`reserve` from inside a callback.

Live reservations are counted per class and size.  Left out: statistics, fallbacks
and the texts of the evidence.  The owners themselves are external: between call
and return their class may drop any of its reservations, or none.

### ExportJobs

One engine-control thread owns the queue.  `op` is the call it is in and `at` how
far it is: `Observe` looks at one handle, `Refresh` at one undecided job of one
pass of `refresh_until_stable`, in the order of the identities; in between, workers
go on (`Start`, `EnterBody`, `FinishBody`).  pause, resume, retry, cancel and remove
poll first, so they are the second half of a `Poll`; which of them it is, is chosen
when it is reached.  resume and retry are one action, `RunAgain`.  `known[j]` is the
dependency tracker of job `j`.

Abstracted: the attempt counter, progress, elapsed
times and contexts; the tokens of an attempt are set exactly if an intent is; an
attempt that was stopped, or is late, ends like one that failed recoverably.
The pool refuses a submission only when it is full: it is open while the queue is,
and a finished attempt's identity is out of its index before it can be submitted
again.

### RecoveryPoints

Two controllers share nothing but a directory.  Autosave runs on the host's background
thread: `Configure`, `TickEarly`, `TickUnchanged`, `TickDue`, `SaveNow` and `Prune` are
its commands, and a command goes on through its `stage`: `Link` publishes under the
generation after the highest there is, `Collide` scans and tries again when the name was
taken meanwhile, `Published` syncs and moves the schedule on, `PruneOldest` removes one
name at a time, `PruneDone` syncs and lets a new policy come into force.  Recovery runs on
the engine thread: `Discover` lists the names and goes through them (`DropTombstone`,
`Identify`, `Inspect`) to `PublishCatalog`; a restore is `Restore` (the first check),
`LoadCandidate` (the read by name) and `CommitRestore` (the second check and the
adoption); a dismissal is `Dismiss`, `Entomb` (the rename to a tombstone),
`SyncTombstone` and `Bury`.  Between any two steps a call may fail (`Fail`, `GiveUp`),
another process on the project may publish or dismiss, the process may be killed and
power may be lost.

The directory is external.  `disk` holds every directory there has been since the last
sync, and a power loss brings back one of them: names are changed in order, as a journal
keeps them.  (`ProjectSave`, where one name matters at a time, lets names survive
independently of each other.)  A file stands for its content and for the metadata that
the code compares, which are taken to be unique to it.  Time is relative: `remaining` is
the time from `last_elapsed` to `next_due`.  A project's revision is only ever compared
with that of the last periodic recovery point, so `Edit` forgets that point instead of
counting; a catalogue's revision is only compared with the one before it, and counts
modulo 2.  `fate` is what was reported of each file, for the properties.

Left out: `inspect`, and `compare` as a command of its own, which report and change
nothing; the wording of findings; a change of the recovery root; the exhaustion of times
and of revisions, which are refused before anything changes.  The content of a candidate
is complete because `ProjectSave` writes it; one that cannot be read is a finding.  The
project that a tick saves is a snapshot taken with the command.

### EngineLifecycle and EngineDispatcher

`EngineLifecycle` is the one state machine that hands the owners of the six subsystems one
action at a time.  Its state is the record `lc`: the coordinator's `phase`, the `mode`, a
state, ownership and failure per subsystem, the outstanding `action`, and the sets that a
sleep, a wake or a teardown still has to go through.  In the code every handler edits that
state and schedules the next action in the same call, so a handler is an operator that
takes the edited record and ends in one of the schedulers (`ScheduleInitialization`,
`ScheduleSleep`, `ScheduleWake`, `ScheduleTeardown`), which constrain `lc'`.  `Complete` and
`Fail` take the report on the outstanding action, by its kind; `BeginSleep`, `BeginWake`,
`BeginShutdown`, `BeginRestart`, `BeginRecovery` and `ReportRuntimeFailure` are the requests;
`CallOff` and `Cancelled` are the two ways in which a request withdraws an action that is
outstanding.  The dependency plan is a constant.

`EngineDispatcher` runs every command of the engine-control thread around it, one action
each.  `Emits` is the rule that a command which emits a state event waits neither for room in
the queue nor for a playback command, but is refused.  `EnqueuePlayback` reserves the next
event and takes a permit of the engine as it is; `ExecuteNext` is the playback thread's turn;
`Collect` moves a completion to the queue.  `active` holds the failure records of the error
coordinator, `recovery` the token of the pending recovery, which decides where a report is
routed (`Routed`) and can go stale (`Tokens`).  `openJobs` is what keeps an export teardown from
being completed.

Abstracted: the revisions of actions (an outstanding action is reported on, anything else is
refused and changes nothing), sequence numbers, the diagnostic history, and what project,
settings, audio and scenario commands do to their own state, which is one event here.  A
refused command changes nothing, except that a dispatch collects a completion first; that is
`Collect`.

## 3. The runs

| run | instance | distinct states | shows |
| --- | --- | --- | --- |
| `pool_safety` | 2 workers, 2 places, an interactive and two background submissions, the latter under one identity | 138,918 | every job is in one place and the index knows it, no worker sleeps through work, no class waits beyond its bound, shutdown drains, and the pool implements `JobExecutor` |
| `pool_ends` | 2 workers, 2 places, 2 submissions of one class, a deadline, cancellation, every kind of return | 149,435 | cancelled in the queue never runs; shutdown and every accepted job end |
| `arbiter_safety` | 2 threads, 3 classes, sizes 1 and 2, 3 bytes | 430,864 | limits, evidence, no early degradation, admission ends |
| `export_jobs` | 3 jobs with every set of prerequisites, 1 worker, 1 place | 481,265 | status, prerequisites, trackers, final jobs, refresh, requests |
| `lifecycle` | 2 participants, 7 revisions | 425,397 | unanimity, failure, intent over sleep, no missed change, transitions settle |
| `app_owner` | 2 clients, 9 revisions | 55,255 | a lifetime begins if asked for, in a new generation; the engine settles |
| `app_restart_lost` | 1 client | stops | finding 1 |
| `editor_session` | 3 edits, one of them an inspection; a queue of 2 | 43,868 | what was said of an edit is so, a query is answered from the present, the lease comes back |
| `save_safety` | 2 sessions, 1 name with a project, 3 files, all commands | 970,962 | old or new, honest outcomes, no lost update, and the saves implement `ProjectStore` |
| `recovery_points` | 2 generations, 2 files, policies with retention 1 and 2, 2 attempts | 1,004,223 | reports hold after any crash; a restore takes over what was listed |
| `engine_commands` | the six subsystems of the engine's plan; devices and playback, which is built on them, fail in every way; a queue of one event; the playback owner may go away | 106,542 | actions belong to their transition, a running engine owns everything, releases respect dependencies, reservations hold, recoveries are tracked, transitions and playback commands end |
| `engine_shutdown` | playback alone fails | stops | finding 2 |

Why the bounds are enough.  Two workers are the least that can steal, sleep and be
woken against each other; three submissions let two share an identity while a third
meets the bound on waiting jobs.  With three submissions only the shortest of the published
bounds, that of the interactive class, can be exceeded by a wrong order; the longer ones need up to fifteen dispatches in a
row and are covered by the theorem, which holds for any number of submissions.  The arbiter
needs one thread to be admitted and one to drop or recurse, a class at its floor, one
without and the requester's; three bytes with requests of two make a request fail,
be rescued by one owner, and by two.  A chain of three export jobs against the order
of their identities needs three passes; a single waiting place makes a ready job find
the pool full.  `Retained` equals the number of jobs, so the bound is met.  Seven
revisions are enough for a pause overtaken by a sleep, that by a wake, a failure, a
teardown and a restart; the exhaustion of revisions is reached too.  Two sessions race
on one name; three files are the original and one per save.  Two generations and two
files are the least with which a pruned or dismissed name is used again while a restore
or a prune is on its way, and the least retention is met with one file; with three files
19 million states were searched without a violation, which is not a complete search.  That a coordinator may
have no participants is not run but is covered by the proofs.  The engine runs with its own plan of
six subsystems; two that fail, one built on the other, are the least with which a failed dependent
meets the release of what it is built on, and a queue of one event makes every reservation decide
whether another command is refused.  Three edits let one be refused, another be published after it by the
same session, and an inspection come from elsewhere; a queue of two holds a query that was given up
and the request after it.

The type invariants are not run: each module's `TypeOK` is proved (`TypeCorrect`; `EditorTypes` for the
editor session), for every instance.  Nor is `PublicationRebinds` of `ProjectSave`: it is proved, and
`ImplementsStore` fails if the authority does not follow a publication.

Deadlock is checked except where the program may stop: a coordinator whose revisions
are used up, an engine thread that has returned, an export queue that was shut down, an
engine whose playback owner went away with a command.

Symmetry is used for sessions in `ProjectSave`, in runs without liveness.

## 4. Fairness

* `WorkerPool`: a thread that can run does run, and closures return (their contract
  is cooperative cancellation).  Nothing is assumed of submissions, shutdown,
  cancellation, deadlines or spurious wake-ups, so liveness does not rest on them.
* `Lifecycle`: participants keep polling the signal and acknowledge what they load.
* `ApplicationLifecycle`: the engine thread runs, and a client that took the owner
  mutex goes on to release it.  Strong fairness only for taking the owner mutex: it is
  free between two requests of a person, and a waiting thread gets it in the end.
* `ResourceArbiter`: the holder of the gate goes on and callbacks return.  Nobody has
  to call, drop or panic.
* `ExportJobs`: the control thread goes on with its call and polls again, as the engine
  does on every turn; workers run and exports return.
* `EngineDispatcher`: the playback thread turns while it lives, completions are collected and
  events are drained, as the engine thread does on every turn.  Strong fairness for an owner's
  report and for the end of the export jobs: both are refused while the event queue is full or a
  playback command is pending, and repeated.  Nobody has to request, fail or recover anything.
* `EditorSession`: the engine thread goes on with the request it has taken and takes the next, as its
  loop does in every phase until it returns; a transport thread that is answered goes on.  Nobody
  has to time out, to link or to tear down.
* `ProjectSave`, `RecoveryPoints`: no liveness is claimed; any step may fail.

## 5. The proofs

All proofs hold for every value of the constants that satisfies the named assumption
of the module.  In each case a property that matters is not inductive and is proved
from an invariant that is:

* **`WorkerPoolProofs`**: every safety property of the pool and the refinement, for any
  number of workers, capacity and submissions, with `TypeCorrect`.
  `Starvation` bounds how often a queued class is passed over.  The bound itself says
  nothing of the next dispatch.  What every step preserves is a quota (`QuotaInv`): a
  queued class has spent at most its bound less the slots still before its next one.
  `SlotWithinBound` shows that the service pattern meets the published bounds from every
  position of the cursor.
  `OnePlace`, `CancelledNeverRuns` and `Drained` rest on where a job can be: no identity is
  in two queues and the index is exact (`QueueInv`); a submission without a result is
  queued or in the hands of one worker (`HandsInv`); what was cancelled in the queue is
  stopped before its closure (`DoomInv`); how far the owner is bounds what workers and
  clients may still do (`OwnerInv`); and `active` counts the workers between a dispatch and
  its completion (`CountInv`).
  `WakesCover` follows the one notification of each submission: a submission adds a queued
  job and a notification to come, delivering it adds a worker about to look or finds
  nobody asleep, and a worker that looks takes a job unless there is none.
  `Implements` shows that each step is one of `JobExecutor` or none, the capacity because
  no two queued jobs share an identity (`IndexCounts`), the bound on running jobs because
  a worker that dispatches holds none (`HeldBound`).
* **`LifecycleProofs`**: `AcknowledgedByAll`, `FailureIsFinal`, `IntentSurvivesSleep`
  and `NoABA`, with `TypeCorrect`, for any set of participants, also none.  `IInv` adds that the wake
  target carries the intent through sleep (`IntentKept`), that nobody has acknowledged
  a revision not yet published, and that the atomic word follows the locked state.
* **`SessionProofs`**, of `ApplicationLifecycle` for any number of clients: `TypeCorrect` and `StartsAsAsked`.  What
  holds at every step is that the owner's intent is that of the request which returned last, unless a
  client still holds the owner mutex between its two calls (`IntentIsAsked`), and that a generation
  that has begun is behind the one a restart would take (`StartedBehind`).
  `ImplementsCoordinator` shows that every step of the clients and of the engine thread is one of
  `Lifecycle` with the engine as its one participant, or none.  So what `LifecycleProofs` shows holds of
  the application (`ApplicationLifecycleIsSound`); its theorems are instantiated (`Facts`) and carried over
  because the instance of the proofs and that of the model are the same formulas (`SameCoordinator`).
  Of `EditorSession`, for any edits and any capacity of the connection: `EditorTypes`, `AnswersAreKept` and
  `AnsweredFromTheFile`.  Neither property is inductive, since what an answer is worth was decided steps earlier.
  `EditorInv` adds where a request can be (`Places`): whoever holds the lease has its answer, or its
  request is the one served with nothing queued behind it, or it is the last in the queue; the requests of
  those that timed out are before it and are queries, so an edit is on its way in one place only.
  Requests are not unique, so this is said of places and not of requests.  While a command is served, an edit is in the file only
  if it was published, and an answer says so (`InFlight`); and the memory of the retained session is what it saw
  of the file, but for the command that is being executed (`SessionKept`), so that an edit that was refused cannot be
  published with a later one.
* **`ProjectSaveProofs`**: `OldOrNewAlways`, `RebindsAlways`, `NoLostUpdate` and `ReportsTrue`, for
  any number of sessions, names and files, with failures, kills and power losses.
  `IInv` adds what a save in progress relies on: a candidate belongs to one save and is
  flushed before it can be published (`CandidateInv`), a lock belongs to the save
  that publishes under it (`LockInv`), and once a save of the active project is
  verified nobody else changes that name (`AuthorityInv`): the others replace it
  only under the lock and link only to absent names.
  `Implements` shows that each step is one of `ProjectStore` or none.  It needs two more facts: nothing torn is ever
  under a name or may be after a power loss, so that what a name shows is what it names (`ShownIsNamed`, from
  `OldOrNew`); and until it publishes, a save of the active project still is one and its candidate never had a name
  (`StoreInv`).  The rename or the link is the one step that changes the store, a synchronisation of the directory
  that ends a save is `Confirm` and any other is `Sync`.
* **`ResourceArbiterProofs`**: `LimitsHold`, `EvidenceHolds` and `NobodySpared`.  The gate
  is exclusive; while it is held the usage only falls, so shortages read earlier are
  bounds of those of now (`PressureIsBound`), and a candidate that was passed over can
  contribute nothing from then on (`PassedOverIsSpent`).
* **`ExportJobsProofs`**: `StatusTrue`, `PrerequisitesBefore`, `TrackersAgree`,
  `NeverContradicted`, `FinalJobsStay`, `UsesExecutor`, `ShutdownIsFinal` and `RefreshSettles`, for any finite set of jobs.  The parts of
  `IInv` need each other: no attempt starts before its prerequisites because what a
  tracker recorded is what they are, that is so because an identity is not given up
  while it is named, and a job that is not retained leaves nothing behind (`Unborn`).
  Most steps leave the records alone (`QuietKeeps`); the others take back no verdict
  (`Lasting`).
  `UsesExecutor` shows that the queue only does to its pool what `JobExecutor` allows, which is what `WorkerPool`
  implements.  `ShutdownIsFinal` follows a shutdown: from its start every job is final or has a cancelled
  attempt, and once the pool is closed each attempt is over and still to be looked at (`ClosingInv`).
  `RefreshSettles` is the bound on the passes of `refresh_until_stable`.  A pass that changed nothing has decided
  everybody it visited.  One that changed something has too, unless it failed a job, and that job is one
  less for the passes that are left (`PassInv`).
* **`EngineDispatcherProofs`**: for any dependency plan with an order of its subsystems that respects it, `TypeCorrect`, `AlwaysCoherent`
  (an outstanding action belongs to the transition the mode names), `SomebodyOwes` (a phase waits only
  while somebody owes a report), `OwnershipAlways`, `RecoveryTracked`, `ReservationAlways` and
  `AlwaysInOrder`.  A handler edits the state and ends in a scheduler, so the invariant `Good` holds
  between handlers and each scheduler restores it from a weaker statement of its own
  (`BeforeInit`, `BeforeSleep`, `BeforeWake`, `BeforeTeardown`): one lemma per scheduler, one per kind of
  report and one per request, and the commands of the dispatcher follow from those.
  `Good` says which states, sets and ownerships fit the phase (`Fits`, `PhaseFits`, `OwnsByPhase`), and
  for each transition what has been passed already is acquired, prepared or released (`Initializes`,
  `Sleeps`, `TearsDown`).
* **`RecoveryPointsProofs`**: `TypeCorrect`, `RestoresListed` and `ReportsHold`, for any policies, any
  number of generations and of files.  Names are used again, identities are not: a name
  that has lost the file whose identity was taken never gets it back (`NeverBack`), since
  every step of the directory adds a file nobody has seen, removes one or keeps it
  (`Onward`).  Hence what a listed, shown or loaded file once differed from it differs from
  at the last check as well (`SurveyInv`, `CatalogInv`, `RestoreInv`), and a restore that
  passes that check has loaded the file that was shown.  A power loss may bring files
  back, but it also ends the process that knew them.
  For `ReportsHold`, `EvidenceInv` adds that a file is under no name but that of its generation in any directory
  that may come back (`NamesHeld`), that what a prune will remove has enough newer ones whatever is dismissed
  meanwhile (`PruneInv`), that what autosave is about to report is there or was dismissed (`LinkInv`), and
  that a tombstone that was synced is the only place of its file (`DismissInv`); the counts follow from an
  injection of the generations above one into the files that are newer.

Every safety property that a passing run checks is stated by a theorem.  Only model-checked is what is temporal
beyond safety (`EverythingTerminates`, `AdmissionSettles`, `RequestsSettle`, `TransitionSettles`, `EngineSettles`,
`LeaseReturns`, `PlaybackSettles`): liveness under fairness, ENABLED and induction over recursive data are outside
what the proof system can do.

## 6. What the checks found

1. **A restart that is lost** (`app_restart_lost`).  `after_engine_acknowledgement` takes
   the owner mutex with an older snapshot.  If that says Running and a restart was
   requested in between, the intent Restart is overwritten with Run: the engine is torn
   down, its thread returns, and no generation follows.
2. **A shutdown that never completes** (`engine_shutdown`).  `begin_shutdown` cancels an outstanding
   recovery action, but the dispatcher keeps the token of that recovery.  Every later report of
   the teardown action that is outstanding is routed to the recovery and refused as stale, so
   the engine never stops.  The documentation of the dispatcher says that the command completes
   the exact outstanding action, and that of the engine that a shutdown cancels a recovery.

Seen while modelling, where a document says otherwise but no run is kept:

* `reclaim_for` computes what to ask an owner for under the accounting mutex, releases it and
  calls.  A reservation of that class dropped in between makes the number stale: an owner that
  releases exactly what it is asked goes below its protected floor.
* In the mode that requires an absent destination a save publishes by a hard link and takes no
  writer lock (`save.rs:855`).  A replacing save that planned for an absent destination checks it
  under its lock and then renames over what was linked in between; both report success.
* A recovery generation is the highest in the directory plus one, so that after a dismissal of the
  newest one the next takes its number and path.  A due tick looks for a managed file of that
  number and path only, and decides that nothing changed although its own file is gone.
* The failure records of the error coordinator survive a new lifetime and a wake, although the
  documentation of the engine says that a restart clears resolved failure state.
* A failed preparation for sleep that is not terminal keeps what it owns while its dependencies
  are released; `ReleasesInOrder` makes this one exception.
* A sleep followed by a shutdown reaches the stopped phase without waiting for open export jobs.

Remarks that no document of the repository contradicts: a class is protected from
starvation, an individual job is not (thieves prefer the nearest queue, so a job in a
far one can wait while its class is served); a closure that waits for another job of
its own pool can block it; an owner whose callback waits for another thread in
`reserve` waits for ever; an attempt that fails terminally while a pause is on the way
becomes an ordinary paused job; `fail` carries no revision, so a late failure ends a
lifetime that began after it; what other threads drop while an owner is called is
credited to that owner in the evidence; a dismissal renames whatever has the name by then,
so a recovery point that was never listed can be dismissed in place of the one that was;
a subsystem that a failed sleep or wake left degraded has no failure record, so its recovery
is refused; a shutdown requested while a restart tears the engine down does not take the restart
back; a playback executor that is dropped with a command pending blocks every dispatch and drain;
a command that was published by a save which then failed leaves the host's record of the project behind the
file, so every request is refused until the project is opened again; a command holds the
project mutex while it waits, without a timeout, for the engine thread.

## 7. What is not modelled

* The document, its storage, migration and settings: encodings inside one SQLite
  transaction.  `ProjectSave` sees them as a file that is whole or not.
  `ProjectDatabase::create` is used by tests only.
* Playback, transport and synchronisation: the control is entangled with exact rational
  time and real deadlines.
* Undo history and transactions, the disk cache, the event stream, the graphics device
  and graph invalidation keep state that is worth modelling; they come next (section 8).
* The lock-free handoff and the snapshot swap rest on external crates; the clock is
  exact arithmetic of one owner.
* Timeline, graph authoring, color, image, effects, audio: sequential or numerical.
* Codecs and media readers: foreign formats, one request at a time.
* The user interface, the hosts and the tools keep no lasting state.
* Inside modelled parts: the playback owner and process launch in `engine.rs`, media libraries,
  previews, import and settings commands in `project_lifecycle.rs`, the
  snapshots (reads of modelled state), and the abstractions named in section 2.

`PROJECT.json` lists every part with its status, and every hazard of the code with
the properties that would notice it going wrong; a hazard without one says why.

## 8. The plan

In this order; each module gets its instance and its mutated variants as it is written,
and its inductive invariant is model-checked before it is proved.

1. `WorkerPool` over `JobExecutor` - done; all its safety properties and the refinement
   are proved.
2. `Lifecycle`, `ApplicationLifecycle`, `EditorSession` - done; all their safety properties and
   the refinement of `Lifecycle` are proved.
3. `ProjectSave` over `ProjectStore` - done; all its safety properties and the refinement
   are proved.
4. `ResourceArbiter` - done.
5. `ExportJobs` over `JobExecutor` - done; all its safety properties and the use of the executor are proved.
6. `RecoveryPoints` - done; all its safety properties are proved.
7. `EngineLifecycle`, `EngineDispatcher` - done; all their safety properties are proved.
8. `DiskCache`: index against files over a crash, and the budget with its eviction order.
9. `History` and `ProjectTransaction`: undo and redo stacks over transactions that publish
   every domain or none.
10. `EventStream`: replay window and cursors of `superi-api`.
11. `GpuDevice`: loss, generations and the texture pool.
12. `Invalidation` of the graph against a reference reachability, over bounded graphs.
13. Backpressure, clock and transport, as far as their control can be separated from time.

Each run is kept to about a minute, so that all of them can be repeated with every change;
a new module gets one run for its safety and, where fairness is justified, its liveness.
