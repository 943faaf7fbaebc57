# A TLA+ model of paradown

paradown is a download manager in Rust: a library with a command line front end
that fetches files over HTTP with several workers per file, pauses, resumes and
restores them after a restart, limits how many run at a time, and can hand
torrents to an engine. This directory models the parts of it whose correctness
depends on the order in which things happen, checks them with TLC, and proves
the central safety properties with TLAPS.

Paths are relative to the repository (`src/coordinator/mod.rs` is the crate's
own `src`). `PROJECT.json` holds the machine-readable side: components, runs,
mutants, the map from definitions to source lines, findings, hazards, theorems.

Contents: 1 the system, 2 modules and code, 3 runs, 4 bounds, 5 fairness,
6 proofs, 7 findings and other behaviours, 8 what is left out, 9 plan.

## 1. The system

| part | state it keeps | operations | what is hard about it |
|---|---|---|---|
| coordinator (`src/coordinator`) | task map, semaphore of `concurrent_tasks` permits, pending queue, broadcast channel of task events | start, resume, pause, cancel, delete, the four bulk calls, the event loop, `run_task_transition`, `spawn_next_task`, `wait_for_all_tasks` | callers and the event loop race; a permit moves between semaphore, local and task; a mutex is held across an await; the channel drops events |
| registry (`src/coordinator/registry.rs`) | the task map, next id | add, restore, delete | two adds at once; an id that is used again while rows of its old task are under way |
| task (`src/job`) | status, permit slot, workers, manifest, block states, progress, identity of the resource | start, resume, pause, cancel, delete, reset; handlers of worker events | calls overtake a start; events of an earlier run arrive in a later one |
| preparation (`src/job/prepare.rs`) | the decision about a file that is already there | probe, verify, discard, reset, preallocate | several steps, any of which may be the last before a crash |
| worker (`src/worker`) | status, control flags, progress, current source | start, pause, resume, cancel, delete, download loop | flags read at a few points of a loop that another future is running |
| transfer (`src/transfer`) | one request and its body | build, validate, stream | short, long, broken, refused bodies |
| payload (`src/payload`) | the files and their handles | preallocate, write at an offset, verify | a full-sized file says nothing about its content; slices cross the borders of files; workers share a handle |
| recovery (`src/recovery.rs`) | nothing | restore plan from rows and file | rows and file may disagree |
| repository, store (`src/repository`, `src/storage`) | rows of tasks, workers, pieces, blocks, checksums; tables, maps or a JSON file | save, load, purge | many futures save the same task, some behind a gate and some not; statements fail; a file that is rewritten in place |
| piece plan (`src/scheduler`, `src/domain/piece.rs`) | nothing | cut a file into pieces, blocks, lanes | arithmetic at the edges |
| sources (`src/domain/source.rs`) | failures and successes of each source | choose, rank | several workers read and change the counters between two steps of a retry |
| rate limiter (`src/rate_limiter.rs`) | rate, next free time slot, watch channel | acquire, set the limit | a limit that changes in three steps while others reserve and sleep |
| HTTP probe (`src/protocol_probe.rs`) | nothing | HEAD and a one-byte GET, merged | two answers about a resource that may have been replaced between them |
| torrent task (`src/job/p2p.rs`) and libtorrent adapter (`integrations/libtorrent-engine`) | session, resume snapshot, pieces; senders and the polling future | start, pause, resume, cancel, delete, engine events | alerts of an engine outside the process's control meet starts, calls, crashes and restores |
| swarm discovery (`src/p2p/provider.rs`, `src/discovery/swarm.rs`) | cache files, source set | ask the providers, fetch, fall back | tasks share files that are written in place; failed fetches; what was found comes back at the next start |
| checksum, requests, configuration, client, statistics, facade, command line | mostly none | parse, format, compare, forward | |

How they interact. A caller (or the event loop) enters
`Manager::run_task_transition`: it takes a permit from the semaphore or queues
the task, calls `Task::start` or `Task::resume`, and on success stores the
permit in the task; on failure it clears the task's permit slot and calls
`spawn_next_task` with the slot's mutex still locked. `Task::start` prepares the
file, creates workers and spawns a future for each. Workers report through a
channel to the task's listener, which saves rows, updates block states and, when
all workers are completed, verifies and finishes the task. The task reports to
the manager's event loop, which saves it, takes it out of the queue, releases
its permit and starts the next one. The store sees all of that as saves; after a
crash, `build_restore_plan` decides from the rows and the file what to keep. A
torrent task has no workers: its start asks the swarm providers, hands the
result and the resume snapshot to the engine, and a listener of its own turns
engine events into changes of the task. All workers share the rate limiter.

What makes each part correct:

* coordinator: no permit is lost or doubled; no more tasks run than permits; no
  call waits on itself; the queue stays bounded;
* worker: one loop; progress never ahead of the file; Complete only for the
  whole range; it stops when told to, and ends;
* task with its file: Completed means that the bytes are there, are the ones of
  the checksum if there is one, and are of one version of the origin;
* piece plan: the lanes cover the file once; no progress carried from one plan,
  row or block state to the next claims a byte that was never written;
* repository: what a restart finds of a task belongs together; what has settled
  is stored as it is; the SQLite store is an atomic one;
* torrent task: what is Running is really observed, a finish is noticed, what has
  settled is saved, resume data is not lost;
* rate limiter: the rate is kept, a new limit reaches whoever sleeps, everybody
  gets through; sources: a source that works is found; probe: length and
  validator are of one version; payload: every byte where it belongs; waiting
  for all tasks: it returns; discovery: bounded hints, no known list forgotten.

## 2. Modules and code

| module | models | extends |
|---|---|---|
| `Coordinator` | coordinator, and of the task what the coordinator sees | |
| `Worker` | one worker and the HTTP transfer it drives | |
| `Resume` | one task with its workers, file, repository rows and origin | |
| `PiecePlan` | pieces, blocks and lanes, and progress across plans and restarts | |
| `Statements` | the rows of a task and the statements a call of the repository consists of | |
| `AtomicStore` | what the store promises | `Statements` |
| `SqliteRepository`, `MemoryRepository`, `JsonFileRepository` | the calls of each repository as sequences of statements | `Statements` |
| `Repository` | store, registry and every future that saves; composes the four above by `INSTANCE` | `Statements` |
| `TorrentEngine` | the libtorrent adapter: torrent, alerts, senders, polling | |
| `TorrentTask` | a torrent task, its calls, listeners, row, crash and restore | `TorrentEngine` |
| `RateLimiter`, `SourceRanking`, `Probe`, `PayloadStore`, `WaitForAll`, `SwarmDiscovery` | one part each | |
| `Services` | the six parts above in one specification | the six |
| `CoordinatorProofs`, `WorkerProofs`, `ResumeProofs`, `PiecePlanProofs`, `RepositoryProofs`, `TorrentProofs`, `ServicesProofs` | theorems (section 6) | the module, `TLAPS` |
| `SwarmProofs` | theorems about `SwarmDiscovery` | `ServicesProofs` |
| `MCCoordinator`, `MCWorker`, `MCResume`, `MCPiecePlan`, `MCRepository`, `MCTorrent`, `MCServices` | instances for TLC | the module |

The modules look at the same program from different distances. `Coordinator`
reduces a task to its status, whether workers run, and the events of earlier
runs that are still to be handled. `Resume` reduces the callers to calls that
may come at any time and a worker to its progress, its status and the version
of the body it reads. `Worker` keeps every step of the download loop. `PiecePlan`
keeps the arithmetic of bytes that `Resume` reduces to lanes of equal length.
`Repository` opens up the save that the others take as one step, and reduces a
task to the number of changes it has seen. `TorrentTask` is the counterpart of
`Resume` and `Worker` for a task that an engine downloads.

An operator whose comment begins "Mutated form of" is a plausible mistake in the
definition that follows it. The specification never uses it; it serves to
confirm that a property would notice.

### Coordinator

A process is a caller of the public API or the event loop (`Loop`). One action
is the code between two points at which the process can be overtaken: an await,
or a lock taken or released.

| state | code |
|---|---|
| `known`, `status` | `Manager::tasks`, `Task::status` |
| `live`, `late` | `Task::workers` (none, running, told to stop); worker events and join results of stopped runs that the listener still has to handle |
| `free`, `slot`, `inHand` | the semaphore, `Task::permit`, the local permit of `run_task_transition` |
| `queue` | `Manager::pending_queue` with its `PendingAction` |
| `events` | the broadcast channel; sending to a full one loses the oldest event |
| `chain` | the permit mutexes a process holds across `spawn_next_task`, innermost last |
| `pc`, `cur`, `sweep`, `mode` | where the process is, with which task, and in which bulk call |

`Acquire`, `Enqueue`, `Lookup`, `ResumeOp`, `CheckStart`, `Preparing`, `Probe`,
`Spawn`, `Store`, `Fail`, `Clear`, `SpawnNext`, `Unwind`, `Return` are
`run_task_transition` with everything it calls. `Pause` to `RemoveTask` and
`Sweep` are the other public calls. `Receive`, `Persist`, `Dequeue`, `Release`
are the event loop. `RunFinishes`, `RunFails` and the `Late*` actions are the
listener. Permits are values rather than a count, so that one can say where each
of them is. `tasks.remove` waits for the map reference that a transition
keeps alive (`RefHeld`). With `Faults` the store, the file system and the
planning of workers fail wherever the code handles that.

### Worker

A caller is a future that runs one operation on the shared worker; its range is
`Length` slices, `file` the slices written. `Start` is `is_running.swap`,
`Prepare` and `Running` are `prepare_run_state` (read, then write, with a gap),
`Top` to `Exit` are `run_download_loop` with the driver's `stream_response`, and
`Call`, `SetStatus`, `Resume` the control operations. The flags are relaxed
atomics and are read exactly where the code reads them. The server may refuse,
fail, cut a body with or without an error, and, without range requests, send a
body that is too long. `ranges` is `Task::supports_range_requests`, chosen at the
beginning from `RangeSupport`. `afterStop` counts the slices written after the worker
was told to stop. A partial answer is validated against the requested range, so
a body in answer to a range request is never longer than the range.

### Resume

A file is a sequence of blocks; a block holds the version of the origin it came
from, 0 for a hole. `Start`, `Preparing`, `Probe`, `Existing`, `Reset`, `Open`,
`SetLen`, `Launch`, `EnsureWorkers` are `Task::start` with `prepare_download`;
their boundaries are where a crash or another call can come in. `Decision`,
`ExistingIsValid`, `CanResume` are the rules for a file that is already there;
`Restore` is `build_restore_plan` with `Task::init`; `Seeded` is
`seeded_downloaded_from_block_states`; `HandleComplete` is
`handle_worker_complete` up to the check of the file in `finalize_download`, whose
outcome is `verdict`, and `Finalize` what `finish_job` makes of it after it has
waited for the disk; `Existing` and `Finish` separate the same two for a file that
was found. `touched` records that the file was changed in that gap, `mixed` that a
first request of a worker brought another version than what was there. `db` is what
the repository holds, `Persist` and `SaveRow` the saves that other futures make
at times of their own. `OriginChanges`, `Meddle` and `Validator` are external.

Abstractions: the origin announces its size and answers ranges (the other
origins are in `Worker`); versions have equal size; one start is in progress at
a time, as the permit makes it; a save of a task is atomic (`Persist`; the
interleavings of its reads and statements are in `Repository`), and a crash loses no
write that was handed over; workers that were dropped from the list no longer
write; failures of `fsync`, origins of size zero, deletion and torrents are left
out.

### PiecePlan

`PieceSize`, `Layout`, `PieceEnd`, `Blocks` and `Lanes` are the planner as
operators of a size and a number of segments. `states` is the list of block
states as a function from block numbers (piece, block) to completed, so that
`Installed` compares what `block_state_layout_matches` compares: numbers.
`Install`, `Ensure`, `Create`, `Created` are a start of the task, from
`install_manifest` to the list of new workers; `Write` and `Progress` are the
workers and the listener; `SaveTask` and `SaveLate` are the saves that other
futures make; `Restart` is a crash at any point, a new value of
`segments_per_task`, and what `build_restore_plan` keeps (`Trusted` is
`sanitize_worker_requests`). One source answers range requests and never
changes, the file is kept, saves succeed; finalization is in `Resume`.

### Repository

A task object is a number (`gen`) and its state the number of changes it has
seen (`ver`), so that a row tells whose it is and how old. A call of the
repository is a sequence of statements (`SaveBundle`, `SaveWorker`, `DeleteTask`
and so on, for each backend); `DoPut`, `DoBegin`, `DoCommit`, `DoCopy`,
`DoWrite` execute one statement of one future, `Return` and `Abort` end the call.

| state | code |
|---|---|
| `content` | what the repository answers: tables of SQLite, maps, or the state behind the lock of the JSON repository |
| `conn`, `tx` | the pool with its one connection, and the transaction on it |
| `file`, `writers`, `clash` | the JSON file, the futures that rewrite it, and whether two did at once |
| `tasks`, `obj`, `gate` | `Manager::tasks`, the objects, `persistence_gate` of each |
| `events`, `job` | the events on which the loop saves; what each future is doing |
| `up`, `found` | whether the manager is initialized; rows that `restore_tasks` has yet to restore |

`Add`, `Delete`, `Restore` are the registry: the identity check, the choice of
the id and the insertion are separate steps. `Change` with `ReadTask` and
`ReadRest` is `Task::persist_task` behind the gate, `LoopSaves` the save of the
event loop without it, `WorkerLater` the row of a single worker. A statement of
SQLite and a write of the JSON file may fail (`Fails`), the constraint on the
url refuses (`Refuses`), and the process may end anywhere (`Crash`); a JSON file
in the middle of a write is then old, empty or torn. In `SqliteRepository` the
statements between begin and commit are one put of the whole bundle into `tx`: the
pool has one connection, and nobody can look in between. `A == INSTANCE AtomicStore WITH rows <- ...` maps the
tables to the rows of the atomic store; for the other backends, which promise
less, the mapping is constant.

### TorrentEngine and TorrentTask

`TorrentEngine` is the adapter: `AddTorrent`, `Register`, `EnsurePolling` are the
three steps of `start_session`, between which the polling future (`Poll`,
`PollFails`) and libtorrent (`Native*`, external) go on. `chan` has one channel for
every run, so that events of an earlier run reach the listener they were sent to.
`TorrentTask` is `Task::start` in its torrent branch (`Start` to `Listen`), the
four calls (status first, then the engine, then the save and the event), the
handlers of engine events (`Handle*`, `Finish`), the saves, and crash and restore.
The task is new (`Fresh`), or the row of one that an earlier process has left, with
its resume data (`Left`).

A save is two steps, between which everything else goes on: `gate` is what a
`Task::persist_task` has read inside `persistence_gate` (`Saves`) and has yet to write
(`GateWrites`, after which the caller goes on), `held` what the event loop has read
without the gate (`LoopReads`) and has yet to write (`LoopWrites`). A save reads all
fields in one step, and the change that a gated save follows and its read are one
step; that the reads themselves interleave with changes is in `Repository`.
`replayed` says that the task had changed between the read and the write of the row
that is stored.

Other history variables name the circumstances the properties make an exception for:
`erred` (a start, a call or a save failed), `missed` (alerts were popped while no sender
was registered, or a pause was told to the listener of an earlier run during a start),
`raced` (two calls overlapped) and `reused` (a start was given a torrent that was
paused or done in the engine before). Two more exceptions are predicates of the state:
`Outdated` (the listener of an earlier run has something to hand on, or is saving
something, that may be older than what the task has) and `Deaf` (nobody polls, and
there is such a listener). Section 7 says what happens then.

### Services

The six parts share no state; `awake` chooses the one that moves, so that their
states add up.

* `RateLimiter`: `set_limit` in its three steps (store, reset, tell), `acquire` in
  its steps (load, reserve, sleep). Instants are relative to now. The history
  variable `level` is a bucket that fills with every slice let through and drains
  at the rate; `leaked` is a slot nobody uses any more.
* `SourceRanking`: the ranking of sources and the steps of `retry_or_fail` (record
  the failure, rank, compare with the present source) of workers that share the
  counters. A source always answers (`works`) or may fail at any time, so that
  counters rise and are cleared.
* `Probe`: HEAD, GET of one byte, and the merging of both, against every
  combination of answered and missing headers, while the resource is replaced.
* `PayloadStore`: `resolve_writes` of the file map, and the seek and write under
  the lock of a handle. The right byte at an offset is the offset plus one, so
  that a misplaced one shows.
* `WaitForAll`: `wait_for_all_tasks`: subscribe, look at one task after another,
  receive; tasks settle, send and restart meanwhile.
* `SwarmDiscovery`: the providers of a task one after the other; the tracker list
  and the index keep files in a directory that all tasks share (`cache`) and
  write them in place; fetches and writes fail, time makes a file stale, a crash
  cuts it. A document is known by its version; recognition of links in a text is
  reduced to the links it yields, in their order. Tasks come with sources of their
  own (`Brought`), as a session gives them. `good` is the list last written to its end.

## 3. Runs

Runs that pass:

| run | properties | what it shows |
|---|---|---|
| `calls` | `TypeOK`, `PermitsAccountedFor`, `NoDuplicateQueueEntries` | one caller makes every public call on two tasks over one permit, with an event channel of one place and failures everywhere the code handles them, against the event loop and late worker events |
| `once` | `OperationsWithinLimit`, `TransfersWithinLimit`, `CallersReturn` | two callers, each task started once: neither starts in progress nor transfers exceed the permits, and every call and the loop come back |
| `worker` | `TypeOK`, `OneLoop`, `ProgressIsWritten`, `CompleteMeansWhole`, `AtMostOneSliceAfterStop`, `StopsWhenTold`, `RunEnds` | three futures use all operations of a worker with two sources, with and without range requests, under fairness: one loop at a time; with ranges, what is counted is written and Complete means the whole range; at most a slice after a cancel; a worker told to stop stops, also while paused, and a run nobody pauses ends |
| `resumed` | `TypeOK`, `CompletesAsExpected`, `ContinuesInOneVersion`, `UnvalidatedIsDownloaded` | four kinds of task through pauses, cancels, failures, an origin that changes and files that are removed or truncated. With a checksum (two workers whose runs overlap; one worker with a crash between any two steps): Completed only with the expected bytes. Without (one worker; two workers): requests that continue a range keep to one version if there is a validator, and without one no file is trusted for its size |
| `replanned` | `TypeOK`, `LanesTile`, `ClaimsAreWritten`, `CompletedBlocksAreWritten` | a file is planned, stopped, restored and planned again with another number of segments: the ranges cover the file once, and no worker, row or completed block claims a byte that was not written |
| `stored` | `TypeOK`, `BundlesAreWhole`, `SettledIsStored`, `AtomicStoreSpec` | the three repositories under concurrent adds and deletes, gated and ungated saves, late rows, failing statements and crashes: what a restart finds belongs together, a settled task is stored as it is (in the file for JSON, while no two rewritings of it overlap or fail), and SQLite implements `AtomicStore` |
| `torrent` | `RunningIsEngaged`, `SettledIsSaved`, `ResumeDataIsKept`, `FinishIsNoticed` | a magnet task over the adapter: two calls overlap with alerts, polls, late events, gated and ungated saves, and one fault (a failed save or call, a crash with its restore, a failed poll, a decision of libtorrent's queue, another task), under fairness |
| `services` | `RateIsKept`, `LimitReachesSleepers`, `AcquireReturns`, `WorkingSourceIsFound`, `ProbeIsOfOneVersion`, `BytesAreInPlace`, `WaitReturns`, `HintsAreBounded`, `KnownListIsUsed` | the six services, each against everything that interferes with it |

Runs that end in a violation, each against something the repository says of
itself (section 7): `selflock` (`NoSelfDeadlock`), `whole_body` (`FullBodyIsAccepted`), `prealloc`
(`CompletesWithoutHoles`), `mixed_versions` (`CompletesInOneVersion`).

`AtMostOneSliceAfterStop` counts from a cancel or delete; a paused worker may be
resumed, and what it writes after a pause is not counted. `BundlesAreWhole` is about
the task row, pieces and blocks; worker and checksum rows are saved by futures of
their own and may be older or newer.

Deadlock is not checked: callers have a bounded number of calls and the system
rests when they are used up. That nobody waits for ever is stated instead, by
`CallersReturn`, `StopsWhenTold`, `RunEnds`, `FinishIsNoticed`, `AcquireReturns`,
`WaitReturns` and, where it fails, `NoSelfDeadlock`. `TypeOK` of `TorrentTask` and of
`Services` records the ranges of the variables; the two runs leave it out in favour
of the properties that say more.

## 4. Bounds

* `Coordinator`: two tasks and one permit are the least with which a queue, a
  hand-over and a competitor exist. The channel holds one event in `calls`, so
  that every pattern of loss occurs, and three in the others, so that none
  does. Two calls for one task and one for the other let a second call meet a
  task in every phase of its first; in the proofs all of these are parameters.
* `Worker`: two slices distinguish nothing, a part and all; one retry and two
  sources let an attempt fail after a part was written and continue elsewhere;
  three futures and three calls let two starts race with a stop, and each is checked
  with and without range requests.
* `Resume`: two lanes of one or two blocks or one lane of two or three; two versions;
  two or three troubles, enough for a pause, a crash and a loss of the file in
  one behaviour. A scenario is a task with its bounds; `AllTasks` of `MCResume`
  lists the four of `resumed`. Its field `overlap` says whether a new run may begin before the workers,
  spawned starts and events of the one before are gone. `MaxEvents` bounds
  Complete events under way. Different sizes of versions would only make the
  size comparison catch more.
* `PiecePlan`: with pieces of at most 4 bytes and blocks of at most 2, 9 bytes are
  three pieces for two lanes, 6 bytes have different blocks under the two
  settings, and 5 bytes have the same block numbers for different bytes. Two
  restarts let a plan be left and taken up again; one row is saved late.
  `ClaimsAreWritten` and `CompletedBlocksAreWritten` are stated for the sizes in
  `NumbersTellLayouts` (section 7).
* `Repository`: a scenario is a backend with its callers and bounds
  (`MCScenarios`): two callers who add and delete two downloads with three objects,
  so that an id is used again; one owner with a change, a fault and two objects;
  two owners with two changes of one task, so that gated saves and the ungated
  one of the loop overlap; the same smaller for the memory and JSON
  repositories. Two futures are busy at a time (`MaxJobs`) and one event waits:
  every property is about two futures that overlap.
* `TorrentTask`: a magnet link, whose task starts without metadata and goes on like
  that of a torrent file once it has it; two runs, so that a channel of an earlier
  run exists; two calls and one fault; one alert and one waiting event, so that
  libtorrent, poll and listener alternate in every order; resume data is saved once,
  by this process or an earlier one. Three calls, such as start, pause and resume, or
  start, cancel and start, are covered by the theorems only. That resume data of an earlier run is older than
  that of the present one needs four calls and two saves, which are beyond TLC here;
  the theorem covers them.
* `Services`: two workers, rates 0 (no limit), 1 and 2 and one change of the limit;
  three sources that transfer and one that does not, two workers with three retries
  each, which is one for each bad source and one for the other worker; versions of length 2, 0 and 3 and
  every kind of server; six layouts with empty files at the start, between and at
  the end, slices of up to three bytes; three tasks, a channel of two
  events and two restarts; two tasks that look for a swarm (one a magnet link with
  more peers than the limit, one whose request brings more trackers), two versions of list and index, two starts, one
  crash or failed write, and caches an earlier run may have left.

## 5. Fairness

`Coordinator.Fairness` is weak fairness of each process's transitions, of the
loop and of the workers of a task: the runtime polls every spawned future, and a
transfer ends in one way or another. No caller has to call. `Worker.FairSpec` is
weak fairness of each future's next step. It assumes that the origin answers,
continues or breaks off. The HTTP client sets a connect timeout and no other
(`src/runtime.rs:78`), so against an origin that accepts and stays silent
neither `RunEnds` nor `StopsWhenTold` would hold. `TorrentTask.FairSpec` is weak
fairness of the start, of a call in progress, of the writes of a save, of the event
loop, of each listener
and of the polling future, all spawned futures, and of libtorrent's answer to
`post_torrent_updates`; neither metadata, pieces nor a finish need to come.
`Services.FairSpec` is weak fairness of time, of a call of `set_limit` in progress, of
each worker in `acquire`, of the waiter and of a task between its status and
its event; no task needs to settle. `Resume`, `PiecePlan` and `Repository` have no
liveness property.

## 6. Proofs

The theorems hold for every value of the constants that satisfies the named
assumption of the module, which TLC evaluates on every run: the loop is not a
caller, the permits are finite and not empty, the channel has a place
(`ConstantsAssumption`); the range is not empty, there is a source
(`WorkerAssumption`); a task has workers, and workers have blocks
(`ResumeAssumption`); sizes, pieces and blocks are not empty (`PlanAssumption`);
the bounds of the scenarios are numbers with a largest one, so
that the numbers of objects and versions are bounded (`RepositoryAssumption`);
bounds are numbers, and there is room for what is sent (`TorrentAssumption`);
workers are finitely many, and slices have a largest size (`LimiterAssumption`);
sources are finitely many (`RankingAssumption`); lists are sequences, and the
tracker list is asked once (`SwarmAssumption`); a payload has a file
(`PayloadAssumption`); `ProbeAssumption` is about types only. With them every safety
property that a run checks is a theorem; three theorems about `Resume` and one about
`Coordinator` have a further hypothesis, which their runs satisfy.

An invariant is seldom inductive as it stands. For each theorem, what had to be
added and why.

`CoordinatorProofs`

* `TypeCorrect`: `TypeOK` is inductive only together with `AsksForAction`: a
  process that asks for a permit has Start or Resume in `cur`, which is what it
  puts into the queue when there is none.
* `PermitsCorrect`: the permits. `PermitsAccountedFor` does not say who may
  hold a permit, so a step that returns a local permit could return one that is
  not there. `PermitInv` adds `HandMatchesStep`: a process has a permit in hand
  exactly while it is between `Acquire` and `Store` or `Clear`.
* `OperationsCorrect`: from `PermitInv` without a further induction. The
  operating processes have permits in hand, different ones, so there are at
  most as many as permits.
* `QueueCorrect`: appending checks for the entry, removing keeps order.
* `TransfersCorrect`: `StartedOnce => (Spec => []TransfersWithinLimit)`, where
  `StartedOnce` says that the only call is start, at most once for each task, as
  `start_all` makes it; without it the property does not hold (section 7).
  `OnceInv` follows the one start of a task: it is not called yet, or it is in the
  queue once, or under way in one process, and only afterwards there are workers
  and events. A task whose workers run has its permit in its slot or in the hand of
  the process that is about to store it, and no event that could release it is
  under way. Different tasks then have different permits.

`WorkerProofs`

* `TypeCorrect`.
* `OneLoopCorrect`: `LoopInv` adds `InsideMeansRunning`: whoever is inside the
  loop set `is_running`, so the next swap sees it.
* `ProgressCorrect`, `CompleteCorrect`: `WrittenInv` (with range requests) says
  that everything up to the published progress is in the file, that the count of
  the running loop is the published progress and its offset in the body the same
  while a body is read, that a loop about to finish has counted the whole range,
  and that the range is whole once Complete was sent. It rests on `OneLoop`: a
  second loop would write where the first one already counted.
* `StopCorrect` (after cancel or delete; a pause is not counted): `StopInv` says that after a slice was written behind a stop no
  loop has a slice in hand. Flags are not taken back, and a loop takes a slice only
  while none is set; with `OneLoop` there was one slice in hand when they were set.

`ResumeProofs`

* `TypeCorrect`.
* `AsExpectedCorrect`, for any number of workers: `CrashesAlone => (Spec =>
  CompletesAsExpected)`. A task that completes may do so without looking at the file
  again, because its record says so. `Settled` therefore says that a task that is
  Completed, or would be restored as such, has nothing in its file but bytes
  the checksum is of, in their order; a step that completes it then only has to compare the size. It
  needs `Phases` (a process that is down has nothing under way) and `Calm` (in a
  scenario without overlaps nothing of an earlier run is under way during a start, and
  nothing that could write once the task is Completed), and `CheckInv`: from a good
  check to Completed the file is what was checked, or it was `touched`.
* `DownloadedCorrect`, for any number of workers: `CrashesAlone /\ UnvalidatedTasks =>
  (Spec => UnvalidatedIsDownloaded)`. `Prepared` says that blocks are claimed only
  while there are workers, and that what a start finds without them is made of holes;
  `Written` that without a validator the counters of the workers are about this
  run's file, so that what was counted is there.
* `OneVersionCorrect`: `CrashesAlone /\ ValidatedTasks => (Spec =>
  ContinuesInOneVersion)`, for any number of workers. `OneVersion` orders versions: what
  is in the file, or will come out of an open body, is no older than the version asked
  for and no newer than the origin, so an origin that still answers with the version
  asked for has sent nothing else; while no first request has `mixed` them, all of it is
  of one version.

The hypotheses are about the scenarios: tasks whose runs overlap do not crash
(`CrashesAlone`); without a checksum there is neither overlap nor crash
(`UnvalidatedTasks` and `ValidatedTasks`, for origins without and with a validator). Those of
`resumed` satisfy all three, and none can be left out: TLC finds a counterexample
without each of them, and section 7 describes it.

`PiecePlanProofs`, for every size, size of a piece and of a block, and every number of
segments

* `TypeCorrect`, `LanesTileCorrect`: `Planned` has the layout of the settings once it
  is installed, rows that lie inside the file, lanes that tile it, and workers that
  follow the lanes as far as they are made (`Fits`). Rows have different indices
  (`Distinct`, `Indexed`), since the rows of an interrupted creation are a part of the
  workers and are sorted when they are restored (`Sorting`, by ranks instead of a
  recursion). The arithmetic is reduced to what a quotient is and how products are
  ordered.
* `ClaimsCorrect`, `CompletedBlocksCorrect`: `Honest` says that every claim of a
  worker, of a row and of a row on its way to the store is on disk, and that block
  states are right (`Proper`) under every layout that numbers its blocks as they
  do, because that is all `block_state_layout_matches` looks at. `Seeding` and `Syncing` are the two
  directions between blocks and progress, `EveryByteHasABlock` what joins them.

`RepositoryProofs`

* `TypeCorrect`: `Base` has, besides the types, what a future may still have to do:
  its statements are the rest of a program its call can consist of (`Program`), who
  is past the gate of an object has it, and every row is of an object that exists
  under its id.
* `BundlesAreWholeCorrect`: rows are read in a restart but written through copies, a
  transaction and a file. `AllWhole` says of every place that holds rows that the
  pieces and blocks in it belong to the task row beside them; a put is a whole
  bundle or adds a row that belongs to it.
* `AtomicStoreCorrect`: the refinement. `Transaction` says that only the future with
  the connection is inside a transaction, and that the transaction is the content of
  before with its one bundle. So begin and put are stutters of `AtomicStore`, and
  commit is its save.
* `SettledIsStoredCorrect`: `Settling` says of every announced change who is going to
  write it: the row has it, or a future that will write it is under way, or the
  event on which the loop saves is waiting; that one object has an id at a time
  (`Exclusive`), and that without a manager there is no map. For JSON, `FileInv`
  takes it from the state in memory to the file: the file holds the state, or a copy
  is yet to be taken, or the only rewriting under way began with the present state,
  or two of them overlapped or one failed (`clash`), which the property leaves out.

`TorrentProofs`

* `TypeCorrect`.
* `SettledIsSavedCorrect`: the row has the status, or a save that has it is in progress
  or is announced (`Unsaved`), or the row was replayed. `Following` says that a change to
  Completed or Canceled is followed by a gated save and then by one of the loop, whose
  read comes after it, so that a replayed row never lasts over these.
* `RunningIsEngagedCorrect`: `Placed` and `Rest` say how starts, calls, saves and
  crashes exclude each other; while no exception applies (`Clean`), `Control` relates
  the step of the start, the call, the sender, the session and the torrent; `Noticed`
  says that a pause or a finish the task does not know of is on its way, as a
  flag, an alert or an event; `Polled` that somebody polls, or that the error that
  ends the task is in its channel.
* `ResumeDataIsKeptCorrect`: `Order` says that resume data gets older from libtorrent
  through the alerts to the channels, `InTurn` that the channels of runs are used one
  after the other, `Bounds` and `Rows` that what the task, the row and the saves under
  way hold is no newer than anything on its way to the present run, and `Kept` that
  the row is not newer than the task, nor the task than the snapshot of a start, nor
  than what a save has read, unless the row was replayed. The proof attempt found the
  behaviours of `Outdated`.

`ServicesProofs` and `SwarmProofs`

* `RateIsKeptCorrect`: the bucket's level alone is not inductive, since a slice is
  paid for when its slot is reserved and counted when it is let through.
  `RateInvariant` adds what is owed to those who sleep: all of it up to the next free
  slot, and for every t what is due by then. Sums over workers are cardinalities of
  sets of pairs (`Weight`), so that no recursion is needed.
* `LimitReachesSleepersCorrect`: `Reach` counts for every t who sleeps beyond t:
  each of them took one slot at the new rate.
* `WorkingSourceIsFoundCorrect`: a worker fails twice at a source only if another one
  succeeded there in between, and each of the others succeeds once. `Tried` counts the
  places (a source and its successes) where a worker has failed: as many as its
  retries, and those that are still the present ones have failures on record, while a
  source that always answers has none and is ranked before them.
* `ProbeIsOfOneVersionCorrect`: the answer to HEAD is of one version throughout.
* `BytesAreInPlaceCorrect`: `PayloadInvariant` says that nothing but right bytes are
  on disk, that each byte of a slice is in place or in a part that is left
  (`Covered`), and that a writer between its seek and its write holds the handle,
  which is still where the seek put it. What `resolve_writes` yields is
  `SliceIsResolved`: the parts lie inside of their files and cover the slice, for every
  layout. `EndOf` and `ResolveWrites` are recursive functions; that they exist
  (`EndsExist`, `RestsExist`) and what they yield is shown by looking at the least
  file at which it would go wrong.
* `HintsAreBoundedCorrect`: the bound, which is the limit or, if that is more, what
  the magnet link and the request bring, must hold for what a task begins with, too:
  what an earlier start left in its source set.
* `KnownListIsUsedCorrect`: while a whole list is in the cache nobody is writing
  one, and who knew of a list and has yet to ask for it finds it there, or is about
  to write one that is as new.

Only model-checked: liveness (`CallersReturn`, `StopsWhenTold`, `RunEnds`,
`FinishIsNoticed`, `AcquireReturns`, `WaitReturns`), which the prover does not
handle. Where a proof would use an induction it takes a least number instead, from the
well-foundedness of the naturals: the oldest version (`RepositoryProofs`), the
source ranked first and the first file that goes wrong (`ServicesProofs`), the first
place in a list (`SwarmProofs`), the first open block (`PiecePlanProofs`,
`ResumeProofs`).

## 7. Findings, and other behaviours met

Each run that ends in a violation is a finding with the line it contradicts in
`PROJECT.json`.

* `selflock`: the failure path calls `spawn_next_task` with the task's permit
  mutex locked; if the queue holds another action of the same task, the nested
  transition waits for the mutex its own caller holds.
* `whole_body`: without range requests each attempt writes from the start while
  the count goes on, so a retry that delivers everything fails the length check.
* `prealloc`: the file gets its full size before its first byte; after a pause
  its size and an unchanged validator make it Completed with holes.
* `mixed_versions`: `If-Range` goes only with requests that continue a range; when the
  origin changes between the first requests of two workers, both are accepted and the
  file is Completed with parts of two versions.

Further behaviours of the models that are worth knowing, some of them in
`PROJECT.json` as hazards with a note. Of the coordinator:

* a second start of a running task fails, and the failure path clears the permit
  of the transfer that runs and starts the next task beside it (`Clear`); this is
  why `once` starts each task once for `TransfersWithinLimit`;
* a task that settles before its start returns has its permit stored afterwards,
  and nothing gives it back (`Probe` before `Store`);
* a task queued after a failed `try_acquire` but after the release that found
  the queue empty waits beside a free permit (`Acquire`, `Enqueue`);
* a cancel whose save fails has set the status and returns without an event, so
  that `wait_for_all_tasks` may wait for an event of another task
  (`SettleSilently`); a start whose preparation fails leaves the task
  Preparing, which never settles by itself;
* two adds at once can choose the same id; the second takes the place of the first
  in the map and in the store, and the url of the lost one is then refused under
  another id (`Add`, `Refuses`);

Of tasks, files and plans:

* between the check of a file and Completed `finish_job` waits for the disk; a start
  that does not wait for the last run to come to rest may remove or overwrite the
  file there, and the task is Completed all the same (`Finalize`, `touched`);
* stored block states are recognised by the numbers of their blocks. Once pieces
  are capped at 1 MiB, two values of `segments_per_task` can number the same
  blocks and mean different bytes (2.9 MiB with two and with three segments):
  after a restart with the other value a block counts as completed that is not
  (`Installed`); the properties of `PiecePlan` exclude exactly these sizes;
* a save of the task while its workers are being created removes the rows that
  were already saved; after a crash the rows are then rejected (`Trusted`);
* a stream of unknown length that was retried gives the task the sum of its
  attempts as size (`Ended`);
* block rows of a file that is gone survive a restore and seed the new workers
  (`Restore`, `Seeded`); a Complete event of an earlier run finds an empty list
  of workers and finishes the task (`HandleComplete`). A checksum catches both,
  which is what the two tasks with a checksum in `resumed` show;
* after a run that completed while the next was already preparing, a crash
  leaves a Completed record beside a preallocated file; this is why the task that
  crashes in `resumed` does not overlap;
* the new validator is stored before the old file is discarded; a crash between
  the two lets the old part pass for the new version, which is why the task
  without a checksum has no crash in `resumed`;
* a pause or cancel during a start's preparation is overwritten by Running; a
  worker canceled before it is polled fails instead (`Begin`).

Of the repository:

* the event loop saves without the gate: an older snapshot of the loop can land on
  top of a change that is saved but not announced by an event afterwards (a start,
  the updates of a torrent), or under a failure (`LoopSaves`); `SettledIsStored` is
  about the announced ones;
* a worker row, or the loop's save, that lands after a purge brings rows of a
  deleted task back (`WorkerLater`, `LoopSaves`);
* a crash or two writers can leave a JSON file that does not parse, and the manager
  then does not start (`DoWrite`, `Opened`); of two rewritings that overlap the older
  can be the last, and the file is then older than what was answered (`clash`).

Of torrents:

* the handlers do not look at the status: a late event turns a Canceled or Deleted
  task into a Completed, Paused or Failed one; a Paused state posted before a
  resume leaves the task Paused while the engine downloads;
* a call that overlaps a start leaves a Running task without a torrent (`raced`);
* alerts popped before the sender is registered are dropped, a finish included
  (`missed`); the finish of a torrent that was done before a start is not reported
  again (`reused`);
* a start of a paused torrent task adds a torrent that libtorrent has already and gets
  it back paused; nobody resumes it, and the task is Running (`reused`). Only the queue
  of libtorrent, to which `pause_torrent` leaves the torrent, may resume it;
* the loop reads the task on a pause or progress event, newer resume data is saved
  inside the gate, and the loop writes its older row over it (`replayed`). The comment
  at `src/coordinator/events.rs:50` names the race and avoids it for Preparing events;
* a row that the loop has read before a resume, or before libtorrent reported a pause
  or a delete failed, may be written after it and stay (`replayed`): after a restart
  the task is then what it was before. Over Completed and Canceled this cannot last,
  because a save of the loop follows them;
* a save that is in progress while the task is deleted brings its row back
  (`GateWrites`, `LoopWrites` after `DeleteReturns`);
* a task that is Completed while its start is still at the beginning becomes
  Preparing, and then Running, again (`Mark`): this takes a late event of an earlier
  run;
* after a failed save of Running, or a failed poll, the torrent goes on in
  libtorrent unobserved;
* a start reads the snapshot when it prepares and installs it when the engine has
  answered; what the listener of an earlier run stored in between is overwritten
  by the older one, in the task and in the row (start, pause, start, resume data
  handled after `Prepare`, `Install`); resume data that such a listener handles
  late, or a save of it that failed, has the same effect (`Outdated`);
* when polling fails, and the listener of an earlier run reports a pause after the
  error, a resume leaves the task Running with nobody polling (`Deaf`);
* a stale tracker list or index is used when the fetch fails, a torrent file of any
  age before a newer text (`StaleIndex`); a cut or empty file counts as fresh until
  its time is over; a torrent whose write failed is handed on by its path;
* the trackers, peers and seeds of a magnet link and of a request are not limited;
* the source set grows by up to `max_locators` with every start, and dead trackers
  keep the places of new ones.

Of the other services:

* a worker that reserved a slot before it was told of a new limit reserves a second
  one; the first stays taken (`leaked`), which costs a wait and never an overrun;
* a retry may go to a source that is worse by the time it gets there (`Before` is
  evaluated on counters read earlier);
* when the answer to GET lacks a length or a validator, HEAD fills the gap, and the
  probe mixes two versions if the resource was replaced between them.

## 8. Not modelled

* The interplay of all worker events and join results of one run of a task with
  several workers, as one module; `Coordinator`, `Resume` and `Worker` each have a
  part of it.
* Coordinator: the throttle of progress saves (a save on progress may or may not
  happen in `Repository`) and the accessors.
* Piece plan: streams of unknown length and the order of sources. Preparation:
  origins of size zero and the naming of files.
* Payload: `sync_data`, and writes that are in flight. tokio's `write_all` without a flush
  (`src/payload/store.rs:57`) may return while the write is in flight, and its
  error then appears at the next use of the handle; `sync_data` does not return it.
  `disk` of `PayloadStore` and `file` of `Worker` have the write done when it returns.
  `Worker` has writes that fail at once, `PayloadStore` has none.
* Repository: columns and their conversion; a row is taken back as it was saved.
* Torrents: the manifest of files, statistics, and what libtorrent does inside.
* Requests and builders, configuration, client and cookies, statistics and
  diagnostics, digests, parsing of headers, URLs and magnet links, command line and
  rendering: string work, I/O or foreign code without a state of its own that
  takes part in the ordering problems the models are about.

## 9. Plan

Done: all modules of section 2, and proofs of all their safety properties with the
refinement of `AtomicStore`. Next:

1. `TaskRun`: a task with several workers and its listener (worker events out of
   order, pause during preparation, paused workers that are reused, cancel before
   the first poll), with its invariants proved.
2. The registry in `Coordinator`: adds that choose an id while others are inserted.
