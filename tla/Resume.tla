------------------------------- MODULE Resume -------------------------------
(***************************************************************************)
(* The bytes of one HTTP task through preparation, transfer, pause,        *)
(* resume, failure, crash and restore (src/job, src/recovery.rs,           *)
(* src/payload): the local file, the progress in memory and in the         *)
(* repository, and the origin that may change meanwhile.                   *)
(*                                                                         *)
(* The origin tells its size and answers range requests (the other origins *)
(* are in Worker).  The file is cut into Lanes * LaneLen blocks, a run of  *)
(* LaneLen for each worker; a block holds the version of the origin it     *)
(* came from, and 0 where set_len left a hole.  Versions have the same     *)
(* size.  One start or resume of the task is in progress at a time; its    *)
(* steps are the places where the process may die or another call may come *)
(* in.                                                                     *)
(***************************************************************************)
EXTENDS Naturals, Sequences

CONSTANTS
    Scenarios,     \* the tasks looked at: workers (lanes) and blocks of each (len); has
                   \* the task a checksum, of version 1 (checked); may a run start before
                   \* the one before has come to rest (overlap); may the origin send an
                   \* ETag or Last-Modified (validations); which troubles may happen,
                   \* and a bound on their number (budget)
    Strategies,    \* the values of config.file_conflict_strategy looked at
    MaxVersion,    \* bound: versions of the origin
    MaxEvents      \* bound: Complete events that wait for the listener

AllStrategies == {"Overwrite", "SkipIfValid", "Resume"}
AllTroubles == {"pause", "cancel", "probe", "worker", "crash", "remove", "truncate"}

ASSUME ResumeAssumption ==
    /\ Scenarios \subseteq
         [lanes : Nat \ {0}, len : Nat \ {0}, checked : BOOLEAN, overlap : BOOLEAN,
          validations : SUBSET BOOLEAN \ {{}}, troubles : SUBSET AllTroubles, budget : Nat]
    /\ Strategies \subseteq AllStrategies /\ Strategies # {}
    /\ MaxVersion \in Nat \ {0} /\ MaxEvents \in Nat

VARIABLES
    up,                      \* the process runs
    status,                  \* Task::status
    ident,                   \* Task::http_resource_identity: its validator, or 0
    blocks,                  \* Task::block_states: the completed ones
    progress,                \* Task::downloaded_size > 0
    manifest,                \* Task::manifest is there
    planned,                 \* Task::workers is not empty; then, for each worker:
    got, wst,                \*   downloaded_size in blocks, and status
    live, begin, body,       \*   its loop runs; start was spawned; version of the open body
    events,                  \* Complete events the listener has not handled
    verdict,                 \* finalize_download has checked the file and not yet told the task
    pc, prev,                \* step of Task::start; the identity it found
    exists, data,            \* the local file
    db,                      \* the task in the repository, with its rows
    origin, validated,       \* version the origin serves; does it send a validator?
    strategy,                \* config.file_conflict_strategy
    scenario,                \* the task looked at
    trouble,                 \* troubles left
    touched,                 \* history: the file was changed between a check of it and the
                             \* Completed that the check is for
    mixed                    \* history: a first request was answered with another version
                             \* than what is in the file or in another open body

task   == <<status, ident, blocks, progress, manifest>>
pool   == <<planned, got, wst, live, begin, body>>
start  == <<pc, prev>>
disk   == <<exists, data>>
env    == <<origin, validated, strategy, scenario>>
queue  == <<events, verdict>>
past   == <<touched, mixed>>
vars   == <<up, task, pool, queue, start, disk, db, env, trouble, past>>

Lanes == scenario.lanes
LaneLen == scenario.len
Checked == scenario.checked
Overlap == scenario.overlap

Workers == 1..Lanes
Size == Lanes * LaneLen
Blocks == 1..Size
Block(w, k) == (w - 1) * LaneLen + k
Expected == [b \in Blocks |-> 1]

\* The validator of a version.
Validator(version) == IF validated THEN version ELSE 0

\* HttpResourceIdentity::validator_changed
Changed(current, fresh) == current # 0 /\ fresh # current

\* Store::save_task: the task and all its rows at once.
Saved == [status |-> status', ident |-> ident', blocks |-> blocks', progress |-> progress',
          planned |-> planned', got |-> got', wst |-> wst']

Fresh == [w \in Workers |-> 0]
NoWorkers ==
    /\ planned' = FALSE
    /\ got' = Fresh /\ body' = Fresh
    /\ wst' = [w \in Workers |-> "Pending"]
    /\ live' = [w \in Workers |-> FALSE] /\ begin' = live'

\* Blocks that the workers have covered (mark_completed_blocks).
Covered == {b \in Blocks : planned /\ \E w \in Workers : \E k \in 1..got[w] : b = Block(w, k)}

Downloaded == planned /\ \E w \in Workers : got[w] > 0

\* sync_piece_progress_from_workers
Sync == blocks' = blocks \cup Covered /\ progress' = Downloaded

\* Worker::cancel of every worker
CancelWorkers ==
    /\ wst' = [w \in Workers |-> IF planned THEN "Canceled" ELSE wst[w]]
    /\ live' = [w \in Workers |-> FALSE]
    /\ body' = Fresh
    /\ UNCHANGED <<planned, got, begin>>

Happens(kind) == kind \in scenario.troubles /\ trouble > 0 /\ trouble' = trouble - 1

Active(w) == up /\ planned /\ live[w] /\ wst[w] = "Running"

\* Nothing of an earlier run is under way: no worker, no spawned start, no event.
AtRest == events = 0 /\ verdict = "none" /\ \A w \in Workers : ~begin[w] /\ ~Active(w)

\* A step that changes the file between a check and its result.
Touches == touched' = (touched \/ ((verdict # "none" \/ pc = "finish") /\ disk' # disk))

(***************************************************************************)
(* Task::resume and Task::start.                                           *)
(***************************************************************************)

\* Task::resume of a paused task: it is saved as Pending and started.
Resume ==
    /\ up /\ pc = "idle" /\ status = "Paused"
    /\ Overlap \/ AtRest
    /\ status' = "Pending"
    /\ pc' = "start"
    /\ UNCHANGED <<up, ident, blocks, progress, manifest, pool, queue, prev, disk, env, trouble, past>>
    /\ db' = Saved

\* prepare_for_start; a canceled or failed task is reset: workers and their rows,
\* manifest, progress and file.
Start ==
    /\ up /\ pc \in {"idle", "start"}
    /\ Overlap \/ AtRest
    /\ \/ /\ status \in {"Pending", "Paused"}
          /\ pc' = "preparing"
          /\ UNCHANGED <<task, pool, disk, db, past>>
       \/ /\ status \in {"Canceled", "Failed"}
          /\ NoWorkers
          /\ db' = [db EXCEPT !.planned = FALSE]
          /\ blocks' = {} /\ progress' = FALSE /\ manifest' = FALSE
          /\ exists' = FALSE /\ data' = <<>>
          /\ Touches /\ mixed' = FALSE
          /\ pc' = "preparing"
          /\ UNCHANGED <<status, ident>>
       \/ /\ status = "Completed" /\ pc = "start"
          /\ pc' = "idle"
          /\ UNCHANGED <<task, pool, disk, db, past>>
    /\ UNCHANGED <<up, queue, prev, env, trouble>>

Preparing ==
    /\ up /\ pc = "preparing"
    /\ status' = "Preparing"
    /\ pc' = "probe"
    /\ UNCHANGED <<up, ident, blocks, progress, manifest, pool, queue, prev, disk, env, trouble, past>>
    /\ db' = Saved

\* prepare_download up to install_manifest, which keeps the block states it finds;
\* when the probe fails the start returns and leaves the task Preparing.
Probe ==
    /\ up /\ pc = "probe"
    /\ \/ /\ prev' = ident
          /\ ident' = Validator(origin)
          /\ manifest' = TRUE
          /\ pc' = "existing"
          /\ UNCHANGED trouble
       \/ Happens("probe") /\ pc' = "idle" /\ UNCHANGED <<prev, ident, manifest>>
    /\ UNCHANGED <<up, status, blocks, progress, pool, queue, disk, db, env, past>>

\* Mutated form of ExistingIsValid: no validator has to be stored.
ExistingUnproved ==
    IF Checked THEN data = Expected
    ELSE Len(data) = Size /\ ~Changed(prev, ident)

\* verify_existing_file: the checksum, or the size and the validator.
ExistingIsValid ==
    IF Checked THEN data = Expected
    ELSE Len(data) = Size /\ prev # 0 /\ ~Changed(prev, ident)

\* can_resume_partial_download
CanResume == prev # 0 /\ ~Changed(prev, ident) /\ planned

\* handle_existing_file: what becomes of the local file.
Decision ==
    CASE ~exists -> IF progress \/ planned THEN "reset" ELSE "keep"
      [] exists /\ (Changed(prev, ident) \/ Len(data) > Size \/ strategy = "Overwrite") -> "discard"
      [] OTHER -> IF strategy = "Resume" /\ Len(data) < Size
                  THEN IF CanResume THEN "keep" ELSE "discard"
                  ELSE IF ExistingIsValid THEN "finish" ELSE "discard"

\* finish_job, after the file was synced: on success all blocks are completed, and the
\* outcome is saved.
FinishJob(success) ==
    /\ status' = IF success THEN "Completed" ELSE "Failed"
    /\ blocks' = IF success /\ manifest THEN Blocks ELSE blocks
    /\ progress' = (progress \/ (success /\ manifest))
    /\ UNCHANGED <<ident, manifest, pool>>
    /\ db' = Saved

Existing ==
    /\ up /\ pc = "existing"
    /\ \/ /\ Decision = "finish"
          /\ pc' = "finish"
          /\ UNCHANGED <<disk, touched>>
       \/ /\ Decision = "discard"
          /\ exists' = FALSE /\ data' = <<>>
          /\ Touches
          /\ pc' = "reset"
       \/ /\ Decision \in {"reset", "keep"}
          /\ pc' = IF Decision = "reset" THEN "reset" ELSE "open"
          /\ UNCHANGED <<disk, touched>>
    /\ UNCHANGED <<up, task, pool, queue, prev, db, env, trouble, mixed>>

\* finish_job of the file that was found, after it has synced the payload store; the
\* start returns.
Finish ==
    /\ up /\ pc = "finish"
    /\ FinishJob(TRUE)
    /\ pc' = "idle"
    /\ touched' = (touched /\ verdict # "none")
    /\ UNCHANGED <<up, queue, prev, disk, env, trouble, mixed>>

\* reset_resume_state: progress, workers and their rows.
Reset ==
    /\ up /\ pc = "reset"
    /\ blocks' = {} /\ progress' = FALSE
    /\ NoWorkers
    /\ db' = [db EXCEPT !.planned = FALSE]
    /\ pc' = "open"
    /\ mixed' = FALSE
    /\ UNCHANGED <<up, status, ident, manifest, queue, prev, disk, env, trouble, touched>>

\* PayloadStore::prepare opens or creates the file ...
Open ==
    /\ up /\ pc = "open"
    /\ Sync
    /\ exists' = TRUE
    /\ pc' = "set_len"
    /\ UNCHANGED <<up, status, ident, manifest, pool, queue, prev, data, db, env, trouble, mixed>>
    /\ Touches

\* ... and gives it its full size.
SetLen ==
    /\ up /\ pc = "set_len"
    /\ data' = [b \in Blocks |-> IF b <= Len(data) THEN data[b] ELSE 0]
    /\ pc' = "launch"
    /\ UNCHANGED <<up, task, pool, queue, prev, exists, db, env, trouble, mixed>>
    /\ Touches

Launch ==
    /\ up /\ pc = "launch"
    /\ status' = "Running"
    /\ pc' = "workers"
    /\ UNCHANGED <<up, ident, blocks, progress, manifest, pool, queue, prev, disk, env, trouble, past>>
    /\ db' = Saved

\* Mutated form of Seeded: the block that ends the count is counted too.
SeededInclusive(w) == 1 + CHOOSE n \in 0..LaneLen :
    /\ \A k \in 1..n : Block(w, k) \in blocks
    /\ n < LaneLen => Block(w, n + 1) \notin blocks

\* seeded_downloaded_from_block_states: the completed blocks at the worker's start.
Seeded(w) == CHOOSE n \in 0..LaneLen :
    /\ \A k \in 1..n : Block(w, k) \in blocks
    /\ n < LaneLen => Block(w, n + 1) \notin blocks

\* ensure_workers keeps the workers or creates and saves new ones; all are spawned.
EnsureWorkers ==
    /\ up /\ pc = "workers"
    /\ \/ planned /\ UNCHANGED <<planned, got, wst, live, body, db>>
       \/ /\ ~planned
          /\ planned' = TRUE
          /\ got' = [w \in Workers |-> Seeded(w)]
          /\ wst' = [w \in Workers |-> "Pending"]
          /\ live' = [w \in Workers |-> FALSE]
          /\ body' = Fresh
          /\ db' = [db EXCEPT !.planned = TRUE, !.got = got', !.wst = wst']
    /\ begin' = [w \in Workers |-> TRUE]
    /\ pc' = "idle"
    /\ UNCHANGED <<up, task, queue, prev, disk, env, trouble, past>>

(***************************************************************************)
(* The workers and the listener of their events.                           *)
(***************************************************************************)

\* stop_workers_and_fail
StopAndFail == status' = "Failed" /\ CancelWorkers

\* Worker::start: nothing if its loop runs or the worker is done; an error if it
\* was canceled; else it runs, even if it was paused meanwhile.
Begin(w) ==
    /\ up /\ planned /\ begin[w]
    /\ \/ /\ live[w] \/ wst[w] = "Completed"
          /\ begin' = [begin EXCEPT ![w] = FALSE]
          /\ UNCHANGED <<status, planned, got, wst, live, body>>
       \/ /\ ~live[w] /\ wst[w] = "Canceled"
          /\ status' = "Failed"
          /\ begin' = [begin EXCEPT ![w] = FALSE]
          /\ wst' = [v \in Workers |-> "Canceled"]
          /\ live' = [v \in Workers |-> FALSE]
          /\ body' = Fresh
          /\ UNCHANGED <<planned, got>>
       \/ /\ ~live[w] /\ wst[w] \notin {"Completed", "Canceled"}
          /\ begin' = [begin EXCEPT ![w] = FALSE]
          /\ wst' = [wst EXCEPT ![w] = "Running"]
          /\ live' = [live EXCEPT ![w] = TRUE]
          /\ UNCHANGED <<status, planned, got, body>>
    /\ UNCHANGED <<up, ident, blocks, progress, manifest, queue, start, disk, db, env, trouble, past>>

\* Mutated form of Answered: no If-Range is sent.
AnsweredAlways(w) == w \in Workers

\* build_request and validate_response: If-Range goes only with a request behind
\* the start of the range, and only if there is a validator.
Answered(w) == got[w] = 0 \/ ~Changed(ident, Validator(origin))

\* Bytes of another version are in the file or in an open body.
Others(w, version) ==
    \/ \E i \in 1..Len(data) : data[i] \notin {0, version}
    \/ \E v \in Workers \ {w} : body[v] \notin {0, version}

Request(w) ==
    /\ Active(w) /\ got[w] < LaneLen /\ body[w] = 0
    /\ Answered(w)
    /\ body' = [body EXCEPT ![w] = origin]
    /\ mixed' = (mixed \/ (got[w] = 0 /\ Others(w, origin)))
    /\ UNCHANGED <<up, task, planned, got, wst, live, begin, queue, start, disk, db, env, trouble, touched>>

\* PayloadStore::write_at; the file grows when it was truncated.
WriteAt(b, version) ==
    [i \in 1..(IF b > Len(data) THEN b ELSE Len(data)) |->
        IF i = b THEN version ELSE IF i <= Len(data) THEN data[i] ELSE 0]

\* A block of the body is written, to the file that was opened for it even if that
\* was removed, and counted.
Write(w) ==
    /\ Active(w) /\ got[w] < LaneLen /\ body[w] # 0
    /\ data' = IF exists THEN WriteAt(Block(w, got[w] + 1), body[w]) ELSE data
    /\ got' = [got EXCEPT ![w] = @ + 1]
    /\ UNCHANGED <<up, task, planned, wst, live, begin, body, queue, start, exists, db, env, trouble, mixed>>
    /\ Touches

\* The connection breaks and the worker asks again.
Break(w) ==
    /\ Active(w) /\ got[w] < LaneLen /\ body[w] # 0
    /\ body' = [body EXCEPT ![w] = 0]
    /\ UNCHANGED <<up, task, planned, got, wst, live, begin, queue, start, disk, db, env, trouble, past>>

\* A worker whose retries are used up fails the task; so does an origin that no
\* longer honours If-Range.
Fail(w) ==
    /\ Active(w) /\ got[w] < LaneLen
    /\ \/ Happens("worker")
       \/ ~Answered(w) /\ body[w] = 0 /\ UNCHANGED trouble
    /\ StopAndFail
    /\ UNCHANGED <<up, ident, blocks, progress, manifest, queue, start, disk, db, env, past>>

\* finish_success
Complete(w) ==
    /\ Active(w) /\ got[w] = LaneLen
    /\ wst' = [wst EXCEPT ![w] = "Completed"]
    /\ live' = [live EXCEPT ![w] = FALSE]
    /\ body' = [body EXCEPT ![w] = 0]
    /\ events < MaxEvents /\ events' = events + 1
    /\ UNCHANGED <<up, task, planned, got, begin, verdict, start, disk, db, env, trouble, past>>

\* persist_task_worker
SaveRow(w) ==
    /\ up /\ planned
    /\ db' = [db EXCEPT !.got[w] = got[w], !.wst[w] = wst[w]]
    /\ UNCHANGED <<up, task, pool, queue, start, disk, env, trouble, past>>

\* handle_worker_progress and handle_worker_pause; the listener handles one event at a time.
Progress ==
    /\ up /\ manifest /\ planned /\ verdict = "none"
    /\ Sync
    /\ UNCHANGED <<up, status, ident, manifest, pool, queue, start, disk, db, env, trouble, past>>

\* Mutated form of Verified: the size stands in for the checksum.
VerifiedBySize == exists /\ Len(data) = Size

\* finalize_download: without a checksum every file is good.
Verified == Checked => (exists /\ data = Expected)

\* handle_worker_complete: the progress is brought up to date; when all workers are
\* completed, which holds of no worker too, the file is checked.
HandleComplete ==
    /\ up /\ events > 0 /\ verdict = "none"
    /\ events' = events - 1
    /\ IF manifest THEN Sync ELSE UNCHANGED <<blocks, progress>>
    /\ verdict' = IF planned => \A w \in Workers : wst[w] = "Completed"
                  THEN IF Verified THEN "good" ELSE "bad"
                  ELSE "none"
    /\ UNCHANGED <<up, status, ident, manifest, pool, start, disk, db, env, trouble, past>>

\* finish_job of the check's outcome, after the file was synced: whatever came between.
Finalize ==
    /\ up /\ verdict # "none"
    /\ FinishJob(verdict = "good")
    /\ verdict' = "none"
    /\ touched' = (touched /\ pc = "finish")
    /\ UNCHANGED <<up, events, start, disk, env, trouble, mixed>>

\* The manager's event loop saves the task after progress and terminal events.
Persist ==
    /\ up
    /\ UNCHANGED <<up, task, pool, queue, start, disk, env, trouble, past>>
    /\ db' = Saved

(***************************************************************************)
(* Pause and cancel, crash and restore, and what others do.                *)
(***************************************************************************)
Pause ==
    /\ up /\ status \in {"Running", "Preparing"}
    /\ Happens("pause")
    /\ status' = "Paused"
    /\ wst' = [w \in Workers |-> IF planned /\ wst[w] \in {"Pending", "Running"} THEN "Paused" ELSE wst[w]]
    /\ UNCHANGED <<up, ident, blocks, progress, manifest, planned, got, live, begin, body, queue,
                   start, disk, env, past>>
    /\ db' = Saved

Cancel ==
    /\ up /\ status \in {"Pending", "Preparing", "Running", "Paused"}
    /\ Happens("cancel")
    /\ status' = "Canceled"
    /\ CancelWorkers
    /\ UNCHANGED <<up, ident, blocks, progress, manifest, queue, start, disk, env, past>>
    /\ db' = Saved

\* The process dies: the file and the repository are what is left.
Crash ==
    /\ up /\ Happens("crash")
    /\ up' = FALSE
    /\ status' = "Pending" /\ ident' = 0 /\ blocks' = {} /\ progress' = FALSE /\ manifest' = FALSE
    /\ NoWorkers
    /\ events' = 0 /\ verdict' = "none" /\ pc' = "idle" /\ prev' = 0
    /\ touched' = FALSE
    /\ UNCHANGED <<disk, db, env, mixed>>

\* is_usable_for_completed
Usable == exists /\ Len(data) = Size

\* build_restore_plan, add_task_with_workers and Task::init.
Restore ==
    LET normal == IF db.status \in {"Running", "Preparing"} THEN "Paused" ELSE db.status
        kept   == IF normal = "Completed" /\ ~Usable THEN "Pending" ELSE normal
        rows   == kept = "Paused" /\ exists /\ db.planned
        pieces == db.blocks # {}
    IN /\ ~up /\ up' = TRUE
       /\ status' = IF kept = "Paused" /\ ~rows /\ ~pieces THEN "Pending" ELSE kept
       /\ ident' = db.ident
       /\ blocks' = db.blocks
       /\ progress' = IF rows THEN \E w \in Workers : db.got[w] > 0
                      ELSE db.progress /\ exists /\ (kept = "Completed" \/ pieces)
       /\ planned' = rows
       /\ got' = IF rows THEN db.got ELSE Fresh
       /\ wst' = [w \in Workers |-> IF ~rows THEN "Pending"
                                    ELSE IF db.wst[w] = "Running" THEN "Paused" ELSE db.wst[w]]
       /\ UNCHANGED <<manifest, live, begin, body, queue, start, disk, env, trouble, past>>
       /\ db' = Saved

\* The origin serves another version.
OriginChanges ==
    /\ origin < MaxVersion
    /\ origin' = origin + 1
    /\ UNCHANGED <<up, task, pool, queue, start, disk, db, validated, strategy, scenario, trouble, past>>

Quiet ==
    /\ pc = "idle"
    /\ up => status \notin {"Running", "Preparing"} /\ AtRest

\* Somebody removes or truncates the file of a task that does not run.
Meddle ==
    /\ Quiet /\ exists
    /\ \/ Happens("remove") /\ exists' = FALSE /\ data' = <<>>
       \/ /\ Happens("truncate")
          /\ \E n \in 0..(Len(data) - 1) : data' = SubSeq(data, 1, n)
          /\ UNCHANGED exists
    /\ UNCHANGED <<up, task, pool, queue, start, db, env, past>>

(***************************************************************************)
(* The specification.                                                      *)
(***************************************************************************)

\* A new task; in its place may be a file of other bytes (0), shorter, as long or
\* longer, or the very download.
Init ==
    /\ scenario \in Scenarios
    /\ up = TRUE
    /\ status = "Pending" /\ ident = 0 /\ blocks = {} /\ progress = FALSE /\ manifest = FALSE
    /\ planned = FALSE
    /\ got = Fresh /\ body = Fresh
    /\ wst = [w \in Workers |-> "Pending"]
    /\ live = [w \in Workers |-> FALSE] /\ begin = live
    /\ events = 0 /\ verdict = "none" /\ pc = "idle" /\ prev = 0
    /\ exists \in BOOLEAN
    /\ data \in IF exists THEN {[b \in 1..n |-> 0] : n \in {0, Size, Size + 1}} \cup {Expected} ELSE {<<>>}
    /\ db = [status |-> status, ident |-> ident, blocks |-> blocks, progress |-> progress,
             planned |-> planned, got |-> got, wst |-> wst]
    /\ origin = 1 /\ validated \in scenario.validations
    /\ strategy \in Strategies
    /\ trouble = scenario.budget
    /\ touched = FALSE /\ mixed = FALSE

WorkerStep(w) ==
    Begin(w) \/ Request(w) \/ Write(w) \/ Break(w) \/ Fail(w) \/ Complete(w) \/ SaveRow(w)

Next ==
    \/ Resume \/ Start \/ Preparing \/ Probe \/ Existing \/ Finish \/ Reset \/ Open \/ SetLen
    \/ Launch \/ EnsureWorkers
    \/ \E w \in Workers : WorkerStep(w)
    \/ Progress \/ HandleComplete \/ Finalize \/ Persist
    \/ Pause \/ Cancel \/ Crash \/ Restore \/ OriginChanges \/ Meddle

Spec == Init /\ [][Next]_vars

-----------------------------------------------------------------------------
(***************************************************************************)
(* Properties.                                                             *)
(***************************************************************************)
Statuses == {"Pending", "Preparing", "Running", "Paused", "Completed", "Failed", "Canceled"}

\* The range of every variable.
TypeOK ==
    /\ {up, progress, manifest, planned, exists, touched, mixed} \subseteq BOOLEAN
    /\ verdict \in {"none", "good", "bad"}
    /\ status \in Statuses
    /\ {ident, prev} \subseteq 0..MaxVersion /\ origin \in 1..MaxVersion
    /\ blocks \subseteq Blocks
    /\ got \in [Workers -> 0..LaneLen]
    /\ wst \in [Workers -> Statuses]
    /\ live \in [Workers -> BOOLEAN] /\ begin \in [Workers -> BOOLEAN]
    /\ body \in [Workers -> 0..MaxVersion]
    /\ events \in Nat /\ trouble \in Nat
    /\ pc \in {"idle", "start", "preparing", "probe", "existing", "finish", "reset", "open",
               "set_len", "launch", "workers"}
    /\ data \in Seq(0..MaxVersion)
    /\ strategy \in Strategies /\ validated \in BOOLEAN /\ scenario \in Scenarios
    /\ db \in [status : Statuses, ident : 0..MaxVersion, blocks : SUBSET Blocks,
               progress : BOOLEAN, planned : BOOLEAN, got : [Workers -> 0..LaneLen],
               wst : [Workers -> Statuses]]

Completes == status # "Completed" /\ status' = "Completed"

\* Between the check of the file and Completed the code waits for the disk.  A task that
\* is started again meanwhile, before its last run has come to rest, may replace the file
\* in that gap; these steps are exempt.
Undisturbed == Overlap => ~touched

\* A task with a checksum becomes Completed only with the bytes the checksum is of,
\* whatever was paused, lost, changed or restored before (verify_checksums,
\* verify_existing_file), unless a run that overlaps replaced the file after the check.
CompletesAsExpected ==
    [][Completes /\ Checked /\ Undisturbed => exists' /\ data' = Expected]_vars

WholeFile == exists' /\ Len(data') = Size /\ \A b \in Blocks : data'[b] # 0

\* Whatever becomes Completed has every byte from the origin: no hole that set_len
\* left is handed over as a download.
CompletesWithoutHoles == [][Completes => WholeFile]_vars

\* The same of a task whose origin sends no validator: its file is never trusted for
\* its size, so that what becomes Completed was written by its workers
\* (verify_existing_file, can_resume_partial_download).
UnvalidatedIsDownloaded == [][Completes /\ ~validated /\ Undisturbed => WholeFile]_vars

\* No bytes of two versions of the origin.
SingleVersion == \A a, b \in 1..Len(data') : 0 \notin {data'[a], data'[b]} => data'[a] = data'[b]

\* When the validator changes the download starts again, so that a Completed file is of
\* one version of the origin, not half old and half new.
CompletesInOneVersion == [][Completes /\ validated => SingleVersion]_vars

\* What the code keeps of this: a request that continues a range carries If-Range
\* (build_request, validator_changed), so that with a validator a Completed file is of
\* one version unless a first request of a worker, which carries none, has mixed them.
ContinuesInOneVersion ==
    [][Completes /\ validated /\ ~mixed /\ Undisturbed => SingleVersion]_vars
=============================================================================
