---------------------------- MODULE Coordinator ----------------------------
(***************************************************************************)
(* The coordinator of paradown (src/coordinator): the concurrency permits, *)
(* the pending queue, the task event loop and the public calls that start, *)
(* resume, pause, cancel and delete tasks while the loop runs.             *)
(*                                                                         *)
(* A process is a caller of the public API or the event loop.  Each step   *)
(* of a process is the code between two points where it can be overtaken:  *)
(* an await, or a lock taken or released.  spawn_next_task is called with  *)
(* the failed task's permit mutex still locked, and may fail and recurse;  *)
(* chain[p] is the stack of the mutexes process p holds that way.          *)
(*                                                                         *)
(* A task is what the coordinator sees of it: its status, the workers that *)
(* are installed (live), and the worker events and join results of earlier *)
(* runs that its listener has still to handle (late).                      *)
(* Tasks are HTTP downloads here; the torrent branches are not part of     *)
(* this module.  The semaphore's permits are values, so that one can say   *)
(* where each of them is.                                                  *)
(***************************************************************************)
EXTENDS Naturals, Sequences, FiniteSets, SequencesExt

CONSTANTS
    Tasks,      \* task identifiers, all registered at the start
    Clients,    \* concurrent callers of the public API
    Loop,       \* the task event loop (spawn_task_event_loop)
    Permits,    \* the permits of Manager::semaphore (config.concurrent_tasks)
    NoPermit,   \* no permit: Option::None
    Capacity,   \* capacity of the task event channel, in events the loop acts on
    Ops,        \* the public operations the callers use
    MaxCalls,   \* bound: public calls for each task
    Faults      \* may the store, the file system or worker planning fail?

Procs == Clients \cup {Loop}

Statuses == {"Pending", "Preparing", "Running", "Paused",
             "Completed", "Canceled", "Failed", "Deleted"}

\* Status::is_terminal
Terminal == {"Completed", "Canceled", "Failed", "Deleted"}

\* PendingAction; Retry is declared in the code but nothing queues it.
Actions == {"Start", "Resume"}

\* The events of the channel that the loop acts on.
EventKinds == {"Complete", "Cancel", "Error", "Pause", "Delete"}
Events == EventKinds \X Tasks

AllOps == Actions \cup {"Pause", "Cancel", "Delete",
                        "PauseAll", "ResumeAll", "CancelAll", "DeleteAll"}

ASSUME ConstantsAssumption ==
    /\ Loop \notin Clients
    /\ NoPermit \notin Permits
    /\ IsFiniteSet(Permits) /\ Permits # {}
    /\ Capacity \in Nat \ {0}
    /\ MaxCalls \in [Tasks -> Nat]
    /\ Ops \subseteq AllOps
    /\ Faults \in BOOLEAN

VARIABLES
    known,      \* keys of Manager::tasks
    status,     \* Task::status
    live,       \* the installed workers: none, running, or told to stop
    late,       \* worker events and join results of stopped runs, not yet handled
    free,       \* permits left in the semaphore
    slot,       \* Task::permit
    queue,      \* Manager::pending_queue
    events,     \* events sent and not yet received by the loop
    pc, cur,    \* the step and the task (and action) of each process
    inHand,     \* the permit local to run_task_transition
    chain,      \* tasks whose permit mutex the process holds, innermost last
    sweep,      \* tasks a pause_all, cancel_all or delete_all has still to visit
    mode,       \* the kind of call the process is in: see Modes
    calls       \* public calls left for each task

taskVars   == <<known, status, live, late>>
permitVars == <<free, slot, inHand>>
procVars   == <<cur, chain, sweep, mode>>
vars == <<taskVars, permitVars, queue, events, pc, procVars, calls>>

(***************************************************************************)
(* Helpers.                                                                *)
(***************************************************************************)
\* The permit mutex of t is locked across spawn_next_task by the processes
\* whose chain holds t; every other use locks and unlocks it in one step.
LockFree(t) == \A p \in Procs : t \notin Range(chain[p])

\* Mutated forms of Returned: a permit is forgotten instead of dropped; an empty
\* slot gives a permit back.
NothingReturned(x) == {}
AlwaysReturned(x) == {x}

\* The worker events and join results a run may leave behind when it is stopped.
LateKinds == {"cancel", "complete", "join"}

\* Worker::cancel or Worker::delete on every installed worker: nothing is told
\* to workers that do not run.
StopWorkers(t, kinds) ==
    /\ live' = [live EXCEPT ![t] = IF @ = "running" THEN "stopped" ELSE @]
    /\ late' = IF live[t] = "running" THEN late \cup (kinds \X {t}) ELSE late

\* clear_task_workers: the list is emptied, workers that run go on unseen.
ForgetWorkers(t) ==
    /\ live' = [live EXCEPT ![t] = "none"]
    /\ late' = IF live[t] = "running" THEN late \cup ({"complete", "join"} \X {t}) ELSE late

\* What dropping the permit in a slot or a local gives back to the semaphore.
Returned(x) == {x} \ {NoPermit}

At(p, label) == pc[p] = label
Goto(p, label) == pc' = [pc EXCEPT ![p] = label]

\* broadcast::Sender::send: the oldest event is lost to a receiver that lags
\* by more than the capacity.
Emit(kind, t) ==
    events' = Append(IF Len(events) < Capacity THEN events ELSE Tail(events),
                     <<kind, t>>)

\* Steps of run_task_transition that run with the DashMap reference to the
\* task (task_ref) alive, which tasks.remove and tasks.clear wait for.
TransitionSteps == {"resume", "start", "preparing", "probe", "spawn",
                    "store", "fail", "clear"}
RefHeld(t) ==
    \E p \in Procs : \/ t \in Range(chain[p])
                     \/ /\ cur[p][1] = t
                        /\ \/ pc[p] \in TransitionSteps
                           \/ /\ pc[p] \in {"pause", "pausing", "cancel", "canceling"}
                              /\ mode[p] = "single"

\* A process serves one task; or is one of the concurrent resumes of
\* resume_all; or visits the tasks of a pause_all, cancel_all or delete_all.
Modes == {"single", "resume_all", "sweep"}

(***************************************************************************)
(* run_task_transition, called by start_task, resume_task and              *)
(* spawn_next_task.                                                        *)
(***************************************************************************)

\* Mutated form of Acquire: available_permits is looked at, no permit is taken.
AcquireByLooking(p) ==
    /\ At(p, "acquire")
    /\ \E x \in Permits :
         /\ inHand' = [inHand EXCEPT ![p] = IF free = {} THEN NoPermit ELSE x]
         /\ Goto(p, IF free = {} THEN "enqueue" ELSE "lookup")
    /\ UNCHANGED <<taskVars, free, slot, queue, events, procVars, calls>>

\* try_acquire_owned
Acquire(p) ==
    /\ At(p, "acquire")
    /\ \/ \E x \in free :
            /\ free' = free \ {x}
            /\ inHand' = [inHand EXCEPT ![p] = x]
            /\ Goto(p, "lookup")
       \/ /\ free = {}
          /\ Goto(p, "enqueue")
          /\ UNCHANGED <<free, inHand>>
    /\ UNCHANGED <<taskVars, slot, queue, events, procVars, calls>>

\* Mutated form of Enqueue: no look for an entry that is already there.
EnqueueAlways(p) ==
    /\ At(p, "enqueue")
    /\ queue' = Append(queue, cur[p])
    /\ Goto(p, IF chain[p] = <<>> THEN "done" ELSE "unwind")
    /\ UNCHANGED <<taskVars, permitVars, events, procVars, calls>>

\* enqueue_task_action, under the queue's own lock; the call returns Ok.
Enqueue(p) ==
    /\ At(p, "enqueue")
    /\ queue' = IF cur[p] \in Range(queue) THEN queue ELSE Append(queue, cur[p])
    /\ Goto(p, IF chain[p] = <<>> THEN "done" ELSE "unwind")
    /\ UNCHANGED <<taskVars, permitVars, events, procVars, calls>>

\* tasks.get(&task_id): an unknown task drops the permit and calls nobody.
Lookup(p) ==
    /\ At(p, "lookup")
    /\ IF cur[p][1] \in known
       THEN /\ Goto(p, IF cur[p][2] = "Resume" THEN "resume" ELSE "start")
            /\ UNCHANGED <<free, inHand>>
       ELSE /\ free' = free \cup Returned(inHand[p])
            /\ inHand' = [inHand EXCEPT ![p] = NoPermit]
            /\ Goto(p, IF chain[p] = <<>> THEN "failed" ELSE "unwind")
    /\ UNCHANGED <<taskVars, slot, queue, events, procVars, calls>>

\* Task::resume
ResumeOp(p) ==
    LET t == cur[p][1] IN
    /\ At(p, "resume")
    /\ \/ /\ status[t] \in {"Pending", "Running"}
          /\ Goto(p, "start")
          /\ UNCHANGED status
       \/ /\ status[t] = "Paused"
          /\ status' = [status EXCEPT ![t] = "Pending"]
          /\ \/ Goto(p, "start")
             \/ Faults /\ Goto(p, "fail")
       \/ /\ status[t] \in Terminal \cup {"Preparing"}
          /\ Goto(p, "fail")
          /\ UNCHANGED status
    /\ UNCHANGED <<known, live, late, permitVars, queue, events, procVars, calls>>

\* Task::prepare_for_start: the status is read and its lock released, not set;
\* reset_task clears the workers of a canceled or failed task, its rows and file.
CheckStart(p) ==
    LET t == cur[p][1] IN
    /\ At(p, "start")
    /\ \/ /\ status[t] \in {"Pending", "Paused"}
          /\ Goto(p, "preparing")
          /\ UNCHANGED <<live, late>>
       \/ /\ status[t] \in {"Canceled", "Failed"}
          /\ ForgetWorkers(t)
          /\ \/ Goto(p, "preparing")
             \/ Faults /\ Goto(p, "fail")
       \/ /\ status[t] \in {"Preparing", "Running", "Completed", "Deleted"}
          /\ Goto(p, "fail")
          /\ UNCHANGED <<live, late>>
    /\ UNCHANGED <<known, status, permitVars, queue, events, procVars, calls>>

\* Task::start sets Preparing and saves the task.
Preparing(p) ==
    LET t == cur[p][1] IN
    /\ At(p, "preparing")
    /\ status' = [status EXCEPT ![t] = "Preparing"]
    /\ \/ Goto(p, "probe")
       \/ Faults /\ Goto(p, "fail")
    /\ UNCHANGED <<known, live, late, permitVars, queue, events, procVars, calls>>

\* prepare_download: the origin does not answer, or the local file settles the
\* task at once (finish_job with either outcome), or it is ready to transfer; the
\* workers of an earlier run are kept, or forgotten when it starts from scratch.
\* The status is overwritten whatever it became meanwhile.
Probe(p) ==
    LET t == cur[p][1] IN
    /\ At(p, "probe")
    /\ \/ Goto(p, "fail") /\ UNCHANGED <<status, events>>
       \/ \E end \in {<<"Completed", "Complete">>, <<"Failed", "Error">>} :
            /\ status' = [status EXCEPT ![t] = end[1]]
            /\ \/ Emit(end[2], t) /\ Goto(p, "store")
               \/ Faults /\ Goto(p, "fail") /\ UNCHANGED events
       \/ /\ status' = [status EXCEPT ![t] = "Running"]
          /\ Goto(p, "spawn")
          /\ UNCHANGED events
    /\ ForgetWorkers(t) \/ UNCHANGED <<live, late>>
    /\ UNCHANGED <<known, permitVars, queue, procVars, calls>>

\* Task::start saves the Running task, ensures its workers and spawns them; a
\* failure leaves no workers or, when saving failed, the ones there were.
Spawn(p) ==
    LET t == cur[p][1] IN
    /\ At(p, "spawn")
    /\ \/ live' = [live EXCEPT ![t] = "running"] /\ Goto(p, "store") /\ UNCHANGED late
       \/ Faults /\ Goto(p, "fail") /\ (ForgetWorkers(t) \/ UNCHANGED <<live, late>>)
    /\ UNCHANGED <<known, status, permitVars, queue, events, procVars, calls>>

\* The operation succeeded: only now the permit goes into the task, and a
\* permit that was there is dropped.
Store(p) ==
    LET t == cur[p][1] IN
    /\ At(p, "store")
    /\ LockFree(t)
    /\ free' = free \cup Returned(slot[t])
    /\ slot' = [slot EXCEPT ![t] = inHand[p]]
    /\ inHand' = [inHand EXCEPT ![p] = NoPermit]
    /\ Goto(p, IF chain[p] = <<>> THEN "done" ELSE "unwind")
    /\ UNCHANGED <<taskVars, queue, events, procVars, calls>>

\* The operation failed: drop(permit) ...
Fail(p) ==
    /\ At(p, "fail")
    /\ free' = free \cup Returned(inHand[p])
    /\ inHand' = [inHand EXCEPT ![p] = NoPermit]
    /\ Goto(p, "clear")
    /\ UNCHANGED <<taskVars, slot, queue, events, procVars, calls>>

\* Mutated form of Clear: the failed task is queued again before the next task
\* is spawned.
ClearAndRequeue(p) ==
    LET t == cur[p][1] IN
    /\ At(p, "clear")
    /\ LockFree(t)
    /\ free' = free \cup Returned(slot[t])
    /\ slot' = [slot EXCEPT ![t] = NoPermit]
    /\ chain' = [chain EXCEPT ![p] = Append(@, t)]
    /\ queue' = Append(queue, cur[p])
    /\ Goto(p, "next")
    /\ UNCHANGED <<taskVars, inHand, events, cur, sweep, mode, calls>>

\* ... then lock the task's permit, clear it, and call spawn_next_task with the
\* mutex guard still in scope.
Clear(p) ==
    LET t == cur[p][1] IN
    /\ At(p, "clear")
    /\ LockFree(t)
    /\ free' = free \cup Returned(slot[t])
    /\ slot' = [slot EXCEPT ![t] = NoPermit]
    /\ chain' = [chain EXCEPT ![p] = Append(@, t)]
    /\ Goto(p, "next")
    /\ UNCHANGED <<taskVars, inHand, queue, events, cur, sweep, mode, calls>>

\* Mutated form of SpawnNext: the next task takes over the permit it assumes was
\* just released, without acquiring one.
SpawnNextDirectly(p) ==
    /\ At(p, "next")
    /\ \/ /\ queue # <<>>
          /\ cur' = [cur EXCEPT ![p] = Head(queue)]
          /\ queue' = Tail(queue)
          /\ Goto(p, "lookup")
       \/ /\ queue = <<>>
          /\ Goto(p, IF chain[p] = <<>> THEN "done" ELSE "unwind")
          /\ UNCHANGED <<queue, cur>>
    /\ UNCHANGED <<taskVars, permitVars, events, chain, sweep, mode, calls>>

\* spawn_next_task
SpawnNext(p) ==
    /\ At(p, "next")
    /\ \/ /\ queue # <<>>
          /\ cur' = [cur EXCEPT ![p] = Head(queue)]
          /\ queue' = Tail(queue)
          /\ Goto(p, "acquire")
       \/ /\ queue = <<>>
          /\ Goto(p, IF chain[p] = <<>> THEN "done" ELSE "unwind")
          /\ UNCHANGED <<queue, cur>>
    /\ UNCHANGED <<taskVars, permitVars, events, chain, sweep, mode, calls>>

\* A failed run_task_transition returns: its guards are dropped, innermost first.
Unwind(p) ==
    /\ At(p, "unwind")
    /\ chain' = [chain EXCEPT ![p] = Front(@)]
    /\ Goto(p, IF Len(chain[p]) = 1 THEN "failed" ELSE "unwind")
    /\ UNCHANGED <<taskVars, permitVars, queue, events, cur, sweep, mode, calls>>

\* The outermost call of the process returned.  resume_all logs its error and
\* calls spawn_next_task; a spawn_next_task of the loop ends the handler.
Return(p) ==
    /\ pc[p] \in {"done", "failed"}
    /\ \/ /\ At(p, "failed") /\ mode[p] = "resume_all"
          /\ Goto(p, "next")
       \/ /\ ~(At(p, "failed") /\ mode[p] = "resume_all")
          /\ Goto(p, IF mode[p] = "sweep" THEN "sweep" ELSE "idle")
    /\ mode' = [mode EXCEPT ![p] = IF @ = "sweep" THEN @ ELSE "single"]
    /\ UNCHANGED <<taskVars, permitVars, queue, events, cur, chain, sweep, calls>>

(***************************************************************************)
(* The public calls.                                                       *)
(***************************************************************************)
FirstStep(op) == [Start |-> "acquire", Resume |-> "acquire", Pause |-> "pause",
                  Cancel |-> "cancel", Delete |-> "delete"][op]

\* start_task, resume_task, pause_task, cancel_task, delete_task; start_all is
\* several concurrent callers of start_task.
Call(c, op, t) ==
    /\ At(c, "idle")
    /\ op \in Ops \cap {"Start", "Resume", "Pause", "Cancel", "Delete"}
    /\ calls[t] > 0 /\ calls' = [calls EXCEPT ![t] = @ - 1]
    /\ op \in Actions \/ t \in known
    /\ cur' = [cur EXCEPT ![c] = <<t, op>>]
    /\ Goto(c, FirstStep(op))
    /\ UNCHANGED <<taskVars, permitVars, queue, events, chain, sweep, mode>>

\* One of the concurrent resumes of resume_all.
CallResumeAll(c, t) ==
    /\ At(c, "idle")
    /\ "ResumeAll" \in Ops
    /\ calls[t] > 0 /\ calls' = [calls EXCEPT ![t] = @ - 1]
    /\ t \in known
    /\ cur' = [cur EXCEPT ![c] = <<t, "Resume">>]
    /\ mode' = [mode EXCEPT ![c] = "resume_all"]
    /\ Goto(c, "acquire")
    /\ UNCHANGED <<taskVars, permitVars, queue, events, chain, sweep>>

\* pause_all, cancel_all, delete_all: clear_pending_queue, then every task.
CallAll(c, op) ==
    /\ At(c, "idle")
    /\ op \in {"Pause", "Cancel", "Delete"}
    /\ [Pause |-> "PauseAll", Cancel |-> "CancelAll", Delete |-> "DeleteAll"][op] \in Ops
    /\ known # {}
    /\ \A t \in known : calls[t] > 0
    /\ calls' = [t \in Tasks |-> IF t \in known THEN calls[t] - 1 ELSE calls[t]]
    /\ queue' = <<>>
    /\ sweep' = [sweep EXCEPT ![c] = known]
    /\ mode' = [mode EXCEPT ![c] = "sweep"]
    /\ cur' = [cur EXCEPT ![c] = <<@[1], op>>]
    /\ Goto(c, "sweep")
    /\ UNCHANGED <<taskVars, permitVars, events, chain>>

\* The next task of the sweep; delete_all ends with tasks.clear().
Sweep(p) ==
    /\ At(p, "sweep")
    /\ \/ \E t \in sweep[p] :
            /\ sweep' = [sweep EXCEPT ![p] = @ \ {t}]
            /\ cur' = [cur EXCEPT ![p] = <<t, @[2]>>]
            /\ Goto(p, FirstStep(cur[p][2]))
            /\ UNCHANGED <<known, mode>>
       \/ /\ sweep[p] = {}
          /\ \/ cur[p][2] # "Delete" /\ UNCHANGED known
             \/ /\ cur[p][2] = "Delete"
                /\ \A t \in known : ~RefHeld(t)
                /\ known' = {}
          /\ mode' = [mode EXCEPT ![p] = "single"]
          /\ Goto(p, "idle")
          /\ UNCHANGED <<sweep, cur>>
    /\ UNCHANGED <<status, live, late, permitVars, queue, events, chain, calls>>

\* Task::pause: the status under its lock ...
Pause(p) ==
    LET t == cur[p][1] IN
    /\ At(p, "pause")
    /\ \/ /\ status[t] \in {"Running", "Preparing"}
          /\ status' = [status EXCEPT ![t] = "Paused"]
          /\ Goto(p, "pausing")
       \/ /\ status[t] \notin {"Running", "Preparing"}
          /\ Goto(p, "done")
          /\ UNCHANGED status
    /\ UNCHANGED <<known, live, late, permitVars, queue, events, procVars, calls>>

\* ... then the workers, the save (whose error skips the event) and the event.
Pausing(p) ==
    /\ At(p, "pausing")
    /\ \/ Emit("Pause", cur[p][1])
       \/ Faults /\ UNCHANGED events
    /\ Goto(p, "done")
    /\ UNCHANGED <<taskVars, permitVars, queue, procVars, calls>>

\* Task::cancel, in the same two steps; the workers are told to stop.
Cancel(p) ==
    LET t == cur[p][1] IN
    /\ At(p, "cancel")
    /\ \/ /\ status[t] \notin Terminal
          /\ status' = [status EXCEPT ![t] = "Canceled"]
          /\ Goto(p, "canceling")
       \/ /\ status[t] \in Terminal
          /\ Goto(p, "done")
          /\ UNCHANGED status
    /\ UNCHANGED <<known, live, late, permitVars, queue, events, procVars, calls>>

Canceling(p) ==
    LET t == cur[p][1] IN
    /\ At(p, "canceling")
    /\ StopWorkers(t, LateKinds)
    /\ \/ Emit("Cancel", t)
       \/ Faults /\ UNCHANGED events
    /\ Goto(p, "done")
    /\ UNCHANGED <<known, status, permitVars, queue, procVars, calls>>

\* Task::delete stops the workers and removes the file and the stored rows ...
Delete(p) ==
    /\ At(p, "delete")
    /\ StopWorkers(cur[p][1], {"complete", "join"})
    /\ \/ Goto(p, "deleted")
       \/ Faults /\ Goto(p, "undeleted")
    /\ UNCHANGED <<known, status, permitVars, queue, events, procVars, calls>>

\* ... releases the permit ...
Deleted(p) ==
    LET t == cur[p][1] IN
    /\ pc[p] \in {"deleted", "undeleted"}
    /\ LockFree(t)
    /\ free' = free \cup Returned(slot[t])
    /\ slot' = [slot EXCEPT ![t] = NoPermit]
    /\ Goto(p, IF At(p, "deleted") THEN "gone" ELSE "broken")
    /\ UNCHANGED <<taskVars, inHand, queue, events, procVars, calls>>

\* ... and ends as Deleted without workers, or as Failed when a removal failed.
\* delete_task then removes the task from the map, delete_all does not.
Gone(p) ==
    LET t == cur[p][1]
        removed == At(p, "gone")
    IN
    /\ pc[p] \in {"gone", "broken"}
    /\ live' = [live EXCEPT ![t] = IF removed THEN "none" ELSE @]
    /\ status' = [status EXCEPT ![t] = IF removed THEN "Deleted" ELSE "Failed"]
    /\ Emit(IF removed THEN "Delete" ELSE "Error", t)
    /\ Goto(p, IF removed /\ mode[p] = "single" THEN "remove" ELSE "done")
    /\ UNCHANGED <<known, late, permitVars, queue, procVars, calls>>

\* tasks.remove blocks while a reference into the map's shard is alive.
RemoveTask(p) ==
    LET t == cur[p][1] IN
    /\ At(p, "remove")
    /\ ~RefHeld(t)
    /\ known' = known \ {t}
    /\ Goto(p, "done")
    /\ UNCHANGED <<status, live, late, permitVars, queue, events, procVars, calls>>

(***************************************************************************)
(* The event loop: one event at a time, each handler awaited to its end.   *)
(***************************************************************************)
Receive ==
    /\ At(Loop, "idle")
    /\ events # <<>>
    /\ LET e == Head(events) IN
       /\ cur' = [cur EXCEPT ![Loop] = <<e[2], @[2]>>]
       /\ Goto(Loop, IF e[1] = "Delete" THEN "persistDeleted" ELSE "persist")
    /\ events' = Tail(events)
    /\ UNCHANGED <<taskVars, permitVars, queue, chain, sweep, mode, calls>>

\* handle_terminal_task_event: persist_task fails on a task that is gone or a
\* store error, and the handler returns without releasing anything; saving the
\* cookies may fail for either handler.
Persist ==
    LET t == cur[Loop][1] IN
    /\ \/ At(Loop, "persist") /\ t \in known /\ Goto(Loop, "dequeue")
       \/ At(Loop, "persist") /\ (t \notin known \/ Faults) /\ Goto(Loop, "done")
       \/ At(Loop, "persistDeleted") /\ Goto(Loop, "dequeueDeleted")
       \/ At(Loop, "persistDeleted") /\ Faults /\ Goto(Loop, "done")
    /\ UNCHANGED <<taskVars, permitVars, queue, events, procVars, calls>>

\* remove_from_queue drops the first entry of the task.
Dequeue ==
    LET mine == {i \in DOMAIN queue : queue[i][1] = cur[Loop][1]} IN
    /\ pc[Loop] \in {"dequeue", "dequeueDeleted"}
    /\ \/ mine = {} /\ UNCHANGED queue
       \/ \E i \in mine : (\A j \in mine : i <= j) /\ queue' = RemoveAt(queue, i)
    /\ Goto(Loop, IF At(Loop, "dequeue") THEN "release" ELSE "next")
    /\ UNCHANGED <<taskVars, permitVars, events, procVars, calls>>

\* release_task_permit; a task that is gone keeps the permit it holds.
Release ==
    LET t == cur[Loop][1] IN
    /\ At(Loop, "release")
    /\ \/ /\ t \in known
          /\ LockFree(t)
          /\ free' = free \cup Returned(slot[t])
          /\ slot' = [slot EXCEPT ![t] = NoPermit]
       \/ t \notin known /\ UNCHANGED <<free, slot>>
    /\ Goto(Loop, "next")
    /\ UNCHANGED <<taskVars, inHand, queue, events, procVars, calls>>

(***************************************************************************)
(* The workers of a task, as the coordinator sees them.                    *)
(***************************************************************************)

\* finalize_download: the checksums decide, whatever the status became; an error
\* while saving or syncing is sent as an event of its own.
Finalize(t) ==
    \E end \in {<<"Completed", "Complete">>, <<"Failed", "Error">>}
                  \cup (IF Faults THEN {"Completed", "Failed", status[t]} \X {"Error"} ELSE {}) :
        /\ status' = [status EXCEPT ![t] = end[1]]
        /\ Emit(end[2], t)

\* handle_worker_complete for the last of the running workers.
RunFinishes(t) ==
    /\ live[t] = "running"
    /\ live' = [live EXCEPT ![t] = "stopped"]
    /\ Finalize(t)
    /\ UNCHANGED <<known, late, permitVars, queue, pc, procVars, calls>>

\* handle_worker_error: stop_workers_and_fail.
RunFails(t) ==
    /\ live[t] = "running"
    /\ StopWorkers(t, LateKinds)
    /\ status' = [status EXCEPT ![t] = "Failed"]
    /\ Emit("Error", t)
    /\ UNCHANGED <<known, permitVars, queue, pc, procVars, calls>>

\* handle_worker_join_results, or the Error event of a worker that was stopped
\* before it started: stop_workers_and_fail against the workers installed now.
LateError(t) ==
    /\ <<"join", t>> \in late
    /\ live' = [live EXCEPT ![t] = IF @ = "running" THEN "stopped" ELSE @]
    /\ late' = (late \ {<<"join", t>>}) \cup
                    (IF live[t] = "running" THEN LateKinds \X {t} ELSE {})
    /\ status' = [status EXCEPT ![t] = "Failed"]
    /\ Emit("Error", t)
    /\ UNCHANGED <<known, permitVars, queue, pc, procVars, calls>>

\* handle_worker_cancel: unless the task failed or an installed worker runs, the
\* task is canceled once more; several workers send several events.
LateCancel(t) ==
    /\ <<"cancel", t>> \in late
    /\ status[t] # "Failed" /\ live[t] # "running"
    /\ status' = [status EXCEPT ![t] = "Canceled"]
    /\ Emit("Cancel", t)
    /\ late' \in {late, late \ {<<"cancel", t>>}}
    /\ UNCHANGED <<known, live, permitVars, queue, pc, procVars, calls>>

\* handle_worker_complete for a worker of a stopped run: all_workers_completed
\* holds of an empty list, and of workers that completed after they were canceled.
LateComplete(t) ==
    /\ <<"complete", t>> \in late
    /\ live[t] = "none" \/ (live[t] = "stopped" /\ status[t] = "Canceled")
    /\ late' = late \ {<<"complete", t>>}
    /\ Finalize(t)
    /\ UNCHANGED <<known, live, permitVars, queue, pc, procVars, calls>>

\* The run left no such event behind, or its handler returned early.
LateNothing(t) ==
    /\ \E kind \in LateKinds : <<kind, t>> \in late /\ late' = late \ {<<kind, t>>}
    /\ UNCHANGED <<known, status, live, permitVars, queue, events, pc, procVars, calls>>

(***************************************************************************)
(* The specification.                                                      *)
(***************************************************************************)
Init ==
    /\ known = Tasks
    /\ status = [t \in Tasks |-> "Pending"]
    /\ live = [t \in Tasks |-> "none"]
    /\ late = {}
    /\ free = Permits
    /\ slot = [t \in Tasks |-> NoPermit]
    /\ queue = <<>>
    /\ events = <<>>
    /\ pc = [p \in Procs |-> "idle"]
    /\ cur \in [Procs -> Tasks \X {"Start"}]
    /\ \A p, q \in Procs : cur[p] = cur[q]
    /\ inHand = [p \in Procs |-> NoPermit]
    /\ chain = [p \in Procs |-> <<>>]
    /\ sweep = [p \in Procs |-> {}]
    /\ mode = [p \in Procs |-> "single"]
    /\ calls = MaxCalls

Transition(p) ==
    \/ Acquire(p) \/ Enqueue(p) \/ Lookup(p) \/ ResumeOp(p) \/ CheckStart(p)
    \/ Preparing(p) \/ Probe(p) \/ Spawn(p) \/ Store(p) \/ Fail(p) \/ Clear(p)
    \/ SpawnNext(p) \/ Unwind(p) \/ Return(p)

ClientStep(p) ==
    \/ Sweep(p) \/ Pause(p) \/ Pausing(p) \/ Cancel(p) \/ Canceling(p)
    \/ Delete(p) \/ Deleted(p) \/ Gone(p) \/ RemoveTask(p)

LoopStep == Receive \/ Persist \/ Dequeue \/ Release

UserCall(c) ==
    \/ \E op \in AllOps, t \in Tasks : Call(c, op, t)
    \/ \E t \in Tasks : CallResumeAll(c, t)
    \/ \E op \in AllOps : CallAll(c, op)

Workers(t) ==
    \/ RunFinishes(t) \/ RunFails(t) \/ LateError(t) \/ LateCancel(t)
    \/ LateComplete(t) \/ LateNothing(t)

Next ==
    \/ \E p \in Procs : Transition(p)
    \/ \E c \in Clients : UserCall(c) \/ ClientStep(c)
    \/ LoopStep
    \/ \E t \in Tasks : Workers(t)

Spec == Init /\ [][Next]_vars

\* The runtime polls every spawned future, so a process that can take a step
\* takes it, and a transfer ends one way or another; callers need not call.
Fairness ==
    /\ \A p \in Procs : WF_vars(Transition(p))
    /\ \A c \in Clients : WF_vars(ClientStep(c))
    /\ WF_vars(LoopStep)
    /\ \A t \in Tasks : WF_vars(Workers(t))

FairSpec == Spec /\ Fairness

-----------------------------------------------------------------------------
(***************************************************************************)
(* Properties.                                                             *)
(***************************************************************************)
Steps == TransitionSteps \cup
    {"idle", "acquire", "enqueue", "lookup", "next", "unwind", "done", "failed",
     "sweep", "pause", "pausing", "cancel", "canceling", "delete", "deleted",
     "undeleted", "gone", "broken", "remove", "persist", "persistDeleted", "dequeue",
     "dequeueDeleted", "release"}

\* The range of every variable.
TypeOK ==
    /\ known \subseteq Tasks
    /\ status \in [Tasks -> Statuses]
    /\ live \in [Tasks -> {"none", "running", "stopped"}]
    /\ late \subseteq LateKinds \X Tasks
    /\ free \subseteq Permits
    /\ slot \in [Tasks -> Permits \cup {NoPermit}]
    /\ inHand \in [Procs -> Permits \cup {NoPermit}]
    /\ queue \in Seq(Tasks \X Actions)
    /\ events \in Seq(Events)
    /\ pc \in [Procs -> Steps]
    /\ cur \in [Procs -> Tasks \X {"Start", "Resume", "Pause", "Cancel", "Delete"}]
    /\ chain \in [Procs -> Seq(Tasks)]
    /\ sweep \in [Procs -> SUBSET Tasks]
    /\ mode \in [Procs -> Modes]
    /\ calls \in [Tasks -> Nat]

\* The permit is left in the semaphore, or local to one transition, or stored in
\* one task.
InOnePlace(x) ==
    /\ x \in free \/ (\E p \in Procs : inHand[p] = x) \/ (\E t \in Tasks : slot[t] = x)
    /\ x \in free => (\A p \in Procs : inHand[p] # x) /\ (\A t \in Tasks : slot[t] # x)
    /\ \A p, q \in Procs : inHand[p] = x /\ inHand[q] = x => p = q
    /\ \A t, u \in Tasks : slot[t] = x /\ slot[u] = x => t = u
    /\ \A p \in Procs, t \in Tasks : ~(inHand[p] = x /\ slot[t] = x)

\* Every permit of the semaphore is in exactly one place, whatever transitions,
\* releases, deletions and failures overtake one another (run_task_transition,
\* release_task_permit, Task::release_permit).
PermitsAccountedFor == \A x \in Permits : InOnePlace(x)

\* The processes inside Task::start or Task::resume.
Operating == {p \in Procs : pc[p] \in TransitionSteps \ {"clear"}}

\* No more than concurrent_tasks starts and resumes are in progress at a time,
\* however many callers, queue pops and nested spawn_next_task calls there are
\* (run_task_transition holds its own permit for the whole operation).
OperationsWithinLimit == Cardinality(Operating) <= Cardinality(Permits)

\* A task waits at most once for each action, so the pending queue is bounded
\* whatever is started, resumed, re-queued and popped (enqueue_task_action).
NoDuplicateQueueEntries == IsInjective(queue)

\* Tasks whose workers transfer data.
Transferring == {t \in Tasks : live[t] = "running" /\ status[t] = "Running"}

\* At most concurrent_tasks tasks transfer data at a time.
TransfersWithinLimit == Cardinality(Transferring) <= Cardinality(Permits)

\* No process waits for a permit mutex that it holds itself.
NoSelfDeadlock ==
    \A p \in Procs : pc[p] \in {"store", "clear"} => cur[p][1] \notin Range(chain[p])

\* Every call returns: whatever fails inside spawn_next_task, the caller and the
\* event loop get back to work.
CallersReturn == \A p \in Procs : pc[p] # "idle" ~> pc[p] = "idle"
=============================================================================
