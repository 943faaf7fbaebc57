----------------------------- MODULE TorrentTask -----------------------------
(***************************************************************************)
(* A task that a torrent engine downloads (src/job/p2p.rs and the torrent  *)
(* branches of src/job/mod.rs and src/job/state.rs) over TorrentEngine.    *)
(* One start of the task is in progress at a time, and one other call;     *)
(* the listeners of every run, the event loop and libtorrent go on beside. *)
(* A save reads the task in one step and writes the row in a later one;    *)
(* the statements of the write are in Repository.  The saves of the task   *)
(* itself exclude each other (persistence_gate), that of the event loop    *)
(* goes on beside them.  Either may fail.                                  *)
(***************************************************************************)
EXTENDS TorrentEngine

CONSTANTS
  Kinds,        \* of specs: "magnet"; "file", also a magnet for which a provider
                \* finds a torrent file that the engine accepts
  MaxCalls,     \* bound: public calls on the task
  MaxFaults     \* bound: failures, crashes, decisions of the queue of libtorrent, other tasks

ASSUME TorrentAssumption ==
  /\ Kinds \subseteq {"magnet", "file"}
  /\ {MaxRuns, MaxData, MaxAlerts, MaxWaiting, MaxCalls, MaxFaults} \subseteq Nat
  /\ MaxRuns > 0 /\ MaxAlerts > 0 /\ MaxWaiting >= MaxAlerts

VARIABLES
  kind,         \* the spec of the task
  up,           \* the process runs
  status,       \* Task::status
  session,      \* Task::torrent_session is there
  snap,         \* Task::torrent_resume: present, its metadata and resume data
  pieces,       \* Task::piece_states: none, some or all completed
  pc, given,    \* step of Task::start; the snapshot it hands to the engine
  run,          \* the number of the last start_session
  call,         \* the other call in progress
  listening,    \* runs whose listener was spawned
  finishing,    \* runs whose listener is inside finish_job, after the status
  announced,    \* an event on which the event loop saves
  gate,         \* a Task::persist_task inside the gate: who saves, what it has read,
                \* and whether an event follows
  held,         \* what a save of the event loop has read
  db,           \* the row of the task, if there is one
  replayed,     \* history: the task had changed since the row was read
  erred,        \* history: a start or a call ended on an error, a save failed
  raced,        \* history: a call or a start was made while another was in progress
  calls, faults

task == <<status, session, snap, pieces>>
files == <<gate, held>>
control == <<pc, given, run, call, listening, finishing, announced, files>>
stored == <<db, replayed>>
budget == <<calls, raced, faults>>
vars == <<engine, task, control, kind, up, stored, erred, budget>>

NoSnap == [present |-> FALSE, meta |-> FALSE, data |-> 0]
Snaps == [present : BOOLEAN, meta : BOOLEAN, data : 0 .. MaxData]
Statuses ==
  {"Pending", "Preparing", "Running", "Paused", "Completed", "Failed", "Canceled", "Deleted"}
Terminal == {"Completed", "Failed", "Canceled", "Deleted"}

NoRow == [status |-> "none", snap |-> NoSnap, pieces |-> "none"]
Row == [status |-> status', snap |-> snap', pieces |-> pieces']

Fault == faults < MaxFaults /\ faults' = faults + 1
Call ==
  /\ up /\ calls < MaxCalls /\ calls' = calls + 1
  /\ raced' = (raced \/ pc # "idle" \/ call # "none")

(* Task::persist_task: the start, the call or the listener of run k enters *)
(* the gate and reads the task.                                            *)
NoSave == [by |-> "none", run |-> 0, row |-> NoRow, tells |-> FALSE]
Saves(by, k, tells) ==
  /\ gate = NoSave
  /\ gate' = [by |-> by, run |-> k, row |-> Row, tells |-> tells]
  /\ UNCHANGED held

Writes(row) == db' = row /\ replayed' = (row # Row) /\ UNCHANGED <<faults, erred>>
WriteFails == Fault /\ erred' = TRUE /\ UNCHANGED stored

(* Then the row is written and the saver goes on, or fails. *)
GateWrites ==
  /\ up /\ gate # NoSave /\ gate' = NoSave
  /\ UNCHANGED task
  /\ \/ Writes(gate.row) /\ announced' = (announced \/ gate.tells) /\ UNCHANGED pc
     \/ WriteFails /\ pc' = (IF gate.by = "start" THEN "idle" ELSE pc) /\ UNCHANGED announced
  /\ call' = IF gate.by = "call" THEN "none" ELSE call
  /\ UNCHANGED <<engine, given, run, listening, finishing, held, kind, up, calls, raced>>

-----------------------------------------------------------------------------
(* Task::start *)

(* prepare_for_start; a resume without a session is saved as Pending first. *)
Start ==
  /\ Call /\ pc = "idle"
  /\ \/ status \in {"Pending", "Paused"} /\ pc' = "mark"
     \/ status \in {"Canceled", "Failed"} /\ pc' = "reset"
  /\ UNCHANGED <<engine, task, given, run, call, listening, finishing, announced, files, kind, up,
                 stored, erred, faults>>

ResumeAnew ==
  /\ Call /\ pc = "idle" /\ status = "Paused" /\ ~session
  /\ status' = "Pending"
  /\ UNCHANGED <<session, snap, pieces>>
  /\ Saves("start", 0, FALSE) /\ pc' = "mark"
  /\ UNCHANGED <<engine, given, run, call, listening, finishing, announced, kind, up, stored,
                 erred, faults>>

(* reset_task forgets the session; the torrent stays in the engine. *)
Reset ==
  /\ up /\ pc = "reset" /\ pc' = "mark"
  /\ session' = FALSE /\ snap' = NoSnap /\ pieces' = "none"
  /\ UNCHANGED <<engine, status, given, run, call, listening, finishing, announced, files, kind, up,
                 stored, erred, budget>>

Mark ==
  /\ up /\ pc = "mark"
  /\ status' = "Preparing"
  /\ UNCHANGED <<session, snap, pieces>>
  /\ Saves("start", 0, FALSE) /\ pc' = "prepare"
  /\ UNCHANGED <<engine, given, run, call, listening, finishing, announced, kind, up, stored,
                 erred, budget>>

(* prepare_swarm_download up to the engine: the resume snapshot is read. *)
Prepare ==
  /\ up /\ pc = "prepare" /\ pc' = "add"
  /\ given' = snap
  /\ UNCHANGED <<engine, task, run, call, listening, finishing, announced, files, kind, up, stored,
                 erred, budget>>

(* Resume data holds the metadata if it was known when it was saved; the   *)
(* metadata of the snapshot is not handed to libtorrent.                   *)
Added == AddTorrent(kind = "file") \/ (given.data > 0 /\ AddTorrent(TRUE))

(* start_session: the torrent is added ... *)
Add ==
  /\ up /\ pc = "add" /\ run < MaxRuns
  /\ pc' = "register" /\ run' = run + 1
  /\ Added
  /\ UNCHANGED <<task, given, call, listening, finishing, announced, files, kind, up, stored, erred,
                 budget>>

(* ... or not, or the swarm hints are refused after it was added. *)
AddFails ==
  /\ up /\ pc = "add" /\ pc' = "idle" /\ Fault /\ erred' = TRUE
  /\ Added \/ UNCHANGED engine
  /\ UNCHANGED <<task, given, run, call, listening, finishing, announced, files, kind, up, stored,
                 calls, raced>>

RegisterSender ==
  /\ up /\ pc = "register" /\ pc' = "ensure"
  /\ Register(run)
  /\ UNCHANGED <<task, given, run, call, listening, finishing, announced, files, kind, up, stored,
                 erred, budget>>

Ensure ==
  /\ up /\ pc = "ensure" /\ pc' = "install"
  /\ EnsurePolling
  /\ UNCHANGED <<task, given, run, call, listening, finishing, announced, files, kind, up, stored,
                 erred, budget>>

(* install_manifest derives the pieces from the blocks, which               *)
(* PieceFinished does not touch.                                           *)
Installed == IF pieces = "all" THEN "all" ELSE "none"

(* Mutated form of Session: the resume data is not handed back. *)
SessionForgets == [present |-> TRUE, meta |-> kind = "file" \/ given.meta, data |-> 0]

(* The session start_session returns: it carries the resume data it was    *)
(* given, and the metadata of the torrent file or of the snapshot.         *)
Session == [present |-> TRUE, meta |-> kind = "file" \/ given.meta, data |-> given.data]

(* install_torrent_metadata, set_torrent_session and persist_task; after   *)
(* an error the receiver is dropped.                                       *)
Install ==
  /\ up /\ pc = "install"
  /\ session' = TRUE /\ snap' = Session
  /\ pieces' = IF snap'.meta THEN Installed ELSE pieces
  /\ UNCHANGED status
  /\ Saves("start", 0, FALSE) /\ pc' = "launch"
  /\ UNCHANGED <<engine, given, run, call, listening, finishing, announced, kind, up, stored,
                 erred, budget>>

(* The status becomes Running unless the task has ended meanwhile. *)
Launch ==
  /\ up /\ pc = "launch"
  /\ IF status \in Terminal THEN pc' = "listen" /\ UNCHANGED status
                            ELSE pc' = "save" /\ status' = "Running"
  /\ UNCHANGED <<engine, session, snap, pieces, given, run, call, listening, finishing,
                 announced, files, kind, up, stored, erred, budget>>

SaveRunning ==
  /\ up /\ pc = "save"
  /\ UNCHANGED task
  /\ Saves("start", 0, FALSE) /\ pc' = "listen"
  /\ UNCHANGED <<engine, given, run, call, listening, finishing, announced, kind, up, stored,
                 erred, budget>>

Listen ==
  /\ up /\ pc = "listen" /\ pc' = "idle"
  /\ listening' = listening \cup {run}
  /\ UNCHANGED <<engine, task, given, run, call, finishing, announced, files, kind, up, stored, erred,
                 budget>>

-----------------------------------------------------------------------------
(* Task::pause, resume, cancel and delete: the status first, then the      *)
(* engine, the save and the event                                          *)

PauseCall ==
  /\ Call /\ call = "none" /\ status \in {"Running", "Preparing"}
  /\ status' = "Paused" /\ call' = "pause"
  /\ UNCHANGED <<engine, session, snap, pieces, pc, given, run, listening, finishing,
                 announced, files, kind, up, stored, erred, faults>>

ResumeCall ==
  /\ Call /\ call = "none" /\ status = "Paused" /\ session
  /\ status' = "Running" /\ call' = "resume"
  /\ UNCHANGED <<engine, session, snap, pieces, pc, given, run, listening, finishing,
                 announced, files, kind, up, stored, erred, faults>>

CancelCall ==
  /\ Call /\ call = "none" /\ status \in {"Pending", "Preparing", "Running", "Paused"}
  /\ status' = "Canceled" /\ call' = "cancel"
  /\ UNCHANGED <<engine, session, snap, pieces, pc, given, run, listening, finishing,
                 announced, files, kind, up, stored, erred, faults>>

DeleteCall ==
  /\ Call /\ call = "none" /\ status # "Deleted"
  /\ call' = "delete"
  /\ IF session THEN RemoveSession ELSE UNCHANGED engine
  /\ UNCHANGED <<task, pc, given, run, listening, finishing, announced, files, kind, up, stored, erred,
                 faults>>

(* The engine refuses: the call returns without a save and without event. *)
EngineRefuses ==
  /\ up /\ call \in {"pause", "resume"} /\ session /\ torrent = "none"
  /\ call' = "none" /\ erred' = TRUE
  /\ UNCHANGED <<engine, task, pc, given, run, listening, finishing, announced, files, kind, up,
                 stored, budget>>

EngineCalled ==
  IF ~session THEN UNCHANGED engine
  ELSE \/ call = "pause" /\ PauseSession
       \/ call = "resume" /\ ResumeSession
       \/ call = "cancel" /\ RemoveSession

(* The call ends with the save; a resume sends Start, on which the loop    *)
(* does not save.                                                          *)
CallReturns ==
  /\ up /\ call \in {"pause", "resume", "cancel"}
  /\ EngineCalled
  /\ UNCHANGED task
  /\ Saves("call", 0, call # "resume")
  /\ UNCHANGED <<pc, given, run, call, listening, finishing, announced, kind, up, stored, erred,
                 budget>>

(* The file is removed and the rows are purged, or the task fails. *)
DeleteReturns ==
  /\ up /\ call = "delete" /\ call' = "none"
  /\ \/ /\ db' = NoRow /\ replayed' = FALSE /\ status' = "Deleted"
        /\ session' = FALSE /\ snap' = NoSnap /\ pieces' = "none"
        /\ UNCHANGED <<announced, faults>>
     \/ /\ Fault /\ status' = "Failed" /\ announced' = TRUE
        /\ UNCHANGED <<stored, session, snap, pieces>>
  /\ UNCHANGED <<engine, pc, given, run, listening, finishing, files, kind, up, erred, calls,
                 raced>>

-----------------------------------------------------------------------------
(* The listener of run k: handle_torrent_engine_event *)

Receives(k, kinds) ==
  /\ up /\ k \in listening /\ k \notin finishing /\ gate.run # k
  /\ chan[k] # <<>> /\ Head(chan[k]).kind \in kinds
  /\ chan' = [chan EXCEPT ![k] = Tail(@)]
  /\ missed' = (missed \/ (Head(chan[k]).kind = "paused" /\ pc # "idle"))
  /\ UNCHANGED <<native, alerts, adapter, reused, pc, given, run, call, listening, kind, up,
                 stored, erred, budget>>

HandleMetadata(k) ==
  /\ Receives(k, {"metadata"})
  /\ snap' = [snap EXCEPT !.meta = snap.present]
  /\ pieces' = Installed
  /\ UNCHANGED <<status, session, finishing, announced>>
  /\ Saves("listener", k, FALSE)

HandlePiece(k) ==
  /\ Receives(k, {"piece"})
  /\ pieces' = IF pieces = "none" /\ snap.meta THEN "some" ELSE pieces
  /\ UNCHANGED <<status, session, snap, finishing, announced>>
  /\ Saves("listener", k, FALSE)

HandleData(k) ==
  /\ Receives(k, {"data"})
  /\ snap' = [snap EXCEPT !.data = IF snap.present THEN Head(chan[k]).data ELSE 0]
  /\ UNCHANGED <<status, session, pieces, finishing, announced>>
  /\ Saves("listener", k, FALSE)

(* Mutated form of HandlePaused: the manager is not told. *)
HandlePausedSilently(k) ==
  /\ Receives(k, {"paused"})
  /\ status' = "Paused"
  /\ UNCHANGED <<session, snap, pieces, finishing, files, announced>>

(* Mutated form of HandlePaused: the status of the task is left alone. *)
HandlePausedUnnoticed(k) ==
  /\ Receives(k, {"paused"})
  /\ announced' = TRUE
  /\ UNCHANGED <<task, finishing, files>>

HandlePaused(k) ==
  /\ Receives(k, {"paused"})
  /\ status' = "Paused" /\ announced' = TRUE
  /\ UNCHANGED <<session, snap, pieces, finishing, files>>

(* The other states are recorded; the progress may make the loop save. *)
HandleOther(k) ==
  /\ Receives(k, {"resolving", "downloading"})
  /\ announced' \in {announced, TRUE}
  /\ UNCHANGED <<task, finishing, files>>

(* finish_job: the pieces and the status, *)
HandleEnd(k) ==
  /\ Receives(k, {"completed", "finished", "error"})
  /\ IF Head(chan[k]).kind = "error" THEN status' = "Failed" /\ UNCHANGED pieces
     ELSE status' = "Completed" /\ pieces' = "all"
  /\ finishing' = finishing \cup {k}
  /\ UNCHANGED <<session, snap, announced, files>>

(* then the save and the event. *)
Finish(k) ==
  /\ up /\ k \in finishing /\ finishing' = finishing \ {k}
  /\ UNCHANGED task
  /\ Saves("listener", k, TRUE)
  /\ UNCHANGED <<engine, pc, given, run, call, listening, announced, kind, up, stored, erred,
                 budget>>

(* Manager::persist_task for the event loop, which handles one event at a  *)
(* time: the task is read, unless it was deleted and is not in the map,    *)
LoopReads ==
  /\ up /\ announced /\ announced' = FALSE /\ held = NoRow
  /\ UNCHANGED task
  /\ held' = IF status = "Deleted" THEN NoRow ELSE Row
  /\ UNCHANGED <<engine, pc, given, run, call, listening, finishing, gate, kind, up, stored,
                 erred, budget>>

(* and its row is written later, outside the gate. *)
LoopWrites ==
  /\ up /\ held # NoRow /\ held' = NoRow
  /\ UNCHANGED task
  /\ Writes(held) \/ WriteFails
  /\ UNCHANGED <<engine, pc, given, run, call, listening, finishing, announced, gate, kind, up,
                 calls, raced>>

-----------------------------------------------------------------------------
(* Crash and restart *)

Crash ==
  /\ up /\ Fault /\ up' = FALSE
  /\ torrent' = "none" /\ paused' = FALSE /\ dirty' = FALSE /\ saving' = FALSE
  /\ alerts' = <<>> /\ sender' = 0 /\ other' = FALSE /\ polling' = FALSE
  /\ chan' = [k \in Runs |-> <<>>] /\ missed' = FALSE /\ reused' = FALSE
  /\ session' = FALSE /\ pc' = "idle" /\ given' = NoSnap /\ call' = "none"
  /\ listening' = {} /\ finishing' = {} /\ announced' = FALSE
  /\ gate' = NoSave /\ held' = NoRow
  /\ UNCHANGED <<data, status, snap, pieces, run, kind, stored, erred, calls, raced>>

(* build_restore_plan of a task without workers, and Task::init.  The file *)
(* it looks at, the first of the torrent, may be there or not, and as long *)
(* as the torrent or not.                                                  *)
Restore ==
  /\ ~up /\ db # NoRow /\ up' = TRUE
  /\ \E exists, whole \in BOOLEAN :
       LET normal == IF db.status \in {"Running", "Preparing"} THEN "Paused" ELSE db.status
           kept == IF normal = "Completed" /\ ~whole THEN "Pending" ELSE normal
       IN /\ whole => exists
          /\ status' = IF kept = "Paused" /\ db.pieces = "none" THEN "Pending" ELSE kept
          /\ pieces' = IF exists \/ db.pieces = "all" THEN db.pieces ELSE "none"
  /\ snap' = db.snap /\ UNCHANGED session
  /\ db' = Row /\ replayed' = FALSE
  /\ UNCHANGED <<engine, control, kind, erred, budget>>

-----------------------------------------------------------------------------

(* A task that was just added, or the row of a paused one that an earlier  *)
(* process has left, with the resume data number n.                        *)
Fresh == [status |-> "Pending", snap |-> NoSnap, pieces |-> "none"]
Left(n) ==
  [status |-> "Paused", snap |-> [present |-> TRUE, meta |-> TRUE, data |-> n], pieces |-> "some"]

Init ==
  /\ EngineInit
  /\ \/ up = TRUE /\ db = Fresh /\ data = 0
     \/ up = FALSE /\ data \in 1 .. MaxData /\ db = Left(data)
  /\ kind \in Kinds
  /\ status = "Pending" /\ session = FALSE /\ snap = NoSnap /\ pieces = "none"
  /\ pc = "idle" /\ given = NoSnap /\ run = 0 /\ call = "none"
  /\ listening = {} /\ finishing = {} /\ announced = FALSE
  /\ gate = NoSave /\ held = NoRow /\ replayed = FALSE
  /\ erred = FALSE /\ raced = FALSE /\ calls = 0 /\ faults = 0

Starting ==
  /\ gate.by # "start"
  /\ \/ Reset \/ Mark \/ Prepare \/ Add \/ AddFails \/ RegisterSender \/ Ensure \/ Install
     \/ Launch \/ SaveRunning \/ Listen

Calling ==
  \/ Start \/ ResumeAnew \/ PauseCall \/ ResumeCall \/ CancelCall \/ DeleteCall
Returning == gate.by # "call" /\ (EngineRefuses \/ CallReturns \/ DeleteReturns)

Saving == GateWrites \/ LoopReads \/ LoopWrites

Handle(k) ==
  \/ HandleMetadata(k) \/ HandlePiece(k) \/ HandleData(k) \/ HandlePaused(k)
  \/ HandleOther(k) \/ HandleEnd(k) \/ Finish(k)

others == <<task, control, kind, up, stored, erred, calls, raced>>

Libtorrent ==
  /\ up /\ UNCHANGED <<others, faults>>
  /\ NativeMetadata \/ NativePiece \/ NativeFinish \/ NativeSaved
Update == up /\ NativeUpdate /\ UNCHANGED <<others, faults>>
Polls == up /\ Poll /\ UNCHANGED <<others, faults>>
Upset ==
  /\ up /\ Fault /\ UNCHANGED others
  /\ NativeError \/ NativeQueue \/ OtherTask \/ PollFails

Next ==
  \/ Calling \/ Starting \/ Returning \/ Saving
  \/ \E k \in Runs : Handle(k)
  \/ Libtorrent \/ Update \/ Polls \/ Upset
  \/ Crash \/ Restore

Spec == Init /\ [][Next]_vars

(* The futures of the process go on, libtorrent answers post_torrent_updates. *)
FairSpec ==
  /\ Spec
  /\ WF_vars(Starting) /\ WF_vars(Returning)
  /\ WF_vars(GateWrites) /\ WF_vars(LoopReads) /\ WF_vars(LoopWrites)
  /\ \A k \in Runs : WF_vars(Handle(k))
  /\ WF_vars(Update) /\ WF_vars(Polls)

-----------------------------------------------------------------------------
(* Properties *)

(* Types; only runs that were started are listened to. *)
TypeOK ==
  /\ EngineTypeOK
  /\ kind \in Kinds /\ {up, session, announced, replayed, erred, raced} \subseteq BOOLEAN
  /\ status \in Statuses /\ {snap, given} \subseteq Snaps
  /\ pieces \in {"none", "some", "all"}
  /\ pc \in {"idle", "reset", "mark", "prepare", "add", "register", "ensure", "install",
             "launch", "save", "listen"}
  /\ call \in {"none", "pause", "resume", "cancel", "delete"}
  /\ run \in 0 .. MaxRuns /\ sender <= run
  /\ finishing \subseteq listening /\ listening \subseteq 1 .. run
  /\ {db, held, gate.row}
       \subseteq [status : Statuses \cup {"none"}, snap : Snaps, pieces : {"none", "some", "all"}]
  /\ gate.by \in {"none", "start", "call", "listener"} /\ gate.run \in listening \cup {0}

Quiet ==
  /\ up /\ pc = "idle" /\ call = "none" /\ finishing = {}
  /\ ~announced /\ gate = NoSave /\ held = NoRow
  /\ alerts = <<>> /\ ~dirty /\ \A k \in Runs : chan[k] = <<>>

(* When everything has come to rest, a Running task is in the engine, not  *)
(* paused and not finished there, and its events have a listener and a     *)
(* future that polls.  Left out are the behaviours in which a start or a   *)
(* call ended on an error or a save failed (erred), an alert was popped    *)
(* with no sender registered or told to the listener of an earlier run     *)
(* (missed), calls overlapped (raced), or a start was given a torrent that *)
(* was paused or done in the engine before (reused).                       *)
RunningIsEngaged ==
  Quiet /\ status = "Running" /\ ~erred /\ ~missed /\ ~raced /\ ~reused =>
    /\ torrent \notin {"none", "done"} /\ ~paused
    /\ sender \in listening /\ polling

(* When everything has come to rest, the row has the status of the task,   *)
(* unless a save failed: each handler saves, or sends an event on which    *)
(* the loop saves.  A row that was read before the last change and written *)
(* after it may be left over a status that is saved by the one and not by  *)
(* the other: Running (a resume tells the loop nothing), Paused and Failed *)
(* (told by the engine and by a failed delete, which save only by the      *)
(* loop); never over Completed, Canceled or Pending.                       *)
SettledIsSaved ==
  Quiet /\ ~erred /\ status # "Deleted" =>
    db.status = status \/ (replayed /\ status \in {"Running", "Paused", "Failed"})

(* What the listener of an earlier run hands on may be older than what the *)
(* task has: it has something left or is saving it, or a save failed after *)
(* it, or it was quicker than a start that had read the snapshot before.   *)
Outdated ==
  \E k \in listening \ {run} :
    \/ chan[k] # <<>> \/ gate.run = k \/ erred
    \/ pc = "launch" /\ given.data < db.snap.data

(* Stored resume data is never replaced by older data, through crashes,    *)
(* restores and restarts, unless it is dropped with the whole snapshot (a  *)
(* reset or a delete), or what is left of an earlier run comes in between, *)
(* or one of the two rows was read before a change of the task and written *)
(* after it.                                                               *)
ResumeDataIsKept ==
  [][db'.snap.data < db.snap.data =>
       ~db'.snap.present \/ Outdated \/ replayed \/ replayed']_vars

(* Nobody polls, although the task was started: the polling failed, and    *)
(* the listener of an earlier run told of a pause after the failure, from  *)
(* which the task was resumed.                                             *)
Deaf == ~polling /\ listening \ {run} # {}

(* A torrent that is done in the engine does not stay Running, unless the  *)
(* process ends, an alert was lost, calls overlapped, a start was given a  *)
(* torrent that was done before, or nobody polls any more.                 *)
FinishIsNoticed ==
  up /\ status = "Running" /\ torrent = "done" ~>
    ~up \/ status # "Running" \/ erred \/ missed \/ raced \/ reused \/ Deaf
=============================================================================
