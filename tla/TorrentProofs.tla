---------------------------- MODULE TorrentProofs ----------------------------
(***************************************************************************)
(* Theorems about TorrentTask and TorrentEngine: types; a row that follows *)
(* the status; a Running task that the engine works for; and resume data   *)
(* that does not go back, for every number of runs, alerts, calls and      *)
(* faults.                                                                 *)
(***************************************************************************)
EXTENDS TorrentTask, SequenceTheorems, TLAPS

\* Steps of Task::start after start_session added the torrent.
Started == {"register", "ensure", "install", "launch", "save", "listen"}

\* Rows of the task, and their absence.
Dbs == [status : Statuses, snap : Snaps, pieces : {"none", "some", "all"}] \cup {NoRow}

\* Saves inside the gate, and none.
Savers == {"none", "start", "call", "listener"}
Gates == [by : Savers, run : 0 .. MaxRuns, row : Dbs, tells : BOOLEAN]

\* The type invariant part by part, with the one fact it needs: a start that has
\* added its torrent has a number.
Types ==
  /\ torrent \in {"none", "meta", "down", "half", "done"}
  /\ paused \in BOOLEAN /\ dirty \in BOOLEAN /\ saving \in BOOLEAN
  /\ other \in BOOLEAN /\ polling \in BOOLEAN /\ missed \in BOOLEAN /\ reused \in BOOLEAN
  /\ data \in 0 .. MaxData
  /\ alerts \in Seq(Alerts)
  /\ chan \in [Runs -> Seq(Alerts)]
  /\ kind \in Kinds
  /\ up \in BOOLEAN /\ session \in BOOLEAN /\ announced \in BOOLEAN
  /\ replayed \in BOOLEAN /\ erred \in BOOLEAN /\ raced \in BOOLEAN
  /\ status \in Statuses /\ snap \in Snaps /\ given \in Snaps
  /\ pieces \in {"none", "some", "all"}
  /\ pc \in {"idle", "reset", "mark", "prepare", "add", "register", "ensure", "install",
             "launch", "save", "listen"}
  /\ call \in {"none", "pause", "resume", "cancel", "delete"}
  /\ run \in 0 .. MaxRuns /\ sender \in 0 .. run
  /\ finishing \subseteq listening /\ listening \subseteq 1 .. run
  /\ db \in Dbs /\ held \in Dbs
  /\ gate \in Gates /\ gate.run \in listening \cup {0}
  /\ pc \in Started => run # 0

\* The parts are the type invariant.
LEMMA TypesImply == Types => TypeOK
<1> SUFFICES ASSUME Types PROVE TypeOK
  OBVIOUS
<1>1. EngineTypeOK /\ sender <= run
  BY TorrentAssumption DEF Types, EngineTypeOK
<1>2. {db, held, gate.row}
        \subseteq [status : Statuses \cup {"none"}, snap : Snaps, pieces : {"none", "some", "all"}]
  <2>1. NoSnap \in Snaps
    BY TorrentAssumption DEF NoSnap, Snaps
  <2>2. Dbs \subseteq [status : Statuses \cup {"none"}, snap : Snaps, pieces : {"none", "some", "all"}]
    BY <2>1 DEF Dbs, NoRow
  <2>3. db \in Dbs /\ held \in Dbs /\ gate.row \in Dbs
    BY DEF Types, Gates
  <2> QED
    BY <2>2, <2>3
<1>3. gate.by \in {"none", "start", "call", "listener"} /\ gate.run \in listening \cup {0}
  BY DEF Types, Gates, Savers
<1> QED
  BY <1>1, <1>2, <1>3 DEF Types, TypeOK

\* The snapshot, the row and the save that stand for nothing are well typed.
LEMMA ConstantTypes ==
  /\ NoSnap \in Snaps /\ NoRow \in Dbs /\ NoSave \in Gates /\ NoSave.run = 0
  /\ Types => Session \in Snaps /\ Installed \in {"none", "some", "all"}
BY TorrentAssumption
   DEF NoSnap, Snaps, NoRow, Dbs, NoSave, Gates, Savers, Session, Types, Installed

\* The initial states are well typed.
LEMMA TypesInit == Init => Types
<1> SUFFICES ASSUME Init PROVE Types
  OBVIOUS
<1>1. /\ paused \in BOOLEAN /\ dirty \in BOOLEAN /\ saving \in BOOLEAN /\ other \in BOOLEAN
      /\ polling \in BOOLEAN /\ missed \in BOOLEAN /\ reused \in BOOLEAN /\ up \in BOOLEAN
      /\ session \in BOOLEAN /\ announced \in BOOLEAN /\ replayed \in BOOLEAN
      /\ erred \in BOOLEAN /\ raced \in BOOLEAN
  BY DEF Init, EngineInit
<1>2. alerts \in Seq(Alerts) /\ chan \in [Runs -> Seq(Alerts)]
  BY DEF Init, EngineInit
<1>3. data \in 0 .. MaxData /\ run \in 0 .. MaxRuns /\ sender \in 0 .. run
  BY TorrentAssumption DEF Init, EngineInit
<1>4. snap \in Snaps /\ given \in Snaps /\ db \in Dbs
  <2>1. snap \in Snaps /\ given \in Snaps
    BY ConstantTypes DEF Init
  <2>2. Fresh \in Dbs /\ Left(data) \in Dbs
    BY <1>3, ConstantTypes DEF Fresh, Left, Dbs, Snaps, Statuses
  <2> QED
    BY <2>1, <2>2 DEF Init
<1>5. held \in Dbs /\ gate \in Gates /\ gate.run = 0
  BY ConstantTypes DEF Init
<1>6. status \in Statuses /\ kind \in Kinds /\ pc \notin Started
  BY DEF Init, Statuses, Started
<1>7. pieces = "none" /\ pc = "idle" /\ call = "none" /\ listening = {} /\ finishing = {} /\ torrent = "none"
  BY DEF Init, EngineInit
<1> QED
  BY <1>1, <1>2, <1>3, <1>4, <1>5, <1>6, <1>7 DEF Types

\* What enters the gate is well typed.
LEMMA SavesType ==
  ASSUME Types, NEW by \in Savers, NEW k \in listening \cup {0}, NEW tells \in BOOLEAN,
         Saves(by, k, tells),
         status' \in Statuses, snap' \in Snaps, pieces' \in {"none", "some", "all"}
  PROVE  gate' \in Gates /\ gate'.run = k /\ held' = held
<1>1. Row \in Dbs
  BY DEF Row, Dbs
<1>2. k \in 0 .. MaxRuns
  BY TorrentAssumption DEF Types
<1> QED
  BY <1>1, <1>2 DEF Saves, Gates

\* The steps of a start keep the types.
LEMMA TypeStarting ==
  ASSUME Types, Starting
  PROVE  Types'
<1> USE TorrentAssumption DEF Types, Started, engine, native, adapter, histories, task, files, stored, budget
<1>1. CASE Reset
  <2>1. snap' \in Snaps
    BY <1>1, ConstantTypes DEF Reset
  <2>2. pc' = "mark" /\ pieces' = "none" /\ session' \in BOOLEAN
    BY <1>1 DEF Reset
  <2> QED
    BY <1>1, <2>1, <2>2 DEF Reset
<1>2. CASE Mark
  <2>1. Saves("start", 0, FALSE) /\ status' \in Statuses /\ snap' \in Snaps /\ pieces' \in {"none", "some", "all"}
    BY <1>2 DEF Mark, Statuses
  <2>2. gate' \in Gates /\ gate'.run = 0 /\ held' = held
    BY <2>1, SavesType DEF Savers
  <2> QED
    BY <1>2, <2>1, <2>2 DEF Mark
<1>3. CASE Prepare
  BY <1>3 DEF Prepare
<1>4. CASE Add
  <2>1. run' \in 0..MaxRuns /\ run' # 0 /\ sender' \in 0..run' /\ listening' \subseteq 1..run'
    BY <1>4 DEF Add, Added, AddTorrent
  <2>2. /\ torrent' \in {"none", "meta", "down", "half", "done"}
        /\ paused' \in BOOLEAN /\ dirty' \in BOOLEAN /\ saving' \in BOOLEAN /\ reused' \in BOOLEAN
    BY <1>4 DEF Add, Added, AddTorrent
  <2> QED
    BY <1>4, <2>1, <2>2 DEF Add, Added, AddTorrent
<1>5. CASE AddFails
  <2>1. /\ torrent' \in {"none", "meta", "down", "half", "done"}
        /\ paused' \in BOOLEAN /\ dirty' \in BOOLEAN /\ saving' \in BOOLEAN /\ reused' \in BOOLEAN
        /\ UNCHANGED <<data, alerts, adapter, chan, missed>>
    BY <1>5 DEF AddFails, Added, AddTorrent
  <2> QED
    BY <1>5, <2>1 DEF AddFails, Fault
<1>6. CASE RegisterSender
  BY <1>6 DEF RegisterSender, Register
<1>7. CASE Ensure
  BY <1>7 DEF Ensure, EnsurePolling
<1>8. CASE Install
  <2>1. Saves("start", 0, FALSE) /\ status' \in Statuses /\ snap' \in Snaps /\ pieces' \in {"none", "some", "all"}
    BY <1>8, ConstantTypes DEF Install
  <2>2. gate' \in Gates /\ gate'.run = 0 /\ held' = held
    BY <2>1, SavesType DEF Savers
  <2> QED
    BY <1>8, <2>1, <2>2 DEF Install
<1>9. CASE Launch
  BY <1>9 DEF Launch, Statuses
<1>10. CASE SaveRunning
  <2>1. gate' \in Gates /\ gate'.run = 0 /\ held' = held
    BY <1>10, SavesType DEF SaveRunning, Savers
  <2> QED
    BY <1>10, <2>1 DEF SaveRunning
<1>11. CASE Listen
  <2>1. run \in 1..run /\ run' = run
    BY <1>11 DEF Listen
  <2>2. listening' \subseteq 1..run' /\ finishing' \subseteq listening'
    BY <1>11, <2>1 DEF Listen
  <2> QED
    BY <1>11, <2>2 DEF Listen
<1> QED BY <1>1, <1>2, <1>3, <1>4, <1>5, <1>6, <1>7, <1>8, <1>9, <1>10, <1>11 DEF Starting

\* So does the end of a session in the engine.
LEMMA RemoveTypes ==
  ASSUME Types, RemoveSession
  PROVE  /\ torrent' \in {"none", "meta", "down", "half", "done"}
         /\ paused' \in BOOLEAN /\ dirty' \in BOOLEAN /\ saving' \in BOOLEAN
         /\ sender' \in 0..run
<1>1. sender' = 0 /\ torrent' = "none"
  BY DEF RemoveSession
<1>2. paused' \in BOOLEAN /\ dirty' \in BOOLEAN /\ saving' \in BOOLEAN
  BY DEF RemoveSession
<1> QED
  BY <1>1, <1>2 DEF Types

\* The calls keep the types.
LEMMA TypeCalling ==
  ASSUME Types, Calling
  PROVE  Types'
<1> USE TorrentAssumption DEF Types, Started, engine, native, adapter, histories, task, files, stored, budget, Call
<1>1. CASE Start
  BY <1>1 DEF Start
<1>2. CASE ResumeAnew
  <2>1. status' \in Statuses /\ snap' \in Snaps /\ pieces' \in {"none", "some", "all"}
    BY <1>2 DEF ResumeAnew, Statuses
  <2>2. gate' \in Gates /\ gate'.run = 0 /\ held' = held
    BY <1>2, <2>1, SavesType DEF ResumeAnew, Savers
  <2>3. pc' = "mark" /\ run' = run
    BY <1>2 DEF ResumeAnew
  <2> QED
    BY <1>2, <2>1, <2>2, <2>3 DEF ResumeAnew
<1>3. CASE PauseCall
  BY <1>3 DEF PauseCall, Statuses
<1>4. CASE ResumeCall
  BY <1>4 DEF ResumeCall, Statuses
<1>5. CASE CancelCall
  BY <1>5 DEF CancelCall, Statuses
<1>6. CASE DeleteCall
  <2>1. /\ torrent' \in {"none", "meta", "down", "half", "done"}
        /\ paused' \in BOOLEAN /\ dirty' \in BOOLEAN /\ saving' \in BOOLEAN
        /\ sender' \in 0..run
        /\ UNCHANGED <<data, alerts, other, polling, chan, histories>>
    BY <1>6, RemoveTypes DEF DeleteCall, RemoveSession
  <2> QED
    BY <1>6, <2>1 DEF DeleteCall
<1> QED
  BY <1>1, <1>2, <1>3, <1>4, <1>5, <1>6 DEF Calling

\* The returns of the calls keep the types.
LEMMA TypeReturning ==
  ASSUME Types, Returning
  PROVE  Types'
<1> USE TorrentAssumption DEF Types, Started, engine, native, adapter, histories, task, files, stored, budget
<1>1. CASE EngineRefuses
  BY <1>1 DEF EngineRefuses
<1>2. CASE CallReturns
  <2>1. /\ torrent' \in {"none", "meta", "down", "half", "done"}
        /\ paused' \in BOOLEAN /\ dirty' \in BOOLEAN /\ saving' \in BOOLEAN
        /\ sender' \in 0..run
        /\ UNCHANGED <<data, alerts, other, polling, chan, histories>>
    <3>1. CASE UNCHANGED engine
      BY <3>1
    <3>2. CASE PauseSession
      BY <3>2 DEF PauseSession
    <3>3. CASE ResumeSession
      BY <3>3 DEF ResumeSession
    <3>4. CASE RemoveSession
      BY <3>4, RemoveTypes DEF RemoveSession
    <3> QED
      BY <1>2, <3>1, <3>2, <3>3, <3>4 DEF CallReturns, EngineCalled
  <2>2. gate' \in Gates /\ gate'.run = 0 /\ held' = held
    BY <1>2, SavesType DEF CallReturns, Savers
  <2> QED
    BY <1>2, <2>1, <2>2 DEF CallReturns
<1>3. CASE DeleteReturns
  <2>1. snap' \in Snaps /\ db' \in Dbs
    BY <1>3, ConstantTypes DEF DeleteReturns
  <2>2. /\ status' \in Statuses /\ pieces' \in {"none", "some", "all"} /\ session' \in BOOLEAN
        /\ announced' \in BOOLEAN /\ replayed' \in BOOLEAN
    BY <1>3 DEF DeleteReturns, Statuses
  <2> QED
    BY <1>3, <2>1, <2>2 DEF DeleteReturns
<1> QED
  BY <1>1, <1>2, <1>3 DEF Returning

\* The writes of the rows, and what the event loop reads, keep the types.
LEMMA TypeSaving ==
  ASSUME Types, Saving
  PROVE  Types'
<1> USE DEF Types, Started, engine, native, adapter, histories, task, stored, budget
<1>0. ASSUME NEW row \in Dbs, Writes(row) \/ WriteFails
      PROVE  db' \in Dbs /\ replayed' \in BOOLEAN /\ erred' \in BOOLEAN
  BY <1>0 DEF Writes, WriteFails
<1>1. CASE GateWrites
  <2>1. gate.row \in Dbs /\ gate.tells \in BOOLEAN /\ (Writes(gate.row) \/ WriteFails)
    BY <1>1 DEF GateWrites, Gates
  <2>2. db' \in Dbs /\ replayed' \in BOOLEAN /\ erred' \in BOOLEAN
    BY <2>1, <1>0
  <2>3. gate' \in Gates /\ gate'.run = 0
    BY <1>1, ConstantTypes DEF GateWrites
  <2>4. announced' \in BOOLEAN /\ pc' \in {pc, "idle"} /\ call' \in {call, "none"}
    BY <1>1, <2>1 DEF GateWrites
  <2> QED
    BY <1>1, <2>2, <2>3, <2>4 DEF GateWrites
<1>2. CASE LoopReads
  <2>1. held' \in Dbs
    BY <1>2, ConstantTypes DEF LoopReads, Row, Dbs
  <2>2. announced' \in BOOLEAN
    BY <1>2 DEF LoopReads
  <2> QED
    BY <1>2, <2>1, <2>2 DEF LoopReads
<1>3. CASE LoopWrites
  <2>1. db' \in Dbs /\ replayed' \in BOOLEAN /\ erred' \in BOOLEAN
    BY <1>3, <1>0 DEF LoopWrites
  <2>2. held' \in Dbs
    BY <1>3, ConstantTypes DEF LoopWrites
  <2> QED
    BY <1>3, <2>1, <2>2 DEF LoopWrites
<1> QED
  BY <1>1, <1>2, <1>3 DEF Saving

\* A listener keeps the types.
LEMMA TypeHandle ==
  ASSUME Types, NEW k \in Runs, Handle(k)
  PROVE  Types'
<1> USE TorrentAssumption DEF Types, Started, engine, native, adapter, histories, task, files, stored, budget
<1>0. ASSUME NEW kinds, Receives(k, kinds)
      PROVE  /\ chan' \in [Runs -> Seq(Alerts)] /\ Head(chan[k]) \in Alerts /\ Head(chan[k]).kind \in kinds
             /\ missed' \in BOOLEAN /\ k \in listening
  BY <1>0 DEF Receives
<1>00. ASSUME NEW tells \in BOOLEAN, Saves("listener", k, tells), k \in listening,
              status' \in Statuses, snap' \in Snaps, pieces' \in {"none", "some", "all"}
       PROVE  gate' \in Gates /\ gate'.run = k /\ held' = held
  BY <1>00, SavesType DEF Savers
<1>1. CASE HandleMetadata(k)
  <2>1. snap' \in Snaps
    BY <1>1 DEF HandleMetadata, Snaps
  <2>2. pieces' \in {"none", "some", "all"} /\ UNCHANGED <<status, session, finishing, announced>>
    BY <1>1 DEF HandleMetadata, Installed
  <2>3. gate' \in Gates /\ gate'.run = k /\ held' = held /\ k \in listening
    BY <1>1, <2>1, <2>2, <1>0, <1>00 DEF HandleMetadata
  <2>4. Receives(k, {"metadata"})
    BY <1>1 DEF HandleMetadata
  <2> QED
    BY <1>0, <2>1, <2>2, <2>3, <2>4 DEF Receives
<1>2. CASE HandlePiece(k)
  <2>1. pieces' \in {"none", "some", "all"} /\ UNCHANGED <<status, session, snap, finishing, announced>>
    BY <1>2 DEF HandlePiece
  <2>2. gate' \in Gates /\ gate'.run = k /\ held' = held /\ k \in listening
    BY <1>2, <2>1, <1>0, <1>00 DEF HandlePiece
  <2>3. Receives(k, {"piece"})
    BY <1>2 DEF HandlePiece
  <2> QED
    BY <1>0, <2>1, <2>2, <2>3 DEF Receives
<1>3. CASE HandleData(k)
  <2>0. Head(chan[k]) \in Alerts
    BY <1>3, <1>0 DEF HandleData
  <2>1. Head(chan[k]).data \in 0..MaxData
    BY <2>0 DEF Alerts
  <2>2. snap' \in Snaps
    <3>1. ASSUME NEW n \in 0..MaxData
          PROVE  [snap EXCEPT !.data = n] \in Snaps
      BY DEF Snaps
    <3> DEFINE n == IF snap.present THEN Head(chan[k]).data ELSE 0
    <3>2. n \in 0..MaxData
      BY <2>1
    <3>3. snap' = [snap EXCEPT !.data = n]
      BY <1>3 DEF HandleData
    <3> QED
      BY <3>1, <3>2, <3>3
  <2>3. UNCHANGED <<status, session, pieces, finishing, announced>>
    BY <1>3 DEF HandleData
  <2>4. gate' \in Gates /\ gate'.run = k /\ held' = held /\ k \in listening
    BY <1>3, <2>2, <2>3, <1>0, <1>00 DEF HandleData
  <2>5. Receives(k, {"data"})
    BY <1>3 DEF HandleData
  <2> QED
    BY <1>0, <2>2, <2>3, <2>4, <2>5 DEF Receives
<1>4. CASE HandlePaused(k)
  <2>1. Receives(k, {"paused"})
    BY <1>4 DEF HandlePaused
  <2> QED
    BY <1>4, <1>0, <2>1 DEF HandlePaused, Receives, Statuses
<1>5. CASE HandleOther(k)
  <2>1. announced' \in BOOLEAN
    BY <1>5 DEF HandleOther
  <2>2. Receives(k, {"resolving", "downloading"})
    BY <1>5 DEF HandleOther
  <2> QED
    BY <1>5, <1>0, <2>1, <2>2 DEF HandleOther, Receives
<1>6. CASE HandleEnd(k)
  <2>1. Receives(k, {"completed", "finished", "error"})
    BY <1>6 DEF HandleEnd
  <2>2. status' \in Statuses /\ pieces' \in {"none", "some", "all"} /\ finishing' \subseteq listening
    BY <1>6, <1>0, <2>1 DEF HandleEnd, Statuses
  <2> QED
    BY <1>6, <1>0, <2>1, <2>2 DEF HandleEnd, Receives
<1>7. CASE Finish(k)
  <2>1. gate' \in Gates /\ gate'.run = k /\ held' = held /\ k \in listening
    BY <1>7, <1>00 DEF Finish
  <2>2. finishing' \subseteq listening'
    BY <1>7 DEF Finish
  <2> QED
    BY <1>7, <2>1, <2>2 DEF Finish
<1> QED
  BY <1>1, <1>2, <1>3, <1>4, <1>5, <1>6, <1>7 DEF Handle

\* libtorrent and the polling future keep the types.
LEMMA TypeEngine ==
  ASSUME Types, Libtorrent \/ Update \/ Polls \/ Upset
  PROVE  Types'
<1> USE TorrentAssumption DEF adapter, histories
<1>0. ASSUME NEW a \in Alerts, Post(a), Types
      PROVE  alerts' \in Seq(Alerts)
  BY <1>0 DEF Post, Types
<1>1. \A c \in {"metadata", "piece", "finished", "error"} \cup States : Alert(c) \in Alerts
  BY DEF Alert, Alerts
<1>2. ASSUME NEW n \in 1..MaxData
      PROVE  [kind |-> "data", data |-> n] \in Alerts
  BY DEF Alerts
<1> DEFINE EngineTypes ==
      /\ torrent' \in {"none", "meta", "down", "half", "done"}
      /\ paused' \in BOOLEAN /\ dirty' \in BOOLEAN /\ saving' \in BOOLEAN
      /\ other' \in BOOLEAN /\ polling' \in BOOLEAN /\ missed' \in BOOLEAN /\ reused' \in BOOLEAN
      /\ data' \in 0..MaxData
      /\ alerts' \in Seq(Alerts)
      /\ sender' = sender
      /\ chan' \in [Runs -> Seq(Alerts)]
<1>3. ASSUME NativeMetadata
      PROVE  EngineTypes
  BY <1>3, <1>0, <1>1 DEF NativeMetadata, Types
<1>4. ASSUME NativePiece
      PROVE  EngineTypes
  BY <1>4, <1>0, <1>1 DEF NativePiece, Types
<1>5. ASSUME NativeFinish
      PROVE  EngineTypes
  BY <1>5, <1>0, <1>1 DEF NativeFinish, Types
<1>6. ASSUME NativeUpdate
      PROVE  EngineTypes
  <2>1. MappedState \in States
    BY <1>6 DEF NativeUpdate, MappedState, States, Types
  <2> QED
    BY <1>6, <2>1, <1>0, <1>1 DEF NativeUpdate, Types
<1>7. ASSUME NativeSaved
      PROVE  EngineTypes
  <2>1. data + 1 \in 1..MaxData
    BY <1>7 DEF NativeSaved, Types
  <2> QED
    <3>1. alerts' \in Seq(Alerts)
      BY <1>7, <2>1, <1>0, <1>2 DEF NativeSaved
    <3>2. saving' \in BOOLEAN
      BY <1>7 DEF NativeSaved
    <3>3. data' \in 0..MaxData
      BY <1>7, <2>1 DEF NativeSaved, Types
    <3> QED
      BY <1>7, <3>1, <3>2, <3>3 DEF NativeSaved, Types
<1>8. ASSUME NativeError
      PROVE  EngineTypes
  BY <1>8, <1>0, <1>1 DEF NativeError, Types
<1>9. ASSUME NativeQueue
      PROVE  EngineTypes
  BY <1>9 DEF NativeQueue, Types
<1>10. ASSUME OtherTask
      PROVE  EngineTypes
  BY <1>10 DEF OtherTask, native, Types
<1>11. ASSUME Poll
      PROVE  EngineTypes
  <2>1. chan' \in [Runs -> Seq(Alerts)]
    BY <1>11 DEF Poll, Types, Runs
  <2>2. alerts' \in Seq(Alerts) /\ missed' \in BOOLEAN /\ polling' \in BOOLEAN
    BY <1>11 DEF Poll, Types
  <2> QED
    BY <1>11, <2>1, <2>2 DEF Poll, native, Types
<1>12. ASSUME PollFails
      PROVE  EngineTypes
  <2>0. Alert("error") \in Alerts /\ (sender # 0 => sender \in Runs)
    BY <1>1 DEF Types, Runs
  <2>1. chan' \in [Runs -> Seq(Alerts)]
    BY <1>12, <2>0 DEF PollFails, Types
  <2>2. polling' \in BOOLEAN
    BY <1>12 DEF PollFails
  <2> QED
    BY <1>12, <2>1, <2>2 DEF PollFails, native, Types
<1>13. EngineTypes
  BY <1>3, <1>4, <1>5, <1>6, <1>7, <1>8, <1>9, <1>10, <1>11, <1>12
     DEF Libtorrent, Update, Polls, Upset
<1>14. UNCHANGED others
  BY DEF Libtorrent, Update, Polls, Upset
<1> QED
  BY <1>13, <1>14 DEF Types, others, task, control, files, stored

\* A crash keeps the types.
LEMMA TypeCrash ==
  ASSUME Types, Crash
  PROVE  Types'
<1>1. /\ paused' \in BOOLEAN /\ dirty' \in BOOLEAN /\ saving' \in BOOLEAN /\ other' \in BOOLEAN
      /\ polling' \in BOOLEAN /\ missed' \in BOOLEAN /\ reused' \in BOOLEAN /\ up' \in BOOLEAN /\ session' \in BOOLEAN
      /\ announced' \in BOOLEAN
  BY DEF Crash
<1>2. alerts' \in Seq(Alerts) /\ chan' \in [Runs -> Seq(Alerts)]
  BY DEF Crash
<1>3. given' \in Snaps /\ held' \in Dbs /\ gate' \in Gates /\ gate'.run = 0
  BY ConstantTypes DEF Crash
<1> QED
  BY <1>1, <1>2, <1>3 DEF Crash, Types, Started, stored

\* A restart keeps the types.
LEMMA TypeRestore ==
  ASSUME Types, Restore
  PROVE  Types'
<1>1. db \in [status : Statuses, snap : Snaps, pieces : {"none", "some", "all"}]
  BY DEF Restore, Types, Dbs
<1>2. snap' \in Snaps /\ status' \in Statuses /\ pieces' \in {"none", "some", "all"}
  BY <1>1 DEF Restore, Statuses
<1>3. db' \in Dbs
  BY <1>2 DEF Restore, Row, Dbs
<1>4. up' \in BOOLEAN /\ replayed' \in BOOLEAN
  BY DEF Restore
<1> QED
  BY <1>2, <1>3, <1>4 DEF Restore, Types, Started, engine, native, adapter, histories, control,
     files, budget

\* Every step keeps the types.
LEMMA TypeStep == Types /\ [Next]_vars => Types'
<1> SUFFICES ASSUME Types, [Next]_vars PROVE Types'
  OBVIOUS
<1>1. CASE UNCHANGED vars
  BY <1>1 DEF Types, vars, engine, native, adapter, histories, task, control, files, stored, budget
<1> QED
  BY <1>1, TypeCalling, TypeStarting, TypeReturning, TypeSaving, TypeHandle, TypeEngine, TypeCrash, TypeRestore
     DEF Next

\* Types are kept, and only runs that were started are listened to.
THEOREM TypeCorrect == Spec => []TypeOK
<1>1. Spec => []Types
  BY TypesInit, TypeStep, PTL DEF Spec
<1> QED
  BY <1>1, TypesImply, PTL

-----------------------------------------------------------------------------
\* Where a start, a call, a save and a crash leave each other: a call is in progress
\* until its save is written; a task is Preparing only during a start, and Pending
\* only before it; a crash leaves nothing under way, and a task that is Pending and
\* not being started has nothing under way either.
Idle == listening = {} /\ ~announced /\ held = NoRow /\ gate = NoSave
Placed ==
  /\ gate.by = "call" => call \in {"pause", "resume", "cancel"}
  /\ up /\ ~erred /\ status = "Preparing" =>
       pc \in {"prepare", "add", "register", "ensure", "install", "launch"}
  /\ up /\ status = "Pending" => pc \in {"idle", "mark"}
  /\ ~up => Idle /\ pc = "idle" /\ call = "none" /\ finishing = {}
  /\ up /\ ~erred /\ status = "Pending" /\ pc = "idle" =>
       Idle /\ call \in {"none", "delete"} /\ db.status = "Pending"

\* A save that enters the gate has read the status.
LEMMA SavesRow ==
  ASSUME NEW by, NEW k, NEW tells, Saves(by, k, tells)
  PROVE  /\ gate = NoSave /\ gate'.row.status = status' /\ gate'.tells = tells /\ gate'.by = by
         /\ held' = held
BY DEF Saves, Row

\* A write that does not fail leaves its row, and says whether it was outdated.
LEMMA WritesRow ==
  ASSUME NEW row, Writes(row) \/ WriteFails
  PROVE  /\ erred => erred'
         /\ erred' \/ (db' = row /\ (replayed' \/ row.status = status'))
<1>1. CASE Writes(row)
  <2>1. row = Row => row.status = status'
    BY DEF Row
  <2>2. row # Row => replayed'
    BY <1>1, Zenon DEF Writes
  <2> QED
    BY <1>1, <2>1, <2>2, Zenon DEF Writes
<1>2. CASE WriteFails
  BY <1>2, Zenon DEF WriteFails
<1> QED
  BY <1>1, <1>2

\* Placed is inductive.
LEMMA PlacedStep == Types /\ Placed /\ [Next]_vars => Placed'
<1> SUFFICES ASSUME Types, Placed, [Next]_vars PROVE Placed'
  OBVIOUS
<1> USE DEF Placed, Idle
<1>1. CASE UNCHANGED vars
  BY <1>1 DEF vars, task, control, files, stored
<1>2. CASE Calling
  <2>1. CASE ResumeAnew
    <3>1. gate'.by = "start"
      BY <2>1, SavesRow DEF ResumeAnew
    <3> QED
      BY <2>1, <3>1 DEF ResumeAnew, Call
  <2>2. CASE Start
    BY <2>2 DEF Start, Call, task, files, stored
  <2>3. CASE PauseCall
    BY <2>3 DEF PauseCall, Call, files, stored
  <2>4. CASE ResumeCall
    BY <2>4 DEF ResumeCall, Call, files, stored
  <2>5. CASE CancelCall
    BY <2>5 DEF CancelCall, Call, files, stored
  <2>6. CASE DeleteCall
    BY <2>6 DEF DeleteCall, Call, task, files, stored
  <2> QED
    BY <1>2, <2>1, <2>2, <2>3, <2>4, <2>5, <2>6 DEF Calling
<1>3. CASE Starting
  <2>1. CASE Mark
    <3>1. gate'.by = "start"
      BY <2>1, SavesRow DEF Mark
    <3> QED
      BY <2>1, <3>1 DEF Mark
  <2>2. CASE Install
    <3>1. gate'.by = "start"
      BY <2>2, SavesRow DEF Install
    <3> QED
      BY <2>2, <3>1 DEF Install
  <2>3. CASE SaveRunning
    <3>1. gate'.by = "start"
      BY <2>3, SavesRow DEF SaveRunning
    <3> QED
      BY <2>3, <3>1 DEF SaveRunning, task
  <2>4. CASE Launch
    BY <2>4 DEF Launch, Terminal, files, stored
  <2>5. CASE Reset \/ Prepare \/ Add \/ AddFails \/ RegisterSender \/ Ensure \/ Listen
    BY <2>5 DEF Reset, Prepare, Add, AddFails, RegisterSender, Ensure, Listen, task, files, stored
  <2> QED
    BY <1>3, <2>1, <2>2, <2>3, <2>4, <2>5 DEF Starting
<1>4. CASE Returning
  <2>1. CASE CallReturns
    <3>1. gate'.by = "call"
      BY <2>1, SavesRow DEF CallReturns
    <3> QED
      BY <2>1, <3>1 DEF CallReturns, task
  <2> QED
    BY <1>4, <2>1 DEF Returning, EngineRefuses, DeleteReturns, task, files, stored
<1>5. CASE Saving
  <2>1. CASE GateWrites
    <3>1. /\ gate # NoSave /\ gate' = NoSave /\ gate'.by # "call" /\ UNCHANGED <<status, up>> /\ up
          /\ (erred' \/ pc' = pc) /\ (erred => erred')
      BY <2>1 DEF GateWrites, Writes, WriteFails, task, NoSave
    <3>2. pc' = pc \/ (erred' /\ pc' = "idle")
      BY <2>1 DEF GateWrites, Writes, WriteFails
    <3> QED
      BY <3>1, <3>2
  <2>2. CASE LoopReads
    BY <2>2 DEF LoopReads, task, stored
  <2>3. CASE LoopWrites
    BY <2>3, WritesRow DEF LoopWrites, task
  <2> QED
    BY <1>5, <2>1, <2>2, <2>3 DEF Saving
<1>6. ASSUME NEW k \in Runs, Handle(k)
      PROVE  Placed'
  <2>0. /\ k \in listening /\ listening' = listening /\ up /\ UNCHANGED <<up, pc, call, erred>>
        /\ status' \in {status, "Paused", "Failed", "Completed"}
    BY <1>6 DEF Handle, HandleMetadata, HandlePiece, HandleData, HandlePaused, HandleOther,
       HandleEnd, Finish, Receives, task, budget, Types
  <2>1. UNCHANGED files \/ gate'.by = "listener"
    BY <1>6, SavesRow DEF Handle, HandleMetadata, HandlePiece, HandleData, HandlePaused, HandleOther,
       HandleEnd, Finish
  <2> QED
    BY <2>0, <2>1 DEF files
<1>7. CASE Libtorrent \/ Update \/ Polls \/ Upset
  BY <1>7 DEF Libtorrent, Update, Polls, Upset, others, task, control, files, stored
<1>8. CASE Crash
  BY <1>8 DEF Crash, NoSave
<1>9. CASE Restore
  <2>1. status' # "Preparing" /\ db'.status = status'
    BY <1>9 DEF Restore, Row
  <2> QED
    BY <1>9, <2>1 DEF Restore, control, files
<1> QED
  BY <1>1, <1>2, <1>3, <1>4, <1>5, <1>6, <1>7, <1>8, <1>9 DEF Next

\* Somebody is still to read the status: the event loop, a listener inside
\* finish_job, the start or a call.
Unsaved ==
  \/ announced \/ finishing # {} \/ pc = "save"
  \/ call \in {"pause", "resume", "cancel"} /\ gate.by # "call"

\* Every status is in the row or on its way there, or the row was outdated when it
\* was written.
SavedOrUnsaved ==
  up /\ ~erred /\ status # "Deleted" =>
    \/ Unsaved \/ gate.row.status = status \/ held.status = status
    \/ db.status = status \/ replayed

\* Every step that sets the status saves it or leaves somebody who will.
LEMMA SavedStep == Types /\ Placed /\ SavedOrUnsaved /\ [Next]_vars => SavedOrUnsaved'
<1> SUFFICES ASSUME Types, Placed, SavedOrUnsaved, [Next]_vars PROVE SavedOrUnsaved'
  OBVIOUS
<1> USE DEF SavedOrUnsaved, Unsaved
<1>1. CASE UNCHANGED vars
  BY <1>1 DEF vars, task, control, files, stored
<1>2. CASE Calling
  <2>1. CASE ResumeAnew
    BY <2>1, SavesRow DEF ResumeAnew
  <2>2. call = "none" => gate.by # "call"
    BY DEF Placed
  <2>3. CASE Start
    BY <2>3 DEF Start, Call, task, files, stored
  <2>4. CASE PauseCall \/ ResumeCall \/ CancelCall
    BY <2>4, <2>2 DEF PauseCall, ResumeCall, CancelCall, files
  <2>5. CASE DeleteCall
    BY <2>5, <2>2 DEF DeleteCall, Call, task, files, stored
  <2> QED
    BY <1>2, <2>1, <2>3, <2>4, <2>5 DEF Calling
<1>3. CASE Starting
  <2>1. CASE Mark
    BY <2>1, SavesRow DEF Mark
  <2>2. CASE Install
    BY <2>2, SavesRow DEF Install
  <2>3. CASE SaveRunning
    BY <2>3, SavesRow DEF SaveRunning
  <2>4. CASE Launch
    BY <2>4 DEF Launch, files, stored
  <2>5. CASE Reset \/ Prepare \/ Add \/ AddFails \/ RegisterSender \/ Ensure \/ Listen
    BY <2>5 DEF Reset, Prepare, Add, AddFails, RegisterSender, Ensure, Listen, task, files, stored
  <2> QED
    BY <1>3, <2>1, <2>2, <2>3, <2>4, <2>5 DEF Starting
<1>4. CASE Returning
  <2>1. CASE CallReturns
    BY <2>1, SavesRow DEF CallReturns
  <2>2. CASE EngineRefuses
    BY <2>2 DEF EngineRefuses
  <2>3. CASE DeleteReturns
    BY <2>3 DEF DeleteReturns, files, stored
  <2> QED
    BY <1>4, <2>1, <2>2, <2>3 DEF Returning
<1>5. CASE Saving
  <2>1. CASE GateWrites
    <3>1. /\ UNCHANGED <<status, up, finishing>> /\ (announced /\ ~erred' => announced')
          /\ (~erred' => pc' = pc) /\ gate'.by # "call"
      BY <2>1 DEF GateWrites, Writes, WriteFails, task, NoSave
    <3>2. /\ erred => erred'
          /\ erred' \/ replayed' \/ db'.status = status'
      BY <2>1, WritesRow DEF GateWrites
    <3> QED
      BY <3>1, <3>2
  <2>2. CASE LoopReads
    <3>1. status # "Deleted" => held'.status = status'
      BY <2>2 DEF LoopReads, Row
    <3> QED
      BY <2>2, <3>1 DEF LoopReads, task
  <2>3. CASE LoopWrites
    BY <2>3, WritesRow DEF LoopWrites
  <2> QED
    BY <1>5, <2>1, <2>2, <2>3 DEF Saving
<1>6. ASSUME NEW k \in Runs, Handle(k)
      PROVE  SavedOrUnsaved'
  <2>1. CASE HandleMetadata(k) \/ HandlePiece(k) \/ HandleData(k)
    BY <2>1, SavesRow DEF HandleMetadata, HandlePiece, HandleData
  <2>2. CASE HandlePaused(k)
    BY <2>2 DEF HandlePaused
  <2>3. CASE HandleOther(k)
    <3>1. announced => announced'
      BY <2>3 DEF HandleOther
    <3> QED
      BY <2>3, <3>1 DEF HandleOther, Receives, task, files, stored
  <2>4. CASE HandleEnd(k)
    BY <2>4 DEF HandleEnd
  <2>5. CASE Finish(k)
    BY <2>5, SavesRow DEF Finish
  <2> QED
    BY <1>6, <2>1, <2>2, <2>3, <2>4, <2>5 DEF Handle
<1>7. CASE Libtorrent \/ Update \/ Polls \/ Upset
  BY <1>7 DEF Libtorrent, Update, Polls, Upset, others, task, control, files, stored
<1>8. CASE Crash
  BY <1>8 DEF Crash
<1>9. CASE Restore
  BY <1>9 DEF Restore, Row
<1> QED
  BY <1>1, <1>2, <1>3, <1>4, <1>5, <1>6, <1>7, <1>8, <1>9 DEF Next

\* Of Completed and Canceled nothing outdated is left in the end: whoever sets them
\* saves them and tells the event loop, which saves them once more, after every row
\* that was read before.
Lasting == {"Completed", "Canceled"}
Following ==
  up /\ ~erred /\ status \in Lasting =>
    \/ finishing # {} \/ (call \in {"pause", "cancel"} /\ gate.by # "call")
    \/ gate.row.status = status /\ gate.tells
    \/ /\ gate = NoSave \/ gate.row.status = status
       /\ \/ announced \/ held.status = status
          \/ held = NoRow /\ db.status = status

\* Following is inductive.
LEMMA FollowingStep == Types /\ Placed /\ Following /\ [Next]_vars => Following'
<1> SUFFICES ASSUME Types, Placed, Following, [Next]_vars PROVE Following'
  OBVIOUS
<1> USE DEF Following, Lasting
<1>0. ASSUME NEW by, NEW k, Saves(by, k, FALSE), up' = up, erred' = erred, status' = status,
             by # "call", UNCHANGED <<announced, finishing, call, stored>>
      PROVE  Following'
  <2>0. NoSave.by = "none" /\ NoSave.row.status = "none"
    BY DEF NoSave, NoRow
  <2>1. /\ gate = NoSave /\ gate'.row.status = status' /\ gate'.by = by /\ held' = held
    BY <1>0, SavesRow
  <2>2. gate.by # "call" /\ gate.row.status = "none"
    BY <2>0, <2>1
  <2> QED
    BY <1>0, <2>1, <2>2 DEF stored, Types, Statuses
<1>1. CASE UNCHANGED vars
  BY <1>1 DEF vars, task, control, files, stored
<1>2. CASE Calling
  <2>1. CASE ResumeAnew
    BY <2>1 DEF ResumeAnew
  <2>2. call = "none" => gate.by # "call"
    BY DEF Placed
  <2>3. CASE Start
    BY <2>3 DEF Start, Call, task, files, stored
  <2>4. CASE PauseCall \/ ResumeCall
    BY <2>4 DEF PauseCall, ResumeCall
  <2>5. CASE CancelCall
    BY <2>5, <2>2 DEF CancelCall, files
  <2>6. CASE DeleteCall
    BY <2>6, <2>2 DEF DeleteCall, Call, task, files, stored
  <2> QED
    BY <1>2, <2>1, <2>3, <2>4, <2>5, <2>6 DEF Calling
<1>3. CASE Starting
  <2>1. CASE Mark
    BY <2>1 DEF Mark
  <2>2. CASE Install
    BY <2>2, <1>0 DEF Install
  <2>3. CASE SaveRunning
    BY <2>3, <1>0 DEF SaveRunning, task
  <2>4. CASE Launch
    BY <2>4 DEF Launch, files, stored
  <2>5. CASE Reset \/ Prepare \/ Add \/ AddFails \/ RegisterSender \/ Ensure \/ Listen
    BY <2>5 DEF Reset, Prepare, Add, AddFails, RegisterSender, Ensure, Listen, task, files, stored
  <2> QED
    BY <1>3, <2>1, <2>2, <2>3, <2>4, <2>5 DEF Starting
<1>4. CASE Returning
  <2>1. CASE CallReturns
    <3>1. /\ gate = NoSave /\ gate'.row.status = status' /\ gate'.tells = (call # "resume")
          /\ held' = held /\ gate.row.status = "none"
      BY <2>1, SavesRow DEF CallReturns, NoSave, NoRow
    <3> QED
      BY <2>1, <3>1 DEF CallReturns, task, stored, Types, Statuses
  <2>2. CASE EngineRefuses
    BY <2>2 DEF EngineRefuses
  <2>3. CASE DeleteReturns
    BY <2>3 DEF DeleteReturns
  <2> QED
    BY <1>4, <2>1, <2>2, <2>3 DEF Returning
<1>5. CASE Saving
  <2>1. CASE GateWrites
    <3>1. CASE WriteFails
      BY <2>1, <3>1 DEF WriteFails
    <3>2. CASE Writes(gate.row) /\ announced' = (announced \/ gate.tells)
      <4>1. /\ UNCHANGED <<status, up, finishing, erred, held>> /\ gate' = NoSave
            /\ db' = gate.row /\ gate # NoSave
            /\ call' = IF gate.by = "call" THEN "none" ELSE call
        BY <2>1, <3>2 DEF GateWrites, Writes, WriteFails, task
      <4>2. (announced \/ gate.tells => announced') /\ gate'.by = "none"
        BY <3>2, <4>1 DEF NoSave
      <4> QED
        BY <4>1, <4>2
    <3> QED
      BY <2>1, <3>1, <3>2 DEF GateWrites
  <2>2. CASE LoopReads
    <3>1. status \in Lasting => held'.status = status'
      BY <2>2 DEF LoopReads, Row
    <3> QED
      BY <2>2, <3>1 DEF LoopReads, task
  <2>3. CASE LoopWrites
    BY <2>3, WritesRow DEF LoopWrites, task
  <2> QED
    BY <1>5, <2>1, <2>2, <2>3 DEF Saving
<1>6. ASSUME NEW k \in Runs, Handle(k)
      PROVE  Following'
  <2>1. CASE HandleMetadata(k) \/ HandlePiece(k) \/ HandleData(k)
    BY <2>1, <1>0 DEF HandleMetadata, HandlePiece, HandleData, Receives
  <2>2. CASE HandlePaused(k)
    BY <2>2 DEF HandlePaused
  <2>3. CASE HandleOther(k)
    <3>1. announced => announced'
      BY <2>3 DEF HandleOther
    <3> QED
      BY <2>3, <3>1 DEF HandleOther, Receives, task, files, stored
  <2>4. CASE HandleEnd(k)
    BY <2>4 DEF HandleEnd
  <2>5. CASE Finish(k)
    BY <2>5, SavesRow DEF Finish, task
  <2> QED
    BY <1>6, <2>1, <2>2, <2>3, <2>4, <2>5 DEF Handle
<1>7. CASE Libtorrent \/ Update \/ Polls \/ Upset
  BY <1>7 DEF Libtorrent, Update, Polls, Upset, others, task, control, files, stored
<1>8. CASE Crash
  BY <1>8 DEF Crash
<1>9. CASE Restore
  BY <1>9 DEF Restore, Row, Placed, Idle, control, files
<1> QED
  BY <1>1, <1>2, <1>3, <1>4, <1>5, <1>6, <1>7, <1>8, <1>9 DEF Next

\* When everything has come to rest, the row has the status of the task, or it was
\* outdated when it was written, over a status that is Running, Paused or Failed.
THEOREM SettledIsSavedCorrect == Spec => []SettledIsSaved
<1>1. Init => Placed /\ SavedOrUnsaved /\ Following
  BY DEF Init, Placed, Idle, SavedOrUnsaved, Following, Lasting, Fresh, NoSave
<1>2. Types /\ Placed /\ SavedOrUnsaved /\ Following => SettledIsSaved
  <2> SUFFICES ASSUME Types, Placed, SavedOrUnsaved, Following, Quiet, ~erred, status # "Deleted"
               PROVE  db.status = status \/ (replayed /\ status \in {"Running", "Paused", "Failed"})
    BY DEF SettledIsSaved
  <2>0. /\ up /\ pc = "idle" /\ call = "none" /\ finishing = {} /\ ~announced
        /\ gate = NoSave /\ held = NoRow
    BY DEF Quiet
  <2>1. gate.row.status = "none" /\ held.status = "none" /\ ~gate.tells /\ status # "none"
    BY <2>0 DEF NoSave, NoRow, Types, Statuses
  <2>2. db.status = status \/ replayed
    BY <2>0, <2>1 DEF SavedOrUnsaved, Unsaved
  <2>3. status \in Lasting => db.status = status
    BY <2>0, <2>1 DEF Following
  <2>4. status # "Preparing" /\ (status = "Pending" => db.status = status)
    BY <2>0 DEF Placed
  <2> QED
    BY <2>2, <2>3, <2>4 DEF Types, Statuses, Lasting
<1> QED
  BY <1>1, <1>2, TypesInit, TypeStep, PlacedStep, SavedStep, FollowingStep, PTL DEF Spec

-----------------------------------------------------------------------------
\* No error, no lost alert, no overlapping calls, no torrent taken over so far.
Clean == up /\ ~erred /\ ~missed /\ ~raced /\ ~reused
\* Steps of Task::start with the sender registered.
Entered == {"ensure", "install", "launch", "save", "listen"}
\* Steps of Task::start before the status becomes Running.
Early == {"reset", "mark", "prepare", "add", "register", "ensure", "install", "launch"}

\* Without a race a call and a start exclude each other; a crash leaves nothing behind.
Rest ==
  /\ ~raced => pc = "idle" \/ call = "none"
  /\ ~up => /\ torrent = "none" /\ sender = 0 /\ ~paused /\ pc = "idle" /\ call = "none"
            /\ listening = {}

\* A resume has set the status, and has not called the engine yet.
Resuming == call = "resume" /\ gate.by # "call"

\* How the step of the start, the call, the sender, the session and the torrent
\* hang together while everything is clean.
Control ==
  /\ pc \in Early => status # "Running"
  /\ status = "Preparing" => pc \notin {"idle", "save", "listen"}
  /\ pc # "register" => sender \in {0, run}
  /\ pc \in Entered => sender = run
  /\ pc \in Started => run \notin listening
  /\ pc # "register" => (sender = 0 <=> torrent = "none")
  /\ pc = "register" => torrent # "none"
  /\ sender # 0 /\ pc \notin Entered => sender \in listening
  /\ sender # 0 /\ pc \in {"idle", "launch", "save", "listen"} => session
  /\ paused => torrent # "none"
  /\ status = "Running" /\ ~Resuming /\ call # "delete" => sender # 0
  /\ call = "resume" => session
  /\ call \in {"pause", "cancel"} => status # "Running"
  /\ call = "delete" => sender = 0

\* A call that finds another one in progress is recorded as a race.
LEMMA CallRaces ==
  ASSUME Call
  PROVE  up /\ (~raced' => ~raced /\ pc = "idle" /\ call = "none")
BY DEF Call

\* Errors are remembered.
LEMMA ErredStays == ASSUME Types, [Next]_vars PROVE erred => erred'
<1>1. CASE UNCHANGED vars
  BY <1>1 DEF vars
<1>2. CASE Calling
  BY <1>2 DEF Calling, Start, ResumeAnew, PauseCall, ResumeCall, CancelCall, DeleteCall
<1>3. CASE Starting
  BY <1>3 DEF Starting, Reset, Mark, Prepare, Add, AddFails, RegisterSender, Ensure,
     Install, Launch, SaveRunning, Listen
<1>4. CASE Returning \/ Saving
  BY <1>4 DEF Returning, EngineRefuses, CallReturns, DeleteReturns, Saving, GateWrites, LoopReads,
     LoopWrites, Writes, WriteFails
<1>5. CASE \E k \in Runs : Handle(k)
  BY <1>5 DEF Handle, HandleMetadata, HandlePiece, HandleData, HandlePaused, HandleOther,
     HandleEnd, Finish, Receives
<1>6. CASE Libtorrent \/ Update \/ Polls \/ Upset
  BY <1>6 DEF Libtorrent, Update, Polls, Upset, others
<1>7. CASE Crash \/ Restore
  BY <1>7 DEF Crash, Restore
<1> QED
  BY <1>1, <1>2, <1>3, <1>4, <1>5, <1>6, <1>7 DEF Next

\* Races are remembered.
LEMMA RacedStays == ASSUME Types, [Next]_vars PROVE raced => raced'
<1>1. CASE UNCHANGED vars
  BY <1>1 DEF vars, budget
<1>2. CASE Calling
  BY <1>2, CallRaces DEF Calling, Start, ResumeAnew, PauseCall, ResumeCall, CancelCall, DeleteCall
<1>3. CASE Starting
  BY <1>3 DEF Starting, Reset, Mark, Prepare, Add, AddFails, RegisterSender, Ensure,
     Install, Launch, SaveRunning, Listen, budget
<1>4. CASE Returning \/ Saving
  BY <1>4 DEF Returning, EngineRefuses, CallReturns, DeleteReturns, Saving, GateWrites, LoopReads,
     LoopWrites, budget
<1>5. CASE \E k \in Runs : Handle(k)
  BY <1>5 DEF Handle, HandleMetadata, HandlePiece, HandleData, HandlePaused, HandleOther,
     HandleEnd, Finish, Receives, budget
<1>6. CASE Libtorrent \/ Update \/ Polls \/ Upset
  BY <1>6 DEF Libtorrent, Update, Polls, Upset, others
<1>7. CASE Crash \/ Restore
  BY <1>7 DEF Crash, Restore, budget
<1> QED
  BY <1>1, <1>2, <1>3, <1>4, <1>5, <1>6, <1>7 DEF Next

\* Lost alerts and torrents that were taken over are remembered until the process ends.
LEMMA MissedStays == ASSUME Types, [Next]_vars, ~Crash PROVE (missed => missed') /\ (reused => reused')
<1> USE DEF engine, histories
<1>1. CASE UNCHANGED vars
  BY <1>1 DEF vars
<1>2. CASE Calling
  BY <1>2 DEF Calling, Start, ResumeAnew, PauseCall, ResumeCall, CancelCall, DeleteCall, RemoveSession
<1>3. CASE Starting
  <2>1. ASSUME NEW m, AddTorrent(m)
        PROVE  missed' = missed /\ (reused => reused')
    <3>1. missed' = missed
      BY <2>1 DEF AddTorrent
    <3>2. reused' = (reused \/ paused \/ torrent = "done")
      BY <2>1, Zenon DEF AddTorrent
    <3> QED
      BY <3>1, <3>2, Zenon
  <2>2. CASE Add \/ AddFails
    <3>1. (\E m : AddTorrent(m)) \/ UNCHANGED engine
      BY <2>2, Zenon DEF Add, AddFails, Added
    <3> QED
      BY <3>1, <2>1
  <2>3. CASE Reset \/ Mark \/ Prepare \/ Install
    <3>1. engine' = engine
      BY <2>3, Zenon DEF Reset, Mark, Prepare, Install
    <3> QED
      BY <3>1
  <2>4. CASE Launch \/ SaveRunning \/ Listen
    <3>1. engine' = engine
      BY <2>4, Zenon DEF Launch, SaveRunning, Listen
    <3> QED
      BY <3>1
  <2>5. CASE RegisterSender \/ Ensure
    BY <2>5 DEF RegisterSender, Ensure, Register, EnsurePolling
  <2> QED
    BY <1>3, <2>2, <2>3, <2>4, <2>5 DEF Starting
<1>4. CASE Returning \/ Saving
  BY <1>4 DEF Returning, EngineRefuses, CallReturns, DeleteReturns, Saving, GateWrites, LoopReads,
     LoopWrites, EngineCalled, PauseSession, ResumeSession, RemoveSession
<1>5. CASE \E k \in Runs : Handle(k)
  <2>1. ASSUME NEW k, NEW kinds, Receives(k, kinds)
        PROVE  (missed => missed') /\ reused' = reused
    BY <2>1, Zenon DEF Receives
  <2>2. PICK k \in Runs : Handle(k)
    BY <1>5
  <2>3. CASE Finish(k)
    BY <2>3 DEF Finish
  <2> QED
    BY <2>1, <2>2, <2>3 DEF Handle, HandleMetadata, HandlePiece, HandleData, HandlePaused, HandleOther,
       HandleEnd
<1>6. CASE Libtorrent \/ Update \/ Polls \/ Upset
  <2>1. CASE Poll
    BY <2>1, Zenon DEF Poll
  <2> QED
    BY <1>6, <2>1 DEF Libtorrent, Update, Polls, Upset, NativeMetadata, NativePiece,
       NativeFinish, NativeSaved, NativeUpdate, NativeError, NativeQueue, OtherTask, PollFails
<1>7. CASE Restore
  BY <1>7 DEF Restore
<1> QED
  BY <1>1, <1>2, <1>3, <1>4, <1>5, <1>6, <1>7 DEF Next

\* Rest is inductive.
LEMMA RestStep ==
  ASSUME Types, Rest, [Next]_vars
  PROVE  Rest'
<1> USE DEF Rest
<1>1. CASE UNCHANGED vars
  BY <1>1 DEF vars, engine, native, adapter, control, budget
<1>2. CASE Calling
  <2>1. up /\ up' = up /\ (~raced' => ~raced /\ pc = "idle" /\ call = "none")
        /\ (pc' = pc \/ call' = call)
    BY <1>2, CallRaces DEF Calling, Start, ResumeAnew, PauseCall, ResumeCall, CancelCall, DeleteCall
  <2> QED
    BY <2>1
<1>3. CASE Starting
  <2>1. up /\ pc # "idle" /\ UNCHANGED <<up, raced, call>>
    BY <1>3 DEF Starting, Reset, Mark, Prepare, Add, AddFails, RegisterSender, Ensure, Install, Launch,
       SaveRunning, Listen, budget
  <2> QED
    BY <2>1
<1>4. CASE Returning \/ Saving
  BY <1>4 DEF Returning, EngineRefuses, CallReturns, DeleteReturns, Saving, GateWrites, LoopReads,
     LoopWrites, budget
<1>5. CASE \E k \in Runs : Handle(k)
  <2>1. up /\ UNCHANGED <<up, raced, pc, call>>
    BY <1>5 DEF Handle, HandleMetadata, HandlePiece, HandleData, HandlePaused, HandleOther,
       HandleEnd, Finish, Receives, budget
  <2> QED
    BY <2>1
<1>6. CASE Libtorrent \/ Update \/ Polls \/ Upset
  BY <1>6 DEF Libtorrent, Update, Polls, Upset, others, control
<1>7. CASE Crash
  BY <1>7 DEF Crash
<1>8. CASE Restore
  BY <1>8 DEF Restore, control
<1> QED
  BY <1>1, <1>2, <1>3, <1>4, <1>5, <1>6, <1>7, <1>8 DEF Next

\* A clean state follows a clean one, or a restart.
LEMMA CleanBefore ==
  ASSUME Types, [Next]_vars, Clean', ~Restore
  PROVE  Clean
<1>1. ~Crash
  BY DEF Crash, Clean
<1>2. up
  BY DEF Clean, Next, Calling, Call, Start, ResumeAnew, PauseCall, ResumeCall, CancelCall, DeleteCall,
     Starting, Reset, Mark, Prepare, Add, AddFails, RegisterSender, Ensure, Install, Launch,
     SaveRunning, Listen, Returning, EngineRefuses, CallReturns, DeleteReturns, Saving, GateWrites,
     LoopReads, LoopWrites,
     Handle, HandleMetadata, HandlePiece, HandleData, HandlePaused, HandleOther, HandleEnd, Finish,
     Receives, Libtorrent, Update, Polls, Upset, Crash, vars
<1> QED
  BY <1>1, <1>2, ErredStays, RacedStays, MissedStays DEF Clean

\* A listener leaves the gate to others, or enters it when it is free.
LEMMA ListenerSaves ==
  ASSUME NEW k \in Runs, Handle(k)
  PROVE  gate' = gate \/ (gate = NoSave /\ gate'.by = "listener")
<1>1. CASE HandleMetadata(k) \/ HandlePiece(k) \/ HandleData(k) \/ Finish(k)
  BY <1>1, SavesRow DEF HandleMetadata, HandlePiece, HandleData, Finish
<1>2. CASE HandlePaused(k) \/ HandleOther(k) \/ HandleEnd(k)
  BY <1>2 DEF HandlePaused, HandleOther, HandleEnd, files
<1> QED
  BY <1>1, <1>2 DEF Handle

\* Control is inductive while everything is clean.
LEMMA ControlStep ==
  ASSUME Types, Placed, Rest, Rest', Clean => Control, [Next]_vars, Clean'
  PROVE  Control'
<1>0. CASE Restore
  <2>1. status' \notin {"Running", "Preparing"} /\ sender = 0 /\ torrent = "none" /\ pc = "idle"
        /\ call = "none" /\ ~paused
    BY <1>0 DEF Restore, Rest
  <2> QED
    BY <1>0, <2>1 DEF Restore, Control, Early, Entered, Started, engine, native, adapter, control, files, Resuming
<1>a. SUFFICES ASSUME ~Restore PROVE Control'
  BY <1>0
<1>b. Clean /\ Control
  BY <1>a, CleanBefore
<1>c. pc = "idle" \/ call = "none"
  BY <1>b DEF Clean, Rest
<1>d. (gate.by = "call" => call \in {"pause", "resume", "cancel"}) /\ NoSave.by = "none"
  BY DEF Placed, NoSave
<1> USE DEF Control, Early, Entered, Started, Resuming, files
<1>1. CASE UNCHANGED vars
  BY <1>1, <1>b DEF vars, engine, native, adapter, task, control, budget
<1>2. CASE Calling
  <2>0. up /\ pc = "idle" /\ call = "none"
    BY <1>2, CallRaces DEF Clean, Calling, Start, ResumeAnew, PauseCall, ResumeCall, CancelCall, DeleteCall
  <2>1. CASE Start
    BY <2>1, <2>0, <1>b DEF Start, engine, native, adapter, task
  <2>2. CASE ResumeAnew
    BY <2>2, <2>0, <1>b DEF ResumeAnew, engine, native, adapter, task
  <2>3. CASE PauseCall
    BY <2>3, <2>0, <1>b DEF PauseCall, engine, native, adapter, task
  <2>4. CASE ResumeCall
    BY <2>4, <2>0, <1>b, <1>d DEF ResumeCall, engine, native, adapter, task
  <2>5. CASE CancelCall
    BY <2>5, <2>0, <1>b DEF CancelCall, engine, native, adapter, task
  <2>6. CASE DeleteCall
    BY <2>6, <2>0, <1>b DEF DeleteCall, RemoveSession, engine, native, adapter, task
  <2> QED
    BY <1>2, <2>1, <2>2, <2>3, <2>4, <2>5, <2>6 DEF Calling
<1>3. CASE Starting
  <2>0. pc # "idle" /\ call = "none" /\ call' = "none"
    BY <1>3, <1>c DEF Starting, Reset, Mark, Prepare, Add, AddFails, RegisterSender, Ensure,
     Install, Launch, SaveRunning, Listen
  <2>1. CASE Reset
    BY <2>1, <2>0, <1>b DEF Reset, engine, native, adapter
  <2>2. CASE Mark
    BY <2>2, <2>0, <1>b DEF Mark, engine, native, adapter
  <2>3. CASE Prepare
    BY <2>3, <2>0, <1>b DEF Prepare, engine, native, adapter, task
  <2>4. CASE Add
    <3>1. torrent' # "none" /\ ~paused' /\ sender' = sender
      BY <2>4, <1>b DEF Add, Added, AddTorrent, Clean, adapter
    <3>2. run' \notin listening
      BY <2>4, <3>1, <1>b DEF Add, Types
    <3> QED
      BY <2>4, <2>0, <3>1, <3>2, <1>b DEF Add, task
  <2>5. CASE AddFails
    BY <2>5 DEF AddFails, Clean
  <2>6. CASE RegisterSender
    BY <2>6, <2>0, <1>b DEF RegisterSender, Register, native, task, Types
  <2>7. CASE Ensure
    BY <2>7, <2>0, <1>b DEF Ensure, EnsurePolling, native, task
  <2>8. CASE Install
    BY <2>8, <2>0, <1>b DEF Install, engine, native, adapter
  <2>9. CASE Launch
    BY <2>9, <2>0, <1>b DEF Launch, engine, native, adapter, Terminal, Types
  <2>10. CASE SaveRunning
    BY <2>10, <2>0, <1>b DEF SaveRunning, engine, native, adapter, task
  <2>11. CASE Listen
    <3>0. run # 0
      BY <2>11 DEF Listen, Types
    <3>1. sender' = run' /\ run' \in listening' /\ session' /\ pc' = "idle"
      BY <2>11, <3>0, <1>b DEF Listen, engine, adapter, task
    <3>2. UNCHANGED <<torrent, paused, status>> /\ torrent # "none" /\ sender # 0 /\ status # "Preparing"
      BY <2>11, <3>0, <1>b DEF Listen, engine, native, task
    <3> QED
      BY <2>11, <2>0, <3>1, <3>2, <1>b DEF Listen
  <2> QED
    BY <1>3, <2>1, <2>2, <2>3, <2>4, <2>5, <2>6, <2>7, <2>8, <2>9, <2>10, <2>11 DEF Starting
<1>4. CASE Returning \/ Saving
  <2>1. CASE EngineRefuses
    BY <2>1 DEF EngineRefuses, Clean
  <2>2. CASE CallReturns
    <3>1. pc = "idle" /\ pc' = "idle" /\ call' = call
      BY <2>2, <1>c DEF CallReturns
    <3>2. CASE ~session
      BY <2>2, <3>1, <3>2, <1>b DEF CallReturns, EngineCalled, engine, native, adapter, task
    <3>3. CASE PauseSession
      BY <2>2, <3>1, <3>3, <1>b DEF CallReturns, PauseSession, adapter, task
    <3>4. CASE ResumeSession
      BY <2>2, <3>1, <3>4, <1>b DEF CallReturns, ResumeSession, adapter, task
    <3>5. CASE call = "cancel" /\ RemoveSession
      BY <2>2, <3>1, <3>5, <1>b DEF CallReturns, RemoveSession, task
    <3> QED
      BY <2>2, <3>2, <3>3, <3>4, <3>5 DEF CallReturns, EngineCalled
  <2>3. CASE DeleteReturns
    BY <2>3, <1>b, <1>c DEF DeleteReturns, engine, native, adapter
  <2>4. CASE GateWrites
    <3>1. pc' = pc /\ gate'.by = "none" /\ call' \in {call, "none"} /\ (gate.by # "call" => call' = call)
      BY <2>4, <1>d DEF GateWrites, WriteFails, Clean
    <3> QED
      BY <2>4, <3>1, <1>b, <1>d DEF GateWrites, engine, native, adapter, task
  <2>5. CASE LoopReads \/ LoopWrites
    BY <2>5, <1>b DEF LoopReads, LoopWrites, engine, native, adapter, task
  <2> QED
    BY <1>4, <2>1, <2>2, <2>3, <2>4, <2>5 DEF Returning, Saving
<1>5. ASSUME NEW k \in Runs, Handle(k)
      PROVE  Control'
  <2>1. UNCHANGED <<torrent, paused, sender, session, pc, run, call, listening>>
    BY <1>5 DEF Handle, HandleMetadata, HandlePiece, HandleData, HandlePaused, HandleOther,
       HandleEnd, Finish, Receives, engine, native, adapter, task
  <2>2. status' \in {status, "Paused", "Failed", "Completed"}
    BY <1>5 DEF Handle, HandleMetadata, HandlePiece, HandleData, HandlePaused, HandleOther,
       HandleEnd, Finish, Receives, task
  <2>3. gate'.by = "call" <=> gate.by = "call"
    BY <1>5, ListenerSaves, <1>d
  <2> QED
    BY <2>1, <2>2, <2>3, <1>b
<1>6. CASE Libtorrent \/ Update \/ Polls \/ Upset
  <2>1. UNCHANGED <<sender, others>> /\ (torrent' = "none" <=> torrent = "none")
        /\ (paused' => paused \/ torrent # "none")
    BY <1>6 DEF Libtorrent, Update, Polls, Upset, NativeMetadata, NativePiece,
     NativeFinish, NativeSaved, NativeUpdate, Poll, NativeError, NativeQueue, OtherTask, PollFails,
     native, adapter
  <2> QED
    BY <2>1, <1>b DEF others, task, control
<1>7. CASE Crash
  BY <1>7 DEF Crash, Clean
<1> QED
  BY <1>a, <1>1, <1>2, <1>3, <1>4, <1>5, <1>6, <1>7 DEF Next

\* Some alert of the sequence is of one of the kinds.
Holds(s, kinds) == \E i \in 1 .. Len(s) : s[i].kind \in kinds
\* The last alert of the sequence is an error.
Ends(s) == s # <<>> /\ s[Len(s)].kind = "error"

\* What the operations on channels do to Holds.
LEMMA HoldsFacts ==
  ASSUME NEW s \in Seq(Alerts), NEW kinds
  PROVE  /\ \A a \in Alerts : Holds(Append(s, a), kinds) <=> Holds(s, kinds) \/ a.kind \in kinds
         /\ \A t \in Seq(Alerts) : Holds(s \o t, kinds) <=> Holds(s, kinds) \/ Holds(t, kinds)
         /\ s # <<>> /\ Holds(s, kinds) => Head(s).kind \in kinds \/ Holds(Tail(s), kinds)
<1>1. ASSUME NEW a \in Alerts
      PROVE  Holds(Append(s, a), kinds) <=> Holds(s, kinds) \/ a.kind \in kinds
  <2>1. /\ Len(Append(s, a)) = Len(s) + 1 /\ Append(s, a)[Len(s) + 1] = a
        /\ \A i \in 1 .. Len(s) : Append(s, a)[i] = s[i]
    OBVIOUS
  <2> QED
    BY <2>1 DEF Holds
<1>2. ASSUME NEW t \in Seq(Alerts)
      PROVE  Holds(s \o t, kinds) <=> Holds(s, kinds) \/ Holds(t, kinds)
  <2>1. /\ Len(s \o t) = Len(s) + Len(t)
        /\ \A i \in 1 .. Len(s) : (s \o t)[i] = s[i]
        /\ \A i \in 1 .. Len(t) : (s \o t)[Len(s) + i] = t[i]
    OBVIOUS
  <2>2. \A i \in 1 .. Len(s) + Len(t) :
          i \in 1 .. Len(s) \/ \E j \in 1 .. Len(t) : i = Len(s) + j
    <3>1. ASSUME NEW i \in 1 .. Len(s) + Len(t), i \notin 1 .. Len(s)
          PROVE  i - Len(s) \in 1 .. Len(t) /\ i = Len(s) + (i - Len(s))
      BY <3>1
    <3> QED
      BY <3>1
  <2>3. \A j \in 1 .. Len(t) : Len(s) + j \in 1 .. Len(s) + Len(t)
    OBVIOUS
  <2>4. ASSUME Holds(s \o t, kinds)
        PROVE  Holds(s, kinds) \/ Holds(t, kinds)
    <3>1. PICK i \in 1 .. Len(s) + Len(t) : (s \o t)[i].kind \in kinds
      BY <2>4, <2>1 DEF Holds
    <3> QED
      BY <3>1, <2>1, <2>2 DEF Holds
  <2>5. ASSUME Holds(s, kinds)
        PROVE  Holds(s \o t, kinds)
    <3>1. PICK i \in 1 .. Len(s) : s[i].kind \in kinds
      BY <2>5 DEF Holds
    <3>2. i \in 1 .. Len(s) + Len(t)
      OBVIOUS
    <3> QED
      BY <3>1, <3>2, <2>1 DEF Holds
  <2>6. ASSUME Holds(t, kinds)
        PROVE  Holds(s \o t, kinds)
    BY <2>6, <2>1, <2>3 DEF Holds
  <2> QED
    BY <2>4, <2>5, <2>6
<1>3. ASSUME s # <<>>, Holds(s, kinds)
      PROVE  Head(s).kind \in kinds \/ Holds(Tail(s), kinds)
  <2>1. PICK i \in 1 .. Len(s) : s[i].kind \in kinds
    BY <1>3 DEF Holds
  <2>2. CASE i = 1
    BY <2>1, <2>2, <1>3
  <2>3. CASE i # 1
    <3>1. i - 1 \in 1 .. Len(Tail(s)) /\ Tail(s)[i - 1] = s[i]
      BY <2>3, <1>3
    <3> QED
      BY <3>1, <2>1 DEF Holds
  <2> QED
    BY <2>2, <2>3
<1> QED
  BY <1>1, <1>2, <1>3

\* What the operations on channels do to Ends.
LEMMA EndsFacts ==
  ASSUME NEW s \in Seq(Alerts)
  PROVE  /\ Ends(Append(s, Alert("error")))
         /\ Ends(s) => s # <<>> /\ (Ends(Tail(s)) \/ (Tail(s) = <<>> /\ Head(s).kind = "error"))
<1>1. Ends(Append(s, Alert("error")))
  BY DEF Ends, Alert
<1>2. ASSUME Ends(s)
      PROVE  Ends(Tail(s)) \/ (Tail(s) = <<>> /\ Head(s).kind = "error")
  <2>0. /\ s # <<>> /\ Tail(s) \in Seq(Alerts) /\ Len(Tail(s)) = Len(s) - 1 /\ Head(s) = s[1]
        /\ \A i \in 1 .. Len(s) - 1 : Tail(s)[i] = s[i + 1]
    BY <1>2, HeadTailProperties DEF Ends
  <2>00. (Tail(s) # <<>> => Len(Tail(s)) # 0) /\ Len(<<>>) = 0 /\ Len(s) \in Nat /\ Len(s) # 0
    BY <2>0, EmptySeq
  <2>1. PICK n \in Nat \ {0} : n = Len(s)
    BY <2>00
  <2>2. CASE n = 1
    <3>1. Tail(s) = <<>>
      BY <2>0, <2>1, <2>2, <2>00
    <3> QED
      BY <1>2, <2>0, <2>1, <2>2, <3>1 DEF Ends
  <2>3. CASE n # 1
    <3>1. n - 1 \in 1 .. n - 1 /\ (n - 1) + 1 = n /\ n - 1 # 0
      BY <2>3
    <3>2. Tail(s)[n - 1] = s[n]
      BY <2>0, <2>1, <3>1
    <3>3. Tail(s) # <<>>
      BY <2>0, <2>1, <2>00, <3>1
    <3> QED
      BY <1>2, <2>0, <2>1, <3>2, <3>3 DEF Ends
  <2> QED
    BY <2>2, <2>3
<1> QED
  BY <1>1, <1>2 DEF Ends

\* Alerts after which a Running task is paused or ended.
Telling == {"paused", "completed", "finished"}
\* A telling alert, or the state update that will become one, is under way.
Pending ==
  \/ dirty \/ Holds(alerts, Telling)
  \/ \E k \in (listening \cup {sender}) \ {0} : Holds(chan[k], Telling)

\* A torrent that is paused or done while the task is Running is about to be
\* noticed.
Noticed ==
  /\ (status = "Running" /\ ~Resuming) \/ (pc \in Started /\ status \notin Terminal)
  /\ paused \/ torrent = "done"
  => Pending

\* Noticed is inductive while everything is clean: the dirty flag becomes an alert,
\* the alert an event, the event a status, and none is dropped.
LEMMA NoticedStep ==
  ASSUME Types, Placed, Rest, Rest', Clean => Control /\ Noticed, [Next]_vars, Clean'
  PROVE  Noticed'
<1>0. CASE Restore
  <2>1. status' # "Running" /\ pc = "idle"
    BY <1>0 DEF Restore, Rest
  <2> QED
    BY <1>0, <2>1 DEF Restore, Noticed, Started, control
<1>a. SUFFICES ASSUME ~Restore PROVE Noticed'
  BY <1>0
<1>b. Clean /\ Control /\ Noticed
  BY <1>a, CleanBefore
<1>c. pc = "idle" \/ call = "none"
  BY <1>b DEF Clean, Rest
<1>d. Control'
  BY <1>b, ControlStep
<1>e. /\ gate.by = "call" => call \in {"pause", "resume", "cancel"}
      /\ NoSave.by = "none" /\ \A t \in Terminal : t # "Running"
  BY DEF Placed, NoSave, Terminal
<1>1. CASE UNCHANGED vars
  BY <1>1, <1>b DEF Noticed, Pending, Resuming, vars, engine, native, adapter, task, control, files
<1>2. CASE Calling
  <2>0. up /\ pc = "idle" /\ call = "none"
    BY <1>2, CallRaces DEF Clean, Calling, Start, ResumeAnew, PauseCall, ResumeCall, CancelCall, DeleteCall
  <2>00. gate.by # "call"
    BY <2>0, <1>e
  <2>1. CASE Start
    BY <2>1, <2>0, <2>00, <1>b DEF Start, Noticed, Pending, engine, native, adapter, task, Started, Resuming
  <2>2. CASE ResumeAnew \/ PauseCall \/ CancelCall
    BY <2>2, <2>0 DEF ResumeAnew, PauseCall, CancelCall, Noticed, Started
  <2>3. CASE ResumeCall
    BY <2>3, <2>0, <2>00 DEF ResumeCall, Noticed, Started, Resuming, files
  <2>4. CASE DeleteCall
    <3>1. CASE UNCHANGED engine
      BY <2>4, <2>0, <2>00, <3>1, <1>b DEF DeleteCall, Noticed, Pending, engine, native, adapter, task,
         Started, Resuming
    <3>2. CASE RemoveSession
      BY <3>2 DEF RemoveSession, Noticed
    <3> QED
      BY <2>4, <3>1, <3>2 DEF DeleteCall
  <2> QED
    BY <1>2, <2>1, <2>2, <2>3, <2>4 DEF Calling
<1>3. CASE Starting
  <2>1. CASE Reset \/ Mark \/ Prepare
    <3>1. pc' \in {"mark", "prepare", "add"}
      BY <2>1 DEF Reset, Mark, Prepare
    <3> QED
      BY <3>1, <1>d DEF Noticed, Control, Early, Started
  <2>2. CASE Add
    <3>1. ~paused' /\ torrent' # "done"
      BY <2>2 DEF Add, Added, AddTorrent, Clean
    <3> QED
      BY <3>1 DEF Noticed
  <2>3. CASE AddFails
    BY <2>3 DEF AddFails, Clean
  <2>4. CASE RegisterSender
    <3>1. (sender = 0 \/ sender \in listening) /\ pc \in Started /\ status # "Running" /\ call = "none"
      BY <2>4, <1>b, <1>c DEF RegisterSender, Control, Started, Entered, Early
    <3>2. Pending => Pending'
      BY <2>4, <3>1 DEF RegisterSender, Register, native, Pending
    <3> QED
      BY <2>4, <3>1, <3>2, <1>b DEF RegisterSender, Register, native, task, Noticed, Started
  <2>5. CASE Ensure
    <3>1. Pending => Pending'
      BY <2>5 DEF Ensure, EnsurePolling, native, Pending
    <3> QED
      BY <2>5, <3>1, <1>b, <1>c DEF Ensure, EnsurePolling, native, task, Noticed, Started, Resuming
  <2>6. CASE Install \/ Launch \/ SaveRunning \/ Listen
    <3>1. UNCHANGED engine /\ pc \in Started /\ listening \subseteq listening'
      BY <2>6 DEF Install, Launch, SaveRunning, Listen, Started
    <3>2. status' \notin Terminal => status \notin Terminal
      BY <2>6, <1>e DEF Install, Launch, SaveRunning, Listen, task
    <3>3. Pending => Pending'
      BY <3>1 DEF Pending, engine, native, adapter
    <3> QED
      BY <3>1, <3>2, <3>3, <1>b, <1>e DEF Noticed, engine, native
  <2> QED
    BY <1>3, <2>1, <2>2, <2>3, <2>4, <2>5, <2>6 DEF Starting
<1>4. CASE Returning \/ Saving
  <2>1. CASE EngineRefuses
    BY <2>1 DEF EngineRefuses, Clean
  <2>2. CASE CallReturns
    <3>1. pc = "idle" /\ pc' = "idle" /\ call' = call
      BY <2>2, <1>c DEF CallReturns
    <3>2. CASE ~session
      BY <2>2, <3>1, <3>2, <1>b, <1>d DEF CallReturns, Control, Noticed, Started, Entered, task
    <3>3. CASE PauseSession \/ ResumeSession
      BY <3>3 DEF PauseSession, ResumeSession, Noticed, Pending
    <3>4. CASE RemoveSession
      BY <3>4 DEF RemoveSession, Noticed
    <3> QED
      BY <2>2, <3>2, <3>3, <3>4 DEF CallReturns, EngineCalled
  <2>3. CASE DeleteReturns
    BY <2>3, <1>c DEF DeleteReturns, Noticed, Started
  <2>4. CASE Saving
    <3>1. UNCHANGED <<engine, task, listening>>
      BY <2>4 DEF Saving, GateWrites, LoopReads, LoopWrites
    <3>2. pc' = pc /\ (Resuming => Resuming' \/ call' # "resume")
      BY <2>4, <1>e DEF Saving, GateWrites, WriteFails, LoopReads, LoopWrites, Clean, Resuming
    <3>3. ~Resuming' => ~Resuming
      BY <2>4, <1>e DEF Saving, GateWrites, LoopReads, LoopWrites, Resuming
    <3> QED
      BY <3>1, <3>2, <3>3, <1>b DEF Noticed, Pending, engine, native, adapter, task
  <2> QED
    BY <1>4, <2>1, <2>2, <2>3, <2>4 DEF Returning
<1>5. ASSUME NEW k \in Runs, Handle(k)
      PROVE  Noticed'
  <2>0. Resuming' <=> Resuming
    <3>1. call' = call
      BY <1>5 DEF Handle, HandleMetadata, HandlePiece, HandleData, HandlePaused, HandleOther,
         HandleEnd, Finish, Receives
    <3> QED
      BY <1>5, <1>e, <3>1, ListenerSaves DEF Resuming
  <2>1. CASE Finish(k)
    BY <2>0, <2>1, <1>b DEF Finish, Noticed, Pending, engine, native, adapter, task
  <2>2. ASSUME NEW kinds, Receives(k, kinds), UNCHANGED status, kinds \cap Telling = {}
        PROVE  Noticed'
    <3>1. /\ UNCHANGED <<torrent, paused, dirty, alerts, sender, pc, call, listening>>
          /\ k \in listening /\ chan[k] # <<>> /\ Head(chan[k]).kind \in kinds
          /\ chan' = [chan EXCEPT ![k] = Tail(@)]
      BY <2>2 DEF Receives, native, adapter
    <3>2. ASSUME NEW j \in (listening \cup {sender}) \ {0}, Holds(chan[j], Telling)
          PROVE  Holds(chan'[j], Telling)
      <4>0. j \in Runs
        BY TorrentAssumption DEF Types, Runs
      <4>1. CASE j # k
        BY <3>1, <3>2, <4>0, <4>1 DEF Types
      <4>2. CASE j = k
        <5>1. chan[k] \in Seq(Alerts) /\ chan'[k] = Tail(chan[k])
          BY <3>1 DEF Types
        <5> QED
          BY <5>1, <3>1, <3>2, <4>2, <2>2, HoldsFacts
      <4> QED
        BY <4>1, <4>2
    <3>3. Pending => Pending'
      BY <3>1, <3>2 DEF Pending
    <3> QED
      BY <3>1, <3>3, <2>0, <2>2, <1>b DEF Noticed
  <2>3. CASE HandleMetadata(k) \/ HandlePiece(k) \/ HandleData(k) \/ HandleOther(k)
    BY <2>3, <2>2 DEF HandleMetadata, HandlePiece, HandleData, HandleOther, Telling, task
  <2>4. CASE HandlePaused(k)
    <3>1. pc' = "idle" /\ status' = "Paused"
      BY <2>4 DEF HandlePaused, Receives, Clean
    <3> QED
      BY <3>1 DEF Noticed, Started
  <2>5. CASE HandleEnd(k)
    <3>1. status' \in Terminal
      BY <2>5 DEF HandleEnd, Terminal
    <3> QED
      BY <3>1, <1>e DEF Noticed
  <2> QED
    BY <1>5, <2>1, <2>3, <2>4, <2>5 DEF Handle
<1>6. CASE Libtorrent \/ Update \/ Polls \/ Upset
  <2>0. UNCHANGED <<status, pc, listening>> /\ (Resuming' <=> Resuming)
    BY <1>6 DEF Libtorrent, Update, Polls, Upset, others, task, control, files, Resuming
  <2>00. ASSUME NEW a \in Alerts, Post(a)
         PROVE  Holds(alerts', Telling) <=> Holds(alerts, Telling) \/ a.kind \in Telling
    BY <2>00, HoldsFacts DEF Post, Types
  <2>000. \A c \in {"metadata", "piece", "finished", "error"} \cup States : Alert(c) \in Alerts /\ Alert(c).kind = c
    BY DEF Alert, Alerts
  <2>1. CASE NativeMetadata \/ NativePiece \/ NativeFinish \/ NativeQueue
    BY <2>1 DEF NativeMetadata, NativePiece, NativeFinish, NativeQueue, Noticed, Pending
  <2>2. CASE NativeUpdate
    <3>1. paused \/ torrent = "done" => MappedState \in {"paused", "completed"}
      BY DEF MappedState
    <3>2. UNCHANGED <<torrent, paused>> /\ Post(Alert(MappedState))
      BY <2>2 DEF NativeUpdate
    <3> QED
      BY <3>1, <3>2, <2>00, <2>000 DEF Noticed, Pending, Telling, States
  <2>3. CASE NativeSaved
    <3>1. data + 1 \in 1 .. MaxData
      BY <2>3, TorrentAssumption DEF NativeSaved, Types
    <3>2. [kind |-> "data", data |-> data + 1] \in Alerts
      BY <3>1 DEF Alerts
    <3>3. Holds(alerts, Telling) => Holds(alerts', Telling)
      BY <2>3, <3>2, <2>00 DEF NativeSaved
    <3> QED
      BY <2>0, <2>3, <3>3, <1>b DEF NativeSaved, Noticed, Pending, adapter
  <2>4. CASE NativeError
    <3>1. Holds(alerts, Telling) => Holds(alerts', Telling)
      BY <2>4, <2>00, <2>000 DEF NativeError
    <3> QED
      BY <2>0, <2>4, <3>1, <1>b DEF NativeError, Noticed, Pending, adapter
  <2>5. CASE OtherTask
    BY <2>0, <2>5, <1>b DEF OtherTask, native, Noticed, Pending
  <2>6. CASE Poll
    <3>1. CASE sender = 0
      <4>1. torrent # "none" => alerts = <<>>
        BY <2>6, <3>1 DEF Poll, Clean
      <4>2. torrent # "none" => ~Holds(alerts, Telling)
        BY <4>1 DEF Holds
      <4>3. paused \/ torrent = "done" => torrent # "none"
        BY <1>b DEF Control
      <4> QED
        BY <2>0, <2>6, <3>1, <4>2, <4>3, <1>b DEF Poll, native, Noticed, Pending
    <3>2. CASE sender # 0
      <4>0. sender \in Runs
        BY <3>2, TorrentAssumption DEF Types, Runs
      <4>1. chan'[sender] = chan[sender] \o alerts /\ chan[sender] \in Seq(Alerts) /\ alerts \in Seq(Alerts)
        BY <2>6, <3>2, <4>0 DEF Poll, Types
      <4>2. Holds(chan[sender], Telling) \/ Holds(alerts, Telling) => Holds(chan'[sender], Telling)
        BY <4>1, HoldsFacts
      <4>3. \A k \in (listening \cup {sender}) \ {0} : k # sender => chan'[k] = chan[k]
        BY <2>6, <3>2, TorrentAssumption DEF Poll, Types, Runs
      <4>4. Pending => Pending'
        BY <2>0, <2>6, <3>2, <4>2, <4>3 DEF Poll, native, Pending
      <4> QED
        BY <2>0, <2>6, <4>4, <1>b DEF Poll, native, Noticed
    <3> QED
      BY <3>1, <3>2
  <2>7. CASE PollFails
    <3>1. sender # 0 /\ Holds(chan[sender], Telling) => Holds(chan'[sender], Telling)
      BY <2>7, <2>000, HoldsFacts DEF PollFails, Types, Runs
    <3>2. \A k \in (listening \cup {sender}) \ {0} : k # sender => chan'[k] = chan[k]
      BY <2>7, TorrentAssumption DEF PollFails, Types, Runs
    <3>3. Pending => Pending'
      BY <2>0, <2>7, <3>1, <3>2 DEF PollFails, native, Pending
    <3> QED
      BY <2>0, <2>7, <3>3, <1>b DEF PollFails, native, Noticed
  <2> QED
    BY <1>6, <2>1, <2>2, <2>3, <2>4, <2>5, <2>6, <2>7 DEF Libtorrent, Update, Polls, Upset
<1>7. CASE Crash
  BY <1>7 DEF Crash, Clean
<1> QED
  BY <1>a, <1>1, <1>2, <1>3, <1>4, <1>5, <1>6, <1>7 DEF Next

\* A registered sender is polled for; or the error that ends the task is the last
\* thing in its channel; or the task does not run; or it was resumed after that, and
\* then a state update is left over.
Polled ==
  sender # 0 /\ ~polling /\ pc # "ensure" =>
    \/ Ends(chan[sender]) \/ dirty \/ Resuming
    \/ status # "Running" /\ pc \notin Entered

\* Polled is inductive while everything is clean.
LEMMA PolledStep ==
  ASSUME Types, Placed, Rest, Rest', Clean => Control /\ Polled, [Next]_vars, Clean'
  PROVE  Polled'
<1>0. CASE Restore
  <2>1. sender' = 0
    BY <1>0 DEF Restore, Rest, engine, adapter
  <2> QED
    BY <2>1 DEF Polled
<1>a. SUFFICES ASSUME ~Restore PROVE Polled'
  BY <1>0
<1>b. Clean /\ Control /\ Polled
  BY <1>a, CleanBefore
<1>c. pc = "idle" \/ call = "none"
  BY <1>b DEF Clean, Rest
<1>d. (gate.by = "call" => call \in {"pause", "resume", "cancel"}) /\ NoSave.by = "none"
  BY DEF Placed, NoSave
<1>e. Control'
  BY <1>b, ControlStep
<1> USE DEF Polled
<1>1. CASE UNCHANGED vars
  BY <1>1, <1>b DEF vars, engine, native, adapter, task, control, files, Resuming
<1>2. CASE Calling
  <2>0. up /\ pc = "idle" /\ call = "none" /\ (status = "Preparing" => FALSE)
    BY <1>2, <1>b, CallRaces DEF Clean, Calling, Start, ResumeAnew, PauseCall, ResumeCall, CancelCall,
       DeleteCall, Control
  <2>00. ~Resuming
    BY <2>0 DEF Resuming
  <2>1. CASE Start
    BY <2>1, <2>0, <2>00, <1>b DEF Start, engine, adapter, native, task, Entered
  <2>2. CASE ResumeAnew
    <3>1. pc' = "mark" /\ status' = "Pending"
      BY <2>2 DEF ResumeAnew
    <3> QED
      BY <3>1 DEF Entered
  <2>3. CASE PauseCall \/ CancelCall
    BY <2>3, <2>0 DEF PauseCall, CancelCall, Entered
  <2>4. CASE ResumeCall
    BY <2>4, <2>0, <1>d DEF ResumeCall, Resuming, files
  <2>5. CASE DeleteCall
    <3>1. UNCHANGED engine \/ sender' = 0
      BY <2>5 DEF DeleteCall, RemoveSession
    <3> QED
      BY <2>5, <2>0, <2>00, <3>1, <1>b DEF DeleteCall, engine, adapter, native, task
  <2> QED
    BY <1>2, <2>1, <2>2, <2>3, <2>4, <2>5 DEF Calling
<1>3. CASE Starting
  <2>1. CASE Reset \/ Mark \/ Prepare
    <3>1. pc' \in {"mark", "prepare", "add"}
      BY <2>1 DEF Reset, Mark, Prepare
    <3> QED
      BY <3>1, <1>e DEF Control, Early, Entered
  <2>2. CASE Add
    <3>1. pc' = "register"
      BY <2>2 DEF Add
    <3> QED
      BY <3>1, <1>e DEF Control, Early, Entered
  <2>3. CASE AddFails
    BY <2>3 DEF AddFails, Clean
  <2>4. CASE RegisterSender
    BY <2>4 DEF RegisterSender
  <2>5. CASE Ensure
    BY <2>5 DEF Ensure, EnsurePolling
  <2>6. CASE Install \/ Launch \/ SaveRunning \/ Listen
    <3>1. UNCHANGED engine /\ pc \in Entered /\ pc # "ensure"
      BY <2>6 DEF Install, Launch, SaveRunning, Listen, Entered
    <3>2. ~Resuming
      BY <3>1, <1>c DEF Resuming, Entered
    <3> QED
      BY <3>1, <3>2, <1>b DEF engine, adapter, native
  <2> QED
    BY <1>3, <2>1, <2>2, <2>3, <2>4, <2>5, <2>6 DEF Starting
<1>4. CASE Returning \/ Saving
  <2>1. CASE EngineRefuses
    BY <2>1 DEF EngineRefuses, Clean
  <2>2. CASE CallReturns
    <3>1. pc = "idle" /\ UNCHANGED <<pc, polling, chan, status>> /\ sender' \in {0, sender}
      BY <2>2, <1>c DEF CallReturns, EngineCalled, PauseSession, ResumeSession, RemoveSession, engine,
         adapter, task
    <3>2. sender' # 0 => (dirty => dirty') /\ (call = "resume" => dirty')
      BY <2>2, <1>b DEF CallReturns, EngineCalled, PauseSession, ResumeSession, RemoveSession, engine,
         native, Control
    <3> QED
      BY <3>1, <3>2, <1>b DEF Resuming
  <2>3. CASE DeleteReturns
    BY <2>3, <1>b DEF DeleteReturns, Control, engine, adapter
  <2>4. CASE Saving
    <3>1. UNCHANGED <<engine, task>>
      BY <2>4 DEF Saving, GateWrites, LoopReads, LoopWrites
    <3>2. pc' = pc /\ (Resuming => Resuming')
      BY <2>4, <1>d DEF Saving, GateWrites, WriteFails, LoopReads, LoopWrites, Clean, Resuming
    <3> QED
      BY <3>1, <3>2, <1>b DEF engine, adapter, native, task
  <2> QED
    BY <1>4, <2>1, <2>2, <2>3, <2>4 DEF Returning
<1>5. ASSUME NEW k \in Runs, Handle(k)
      PROVE  Polled'
  <2>0. Resuming' <=> Resuming
    <3>1. call' = call
      BY <1>5 DEF Handle, HandleMetadata, HandlePiece, HandleData, HandlePaused, HandleOther,
         HandleEnd, Finish, Receives
    <3> QED
      BY <1>5, <1>d, <3>1, ListenerSaves DEF Resuming
  <2>1. CASE Finish(k)
    BY <2>0, <2>1, <1>b DEF Finish, engine, adapter, native, task
  <2>2. ASSUME NEW kinds, Receives(k, kinds), Head(chan[k]).kind = "error" => status' = "Failed",
               status' = "Running" => status = "Running"
        PROVE  Polled'
    <3>1. /\ UNCHANGED <<sender, polling, pc, dirty, call>>
          /\ k \in listening /\ chan[k] # <<>>
          /\ chan' = [chan EXCEPT ![k] = Tail(@)]
      BY <2>2 DEF Receives, native, adapter
    <3>2. SUFFICES ASSUME sender # 0, ~polling, pc # "ensure", Ends(chan[sender]),
                          ~Ends(chan'[sender])
                   PROVE  status' # "Running" /\ pc \notin Entered
      BY <3>1, <2>0, <2>2, <1>b
    <3>3. k = sender
      <4>1. SUFFICES ASSUME k # sender PROVE FALSE
        OBVIOUS
      <4>2. chan'[sender] = chan[sender]
        BY <3>1, <4>1, <3>2, TorrentAssumption DEF Types, Runs
      <4> QED
        BY <3>2, <4>2
    <3>4. pc \notin Entered
      BY <3>1, <3>3, <1>b DEF Control, Entered, Started
    <3>5. chan[k] \in Seq(Alerts) /\ chan'[k] = Tail(chan[k])
      BY <3>1 DEF Types
    <3> QED
      BY <3>1, <3>2, <3>3, <3>4, <3>5, EndsFacts, <2>2
  <2>3. CASE HandleMetadata(k) \/ HandlePiece(k) \/ HandleData(k) \/ HandleOther(k) \/ HandlePaused(k)
    BY <2>3, <2>2 DEF HandleMetadata, HandlePiece, HandleData, HandleOther, HandlePaused, Receives,
       task
  <2>4. CASE HandleEnd(k)
    BY <2>4, <2>2 DEF HandleEnd
  <2> QED
    BY <1>5, <2>1, <2>3, <2>4 DEF Handle
<1>6. CASE Libtorrent \/ Update \/ Polls \/ Upset
  <2>0. UNCHANGED <<status, pc>> /\ (Resuming' <=> Resuming)
    BY <1>6 DEF Libtorrent, Update, Polls, Upset, others, task, control, files, Resuming
  <2>1. CASE \/ NativeMetadata \/ NativePiece \/ NativeFinish \/ NativeQueue \/ NativeUpdate
             \/ NativeSaved \/ NativeError
    <3>1. UNCHANGED <<sender, polling, chan>> /\ (~polling /\ dirty => dirty')
      BY <2>1 DEF NativeMetadata, NativePiece, NativeFinish, NativeQueue, NativeUpdate, NativeSaved,
         NativeError, adapter
    <3> QED
      BY <2>0, <3>1, <1>b
  <2>2. CASE OtherTask
    <3>1. UNCHANGED <<sender, chan, dirty>> /\ (polling => polling')
      BY <2>2 DEF OtherTask, native
    <3> QED
      BY <2>0, <3>1, <1>b
  <2>3. CASE Poll
    <3>1. sender' = sender /\ (sender # 0 => polling')
      BY <2>3 DEF Poll
    <3> QED
      BY <3>1
  <2>4. CASE PollFails
    <3>1. sender # 0 => sender \in Runs
      BY TorrentAssumption DEF Types, Runs
    <3>2. sender # 0 => chan'[sender] = Append(chan[sender], Alert("error")) /\ chan[sender] \in Seq(Alerts)
      BY <2>4, <3>1 DEF PollFails, Types
    <3> QED
      BY <2>4, <3>2, EndsFacts DEF PollFails
  <2> QED
    BY <1>6, <2>1, <2>2, <2>3, <2>4 DEF Libtorrent, Update, Polls, Upset
<1>7. CASE Crash
  BY <1>7 DEF Crash, Clean
<1> QED
  BY <1>a, <1>1, <1>2, <1>3, <1>4, <1>5, <1>6, <1>7 DEF Next

\* The inductive invariant behind RunningIsEngaged.
Engaged == Placed /\ Rest /\ (Clean => Control /\ Noticed /\ Polled)

\* When everything has come to rest, a Running task is in the engine, neither paused
\* nor done there, with a listener for its events and a future that polls for them.
THEOREM RunningIsEngagedCorrect == Spec => []RunningIsEngaged
<1>1. Init => Engaged
  <2> SUFFICES ASSUME Init PROVE Engaged
    OBVIOUS
  <2>1. Placed
    BY DEF Init, Placed, Idle, NoSave, Fresh
  <2>2. Rest /\ Control /\ Noticed /\ Polled
    BY DEF Init, EngineInit, Rest, Control, Noticed, Polled, Early, Entered, Started, Resuming
  <2> QED
    BY <2>1, <2>2 DEF Engaged
<1>2. Types /\ Engaged /\ [Next]_vars => Engaged'
  BY PlacedStep, RestStep, ControlStep, NoticedStep, PolledStep DEF Engaged
<1>3. Types /\ Engaged => RunningIsEngaged
  <2> SUFFICES ASSUME Types, Engaged, Quiet, status = "Running", ~erred, ~missed, ~raced,
                      ~reused
               PROVE  /\ torrent \notin {"none", "done"} /\ ~paused
                      /\ sender \in listening /\ polling
    BY DEF RunningIsEngaged
  <2>1. /\ Clean /\ pc = "idle" /\ call = "none" /\ ~dirty /\ alerts = <<>> /\ ~Resuming
        /\ \A k \in Runs : chan[k] = <<>>
    BY DEF Quiet, Clean, Resuming
  <2>2. Control /\ Noticed /\ Polled
    BY <2>1 DEF Engaged
  <2>3. sender # 0 /\ sender \in listening /\ torrent # "none"
    BY <2>1, <2>2 DEF Control, Entered
  <2>4. \A k \in listening \cup {sender} : chan[k] = <<>>
    BY <2>1, <2>3, TorrentAssumption DEF Types, Runs
  <2>5. ~Holds(<<>>, Telling) /\ ~Ends(<<>>)
    BY DEF Holds, Ends
  <2>6. ~paused /\ torrent # "done"
    BY <2>1, <2>2, <2>4, <2>5 DEF Noticed, Pending
  <2>7. polling
    BY <2>1, <2>2, <2>3, <2>4, <2>5 DEF Polled
  <2> QED
    BY <2>3, <2>6, <2>7
<1> QED
  BY <1>1, <1>2, <1>3, TypesInit, TypeStep, PTL DEF Spec

-----------------------------------------------------------------------------
\* Resume data in a sequence of alerts is at least n; at most n; at most that in
\* another sequence; in ascending order.
Above(s, n) == \A i \in 1 .. Len(s) : s[i].kind = "data" => n <= s[i].data
Below(s, n) == \A i \in 1 .. Len(s) : s[i].kind = "data" => s[i].data <= n
Before(s, t) == \A i \in 1 .. Len(s) : s[i].kind = "data" => Above(t, s[i].data)
Ordered(s) ==
  \A i, j \in 1 .. Len(s) :
    i < j /\ s[i].kind = "data" /\ s[j].kind = "data" => s[i].data <= s[j].data

\* Resume data is a number.
LEMMA AlertData == \A a \in Alerts : a.data \in Nat
BY TorrentAssumption DEF Alerts

\* All of it holds for empty sequences.
LEMMA EmptyData ==
  \A n : /\ Above(<<>>, n) /\ Below(<<>>, n) /\ Ordered(<<>>)
         /\ Before(<<>>, n) /\ Before(n, <<>>)
BY DEF Above, Below, Ordered, Before

\* What posting an alert does to the order of resume data.
LEMMA AppendData ==
  ASSUME NEW s \in Seq(Alerts), NEW a \in Alerts
  PROVE  /\ \A n : Above(Append(s, a), n) <=> Above(s, n) /\ (a.kind = "data" => n <= a.data)
         /\ \A n : Below(Append(s, a), n) <=> Below(s, n) /\ (a.kind = "data" => a.data <= n)
         /\ Ordered(s) /\ (a.kind = "data" => Below(s, a.data)) => Ordered(Append(s, a))
         /\ \A t \in Seq(Alerts) : Before(t, s) /\ (a.kind = "data" => Below(t, a.data)) => Before(t, Append(s, a))
<1>1. /\ Append(s, a) \in Seq(Alerts) /\ Len(s) \in Nat
      /\ Len(Append(s, a)) = Len(s) + 1 /\ Append(s, a)[Len(s) + 1] = a
      /\ \A i \in 1 .. Len(s) : Append(s, a)[i] = s[i]
  OBVIOUS
<1>2. \A i \in 1 .. Len(s) + 1 : i \in 1 .. Len(s) \/ i = Len(s) + 1
  BY <1>1
<1>3. \A i \in 1 .. Len(s) : i \in 1 .. Len(s) + 1
  BY <1>1
<1>3a. Len(s) + 1 \in 1 .. Len(s) + 1
  BY <1>1
<1>4. ASSUME NEW n PROVE Above(Append(s, a), n) <=> Above(s, n) /\ (a.kind = "data" => n <= a.data)
  BY <1>1, <1>2, <1>3, <1>3a DEF Above
<1>5. ASSUME NEW n PROVE Below(Append(s, a), n) <=> Below(s, n) /\ (a.kind = "data" => a.data <= n)
  BY <1>1, <1>2, <1>3, <1>3a DEF Below
<1>6. ASSUME Ordered(s), a.kind = "data" => Below(s, a.data)
      PROVE  Ordered(Append(s, a))
  <2> SUFFICES ASSUME NEW i \in 1 .. Len(s) + 1, NEW j \in 1 .. Len(s) + 1, i < j,
                      Append(s, a)[i].kind = "data", Append(s, a)[j].kind = "data"
               PROVE  Append(s, a)[i].data <= Append(s, a)[j].data
    BY <1>1 DEF Ordered
  <2>1. i \in 1 .. Len(s)
    BY <1>1
  <2> QED
    BY <1>1, <1>2, <1>6, <2>1 DEF Ordered, Below
<1>7. ASSUME NEW t \in Seq(Alerts), Before(t, s), a.kind = "data" => Below(t, a.data)
      PROVE  Before(t, Append(s, a))
  BY <1>7, <1>4 DEF Before, Below
<1> QED
  BY <1>4, <1>5, <1>6, <1>7

\* What a poll does to the order of resume data.
LEMMA ConcatData ==
  ASSUME NEW s \in Seq(Alerts), NEW t \in Seq(Alerts)
  PROVE  /\ \A n : Above(s, n) /\ Above(t, n) => Above(s \o t, n)
         /\ \A n : Below(s, n) /\ Below(t, n) => Below(s \o t, n)
         /\ Ordered(s) /\ Ordered(t) /\ Before(s, t) => Ordered(s \o t)
<1>1. /\ s \o t \in Seq(Alerts) /\ Len(s) \in Nat /\ Len(t) \in Nat
      /\ Len(s \o t) = Len(s) + Len(t)
      /\ \A i \in 1 .. Len(s) : (s \o t)[i] = s[i]
      /\ \A i \in 1 .. Len(s) + Len(t) : i > Len(s) => (s \o t)[i] = t[i - Len(s)]
  OBVIOUS
<1>2. \A i \in 1 .. Len(s) + Len(t) : i \in 1 .. Len(s) \/ (i > Len(s) /\ i - Len(s) \in 1 .. Len(t))
  BY <1>1
<1>3. ASSUME NEW n, Above(s, n), Above(t, n) PROVE Above(s \o t, n)
  BY <1>1, <1>2, <1>3 DEF Above
<1>4. ASSUME NEW n, Below(s, n), Below(t, n) PROVE Below(s \o t, n)
  BY <1>1, <1>2, <1>4 DEF Below
<1>5. ASSUME Ordered(s), Ordered(t), Before(s, t)
      PROVE  Ordered(s \o t)
  <2> DEFINE u == s \o t
  <2> SUFFICES ASSUME NEW i \in 1 .. Len(s) + Len(t), NEW j \in 1 .. Len(s) + Len(t), i < j,
                      u[i].kind = "data", u[j].kind = "data"
               PROVE  u[i].data <= u[j].data
    BY <1>1 DEF Ordered
  <2>1. CASE j \in 1 .. Len(s)
    <3>1. i \in 1 .. Len(s)
      BY <1>1, <2>1
    <3> QED
      BY <1>1, <1>5, <2>1, <3>1 DEF Ordered
  <2>2. CASE i > Len(s)
    <3>1. j > Len(s) /\ i - Len(s) \in 1 .. Len(t) /\ j - Len(s) \in 1 .. Len(t) /\ i - Len(s) < j - Len(s)
      BY <1>1, <2>2
    <3>2. u[i] = t[i - Len(s)] /\ u[j] = t[j - Len(s)]
      BY <1>1, <2>2, <3>1
    <3> QED
      BY <1>5, <3>1, <3>2 DEF Ordered
  <2>3. CASE i \in 1 .. Len(s) /\ j > Len(s)
    <3>1. j - Len(s) \in 1 .. Len(t)
      BY <1>1, <2>3
    <3>2. u[i] = s[i] /\ u[j] = t[j - Len(s)]
      BY <1>1, <2>3
    <3> QED
      BY <1>5, <2>3, <3>1, <3>2 DEF Before, Above
  <2> QED
    BY <1>1, <1>2, <2>1, <2>2, <2>3
<1> QED
  BY <1>3, <1>4, <1>5

\* What receiving does to the order of resume data.
LEMMA TailData ==
  ASSUME NEW s \in Seq(Alerts), s # <<>>
  PROVE  /\ \A n : Above(s, n) => Above(Tail(s), n)
         /\ \A n : Below(s, n) => Below(Tail(s), n)
         /\ \A t : Before(s, t) => Before(Tail(s), t)
         /\ Ordered(s) => Ordered(Tail(s))
         /\ Head(s).kind = "data" =>
              /\ \A n : Above(s, n) => n <= Head(s).data
              /\ \A n : Below(s, n) => Head(s).data <= n
              /\ \A t : Before(s, t) => Above(t, Head(s).data)
              /\ Ordered(s) => Above(Tail(s), Head(s).data)
<1>1. /\ Tail(s) \in Seq(Alerts) /\ Len(s) \in Nat \ {0} /\ Head(s) = s[1]
      /\ Len(Tail(s)) = Len(s) - 1
      /\ \A i \in 1 .. Len(Tail(s)) : Tail(s)[i] = s[i + 1]
  BY HeadTailProperties, EmptySeq
<1>2. PICK n \in Nat \ {0} : n = Len(s)
  BY <1>1
<1>3. \A i \in 1 .. n - 1 : i + 1 \in 1 .. n /\ Tail(s)[i] = s[i + 1] /\ 1 < i + 1
  BY <1>1, <1>2
<1>4. 1 \in 1 .. n /\ Len(Tail(s)) = n - 1
  BY <1>1, <1>2
<1>5. /\ \A m : Above(s, m) => Above(Tail(s), m)
      /\ \A m : Below(s, m) => Below(Tail(s), m)
      /\ \A t : Before(s, t) => Before(Tail(s), t)
  BY <1>2, <1>3, <1>4 DEF Above, Below, Before
<1>6. ASSUME Ordered(s)
      PROVE  Ordered(Tail(s))
  <2> SUFFICES ASSUME NEW i \in 1 .. n - 1, NEW j \in 1 .. n - 1, i < j,
                      Tail(s)[i].kind = "data", Tail(s)[j].kind = "data"
               PROVE  Tail(s)[i].data <= Tail(s)[j].data
    BY <1>4 DEF Ordered
  <2>1. i + 1 < j + 1
    OBVIOUS
  <2> QED
    BY <1>2, <1>3, <1>6, <2>1 DEF Ordered
<1>7. ASSUME Head(s).kind = "data"
      PROVE  /\ \A m : Above(s, m) => m <= Head(s).data
             /\ \A m : Below(s, m) => Head(s).data <= m
             /\ \A t : Before(s, t) => Above(t, Head(s).data)
             /\ Ordered(s) => Above(Tail(s), Head(s).data)
  <2>1. ASSUME Ordered(s) PROVE Above(Tail(s), Head(s).data)
    BY <1>1, <1>2, <1>3, <1>4, <1>7, <2>1 DEF Ordered, Above
  <2> QED
    BY <1>1, <1>2, <1>4, <1>7, <2>1 DEF Above, Below, Before
<1> QED
  BY <1>5, <1>6, <1>7

\* Resume data flows in order: libtorrent, then the alerts, then the channels; and
\* the channel of a run that was not started is empty.
Order ==
  /\ Ordered(alerts) /\ Below(alerts, data)
  /\ \A k \in Runs : /\ Ordered(chan[k]) /\ Below(chan[k], data) /\ Before(chan[k], alerts)
                     /\ k > run => chan[k] = <<>>
  /\ ~up => alerts = <<>> /\ \A k \in Runs : chan[k] = <<>>

\* A bound may be raised.
LEMMA BelowMore ==
  ASSUME NEW s \in Seq(Alerts), NEW m \in Nat, NEW n \in Nat, m <= n, Below(s, m)
  PROVE  Below(s, n)
<1>1. \A i \in 1 .. Len(s) : s[i].data \in Nat
  BY AlertData
<1> QED
  BY <1>1 DEF Below

\* Posting an alert keeps the order.
LEMMA PostOrder ==
  ASSUME Types, Order, NEW a \in Alerts, Post(a), UNCHANGED <<chan, run, up>>, up,
         data' \in Nat, data <= data', a.kind = "data" => data <= a.data /\ a.data <= data'
  PROVE  Order'
<1>0. data \in Nat /\ a.data \in Nat /\ alerts \in Seq(Alerts) /\ alerts' = Append(alerts, a)
  BY AlertData, TorrentAssumption DEF Types, Post
<1>1. Ordered(alerts')
  <2>1. a.kind = "data" => Below(alerts, a.data)
    BY <1>0, BelowMore DEF Order
  <2> QED
    BY <1>0, <2>1, AppendData DEF Order
<1>2. Below(alerts', data')
  BY <1>0, AppendData, BelowMore DEF Order
<1>3. ASSUME NEW k \in Runs
      PROVE  /\ Ordered(chan'[k]) /\ Below(chan'[k], data') /\ Before(chan'[k], alerts')
             /\ k > run' => chan'[k] = <<>>
  <2>1. chan'[k] = chan[k] /\ chan[k] \in Seq(Alerts)
    BY DEF Types
  <2>2. a.kind = "data" => Below(chan[k], a.data)
    BY <1>0, <2>1, BelowMore DEF Order
  <2>3. Before(chan[k], alerts')
    BY <1>0, <2>1, <2>2, AppendData DEF Order
  <2>4. Below(chan[k], data')
    BY <1>0, <2>1, BelowMore DEF Order
  <2> QED
    BY <2>1, <2>3, <2>4 DEF Order
<1> QED
  BY <1>1, <1>2, <1>3 DEF Order

\* Order is inductive.
LEMMA OrderStep ==
  ASSUME Types, Order, [Next]_vars
  PROVE  Order'
<1>0. ASSUME UNCHANGED <<alerts, chan, data, run, up>>
      PROVE  Order'
  BY <1>0 DEF Order
<1>1. CASE UNCHANGED vars
  BY <1>1, <1>0 DEF vars, engine, native, control
<1>2. CASE Calling
  BY <1>2, <1>0 DEF Calling, Start, ResumeAnew, PauseCall, ResumeCall, CancelCall, DeleteCall,
     RemoveSession, engine, native
<1>3. CASE Starting
  <2>1. CASE Add
    <3>1. UNCHANGED <<alerts, chan, data, up>> /\ run' = run + 1
      BY <2>1 DEF Add, Added, AddTorrent
    <3>2. \A k \in Runs : k > run + 1 => k > run
      BY TorrentAssumption DEF Types, Runs
    <3> QED
      BY <3>1, <3>2 DEF Order
  <2>2. CASE AddFails
    BY <2>2, <1>0 DEF AddFails, Added, AddTorrent, engine, native
  <2> QED
    BY <1>3, <1>0, <2>1, <2>2 DEF Starting, Reset, Mark, Prepare, RegisterSender, Ensure,
       Install, Launch, SaveRunning, Listen, Register, EnsurePolling, engine, native
<1>4. CASE Returning \/ Saving
  BY <1>4, <1>0 DEF Returning, EngineRefuses, CallReturns, DeleteReturns, EngineCalled,
     PauseSession, ResumeSession, RemoveSession, Saving, GateWrites, LoopReads, LoopWrites, engine, native
<1>5. ASSUME NEW k \in Runs, Handle(k)
      PROVE  Order'
  <2>1. CASE Finish(k)
    BY <2>1, <1>0 DEF Finish, engine, native
  <2>2. ASSUME NEW kinds, Receives(k, kinds)
        PROVE  Order'
    <3>1. /\ UNCHANGED <<alerts, data, run, up>> /\ up /\ chan[k] # <<>>
          /\ chan' = [chan EXCEPT ![k] = Tail(@)]
      BY <2>2 DEF Receives, native
    <3>2. \A j \in Runs : chan'[j] = IF j = k THEN Tail(chan[k]) ELSE chan[j]
      BY <3>1 DEF Types
    <3>3. chan[k] \in Seq(Alerts)
      BY DEF Types
    <3>4. Ordered(Tail(chan[k])) /\ Below(Tail(chan[k]), data) /\ Before(Tail(chan[k]), alerts)
      BY <3>1, <3>3, TailData DEF Order
    <3> QED
      BY <3>1, <3>2, <3>4 DEF Order
  <2> QED
    BY <1>5, <2>1, <2>2 DEF Handle, HandleMetadata, HandlePiece, HandleData, HandlePaused, HandleOther,
       HandleEnd
<1>6. CASE Libtorrent \/ Update \/ Polls \/ Upset
  <2>0. up /\ UNCHANGED <<run, up>> /\ data \in Nat
    BY <1>6, TorrentAssumption DEF Libtorrent, Update, Polls, Upset, others, control, Types
  <2>00. \A c \in {"metadata", "piece", "finished", "error"} \cup States : Alert(c) \in Alerts /\ Alert(c).kind = c
    BY DEF Alert, Alerts
  <2>000. "data" \notin {"metadata", "piece", "finished", "error"} \cup States
    BY DEF States
  <2>1. ASSUME NEW c \in {"metadata", "piece", "finished", "error"} \cup States, Post(Alert(c)),
               UNCHANGED <<chan, data>>
        PROVE  Order'
    BY <2>0, <2>00, <2>000, <2>1, PostOrder
  <2>2. CASE NativeMetadata \/ NativePiece \/ NativeFinish \/ NativeError
    BY <2>2, <2>1 DEF NativeMetadata, NativePiece, NativeFinish, NativeError
  <2>3. CASE NativeUpdate
    <3>1. MappedState \in States
      BY <2>3 DEF NativeUpdate, MappedState, States, Types
    <3> QED
      BY <2>3, <3>1, <2>1 DEF NativeUpdate
  <2>4. CASE NativeSaved
    <3>1. data + 1 \in 1 .. MaxData
      BY <2>4, TorrentAssumption DEF NativeSaved, Types
    <3>2. [kind |-> "data", data |-> data + 1] \in Alerts
      BY <3>1 DEF Alerts
    <3>3. Post([kind |-> "data", data |-> data + 1]) /\ data' = data + 1 /\ chan' = chan
      BY <2>4 DEF NativeSaved
    <3> QED
      BY <2>0, <3>2, <3>3, PostOrder
  <2>5. CASE NativeQueue \/ OtherTask
    BY <2>0, <2>5, <1>0 DEF NativeQueue, OtherTask, native
  <2>6. CASE Poll
    <3>1. alerts' = <<>> /\ data' = data
      BY <2>6 DEF Poll, native
    <3>2. ASSUME NEW k \in Runs
          PROVE  /\ Ordered(chan'[k]) /\ Below(chan'[k], data)
                 /\ k > run => chan'[k] = <<>>
      <4>1. CASE k # sender
        <5>1. chan'[k] = chan[k]
          BY <2>6, <4>1 DEF Poll, Types
        <5> QED
          BY <5>1 DEF Order
      <4>2. CASE k = sender
        <5>1. chan'[k] = chan[k] \o alerts /\ k <= run
          BY <2>6, <4>2, TorrentAssumption DEF Poll, Types, Runs
        <5>2. chan[k] \in Seq(Alerts) /\ alerts \in Seq(Alerts)
          BY DEF Types
        <5>3. k \in Nat /\ run \in Nat
          BY TorrentAssumption DEF Types, Runs
        <5> QED
          BY <5>1, <5>2, <5>3, ConcatData DEF Order
      <4> QED
        BY <4>1, <4>2
    <3> QED
      BY <2>0, <3>1, <3>2, EmptyData DEF Order
  <2>7. CASE PollFails
    <3>1. UNCHANGED <<alerts, data>>
      BY <2>7 DEF PollFails, native
    <3>2. ASSUME NEW k \in Runs
          PROVE  /\ Ordered(chan'[k]) /\ Below(chan'[k], data) /\ Before(chan'[k], alerts)
                 /\ k > run => chan'[k] = <<>>
      <4>1. CASE k # sender
        <5>1. chan'[k] = chan[k]
          BY <2>7, <4>1 DEF PollFails, Types
        <5> QED
          BY <5>1 DEF Order
      <4>2. CASE k = sender
        <5>1. chan'[k] = Append(chan[k], Alert("error")) /\ k <= run
          BY <2>7, <4>2, TorrentAssumption DEF PollFails, Types, Runs
        <5>2. chan[k] \in Seq(Alerts) /\ Alert("error") \in Alerts /\ Alert("error").kind # "data"
          BY <2>00 DEF Types
        <5>3. k \in Nat /\ run \in Nat
          BY TorrentAssumption DEF Types, Runs
        <5>4. Ordered(chan'[k]) /\ Below(chan'[k], data)
          BY <5>1, <5>2, AppendData DEF Order
        <5>5. Before(chan'[k], alerts)
          BY <5>1, <5>2 DEF Order, Before
        <5> QED
          BY <5>1, <5>3, <5>4, <5>5
      <4> QED
        BY <4>1, <4>2
    <3> QED
      BY <2>0, <3>1, <3>2 DEF Order
  <2> QED
    BY <1>6, <2>2, <2>3, <2>4, <2>5, <2>6, <2>7 DEF Libtorrent, Update, Polls, Upset
<1>7. CASE Crash
  <2>1. alerts' = <<>> /\ data' = data /\ \A k \in Runs : chan'[k] = <<>>
    BY <1>7 DEF Crash
  <2> QED
    BY <2>1, EmptyData DEF Order
<1>8. CASE Restore
  BY <1>8 DEF Restore, Order, engine, native, control
<1> QED
  BY <1>1, <1>2, <1>3, <1>4, <1>5, <1>6, <1>7, <1>8 DEF Next

\* The channels are filled one after the other: what is in that of an earlier run is no
\* newer than what is in a later one, and none beyond the registered one has been used.
InTurn ==
  /\ \A j, k \in Runs : j < k => Before(chan[j], chan[k])
  /\ sender # 0 => \A k \in Runs : k > sender => chan[k] = <<>>

\* InTurn is inductive.
LEMMA InTurnStep ==
  ASSUME Types, Order, InTurn, [Next]_vars
  PROVE  InTurn'
<1>a. alerts \in Seq(Alerts) /\ \A k \in Runs : chan[k] \in Seq(Alerts)
  BY DEF Types
<1>0. ASSUME UNCHANGED chan, sender' \in {sender, 0}
      PROVE  InTurn'
  BY <1>0 DEF InTurn
<1>1. CASE UNCHANGED vars
  BY <1>1, <1>0 DEF vars, engine, adapter
<1>2. CASE Calling
  BY <1>2, <1>0 DEF Calling, Start, ResumeAnew, PauseCall, ResumeCall, CancelCall, DeleteCall,
     RemoveSession, engine, adapter
<1>3. CASE Starting
  <2>1. CASE Add \/ AddFails
    BY <2>1, <1>0 DEF Add, AddFails, Added, AddTorrent, engine, adapter
  <2>2. CASE RegisterSender
    <3>1. chan' = chan /\ sender' = run
      BY <2>2 DEF RegisterSender, Register
    <3> QED
      BY <3>1 DEF InTurn, Order
  <2>3. CASE Ensure
    BY <2>3, <1>0 DEF Ensure, EnsurePolling
  <2> QED
    BY <1>3, <1>0, <2>1, <2>2, <2>3 DEF Starting, Reset, Mark, Prepare, Install, Launch,
       SaveRunning, Listen, engine, adapter
<1>4. CASE Returning \/ Saving
  BY <1>4, <1>0 DEF Returning, EngineRefuses, CallReturns, DeleteReturns, EngineCalled,
     PauseSession, ResumeSession, RemoveSession, Saving, GateWrites, LoopReads, LoopWrites, engine, adapter
<1>5. ASSUME NEW k \in Runs, Handle(k)
      PROVE  InTurn'
  <2>1. CASE Finish(k)
    BY <2>1, <1>0 DEF Finish, engine, adapter
  <2>2. ASSUME NEW kinds, Receives(k, kinds)
        PROVE  InTurn'
    <3>1. UNCHANGED sender /\ chan[k] # <<>> /\ chan' = [chan EXCEPT ![k] = Tail(@)]
      BY <2>2 DEF Receives, adapter
    <3>2. \A j \in Runs : chan'[j] = IF j = k THEN Tail(chan[k]) ELSE chan[j]
      BY <3>1 DEF Types
    <3>3. \A t : /\ Before(chan[k], t) => Before(Tail(chan[k]), t)
                 /\ Before(t, chan[k]) => Before(t, Tail(chan[k]))
      BY <1>a, <3>1, TailData DEF Before
    <3>4. sender # 0 => ~(k > sender)
      BY <3>1 DEF InTurn
    <3>5. ASSUME NEW i \in Runs, NEW j \in Runs, i < j
          PROVE  Before(chan'[i], chan'[j])
      <4>1. i # j /\ Before(chan[i], chan[j])
        BY <3>5 DEF InTurn, Runs
      <4> QED
        BY <3>2, <3>3, <4>1
    <3>6. sender' # 0 => \A j \in Runs : j > sender' => chan'[j] = <<>>
      BY <3>1, <3>2, <3>4 DEF InTurn
    <3> QED
      BY <3>5, <3>6 DEF InTurn
  <2> QED
    BY <1>5, <2>1, <2>2 DEF Handle, HandleMetadata, HandlePiece, HandleData, HandlePaused, HandleOther,
       HandleEnd
<1>6. CASE Libtorrent \/ Update \/ Polls \/ Upset
  <2>1. CASE NativeMetadata \/ NativePiece \/ NativeFinish \/ NativeError \/ NativeUpdate
             \/ NativeSaved \/ NativeQueue \/ OtherTask
    BY <2>1, <1>0 DEF NativeMetadata, NativePiece, NativeFinish, NativeError, NativeUpdate,
       NativeSaved, NativeQueue, OtherTask, adapter
  <2>2. ASSUME sender # 0, UNCHANGED sender, NEW s, chan' = [chan EXCEPT ![sender] = s],
               \A t \in Seq(Alerts) : Before(t, chan[sender]) /\ Before(t, alerts) => Before(t, s)
        PROVE  InTurn'
    <3>1. sender \in Runs /\ \A j \in Runs : chan'[j] = IF j = sender THEN s ELSE chan[j]
      BY <2>2, TorrentAssumption DEF Types, Runs
    <3>2. ASSUME NEW i \in Runs, NEW j \in Runs, i < j
          PROVE  Before(chan'[i], chan'[j])
      <4>1. CASE i = sender
        <5>1. chan'[j] = <<>>
          BY <2>2, <3>1, <3>2, <4>1 DEF InTurn, Runs
        <5> QED
          BY <5>1, EmptyData
      <4>2. CASE i # sender /\ j = sender
        BY <1>a, <2>2, <3>1, <3>2, <4>2 DEF InTurn, Order
      <4>3. CASE i # sender /\ j # sender
        BY <3>1, <3>2, <4>3 DEF InTurn
      <4> QED
        BY <4>1, <4>2, <4>3
    <3>3. \A j \in Runs : j > sender => chan'[j] = <<>>
      BY <2>2, <3>1 DEF InTurn, Runs
    <3> QED
      BY <2>2, <3>2, <3>3 DEF InTurn
  <2>3. CASE Poll
    <3>1. UNCHANGED sender /\ chan' = IF sender = 0 THEN chan ELSE [chan EXCEPT ![sender] = chan[sender] \o alerts]
      BY <2>3 DEF Poll
    <3>2. ASSUME sender # 0
          PROVE  \A t : Before(t, chan[sender]) /\ Before(t, alerts) => Before(t, chan[sender] \o alerts)
      <4>1. sender \in Runs
        BY <3>2, TorrentAssumption DEF Types, Runs
      <4> QED
        BY <4>1, <1>a, ConcatData DEF Before
    <3> QED
      BY <1>0, <2>2, <3>1, <3>2
  <2>4. CASE PollFails
    <3>1. UNCHANGED sender
          /\ chan' = IF sender = 0 THEN chan ELSE [chan EXCEPT ![sender] = Append(chan[sender], Alert("error"))]
      BY <2>4 DEF PollFails
    <3>2. ASSUME sender # 0
          PROVE  \A t \in Seq(Alerts) : Before(t, chan[sender]) => Before(t, Append(chan[sender], Alert("error")))
      <4>1. sender \in Runs
        BY <3>2, TorrentAssumption DEF Types, Runs
      <4>2. Alert("error") \in Alerts /\ Alert("error").kind # "data"
        BY DEF Alert, Alerts
      <4> QED
        BY <4>1, <4>2, <1>a, AppendData
    <3> QED
      BY <1>0, <2>2, <3>1, <3>2
  <2> QED
    BY <1>6, <2>1, <2>3, <2>4 DEF Libtorrent, Update, Polls, Upset
<1>7. CASE Crash
  <2>1. sender' = 0 /\ \A k \in Runs : chan'[k] = <<>>
    BY <1>7 DEF Crash
  <2> QED
    BY <2>1, EmptyData DEF InTurn
<1>8. CASE Restore
  BY <1>8, <1>0 DEF Restore, engine, adapter
<1> QED
  BY <1>1, <1>2, <1>3, <1>4, <1>5, <1>6, <1>7, <1>8 DEF Next

\* Steps of Task::start that hold a snapshot for the engine.
Adding == {"add", "register", "ensure", "install"}

\* What the task and the start hold is no newer than what libtorrent saved, and no
\* newer than what is on its way to the listener of the last run.
Bounds ==
  /\ snap.data <= data /\ given.data <= data
  /\ Above(alerts, snap.data) /\ Above(alerts, given.data)
  /\ pc \in Adding \ {"add"} => Above(chan[run], given.data)
  /\ run # 0 => Above(chan[run], snap.data)

\* Nor is what a row or a save holds; and a snapshot that is not there has no data.
Sound(x) == x.data <= data /\ (~x.present => x.data = 0)
Rows == Sound(db.snap) /\ Sound(gate.row.snap) /\ Sound(held.snap)

\* The row is no newer than the task, nor the task than the snapshot of a start under
\* way, unless the row was replayed, or was not written yet after a reset or a start,
\* or a listener is left that saves, or whose save failed, or that was quicker than
\* the start.
Kept ==
  /\ ~snap.present => snap.data = 0
  /\ pc \in Started => run \notin listening
  /\ up /\ ~replayed =>
       \/ db.snap.data <= snap.data
       \/ ~snap.present /\ pc \in {"idle", "reset", "mark"}
       \/ ~snap.present /\ pc = "prepare" /\ gate.by = "start"
       \/ listening \ {run} # {} /\ erred
       \/ listening \ {run} # {} /\ pc = "launch" /\ gate.by = "start" /\ snap.data = given.data
       \/ gate.run \in listening \ {run}
  /\ pc \in Adding => snap.data <= given.data \/ listening # {}

\* Resume data of well typed snapshots is a number,
LEMMA DataTypes ==
  ASSUME Types
  PROVE  /\ snap.data \in Nat /\ given.data \in Nat /\ data \in Nat /\ db.snap.data \in Nat
         /\ gate.row.snap.data \in Nat /\ held.snap.data \in Nat
<1>1. \A x \in Snaps : x.data \in Nat
  BY TorrentAssumption DEF Snaps
<1>2. \A x \in Dbs : x.snap \in Snaps
  BY ConstantTypes DEF Dbs, NoRow
<1>3. db \in Dbs /\ held \in Dbs /\ gate.row \in Dbs
  BY DEF Types, Gates
<1> QED
  BY <1>1, <1>2, <1>3, TorrentAssumption DEF Types

\* in the next state too.
LEMMA DataTypesNext ==
  ASSUME Types'
  PROVE  /\ snap'.data \in Nat /\ given'.data \in Nat /\ data' \in Nat /\ db'.snap.data \in Nat
         /\ gate'.row.snap.data \in Nat /\ held'.snap.data \in Nat
<1>1. \A x \in Snaps : x.data \in Nat
  BY TorrentAssumption DEF Snaps
<1>2. \A x \in Dbs : x.snap \in Snaps
  BY ConstantTypes DEF Dbs, NoRow
<1>3. snap' \in Snaps /\ given' \in Snaps /\ db' \in Dbs /\ held' \in Dbs /\ gate' \in Gates
      /\ data' \in 0 .. MaxData
  BY DEF Types, Snaps, Dbs, Statuses, Gates, Savers
<1>4. gate'.row \in Dbs
  BY <1>3 DEF Gates
<1> QED
  BY <1>1, <1>2, <1>3, <1>4, TorrentAssumption

\* A save that enters the gate has read the snapshot.
LEMMA SavesSnap ==
  ASSUME NEW by, NEW k, NEW tells, Saves(by, k, tells)
  PROVE  /\ gate = NoSave /\ gate'.by = by /\ gate'.run = k
         /\ gate'.row.snap = snap' /\ held' = held
BY DEF Saves, Row

\* A write leaves the snapshot of the task, or is a replay, or fails.
LEMMA WritesSnap ==
  ASSUME NEW row, Writes(row) \/ WriteFails
  PROVE  \/ db' = row /\ (replayed' \/ row.snap = snap')
         \/ UNCHANGED <<db, replayed>> /\ erred'
<1>1. CASE Writes(row)
  <2>1. row = Row => row.snap = snap'
    BY DEF Row
  <2>2. db' = row /\ (row # Row => replayed')
    BY <1>1, Zenon DEF Writes
  <2> QED
    BY <2>1, <2>2, Zenon
<1>2. CASE WriteFails
  BY <1>2 DEF WriteFails, stored
<1> QED
  BY <1>1, <1>2

\* Nothing is below the first resume data.
LEMMA AboveZero ==
  ASSUME NEW s \in Seq(Alerts) PROVE Above(s, 0)
<1>1. \A i \in 1 .. Len(s) : s[i].data \in Nat
  BY AlertData
<1> QED
  BY <1>1 DEF Above

\* Kept is inductive, and a step that keeps it stores no older resume data.
LEMMA KeptStep ==
  ASSUME Types, Types', Rest, Order, Bounds, Rows, Kept, [Next]_vars
  PROVE  /\ Kept'
         /\ db'.snap.data < db.snap.data => ~db'.snap.present \/ Outdated \/ replayed \/ replayed'
<1> DEFINE Goal ==
      /\ Kept'
      /\ db'.snap.data < db.snap.data => ~db'.snap.present \/ Outdated \/ replayed \/ replayed'
<1>0. /\ snap.data \in Nat /\ given.data \in Nat /\ data \in Nat /\ db.snap.data \in Nat
      /\ snap'.data \in Nat /\ given'.data \in Nat /\ db'.snap.data \in Nat
  BY DataTypes, DataTypesNext
<1>e. erred => erred'
  BY ErredStays
<1>n. /\ NoSnap.data = 0 /\ ~NoSnap.present /\ NoRow.snap = NoSnap /\ NoSave.by = "none"
      /\ NoSave.run \notin listening
  BY TorrentAssumption DEF NoSnap, NoRow, NoSave, Types
<1>s. ASSUME UNCHANGED <<given, run, up, listening, db, replayed>>,
             snap'.data = snap.data, snap'.present = snap.present,
             gate' = gate \/ gate = NoSave,
             pc' \in Started => pc \in Started, pc' \in Adding => pc \in Adding,
             pc \in {"idle", "reset", "mark"} =>
               pc' \in {"idle", "reset", "mark"} \/ (pc' = "prepare" /\ gate'.by = "start"),
             pc \in {"prepare", "launch"} /\ gate.by = "start" => pc' = pc
      PROVE  Goal
  <2>1. ~snap'.present => snap'.data = 0
    BY <1>s DEF Kept
  <2>2. pc' \in Started => run' \notin listening'
    BY <1>s DEF Kept
  <2>3. pc' \in Adding => snap'.data <= given'.data \/ listening' # {}
    BY <1>s DEF Kept
  <2>4. CASE gate' = gate
    BY <1>0, <1>e, <1>s, <2>1, <2>2, <2>3, <2>4 DEF Kept
  <2>5. CASE gate = NoSave
    BY <1>0, <1>e, <1>n, <1>s, <2>1, <2>2, <2>3, <2>5 DEF Kept
  <2> QED
    BY <1>s, <2>4, <2>5
<1>w. ASSUME UNCHANGED <<snap, given, run, up, listening>>, up, NEW row,
             \/ gate' = gate /\ pc' = pc
             \/ gate' = NoSave /\ (pc' = pc \/ (pc' = "idle" /\ gate.by = "start")),
             \/ Writes(row)
             \/ WriteFails /\ (gate' # gate /\ gate.by = "start" => pc' = "idle")
      PROVE  Goal
  <2>1. CASE db' = row /\ (replayed' \/ row.snap = snap')
    <3>1. Kept'
      BY <1>0, <1>w, <2>1 DEF Kept, Started, Adding
    <3>2. ASSUME db'.snap.data < db.snap.data, db'.snap.present, ~replayed, ~replayed'
          PROVE  Outdated
      <4>1. snap.data < db.snap.data /\ snap.present
        BY <1>w, <2>1, <3>2
      <4>2. \/ listening \ {run} # {} /\ erred
            \/ listening \ {run} # {} /\ pc = "launch" /\ snap.data = given.data
            \/ gate.run \in listening \ {run}
        BY <1>0, <1>w, <3>2, <4>1 DEF Kept
      <4> QED
        BY <4>1, <4>2 DEF Outdated
    <3> QED
      BY <3>1, <3>2
  <2>2. CASE /\ UNCHANGED <<db, replayed>> /\ erred'
             /\ gate' # gate /\ gate.by = "start" => pc' = "idle"
    <3>1. gate.run \in listening \ {run} => listening \ {run} # {}
      OBVIOUS
    <3>2. CASE gate' = gate /\ pc' = pc
      BY <1>0, <1>w, <2>2, <3>1, <3>2 DEF Kept
    <3>3. CASE ~(gate' = gate /\ pc' = pc)
      <4>1. gate' = NoSave /\ (pc' = pc \/ pc' = "idle")
        BY <1>w, <3>3
      <4>2. gate.by = "start" => pc' = "idle"
        BY <1>w, <1>n, <2>2, <3>3, <4>1
      <4> QED
        BY <1>0, <1>w, <2>2, <3>1, <4>1, <4>2 DEF Kept, Started, Adding
    <3> QED
      BY <3>2, <3>3
  <2>3. Writes(row) => db' = row /\ (replayed' \/ row.snap = snap')
    <3>1. row = Row => row.snap = snap'
      BY DEF Row
    <3> QED
      BY <3>1, Zenon DEF Writes
  <2>4. WriteFails => UNCHANGED <<db, replayed>> /\ erred'
    BY DEF WriteFails, stored
  <2> QED
    BY <1>w, <2>1, <2>2, <2>3, <2>4
<1>1. CASE UNCHANGED vars
  BY <1>1, <1>s DEF vars, task, control, files, stored
<1>2. CASE Calling
  <2>1. CASE ResumeAnew
    <3>1. UNCHANGED <<snap, given, run, up, listening, db, replayed>> /\ pc' = "mark" /\ pc = "idle"
      BY <2>1 DEF ResumeAnew, Call, stored
    <3>2. gate = NoSave
      BY <2>1, SavesSnap DEF ResumeAnew
    <3> QED
      BY <1>s, <3>1, <3>2 DEF Started, Adding
  <2>2. CASE Start
    BY <2>2, <1>s DEF Start, task, files, stored, Started, Adding
  <2>3. CASE PauseCall \/ ResumeCall \/ CancelCall \/ DeleteCall
    BY <2>3, <1>s DEF PauseCall, ResumeCall, CancelCall, DeleteCall, task, files, stored
  <2> QED
    BY <1>2, <2>1, <2>2, <2>3 DEF Calling
<1>3. CASE Starting
  <2>0. up /\ gate.by # "start"
    BY <1>3 DEF Starting, Reset, Mark, Prepare, Add, AddFails, RegisterSender, Ensure,
       Install, Launch, SaveRunning, Listen
  <2>1. CASE Reset
    BY <2>1, <1>0, <1>n DEF Reset, Kept, Started, Adding, files, stored
  <2>2. CASE Mark
    <3>1. UNCHANGED <<snap, given, run, up, listening, db, replayed>> /\ pc = "mark" /\ pc' = "prepare"
      BY <2>2 DEF Mark, stored
    <3>2. gate = NoSave /\ gate'.by = "start"
      BY <2>2, SavesSnap DEF Mark
    <3> QED
      BY <1>s, <3>1, <3>2 DEF Started, Adding
  <2>3. CASE Prepare
    <3>1. UNCHANGED <<snap, db, replayed, run, up, listening, erred, gate>> /\ pc = "prepare" /\ pc' = "add"
          /\ given' = snap
      BY <2>3 DEF Prepare, task, files, stored
    <3> QED
      BY <1>0, <2>0, <3>1 DEF Kept, Started, Adding
  <2>4. CASE Add
    <3>1. run' \notin listening /\ run' # run
      BY <2>4, TorrentAssumption DEF Add, Types
    <3>2. /\ UNCHANGED <<snap, given, db, replayed, up, listening, erred, gate>>
          /\ pc = "add" /\ pc' = "register"
      BY <2>4 DEF Add, task, files, stored
    <3>3. (listening \ {run} # {} => listening' \ {run'} # {})
          /\ (gate.run \in listening \ {run} => gate'.run \in listening' \ {run'})
      BY <3>1, <3>2
    <3> QED
      BY <1>0, <3>1, <3>2, <3>3 DEF Kept, Adding, Started
  <2>5. CASE AddFails
    <3>1. UNCHANGED <<snap, given, db, replayed, run, up, listening, gate>> /\ pc = "add" /\ pc' = "idle"
      BY <2>5 DEF AddFails, task, files, stored
    <3> QED
      BY <1>s, <3>1 DEF Started, Adding
  <2>6. CASE RegisterSender \/ Ensure
    <3>1. /\ UNCHANGED <<snap, given, db, replayed, run, up, listening, gate>>
          /\ pc \in {"register", "ensure"} /\ pc' \in {"ensure", "install"}
      BY <2>6 DEF RegisterSender, Ensure, task, files, stored
    <3> QED
      BY <1>s, <3>1 DEF Started, Adding
  <2>7. CASE Install
    <3>1. /\ snap'.present /\ snap'.data = given.data
          /\ UNCHANGED <<given, run, up, listening, db, replayed, erred>>
          /\ pc = "install" /\ pc' = "launch"
      BY <2>7 DEF Install, Session, stored
    <3>2. gate = NoSave /\ gate'.by = "start"
      BY <2>7, SavesSnap DEF Install
    <3>3. listening # {} => listening \ {run} # {}
      BY <3>1 DEF Kept, Started
    <3>4. replayed \/ db.snap.data <= snap.data \/ (erred /\ listening \ {run} # {})
      BY <3>1, <3>2, <2>0, <1>n DEF Kept
    <3>5. snap.data <= given.data \/ listening \ {run} # {}
      BY <3>1, <3>3 DEF Kept, Adding
    <3>6. replayed \/ db.snap.data <= given.data \/ listening \ {run} # {}
      BY <1>0, <3>4, <3>5
    <3> QED
      BY <1>0, <3>1, <3>2, <3>6 DEF Kept, Started, Adding
  <2>8. CASE Launch
    <3>1. UNCHANGED <<snap, given, db, replayed, run, up, listening, gate>> /\ pc = "launch"
          /\ pc' \in {"listen", "save"}
      BY <2>8 DEF Launch, files, stored
    <3> QED
      BY <1>s, <2>0, <3>1 DEF Started, Adding
  <2>9. CASE SaveRunning
    <3>1. UNCHANGED <<snap, given, db, replayed, run, up, listening>> /\ pc = "save" /\ pc' = "listen"
      BY <2>9 DEF SaveRunning, task, stored
    <3>2. gate = NoSave
      BY <2>9, SavesSnap DEF SaveRunning
    <3> QED
      BY <1>s, <3>1, <3>2 DEF Started, Adding
  <2>10. CASE Listen
    <3>1. UNCHANGED <<snap, given, run, up, db, replayed, erred, gate>> /\ pc = "listen" /\ pc' = "idle"
          /\ listening' \ {run} = listening \ {run}
      BY <2>10 DEF Listen, task, files, stored
    <3> QED
      BY <1>0, <3>1 DEF Kept, Started, Adding
  <2> QED
    BY <1>3, <2>1, <2>2, <2>3, <2>4, <2>5, <2>6, <2>7, <2>8, <2>9, <2>10 DEF Starting
<1>4. CASE Returning
  <2>1. CASE EngineRefuses
    BY <2>1, <1>s DEF EngineRefuses, task, files, stored
  <2>2. CASE CallReturns
    <3>1. gate = NoSave
      BY <2>2, SavesSnap DEF CallReturns
    <3> QED
      BY <2>2, <3>1, <1>s DEF CallReturns, task, stored
  <2>3. CASE DeleteReturns
    <3>1. UNCHANGED <<given, pc, run, up, listening, gate>>
      BY <2>3 DEF DeleteReturns, files
    <3>2. (snap' = NoSnap /\ db' = NoRow) \/ UNCHANGED <<snap, db, replayed>>
      BY <2>3 DEF DeleteReturns, stored
    <3>3. CASE snap' = NoSnap /\ db' = NoRow
      BY <1>0, <1>n, <3>1, <3>3 DEF Kept
    <3> QED
      BY <1>s, <3>1, <3>2, <3>3
  <2> QED
    BY <1>4, <2>1, <2>2, <2>3 DEF Returning
<1>5. CASE Saving
  <2>1. CASE GateWrites
    <3>1. UNCHANGED <<snap, given, run, up, listening>> /\ up /\ gate' = NoSave /\ gate # NoSave
      BY <2>1 DEF GateWrites, task
    <3>2. \/ Writes(gate.row) /\ pc' = pc
          \/ WriteFails /\ pc' = IF gate.by = "start" THEN "idle" ELSE pc
      BY <2>1 DEF GateWrites
    <3> QED
      BY <1>w, <3>1, <3>2
  <2>2. CASE LoopReads
    BY <2>2, <1>s DEF LoopReads, task, stored
  <2>3. CASE LoopWrites
    <3>1. UNCHANGED <<snap, given, run, up, listening, gate, pc>> /\ up /\ (Writes(held) \/ WriteFails)
      BY <2>3 DEF LoopWrites, task
    <3> QED
      BY <1>w, <3>1
  <2> QED
    BY <1>5, <2>1, <2>2, <2>3 DEF Saving
<1>6. ASSUME NEW k \in Runs, Handle(k)
      PROVE  Goal
  <2>1. CASE Finish(k) \/ HandlePiece(k)
    <3>1. gate = NoSave
      BY <2>1, SavesSnap DEF Finish, HandlePiece
    <3> QED
      BY <2>1, <3>1, <1>s DEF Finish, HandlePiece, Receives, task, stored
  <2>2. CASE HandlePaused(k) \/ HandleOther(k) \/ HandleEnd(k)
    BY <2>2, <1>s DEF HandlePaused, HandleOther, HandleEnd, Receives, task, files, stored
  <2>3. CASE HandleMetadata(k)
    <3>1. /\ snap'.data = snap.data /\ snap'.present = snap.present
          /\ UNCHANGED <<given, pc, run, up, listening, db, replayed>>
      BY <2>3 DEF HandleMetadata, Receives, Types, Snaps, stored
    <3>2. gate = NoSave
      BY <2>3, SavesSnap DEF HandleMetadata
    <3> QED
      BY <1>s, <3>1, <3>2
  <2>4. CASE HandleData(k)
    <3>1. /\ snap'.present = snap.present /\ snap'.data = IF snap.present THEN Head(chan[k]).data ELSE 0
          /\ UNCHANGED <<given, pc, run, up, listening, db, replayed, erred>> /\ k \in listening /\ up
          /\ chan[k] # <<>> /\ Head(chan[k]).kind = "data"
      BY <2>4 DEF HandleData, Receives, Types, Snaps, stored
    <3>2. gate = NoSave /\ gate'.run = k
      BY <2>4, SavesSnap DEF HandleData
    <3>3. ~snap.present => snap'.data = snap.data
      BY <3>1 DEF Kept
    <3>4. k = run /\ snap.present => snap.data <= snap'.data
      <4>1. SUFFICES ASSUME k = run, snap.present PROVE snap.data <= Head(chan[k]).data
        BY <3>1
      <4>2. run # 0
        BY <4>1, TorrentAssumption DEF Runs
      <4>3. Above(chan[k], snap.data) /\ chan[k] \in Seq(Alerts)
        BY <4>1, <4>2 DEF Bounds, Types
      <4> QED
        BY <3>1, <4>3, TailData
    <3>5. gate.by # "start" /\ gate.run \notin listening
      BY <3>2, <1>n
    <3>6. CASE k # run
      BY <1>0, <3>1, <3>2, <3>3, <3>6 DEF Kept
    <3>7. CASE k = run
      BY <1>0, <3>1, <3>3, <3>4, <3>5, <3>7 DEF Kept
    <3> QED
      BY <3>6, <3>7
  <2> QED
    BY <1>6, <2>1, <2>2, <2>3, <2>4 DEF Handle
<1>7. CASE Libtorrent \/ Update \/ Polls \/ Upset
  BY <1>7, <1>s DEF Libtorrent, Update, Polls, Upset, others, task, control, files, stored
<1>8. CASE Crash
  BY <1>8, <1>0 DEF Crash, Kept, Started, Adding, stored
<1>9. CASE Restore
  <2>1. snap' = db.snap /\ db'.snap = db.snap /\ UNCHANGED <<given, pc, run, listening>>
        /\ pc = "idle" /\ listening = {}
    BY <1>9 DEF Restore, Row, control, Rest
  <2> QED
    BY <1>0, <2>1 DEF Kept, Started, Adding, Rows, Sound
<1> QED
  BY <1>1, <1>2, <1>3, <1>4, <1>5, <1>6, <1>7, <1>8, <1>9 DEF Next

\* Bounds is inductive.
LEMMA BoundsStep ==
  ASSUME Types, Types', Rest, Order, InTurn, Bounds, Rows, [Next]_vars
  PROVE  Bounds'
<1>0. /\ snap.data \in Nat /\ given.data \in Nat /\ data \in Nat /\ db.snap.data \in Nat
      /\ snap'.data \in Nat /\ given'.data \in Nat /\ data' \in Nat /\ db'.snap.data \in Nat
  BY DataTypes, DataTypesNext
<1>n. NoSnap.data = 0
  BY DEF NoSnap
<1>a. alerts \in Seq(Alerts) /\ \A k \in Runs : chan[k] \in Seq(Alerts)
  BY DEF Types
<1>r. run # 0 => run \in Runs
  BY TorrentAssumption DEF Types, Runs
<1>g. pc \in Started => run # 0
  BY DEF Types
<1>s. ASSUME UNCHANGED <<alerts, data, chan, run, listening>>,
             snap'.data = snap.data \/ snap'.data = 0,
             \/ given' = given /\ (pc' \in Adding \ {"add"} => pc \in Adding \ {"add"})
             \/ given' = snap /\ pc' = "add"
      PROVE  Bounds'
  <2>1. snap'.data <= data' /\ given'.data <= data'
    BY <1>0, <1>s DEF Bounds
  <2>2. Above(alerts', snap'.data)
    BY <1>a, <1>s, AboveZero DEF Bounds
  <2>3. Above(alerts', given'.data)
    BY <1>s DEF Bounds
  <2>4. pc' \in Adding \ {"add"} => Above(chan'[run'], given'.data)
    BY <1>s DEF Bounds, Adding
  <2>5. run' # 0 => Above(chan'[run'], snap'.data)
    <3>1. CASE snap'.data = snap.data
      BY <1>s, <3>1 DEF Bounds
    <3>2. CASE snap'.data = 0
      BY <1>s, <3>2, <1>a, <1>r, AboveZero
    <3> QED
      BY <1>s, <3>1, <3>2
  <2> QED
    BY <2>1, <2>2, <2>3, <2>4, <2>5 DEF Bounds, Adding
<1>1. CASE UNCHANGED vars
  BY <1>1, <1>s DEF vars, task, control, engine, native, Adding
<1>2. CASE Calling
  <2>1. CASE ResumeAnew
    <3>1. UNCHANGED <<alerts, data, chan, run, listening, given, snap>> /\ pc' = "mark"
      BY <2>1 DEF ResumeAnew, engine, native
    <3> QED
      BY <3>1, <1>s DEF Adding
  <2>2. CASE Start
    BY <2>2, <1>s DEF Start, task, engine, native, Adding
  <2>3. CASE PauseCall \/ ResumeCall \/ CancelCall
    BY <2>3, <1>s DEF PauseCall, ResumeCall, CancelCall, task, engine, native
  <2>4. CASE DeleteCall
    <3>1. UNCHANGED <<alerts, data, chan>>
      BY <2>4 DEF DeleteCall, RemoveSession, engine, native
    <3> QED
      BY <3>1, <2>4, <1>s DEF DeleteCall, task
  <2> QED
    BY <1>2, <2>1, <2>2, <2>3, <2>4 DEF Calling
<1>3. CASE Starting
  <2>1. CASE Reset
    <3>1. UNCHANGED <<alerts, data, chan, run, listening, given>> /\ snap' = NoSnap /\ pc' = "mark"
      BY <2>1 DEF Reset, engine, native
    <3> QED
      BY <3>1, <1>n, <1>s DEF Adding
  <2>2. CASE Mark \/ SaveRunning
    <3>1. /\ UNCHANGED <<alerts, data, chan, run, listening, given, snap>>
          /\ pc' \in {"prepare", "listen"}
      BY <2>2 DEF Mark, SaveRunning, engine, native, task
    <3> QED
      BY <3>1, <1>s DEF Adding
  <2>3. CASE Prepare
    BY <2>3, <1>s DEF Prepare, task, engine, native
  <2>4. CASE Add
    <3>1. /\ UNCHANGED <<alerts, data, chan, listening, given, snap>> /\ pc' = "register"
          /\ run' = run + 1 /\ run < MaxRuns
      BY <2>4 DEF Add, Added, AddTorrent, task
    <3>2. run + 1 \in Runs /\ run + 1 > run
      BY <3>1, TorrentAssumption DEF Types, Runs
    <3>3. chan'[run'] = <<>>
      BY <3>1, <3>2 DEF Order
    <3>4. \A n : Above(chan'[run'], n)
      BY <3>3, EmptyData
    <3> QED
      BY <3>1, <3>4 DEF Bounds
  <2>5. CASE AddFails
    <3>1. UNCHANGED <<alerts, data, chan, run, listening, given, snap>> /\ pc' = "idle"
      BY <2>5 DEF AddFails, Added, AddTorrent, task, engine, native
    <3> QED
      BY <3>1, <1>s DEF Adding
  <2>6. CASE RegisterSender \/ Ensure
    <3>1. UNCHANGED <<alerts, data, chan, run, listening, given, snap>> /\ pc \in {"register", "ensure"}
      BY <2>6 DEF RegisterSender, Ensure, task, Register, EnsurePolling, native
    <3> QED
      BY <3>1, <1>s DEF Adding
  <2>7. CASE Install
    <3>1. /\ UNCHANGED <<alerts, data, chan, run, listening, given>> /\ pc = "install"
          /\ snap'.data = given.data /\ pc' = "launch"
      BY <2>7 DEF Install, Session, engine, native
    <3>2. Above(chan[run], given.data)
      BY <3>1 DEF Bounds, Adding
    <3> QED
      BY <3>1, <3>2 DEF Bounds, Adding
  <2>8. CASE Launch
    <3>1. UNCHANGED <<alerts, data, chan, run, listening, given, snap>> /\ pc' \in {"listen", "save"}
      BY <2>8 DEF Launch, engine, native
    <3> QED
      BY <3>1, <1>s DEF Adding
  <2>9. CASE Listen
    <3>1. UNCHANGED <<alerts, data, chan, run, given, snap>> /\ pc' = "idle"
          /\ listening' = listening \cup {run}
      BY <2>9 DEF Listen, task, engine, native
    <3> QED
      BY <3>1 DEF Bounds, Adding
  <2> QED
    BY <1>3, <2>1, <2>2, <2>3, <2>4, <2>5, <2>6, <2>7, <2>8, <2>9 DEF Starting
<1>4. CASE Returning \/ Saving
  <2>1. UNCHANGED <<alerts, data, chan, run, listening, given>> /\ pc' \in {pc, "idle"}
    BY <1>4 DEF Returning, EngineRefuses, CallReturns, DeleteReturns, EngineCalled, PauseSession,
       ResumeSession, RemoveSession, Saving, GateWrites, LoopReads, LoopWrites, engine, native
  <2>2. snap' = snap \/ snap' = NoSnap
    BY <1>4 DEF Returning, EngineRefuses, CallReturns, DeleteReturns, Saving, GateWrites, LoopReads,
       LoopWrites, task
  <2> QED
    BY <2>1, <2>2, <1>n, <1>s DEF Adding
<1>5. ASSUME NEW k \in Runs, Handle(k)
      PROVE  Bounds'
  <2>1. CASE Finish(k)
    <3>1. UNCHANGED <<alerts, data, chan, run, listening, given, pc, snap>>
      BY <2>1 DEF Finish, engine, native, task
    <3> QED
      BY <3>1, <1>s
  <2>2. ASSUME NEW kinds, Receives(k, kinds),
               snap'.data <= data, Above(alerts, snap'.data),
               k = run => Above(Tail(chan[k]), snap'.data),
               run # 0 /\ k # run => Above(chan[run], snap'.data)
        PROVE  Bounds'
    <3>1. /\ UNCHANGED <<alerts, data, run, listening, given, pc>> /\ chan[k] # <<>>
          /\ chan' = [chan EXCEPT ![k] = Tail(@)] /\ k \in listening
      BY <2>2 DEF Receives, native
    <3>2. \A j \in Runs : chan'[j] = IF j = k THEN Tail(chan[k]) ELSE chan[j]
      BY <3>1 DEF Types
    <3>3. pc' \in Adding \ {"add"} => Above(chan'[run'], given'.data)
      <4>1. SUFFICES ASSUME pc' \in Adding \ {"add"} PROVE Above(chan'[run], given.data)
        BY <3>1
      <4>2. Above(chan[run], given.data) /\ run \in Runs
        BY <4>1, <3>1, <1>g, <1>r DEF Bounds, Adding, Started
      <4> QED
        BY <4>2, <3>1, <3>2, <1>a, TailData
    <3>4. run' # 0 => Above(chan'[run'], snap'.data)
      BY <2>2, <3>1, <3>2, <1>r
    <3> QED
      BY <2>2, <3>1, <3>3, <3>4 DEF Bounds, Adding
  <2>3. ASSUME NEW kinds, Receives(k, kinds), snap'.data = snap.data
        PROVE  Bounds'
    <3>1. k \in listening /\ chan[k] # <<>>
      BY <2>3 DEF Receives
    <3>2. k = run => Above(Tail(chan[k]), snap'.data)
      BY <2>3, <3>1, <1>a, TailData, TorrentAssumption DEF Bounds, Runs
    <3> QED
      BY <2>2, <2>3, <3>2 DEF Bounds
  <2>4. CASE HandleMetadata(k)
    <3>1. snap'.data = snap.data
      BY <2>4 DEF HandleMetadata, Types, Snaps
    <3> QED
      BY <2>3, <2>4, <3>1 DEF HandleMetadata
  <2>5. CASE HandlePiece(k)
    BY <2>3, <2>5 DEF HandlePiece
  <2>6. CASE HandlePaused(k) \/ HandleOther(k) \/ HandleEnd(k)
    BY <2>3, <2>6 DEF HandlePaused, HandleOther, HandleEnd, task
  <2>7. CASE HandleData(k)
    <3>1. /\ snap'.data = Head(chan[k]).data \/ snap'.data = 0
          /\ chan[k] # <<>> /\ Head(chan[k]).kind = "data" /\ Receives(k, {"data"})
      BY <2>7 DEF HandleData, Receives, Types, Snaps
    <3>l. k \in listening /\ listening \subseteq 1 .. run
      BY <3>1 DEF Receives, Types
    <3>r. k # run => k < run
      BY <3>l, TorrentAssumption DEF Types, Runs
    <3>3. Tail(chan[k]) \in Seq(Alerts)
      BY <3>1, <1>a, HeadTailProperties, EmptySeq
    <3>4. CASE snap'.data = 0
      <4>1. Above(alerts, snap'.data) /\ Above(Tail(chan[k]), snap'.data)
        BY <3>3, <3>4, <1>a, AboveZero
      <4>2. snap'.data <= data
        BY <3>4, <1>0
      <4>3. run # 0 => Above(chan[run], snap'.data)
        BY <3>4, <1>a, <1>r, AboveZero
      <4> QED
        BY <2>2, <3>1, <4>1, <4>2, <4>3
    <3>5. CASE snap'.data = Head(chan[k]).data
      <4>1. Head(chan[k]).data <= data /\ Above(alerts, Head(chan[k]).data)
            /\ Above(Tail(chan[k]), Head(chan[k]).data)
        BY <3>1, <1>a, TailData DEF Order
      <4>2. run # 0 /\ k # run => Above(chan[run], Head(chan[k]).data)
        BY <3>1, <3>r, <1>a, <1>r, TailData DEF InTurn
      <4> QED
        BY <2>2, <3>1, <3>5, <4>1, <4>2
    <3> QED
      BY <3>1, <3>4, <3>5
  <2> QED
    BY <1>5, <2>1, <2>4, <2>5, <2>6, <2>7 DEF Handle
<1>6. CASE Libtorrent \/ Update \/ Polls \/ Upset
  <2>0. UNCHANGED <<run, listening, given, pc, snap>>
    BY <1>6 DEF Libtorrent, Update, Polls, Upset, others, control, task
  <2>00. \A c \in {"metadata", "piece", "finished", "error"} \cup States : Alert(c) \in Alerts /\ Alert(c).kind = c
    BY DEF Alert, Alerts
  <2>000. "data" \notin {"metadata", "piece", "finished", "error"} \cup States
    BY DEF States
  <2>1. ASSUME NEW a \in Alerts, Post(a), UNCHANGED chan, data <= data',
               a.kind = "data" => data <= a.data
        PROVE  Bounds'
    <3>1. alerts' = Append(alerts, a) /\ a.data \in Nat
      BY <2>1, AlertData DEF Post
    <3>2. Above(alerts', snap'.data) /\ Above(alerts', given'.data)
      BY <2>0, <2>1, <3>1, <1>a, <1>0, AppendData DEF Bounds
    <3>3. snap'.data <= data' /\ given'.data <= data'
      BY <2>0, <2>1, <1>0 DEF Bounds
    <3>4. chan'[run'] = chan[run]
      BY <2>0, <2>1
    <3> QED
      BY <2>0, <3>2, <3>3, <3>4 DEF Bounds, Adding
  <2>2. CASE NativeMetadata \/ NativePiece \/ NativeFinish \/ NativeError
    BY <2>2, <2>1, <2>00, <2>000, <1>0 DEF NativeMetadata, NativePiece, NativeFinish, NativeError
  <2>3. CASE NativeUpdate
    <3>1. MappedState \in States
      BY <2>3 DEF NativeUpdate, MappedState, States, Types
    <3>2. Alert(MappedState) \in Alerts /\ Alert(MappedState).kind # "data"
      BY <3>1, <2>00, <2>000
    <3> QED
      BY <2>3, <3>2, <2>1, <1>0 DEF NativeUpdate
  <2>4. CASE NativeSaved
    <3>1. data + 1 \in 1 .. MaxData
      BY <2>4, TorrentAssumption DEF NativeSaved, Types
    <3>2. [kind |-> "data", data |-> data + 1] \in Alerts
      BY <3>1 DEF Alerts
    <3>3. Post([kind |-> "data", data |-> data + 1]) /\ data' = data + 1 /\ chan' = chan
      BY <2>4 DEF NativeSaved
    <3> QED
      BY <2>1, <3>2, <3>3, <1>0
  <2>5. CASE NativeQueue \/ OtherTask
    BY <2>0, <2>5, <1>s DEF NativeQueue, OtherTask, native
  <2>p. ASSUME UNCHANGED data, alerts' = alerts \/ alerts' = <<>>,
               \A n : run # 0 /\ Above(chan[run], n) /\ Above(alerts, n) => Above(chan'[run], n)
        PROVE  Bounds'
    <3>1. Above(alerts', snap'.data) /\ Above(alerts', given'.data)
      BY <2>0, <2>p, EmptyData DEF Bounds
    <3>2. snap'.data <= data' /\ given'.data <= data'
      BY <2>0, <2>p DEF Bounds
    <3>3. pc' \in Adding \ {"add"} => Above(chan'[run'], given'.data)
      BY <2>0, <2>p, <1>g DEF Bounds, Adding, Started
    <3>4. run' # 0 => Above(chan'[run'], snap'.data)
      BY <2>0, <2>p DEF Bounds
    <3> QED
      BY <3>1, <3>2, <3>3, <3>4 DEF Bounds
  <2>6. CASE Poll
    <3>1. /\ alerts' = <<>> /\ data' = data
          /\ chan' = IF sender = 0 THEN chan ELSE [chan EXCEPT ![sender] = @ \o alerts]
      BY <2>6 DEF Poll, native
    <3>2. ASSUME run # 0 PROVE chan'[run] \in {chan[run], chan[run] \o alerts}
      BY <3>1, <3>2, <1>r DEF Types
    <3> QED
      BY <2>p, <3>1, <3>2, <1>a, <1>r, ConcatData
  <2>7. CASE PollFails
    <3>1. /\ UNCHANGED <<alerts, data>>
          /\ chan' = IF sender = 0 THEN chan ELSE [chan EXCEPT ![sender] = Append(@, Alert("error"))]
      BY <2>7 DEF PollFails, native
    <3>2. ASSUME run # 0 PROVE chan'[run] \in {chan[run], Append(chan[run], Alert("error"))}
      BY <3>1, <3>2, <1>r DEF Types
    <3>3. Alert("error") \in Alerts /\ Alert("error").kind # "data"
      BY <2>00
    <3> QED
      BY <2>p, <3>1, <3>2, <3>3, <1>a, <1>r, AppendData
  <2> QED
    BY <1>6, <2>2, <2>3, <2>4, <2>5, <2>6, <2>7 DEF Libtorrent, Update, Polls, Upset
<1>7. CASE Crash
  <2>1. /\ UNCHANGED <<data, snap, run>> /\ alerts' = <<>> /\ given' = NoSnap /\ pc' = "idle"
        /\ \A k \in Runs : chan'[k] = <<>>
    BY <1>7 DEF Crash
  <2>2. run # 0 => \A n : Above(chan'[run], n)
    BY <2>1, <1>r, EmptyData
  <2> QED
    BY <2>1, <2>2, <1>0, <1>n, EmptyData DEF Bounds, Adding
<1>8. CASE Restore
  <2>1. /\ snap' = db.snap /\ UNCHANGED <<given, pc, run, alerts, data, chan>>
        /\ pc = "idle" /\ ~up
    BY <1>8 DEF Restore, control, Rest, engine, native
  <2>2. /\ \A n : Above(alerts', n)
        /\ run # 0 => \A n : Above(chan'[run], n)
    BY <2>1, <1>r, EmptyData DEF Order
  <2> QED
    BY <2>1, <2>2, <1>0 DEF Bounds, Adding, Rows, Sound
<1> QED
  BY <1>1, <1>2, <1>3, <1>4, <1>5, <1>6, <1>7, <1>8 DEF Next

\* Where the snapshots of the row and of the saves come from.
LEMMA RowsFrom ==
  ASSUME Types, [Next]_vars
  PROVE  /\ db'.snap \in {db.snap, gate.row.snap, held.snap, NoSnap, snap'}
         /\ gate'.row.snap \in {gate.row.snap, NoSnap, snap'}
         /\ held'.snap \in {held.snap, NoSnap, snap'}
         /\ data' \in {data, data + 1}
<1>n. NoRow.snap = NoSnap /\ NoSave.row.snap = NoSnap
  BY DEF NoRow, NoSave
<1> USE DEF files, stored
<1>1. CASE UNCHANGED vars
  BY <1>1 DEF vars, control, engine, native
<1>2. CASE Calling
  <2>1. CASE ResumeAnew
    BY <2>1, SavesSnap DEF ResumeAnew, engine, native
  <2>2. CASE Start \/ PauseCall \/ ResumeCall \/ CancelCall \/ DeleteCall
    BY <2>2 DEF Start, PauseCall, ResumeCall, CancelCall, DeleteCall, RemoveSession, engine, native
  <2> QED
    BY <1>2, <2>1, <2>2 DEF Calling
<1>3. CASE Starting
  <2>1. CASE Mark \/ Install \/ SaveRunning
    BY <2>1, SavesSnap DEF Mark, Install, SaveRunning, engine, native
  <2>2. CASE Add \/ AddFails
    BY <2>2 DEF Add, AddFails, Added, AddTorrent, engine, native
  <2>3. CASE Reset \/ Prepare \/ RegisterSender \/ Ensure \/ Launch \/ Listen
    BY <2>3 DEF Reset, Prepare, RegisterSender, Ensure, Launch, Listen, Register, EnsurePolling,
       engine, native
  <2> QED
    BY <1>3, <2>1, <2>2, <2>3 DEF Starting
<1>4. CASE Returning
  <2>1. CASE CallReturns
    BY <2>1, SavesSnap DEF CallReturns, EngineCalled, PauseSession, ResumeSession, RemoveSession,
       engine, native
  <2>2. CASE EngineRefuses \/ DeleteReturns
    BY <2>2, <1>n DEF EngineRefuses, DeleteReturns, engine, native
  <2> QED
    BY <1>4, <2>1, <2>2 DEF Returning
<1>5. CASE Saving
  <2>1. CASE GateWrites
    <3>1. gate' = NoSave /\ held' = held /\ data' = data
      BY <2>1 DEF GateWrites, engine, native
    <3>2. db' = gate.row \/ db' = db
      BY <2>1, WritesSnap DEF GateWrites
    <3> QED
      BY <1>n, <3>1, <3>2
  <2>2. CASE LoopReads
    <3>1. held' = NoRow \/ held' = Row
      BY <2>2 DEF LoopReads
    <3> QED
      BY <2>2, <3>1, <1>n DEF LoopReads, Row, engine, native
  <2>3. CASE LoopWrites
    <3>1. gate' = gate /\ held' = NoRow /\ data' = data
      BY <2>3 DEF LoopWrites, engine, native
    <3>2. db' = held \/ db' = db
      BY <2>3, WritesSnap DEF LoopWrites
    <3> QED
      BY <1>n, <3>1, <3>2
  <2> QED
    BY <1>5, <2>1, <2>2, <2>3 DEF Saving
<1>6. ASSUME NEW k \in Runs, Handle(k)
      PROVE  /\ db' = db /\ data' = data /\ held' = held
             /\ gate'.row.snap \in {gate.row.snap, snap'}
  <2>1. db' = db /\ data' = data
    BY <1>6 DEF Handle, HandleMetadata, HandlePiece, HandleData, HandlePaused, HandleOther,
       HandleEnd, Finish, Receives, engine, native
  <2>2. UNCHANGED files \/ (gate'.row.snap = snap' /\ held' = held)
    BY <1>6, SavesSnap DEF Handle, HandleMetadata, HandlePiece, HandleData, HandlePaused, HandleOther,
       HandleEnd, Finish
  <2> QED
    BY <2>1, <2>2
<1>7. CASE Libtorrent \/ Update \/ Polls \/ Upset
  BY <1>7 DEF Libtorrent, Update, Polls, Upset, others, control, NativeMetadata, NativePiece,
     NativeFinish, NativeSaved, NativeUpdate, Poll, NativeError, NativeQueue, OtherTask, PollFails, native
<1>8. CASE Crash
  BY <1>8, <1>n DEF Crash
<1>9. CASE Restore
  BY <1>9 DEF Restore, Row, control, engine, native
<1> QED
  BY <1>1, <1>2, <1>3, <1>4, <1>5, <1>6, <1>7, <1>8, <1>9 DEF Next

\* Rows is inductive.
LEMMA RowsStep ==
  ASSUME Types, Types', Rows, Bounds', Kept', [Next]_vars
  PROVE  Rows'
<1>0. /\ data \in Nat /\ data' \in Nat /\ snap'.data \in Nat /\ db.snap.data \in Nat
      /\ gate.row.snap.data \in Nat /\ held.snap.data \in Nat
  BY DataTypes, DataTypesNext
<1>1. data <= data'
  BY <1>0, RowsFrom
<1>2. \A x \in {db.snap, gate.row.snap, held.snap, NoSnap, snap'} :
        x.data <= data' /\ (~x.present => x.data = 0)
  BY <1>0, <1>1 DEF Rows, Sound, Bounds, Kept, NoSnap
<1> QED
  BY <1>2, RowsFrom DEF Rows, Sound

\* Stored resume data is never replaced by older data, through crashes, restores and
\* restarts, unless the snapshot is dropped, or what is left of an earlier run comes in
\* between, or one of the two rows was read before a change and written after it.
THEOREM ResumeDataIsKeptCorrect == Spec => ResumeDataIsKept
<1> DEFINE Inv == Types /\ Rest /\ Order /\ InTurn /\ Bounds /\ Rows /\ Kept
<1>1. Init => Inv
  <2> SUFFICES ASSUME Init PROVE Inv
    OBVIOUS
  <2>1. Types
    BY TypesInit
  <2>2. Rest
    BY DEF Init, EngineInit, Rest
  <2>3. Order
    BY EmptyData DEF Init, EngineInit, Order
  <2>i. InTurn
    BY EmptyData DEF Init, EngineInit, InTurn
  <2>d. data \in Nat
    BY <2>1, DataTypes
  <2>4. Bounds
    BY <2>d, EmptyData DEF Init, EngineInit, Bounds, NoSnap, Adding
  <2>r. Rows
    <3>1. Sound(Left(data).snap) /\ Sound(Fresh.snap)
      BY <2>d DEF Sound, Left, Fresh, NoSnap
    <3>2. Sound(gate.row.snap) /\ Sound(held.snap)
      BY <2>d DEF Init, Sound, NoSave, NoRow, NoSnap
    <3> QED
      BY <3>1, <3>2 DEF Init, Rows
  <2>5. Kept
    BY DEF Init, EngineInit, Kept, NoSnap, Adding, Started, Fresh
  <2> QED
    BY <2>1, <2>2, <2>3, <2>i, <2>4, <2>r, <2>5
<1>2. Inv /\ [Next]_vars => Inv'
  <2> SUFFICES ASSUME Inv, [Next]_vars PROVE Inv'
    OBVIOUS
  <2>1. Types'
    BY TypeStep
  <2>2. Bounds' /\ Kept'
    BY <2>1, BoundsStep, KeptStep
  <2> QED
    BY <2>1, <2>2, RestStep, OrderStep, InTurnStep, RowsStep
<1>3. Inv /\ Inv' /\ [Next]_vars =>
        [db'.snap.data < db.snap.data => ~db'.snap.present \/ Outdated \/ replayed \/ replayed']_vars
  BY KeptStep
<1> QED
  BY <1>1, <1>2, <1>3, PTL DEF Spec, ResumeDataIsKept
=============================================================================
