------------------------------ MODULE Repository ------------------------------
(***************************************************************************)
(* The store, its three repositories, and the futures that save into it:   *)
(* adding and deleting tasks (the registry), Task::persist_task behind the *)
(* persistence gate, the event loop's Manager::persist_task without it,    *)
(* and the rows of single workers saved by futures of their own.           *)
(*                                                                         *)
(* A call of the repository is a sequence of statements; between two of    *)
(* them other futures run.  A task object is a number (gen), its state is  *)
(* the number of changes it has seen (ver).  A task has one worker and one *)
(* checksum.                                                               *)
(***************************************************************************)
EXTENDS Statements, FiniteSets

CONSTANTS
  Specs,        \* identity keys of downloads
  Admins,       \* callers of add and delete
  Owners,       \* futures that change a task and save it
  Scenarios,    \* the backend, downloads and futures of a behaviour, and
                \* bounds: task objects that are created, changes of each,
                \* statements that fail and crashes
  MaxEvents,    \* bound: events the loop has not taken yet
  MaxJobs       \* bound: futures that are busy at a time

(* The bounds of the scenarios have a largest one. *)
HasLargest(S) == \E n \in S : \A m \in S : m <= n

ASSUME RepositoryAssumption ==
  /\ HasLargest({s.objects : s \in Scenarios}) /\ HasLargest({s.changes : s \in Scenarios})
  /\ Scenarios \subseteq [backend : {"sqlite", "memory", "json"},
                         specs : SUBSET Specs, admins : SUBSET Admins,
                         owners : SUBSET Owners,
                         objects : Nat \ {0}, changes : Nat, faults : Nat]
  /\ MaxEvents \in Nat /\ MaxJobs \in Nat
  /\ (Admins \cup Owners) \cap {"boot", "loop", "late", "none"} = {}
  /\ Admins \cap Owners = {}

VARIABLES
  scenario,     \* Config::storage_backend and the bounds
  content,      \* what the repository answers: tables, maps or state
  conn, tx,     \* the one connection of the pool: who has it; its transaction
  file,         \* the JSON file: its state and the rows in it
  writers,      \* futures that are rewriting the file
  clash,        \* the last rewriting overlapped another one, or failed
  up, found,    \* is the manager initialized; rows still to be restored
  tasks,        \* Manager::tasks: the object at each id, 0 for none
  obj,          \* the objects created so far
  gate,         \* persistence_gate of each object
  events,       \* task events that make the loop save
  job,          \* what each future is doing
  faults

vars == <<scenario, content, conn, tx, file, writers, clash, up, found, tasks,
          obj, gate, events, job, faults>>

store == <<content, conn, tx, file, writers, clash>>

Largest(S) == CHOOSE n \in S : \A m \in S : m <= n
MaxGen == Largest({s.objects : s \in Scenarios})
MaxVersion == Largest({s.changes : s \in Scenarios})
Ids == 1 .. MaxGen
Gens == 1 .. MaxGen
backend == scenario.backend
Procs == Admins \cup Owners \cup {"boot", "loop", "late"}

NoRows == EmptyTables(Ids)
Rows == [gen : Gens, ver : 0 .. MaxVersion] \cup {NoRow}

A == INSTANCE AtomicStore
       WITH rows <- IF backend = "sqlite" THEN content ELSE NoRows

Sqlite == INSTANCE SqliteRepository
Memory == INSTANCE MemoryRepository
JsonFile == INSTANCE JsonFileRepository

-----------------------------------------------------------------------------
(* The calls of the store, as programs of the configured repository *)

Configured(sqlite, memory, json) ==
  CASE backend = "sqlite" -> sqlite
    [] backend = "memory" -> memory
    [] backend = "json" -> json

(* Mutated form of SaveTask: SQLite uses the default of the trait. *)
SaveTaskUntransacted(gen, early, late) ==
  Configured(Memory!SaveBundle(gen, early, late), Memory!SaveBundle(gen, early, late),
             JsonFile!SaveBundle(gen, early, late))

SaveTask(gen, early, late) ==
  Configured(Sqlite!SaveBundle(gen, early, late), Memory!SaveBundle(gen, early, late),
             JsonFile!SaveBundle(gen, early, late))

SaveWorker(gen, ver) ==
  Configured(Sqlite!SaveWorker(gen, ver), Memory!SaveWorker(gen, ver),
             JsonFile!SaveWorker(gen, ver))

SaveChecksums(gen, ver) ==
  Configured(Sqlite!SaveChecksum(gen, ver), Memory!SaveChecksum(gen, ver),
             JsonFile!SaveChecksum(gen, ver))

DeleteWorkers ==
  Configured(Sqlite!DeleteWorkers, Memory!DeleteWorkers, JsonFile!DeleteWorkers)
DeleteChecksums ==
  Configured(Sqlite!DeleteChecksums, Memory!DeleteChecksums, JsonFile!DeleteChecksums)

(* The repository's delete_task, then the pieces and blocks once more. *)
DeleteTask ==
  Configured(Sqlite!DeleteTask \o Sqlite!DeletePieces \o Sqlite!DeleteBlocks,
             Memory!DeleteTask \o Memory!DeletePieces \o Memory!DeleteBlocks,
             JsonFile!DeleteTask \o JsonFile!DeletePieces \o JsonFile!DeleteBlocks)

(* purge_task_workers, purge_task_checksums and purge_task in Task::delete *)
Purge == DeleteWorkers \o DeleteChecksums \o DeleteTask \o DeleteWorkers

(* Task::init *)
Initialize(gen, ver) == SaveTask(gen, ver, ver) \o SaveChecksums(gen, ver)

-----------------------------------------------------------------------------
(* The state *)

Idle == [op |-> "none", step |-> "idle", gen |-> 0, seen |-> 0, todo |-> <<>>,
         copy |-> NoRows]

Ops == {"add", "restore", "delete", "told", "silent", "save", "worker"}

(* Types: in particular every busy future works for an object that exists. *)
TypeOK ==
  /\ scenario \in Scenarios
  /\ content \in [Ids -> [Tables -> Rows]]
  /\ conn \in Procs \cup {"none"}
  /\ tx \in [Ids -> [Tables -> Rows]]
  /\ file \in [state : {"whole", "empty", "torn"}, rows : [Ids -> [Tables -> Rows]]]
  /\ writers \subseteq Procs /\ clash \in BOOLEAN
  /\ up \in BOOLEAN /\ found \subseteq Ids
  /\ tasks \in [Ids -> 0 .. Len(obj)]
  /\ obj \in Seq([id : Ids, spec : Specs, ver : 0 .. MaxVersion,
                  told : BOOLEAN])
  /\ gate \in [Gens -> Procs \cup {"none"}]
  /\ events \in Seq([id : Ids, due : BOOLEAN])
  /\ \A p \in Procs :
       \/ job[p] = Idle
       \/ /\ job[p].op \in Ops /\ job[p].step \in {"gate", "rest", "run"}
          /\ job[p].gen \in 1 .. Len(obj)
  /\ faults \in 0 .. scenario.faults

Init ==
  /\ scenario \in Scenarios
  /\ content = NoRows /\ conn = "none" /\ tx = NoRows
  /\ file = JsonFile!Whole(NoRows) /\ writers = {} /\ clash = FALSE
  /\ up = TRUE /\ found = {}
  /\ tasks = [id \in Ids |-> 0] /\ obj = <<>>
  /\ gate = [g \in Gens |-> "none"]
  /\ events = <<>>
  /\ job = [p \in Procs |-> Idle]
  /\ faults = 0

(* Callers, owners and the loop exist once restore_tasks has returned. *)
Ready == up /\ found = {}
Free(p) ==
  /\ Ready /\ job[p] = Idle
  /\ Cardinality({q \in Procs : job[q] # Idle}) < MaxJobs
Job(op, step, gen, seen, todo) ==
  [op |-> op, step |-> step, gen |-> gen, seen |-> seen, todo |-> todo, copy |-> NoRows]
Emit(id, due) == events' = Append(events, [id |-> id, due |-> due])
CanEmit == Len(events) < MaxEvents

-----------------------------------------------------------------------------
(* The registry *)

Known == {id \in Ids : tasks[id] # 0}
SpecKnown(s) == \E id \in Known : obj[tasks[id]].spec = s

(* next_task_id: the number of tasks plus one, then upwards to a free id. *)
NextId ==
  CHOOSE id \in Ids :
    /\ id > Cardinality(Known) /\ id \notin Known
    /\ \A other \in Ids : other > Cardinality(Known) /\ other \notin Known => id <= other

(* add_task_with_workers up to the saves of Task::init: the identity check, *)
(* the id, the object.                                                      *)
Add(a, s) ==
  /\ Free(a)
  /\ ~SpecKnown(s)
  /\ Len(obj) < scenario.objects
  /\ LET gen == Len(obj) + 1 IN
       /\ obj' = Append(obj, [id |-> NextId, spec |-> s, ver |-> 0, told |-> TRUE])
       /\ job' = [job EXCEPT ![a] =
                    Job("add", "run", gen, 0, Initialize(gen, 0))]
  /\ UNCHANGED <<scenario, store, up, found, tasks, gate, events, faults>>

(* Task::delete in Manager::delete_task, up to the purge *)
Delete(a, id) ==
  /\ Free(a)
  /\ id \in Known
  /\ job' = [job EXCEPT ![a] = Job("delete", "run", tasks[id], 0, Purge)]
  /\ UNCHANGED <<scenario, store, up, found, tasks, obj, gate, events, faults>>

-----------------------------------------------------------------------------
(* Saves of a task *)

(* A change that Task::persist_task saves: pause, cancel, completion and   *)
(* failure then send an event on which the loop saves again; a start and   *)
(* the events of a torrent engine send none of those ("silent").           *)
Change(o, id, op) ==
  /\ Free(o)
  /\ id \in Known
  /\ obj[tasks[id]].ver < scenario.changes
  /\ obj' = [obj EXCEPT ![tasks[id]].ver = @ + 1, ![tasks[id]].told = FALSE]
  /\ job' = [job EXCEPT ![o] = Job(op, "gate", tasks[id], 0, <<>>)]
  /\ UNCHANGED <<scenario, store, up, found, tasks, gate, events, faults>>

(* Progress of a worker: no save, an event the loop may save on. *)
Progress(id) ==
  /\ Ready /\ id \in Known /\ CanEmit
  /\ obj[tasks[id]].ver < scenario.changes
  /\ obj' = [obj EXCEPT ![tasks[id]].ver = @ + 1, ![tasks[id]].told = FALSE]
  /\ Emit(id, FALSE)
  /\ UNCHANGED <<scenario, store, up, found, tasks, gate, job, faults>>

(* Mutated form of ReadTask: without the gate. *)
ReadTaskUngated(o) ==
  /\ up /\ job[o].step = "gate"
  /\ job' = [job EXCEPT ![o].step = "rest", ![o].seen = obj[job[o].gen].ver]
  /\ UNCHANGED <<scenario, store, up, found, tasks, obj, gate, events, faults>>

(* persist_task takes the gate; save_task reads the task row. *)
ReadTask(o) ==
  /\ up /\ job[o].step = "gate"
  /\ gate[job[o].gen] = "none"
  /\ gate' = [gate EXCEPT ![job[o].gen] = o]
  /\ job' = [job EXCEPT ![o].step = "rest", ![o].seen = obj[job[o].gen].ver]
  /\ UNCHANGED <<scenario, store, up, found, tasks, obj, events, faults>>

(* Mutated form of ReadRest: the rows are read before the task. *)
ReadRestFirst(p) ==
  /\ up /\ job[p].step = "rest"
  /\ job' = [job EXCEPT ![p].step = "run",
       ![p].todo = SaveTask(job[p].gen, obj[job[p].gen].ver, job[p].seen)]
  /\ UNCHANGED <<scenario, store, up, found, tasks, obj, gate, events, faults>>

(* save_task goes on to the workers, pieces, blocks and checksums. *)
ReadRest(p) ==
  /\ up /\ job[p].step = "rest"
  /\ job' = [job EXCEPT ![p].step = "run",
       ![p].todo = SaveTask(job[p].gen, job[p].seen, obj[job[p].gen].ver)]
  /\ UNCHANGED <<scenario, store, up, found, tasks, obj, gate, events, faults>>

(* Mutated form of LoopSaves: the task is not looked up again. *)
LoopSavesUnknown ==
  /\ Free("loop") /\ events # <<>>
  /\ job' = [job EXCEPT !["loop"] = Job("save", "rest", tasks[Head(events).id], 0, <<>>)]
  /\ events' = Tail(events)
  /\ UNCHANGED <<scenario, store, up, found, tasks, obj, gate, faults>>

(* The event loop takes an event; Manager::persist_task looks the task up  *)
(* by its id and saves it without the gate.                                *)
LoopSaves ==
  /\ Free("loop") /\ events # <<>>
  /\ Head(events).id \in Known
  /\ LET gen == tasks[Head(events).id] IN
       job' = [job EXCEPT !["loop"] = Job("save", "rest", gen, obj[gen].ver, <<>>)]
  /\ events' = Tail(events)
  /\ UNCHANGED <<scenario, store, up, found, tasks, obj, gate, faults>>

(* The task is gone, or the event is a progress the throttle holds back. *)
LoopSkips ==
  /\ Free("loop") /\ events # <<>>
  /\ Head(events).due => Head(events).id \notin Known
  /\ events' = Tail(events)
  /\ UNCHANGED <<scenario, store, up, found, tasks, obj, gate, job, faults>>

(* persist_task_worker_later: worker_to_db in a future of its own. *)
WorkerLater(id) ==
  /\ Free("late") /\ id \in Known
  /\ LET gen == tasks[id] IN
       job' = [job EXCEPT !["late"] =
                 Job("worker", "run", gen, 0, SaveWorker(gen, obj[gen].ver))]
  /\ UNCHANGED <<scenario, store, up, found, tasks, obj, gate, events, faults>>

-----------------------------------------------------------------------------
(* Statements *)

Statement(p) == Head(job[p].todo)
Running(p, what) ==
  /\ up /\ job[p].step = "run" /\ job[p].todo # <<>> /\ Statement(p).do = what
Advance(p) == job' = [job EXCEPT ![p].todo = Tail(@)]
others == <<scenario, up, found, tasks, obj, gate, events, faults>>

(* The pool has one connection: a statement waits while a transaction of   *)
(* another future has it.                                                  *)
Connected(p) == backend = "sqlite" => conn \in {"none", p}
View(p) == IF conn = p THEN tx ELSE content
Updated(rows, id, new) ==
  [rows EXCEPT ![id] = [t \in Tables |-> IF t \in DOMAIN new THEN new[t] ELSE @[t]]]

UrlOf == [gen \in 1 .. Len(obj) |-> obj[gen].spec]
Refused(p) ==
  /\ backend = "sqlite"
  /\ "tasks" \in DOMAIN Statement(p).rows /\ Statement(p).rows["tasks"] # NoRow
  /\ Sqlite!Conflict(View(p), obj[job[p].gen].id, job[p].gen, UrlOf)

DoPut(p) ==
  /\ Running(p, "put") /\ Connected(p) /\ ~Refused(p)
  /\ LET rows == Updated(View(p), obj[job[p].gen].id, Statement(p).rows) IN
       IF conn = p THEN tx' = rows /\ UNCHANGED content
                   ELSE content' = rows /\ UNCHANGED tx
  /\ Advance(p)
  /\ UNCHANGED <<others, conn, file, writers, clash>>

DoBegin(p) ==
  /\ Running(p, "begin") /\ conn = "none"
  /\ conn' = p /\ tx' = content
  /\ Advance(p)
  /\ UNCHANGED <<others, content, file, writers, clash>>

DoCommit(p) ==
  /\ Running(p, "commit")
  /\ content' = tx /\ tx' = NoRows /\ conn' = "none"
  /\ Advance(p)
  /\ UNCHANGED <<others, file, writers, clash>>

DoCopy(p) ==
  /\ Running(p, "copy")
  /\ job' = [job EXCEPT ![p].todo = Tail(@), ![p].copy = content]
  /\ writers' = writers \cup {p}
  /\ clash' = (writers # {})
  /\ UNCHANGED <<others, content, conn, tx, file>>

(* A writer that was alone leaves its copy; after a clash the bytes of the *)
(* writers may be mixed.                                                   *)
DoWrite(p) ==
  /\ Running(p, "write")
  /\ \/ file' = JsonFile!Whole(job[p].copy)
     \/ clash /\ file' \in JsonFile!Damaged(NoRows) /\ file'.state = "torn"
  /\ writers' = writers \ {p} /\ UNCHANGED clash
  /\ job' = [job EXCEPT ![p].todo = Tail(@), ![p].copy = NoRows]
  /\ UNCHANGED <<others, content, conn, tx>>

Ungated(p) == [g \in Gens |-> IF gate[g] = p THEN "none" ELSE gate[g]]

(* The program is through: the task is put into or taken out of the map,   *)
(* the gate is given back, the event is sent.                              *)
Return(p) ==
  /\ up /\ job[p].step = "run" /\ job[p].todo = <<>>
  /\ LET gen == job[p].gen
         op == job[p].op
         id == obj[gen].id
     IN /\ tasks' = CASE op \in {"add", "restore"} -> [tasks EXCEPT ![id] = gen]
                      [] op = "delete" -> [tasks EXCEPT ![id] = 0]
                      [] OTHER -> tasks
        /\ found' = IF op = "restore" THEN found \ {id} ELSE found
        /\ IF op = "told"
           THEN obj' = [obj EXCEPT ![gen].told = TRUE] /\ CanEmit /\ Emit(id, TRUE)
           ELSE UNCHANGED <<obj, events>>
  /\ gate' = Ungated(p)
  /\ job' = [job EXCEPT ![p] = Idle]
  /\ UNCHANGED <<scenario, store, up, faults>>

(* A statement failed: the transaction is rolled back, the rest of the     *)
(* program is dropped; a failed delete or worker save fails the task,      *)
(* whose event the loop saves on.                                          *)
Abort(p, gen) ==
  /\ job' = [job EXCEPT ![p] = Idle]
  /\ gate' = Ungated(p)
  /\ found' = IF job[p].op = "restore" THEN found \ {obj[gen].id} ELSE found
  /\ IF job[p].op \in {"delete", "worker"} /\ obj[gen].ver < scenario.changes
     THEN /\ obj' = [obj EXCEPT ![gen].ver = @ + 1, ![gen].told = FALSE]
          /\ CanEmit /\ Emit(obj[gen].id, TRUE)
     ELSE obj' = [obj EXCEPT ![gen].told = FALSE] /\ UNCHANGED events
  /\ conn' = IF conn = p THEN "none" ELSE conn
  /\ tx' = IF conn = p THEN NoRows ELSE tx
  /\ writers' = writers \ {p} /\ clash' = (clash \/ p \in writers)
  /\ file' \in {file} \cup (IF p \in writers THEN JsonFile!Damaged(NoRows) ELSE {})
  /\ UNCHANGED <<scenario, content, up, tasks>>

Fails(p) ==
  /\ up /\ job[p].step = "run" /\ job[p].todo # <<>>
  /\ \/ backend = "sqlite" /\ Connected(p)
     \/ Statement(p).do = "write"
  /\ faults < scenario.faults
  /\ faults' = faults + 1
  /\ Abort(p, job[p].gen)

Refuses(p) ==
  /\ Running(p, "put") /\ Connected(p) /\ Refused(p)
  /\ Abort(p, job[p].gen)
  /\ UNCHANGED faults

-----------------------------------------------------------------------------
(* Crash and restart *)

(* What a new process would load, if it can. *)
Loadable == Configured(Sqlite!Opened(content), Memory!Opened(content), JsonFile!Opened(file))
Disk == IF Loadable = {} THEN NoRows ELSE CHOOSE rows \in Loadable : TRUE

(* The process ends; a file that was being rewritten may be left damaged. *)
Crash ==
  /\ up /\ faults < scenario.faults
  /\ faults' = faults + 1
  /\ up' = FALSE /\ found' = {}
  /\ file' \in {file} \cup (IF writers # {} THEN JsonFile!Damaged(NoRows) ELSE {})
  /\ conn' = "none" /\ tx' = NoRows /\ writers' = {} /\ clash' = FALSE
  /\ tasks' = [id \in Ids |-> 0] /\ events' = <<>>
  /\ gate' = [g \in Gens |-> "none"]
  /\ job' = [p \in Procs |-> Idle]
  /\ UNCHANGED <<scenario, content, obj>>

(* Manager::init: Store::new opens the repository, restore_tasks loads. *)
Open ==
  /\ ~up
  /\ content' \in Loadable
  /\ up' = TRUE
  /\ found' = Sqlite!LoadTasks(content')
  /\ UNCHANGED <<scenario, conn, tx, file, writers, clash, tasks, obj, gate, events, job, faults>>

(* restore_tasks: the bundles in the order of their ids through            *)
(* add_task_with_workers; one whose download is already there is rejected. *)
Restore(id) ==
  /\ up /\ id \in found /\ job["boot"] = Idle
  /\ \A other \in found : id <= other
  /\ LET gen == content[id]["tasks"].gen
         ver == content[id]["tasks"].ver
     IN IF SpecKnown(obj[gen].spec)
        THEN found' = found \ {id} /\ UNCHANGED <<obj, job>>
        ELSE /\ obj' = [obj EXCEPT ![gen].ver = ver, ![gen].told = TRUE]
             /\ job' = [job EXCEPT !["boot"] =
                  Job("restore", "run", gen, ver, Initialize(gen, ver))]
             /\ UNCHANGED found
  /\ UNCHANGED <<scenario, store, up, tasks, gate, events, faults>>

-----------------------------------------------------------------------------

Call ==
  \/ \E a \in scenario.admins : (\E s \in scenario.specs : Add(a, s)) \/ (\E id \in Ids : Delete(a, id))
  \/ \E o \in scenario.owners, id \in Ids, op \in {"told", "silent"} : Change(o, id, op)
  \/ \E id \in Ids : Progress(id) \/ WorkerLater(id)

Step(p) ==
  \/ ReadTask(p) \/ ReadRest(p)
  \/ DoPut(p) \/ DoBegin(p) \/ DoCommit(p)
  \/ DoCopy(p) \/ DoWrite(p)
  \/ Return(p) \/ Refuses(p)

Loop == LoopSaves \/ LoopSkips
Boot == Open \/ \E id \in Ids : Restore(id)

Next ==
  \/ Call \/ Loop \/ Boot \/ Crash
  \/ \E p \in Procs : Step(p) \/ Fails(p)

Spec == Init /\ [][Next]_vars

-----------------------------------------------------------------------------
(* Properties *)

(* The SQLite store implements the atomic store: at no step does anybody   *)
(* see a part of save_bundle, whatever fails and whoever saves meanwhile.  *)
AtomicStoreSpec == A!Spec

(* What a restart finds of a task belongs together: with every backend the *)
(* pieces and blocks on disk are of the object the task row is of, and not *)
(* older than that row (save_task reads the row first), also when the      *)
(* process ends, an id is used again or two saves overlap.                 *)
BundlesAreWhole ==
  \A id \in Ids : Disk[id]["tasks"] # NoRow =>
    \A t \in {"pieces", "blocks"} : Disk[id][t] # NoRow =>
      /\ Disk[id][t].gen = Disk[id]["tasks"].gen
      /\ Disk[id][t].ver >= Disk[id]["tasks"].ver

Quiet == Ready /\ events = <<>> /\ \A p \in Procs : job[p] = Idle
Alone(id) == \A g \in 1 .. Len(obj) : obj[g].id = id => g = tasks[id]

(* What stays of the answers when the process ends, memory apart: for JSON *)
(* the rows in the file.                                                   *)
Durable == IF backend = "json" THEN file.rows ELSE content

(* When everything has come to rest, a task whose last change was saved by *)
(* persist_task and announced by an event is stored as it is, in the file  *)
(* for JSON, although the loop saves without the gate.  Left out are ids   *)
(* that were used twice and, for JSON, the time after a rewriting of the   *)
(* file that overlapped another one or failed: persist_state takes no      *)
(* lock, so the older copy can be the last one in the file.                *)
SettledIsStored ==
  Quiet /\ (backend = "json" => ~clash) =>
    \A id \in Known : Alone(id) /\ obj[tasks[id]].told =>
      Durable[id]["tasks"] = Row(tasks[id], obj[tasks[id]].ver)
=============================================================================
