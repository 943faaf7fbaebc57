-------------------------- MODULE RepositoryProofs --------------------------
(***************************************************************************)
(* Theorems about Repository: its types; that with every backend what a    *)
(* restart finds of a task belongs together; that the SQLite repository    *)
(* implements the atomic store; and that what has settled is stored, for   *)
(* every number of ids, objects, changes, futures, faults and crashes.     *)
(*                                                                         *)
(* The invariants: Base says which statements a future may still have to   *)
(* execute and that rows are of objects that exist; Transaction says what  *)
(* is in the connection's transaction; AllWhole that rows belong together  *)
(* wherever they are held; Settling who is still going to write the row of *)
(* a task.  An action has a lemma with what it does (Effect) and one for   *)
(* each invariant.                                                         *)
(***************************************************************************)
EXTENDS Repository, TLAPS, FiniteSetTheorems, SequenceTheorems, NaturalsInduction,
        WellFoundedInduction

\* A set of numbers that is not empty has a least one.
LEMMA LeastNumber ==
  ASSUME NEW S \in SUBSET Nat, S # {}
  PROVE  \E n \in S : \A m \in S : n <= m
<1>1. PICK x \in S : \A y \in S : ~(<<y, x>> \in OpToRel(<, Nat))
  BY NatLessThanWellFounded, WFMin, Zenon
<1>2. \A y \in S : ~(y < x)
  BY <1>1 DEF OpToRel
<1>3. x \in Nat /\ \A y \in S : y \in Nat
  OBVIOUS
<1> QED
  BY <1>2, <1>3

\* Largest chooses the largest member, of a set that has one.
LEMMA LargestOf ==
  ASSUME NEW S, HasLargest(S)
  PROVE  Largest(S) \in S /\ \A m \in S : m <= Largest(S)
BY DEF HasLargest, Largest

(* The bounds. *)
LEMMA Bounds ==
  /\ MaxGen \in Nat \ {0} /\ MaxVersion \in Nat
  /\ \A s \in Scenarios : /\ s.objects \in Nat \ {0} /\ s.objects <= MaxGen
                          /\ s.changes \in Nat /\ s.changes <= MaxVersion
                          /\ s.faults \in Nat /\ s.backend \in {"sqlite", "memory", "json"}
                          /\ s.admins \in SUBSET Admins /\ s.owners \in SUBSET Owners
                          /\ s.specs \in SUBSET Specs
<1>1. \A s \in Scenarios : s \in [backend : {"sqlite", "memory", "json"},
                         specs : SUBSET Specs, admins : SUBSET Admins,
                         owners : SUBSET Owners,
                         objects : Nat \ {0}, changes : Nat, faults : Nat]
  BY RepositoryAssumption
<1>2. \A s \in Scenarios : /\ s.objects \in Nat \ {0} /\ s.changes \in Nat
                           /\ s.faults \in Nat /\ s.backend \in {"sqlite", "memory", "json"}
                          /\ s.admins \in SUBSET Admins /\ s.owners \in SUBSET Owners
                          /\ s.specs \in SUBSET Specs
  BY <1>1
<1>3. MaxGen \in {s.objects : s \in Scenarios} /\ \A m \in {s.objects : s \in Scenarios} : m <= MaxGen
  BY RepositoryAssumption, LargestOf DEF MaxGen
<1>4. MaxVersion \in {s.changes : s \in Scenarios} /\ \A m \in {s.changes : s \in Scenarios} : m <= MaxVersion
  BY RepositoryAssumption, LargestOf DEF MaxVersion
<1>5. MaxGen \in Nat \ {0} /\ \A s \in Scenarios : s.objects <= MaxGen
  BY <1>2, <1>3
<1>6. MaxVersion \in Nat /\ \A s \in Scenarios : s.changes <= MaxVersion
  BY <1>2, <1>4
<1> QED
  BY <1>2, <1>5, <1>6

\* Sets the statements and the state range over.
Versions == 0 .. MaxVersion
Store == [Ids -> [Tables -> Rows]]
Objects == [id : Ids, spec : Specs, ver : Versions, told : BOOLEAN]
SaveOps == {"add", "restore", "told", "silent", "save"}
OwnerOps == {"told", "silent"}

(* The statements of a job of object g that saves version e, outside of a transaction *)
RowPuts(g) == {PutOne(t, Row(g, v)) : t \in {"workers", "checksums"}, v \in Versions}
FileWrites(b) == IF b = "json" THEN {Do("copy"), Do("write")} ELSE {}
SavePuts(b, g, e) ==
  RowPuts(g) \cup FileWrites(b)
  \cup (IF b = "json" THEN {Put(Bundle(g, e, l)) : l \in e .. MaxVersion} ELSE {})
  \cup (IF b = "memory"
        THEN {PutOne("tasks", Row(g, e))}
             \cup {PutOne(t, Row(g, v)) : t \in {"pieces", "blocks"}, v \in Versions}
             \cup {PutOne(t, NoRow) : t \in {"workers", "checksums"}}
        ELSE {})
Wipes(b) ==
  {PutOne(t, NoRow) : t \in Tables} \cup FileWrites(b)
  \cup (IF b = "json" THEN {Put([t \in Tables |-> NoRow])} ELSE {})

(* What is left of a transaction: the commit, the bundle too, all of it *)
ToCommit(s, S) == s # <<>> /\ Head(s) = Do("commit") /\ Tail(s) \in Seq(S)
ToPut(s, S, g, e) ==
  /\ s # <<>> /\ (\E l \in e .. MaxVersion : Head(s) = Put(Bundle(g, e, l)))
  /\ ToCommit(Tail(s), S)
ToBegin(s, S, g, e) == s # <<>> /\ Head(s) = Do("begin") /\ ToPut(Tail(s), S, g, e)

TxWords(g, e) ==
  RowPuts(g) \cup {Do("begin"), Do("commit")} \cup {Put(Bundle(g, e, l)) : l \in e .. MaxVersion}

Saving(b, g, e, s) ==
  \/ s \in Seq(SavePuts(b, g, e))
  \/ b = "sqlite" /\ s \in Seq(TxWords(g, e)) /\ (ToCommit(s, RowPuts(g)) \/ ToPut(s, RowPuts(g), g, e) \/ ToBegin(s, RowPuts(g), g, e))

HasPut(s) == \E i \in DOMAIN s : s[i].do = "put" /\ "tasks" \in DOMAIN s[i].rows

(* Concatenations *)
LEMMA SeqOf ==
  ASSUME NEW S
  PROVE  /\ \A x \in S : <<x>> \in Seq(S)
         /\ \A x, y \in S : <<x, y>> \in Seq(S)
         /\ \A x, y, z \in S : <<x, y, z>> \in Seq(S)
         /\ \A s, t \in Seq(S) : s \o t \in Seq(S)
OBVIOUS

\* A sequence over a set is one over a larger set.
LEMMA SeqMore ==
  ASSUME NEW S, NEW T, S \subseteq T
  PROVE  Seq(S) \subseteq Seq(T)
BY SMT

\* Head and tail of the concatenations that the programs are made of.
LEMMA Joined ==
  ASSUME NEW x, NEW y, NEW z, NEW w
  PROVE  /\ <<x, y, z>> \o <<w>> # <<>> /\ Head(<<x, y, z>> \o <<w>>) = x
         /\ Tail(<<x, y, z>> \o <<w>>) = <<y, z, w>>
<1> DEFINE s == <<x, y, z>>  t == <<w>>  S == {x, y, z, w}
<1>1. s \in Seq(S) /\ t \in Seq(S) /\ Len(s) = 3 /\ Len(t) = 1 /\ s \o t \in Seq(S)
  OBVIOUS
<1>2. Len(s \o t) = 4 /\ (s \o t)[1] = x /\ (s \o t)[2] = y /\ (s \o t)[3] = z /\ (s \o t)[4] = w
  BY <1>1
<1> HIDE DEF s, t
<1>3. Tail(s \o t) \in Seq(S) /\ Len(Tail(s \o t)) = 3 /\ \A i \in 1 .. 3 : Tail(s \o t)[i] = (s \o t)[i + 1]
  BY <1>1, <1>2
<1>4. Tail(s \o t) = <<y, z, w>>
  <2>1. Tail(s \o t)[1] = y /\ Tail(s \o t)[2] = z /\ Tail(s \o t)[3] = w
    BY <1>2, <1>3
  <2> DEFINE u == <<y, z, w>>
  <2>2. u \in Seq(S) /\ Len(u) = 3 /\ u[1] = y /\ u[2] = z /\ u[3] = w
    OBVIOUS
  <2> HIDE DEF u
  <2>3. \A i \in 1 .. 3 : i = 1 \/ i = 2 \/ i = 3
    OBVIOUS
  <2>4. u = Tail(s \o t)
    BY <2>1, <2>2, <2>3, <1>3
  <2> QED BY <2>4 DEF u
<1>5. s \o t # <<>> /\ Head(s \o t) = x
  BY <1>1, <1>2
<1> QED BY <1>4, <1>5 DEF s, t

\* The purge of Task::delete consists of removals, with every backend.
LEMMA PurgeProgram ==
  ASSUME backend \in {"sqlite", "memory", "json"}
  PROVE  Purge \in Seq(Wipes(backend))
<1>1. CASE backend = "sqlite"
  <2>1. \A t \in Tables : PutOne(t, NoRow) \in Wipes(backend)
    BY DEF Wipes
  <2>2. /\ DeleteWorkers = <<PutOne("workers", NoRow)>>
        /\ DeleteChecksums = <<PutOne("checksums", NoRow)>>
        /\ DeleteTask = <<PutOne("tasks", NoRow), PutOne("blocks", NoRow)>> \o <<PutOne("pieces", NoRow)>> \o <<PutOne("blocks", NoRow)>>
    BY <1>1 DEF DeleteWorkers, DeleteChecksums, DeleteTask, Configured, Sqlite!DeleteWorkers,
       Sqlite!DeleteChecksums,
     Sqlite!DeleteTask, Sqlite!DeletePieces, Sqlite!DeleteBlocks, Sqlite!PutOne, PutOne, Sqlite!NoRow, NoRow, Sqlite!Put, Put
  <2> QED BY <2>1, <2>2, SeqOf DEF Purge, Tables
<1>2. CASE backend = "memory"
  <2>1. \A t \in Tables : PutOne(t, NoRow) \in Wipes(backend)
    BY DEF Wipes
  <2> DEFINE T == <<PutOne("tasks", NoRow), PutOne("workers", NoRow), PutOne("pieces", NoRow),
    PutOne("blocks", NoRow), PutOne("checksums", NoRow)>>
  <2>2. /\ DeleteWorkers = <<PutOne("workers", NoRow)>>
        /\ DeleteChecksums = <<PutOne("checksums", NoRow)>>
        /\ DeleteTask = T \o <<PutOne("pieces", NoRow)>> \o <<PutOne("blocks", NoRow)>>
    BY <1>2 DEF DeleteWorkers, DeleteChecksums, DeleteTask, Configured, Memory!DeleteWorkers,
       Memory!DeleteChecksums,
     Memory!DeleteTask, Memory!DeletePieces, Memory!DeleteBlocks, Memory!PutOne, PutOne, Memory!NoRow, NoRow, Memory!Put, Put
  <2>3. T \in Seq(Wipes(backend))
    BY <2>1 DEF Tables
  <2> QED BY <2>1, <2>2, <2>3, SeqOf DEF Purge, Tables
<1>3. CASE backend = "json"
  <2>1. /\ \A t \in Tables : PutOne(t, NoRow) \in Wipes(backend)
        /\ Do("copy") \in Wipes(backend) /\ Do("write") \in Wipes(backend)
        /\ Put([t \in Tables |-> NoRow]) \in Wipes(backend)
    BY <1>3 DEF Wipes, FileWrites
  <2> DEFINE T(x) == <<x, Do("copy"), Do("write")>>
  <2>2. /\ DeleteWorkers = T(PutOne("workers", NoRow))
        /\ DeleteChecksums = T(PutOne("checksums", NoRow))
        /\ DeleteTask = T(Put([t \in Tables |-> NoRow])) \o T(PutOne("pieces", NoRow)) \o T(PutOne("blocks", NoRow))
    BY <1>3 DEF DeleteWorkers, DeleteChecksums, DeleteTask, Configured, JsonFile!DeleteWorkers,
       JsonFile!DeleteChecksums,
     JsonFile!DeleteTask, JsonFile!DeletePieces, JsonFile!DeleteBlocks, JsonFile!PutOne, PutOne, JsonFile!NoRow, NoRow, JsonFile!Put, Put,
     JsonFile!Persisted, JsonFile!Do, Do, JsonFile!Tables, Tables
  <2>3. \A x \in Wipes(backend) : T(x) \in Seq(Wipes(backend))
    BY <2>1, SeqOf
  <2> HIDE DEF T
  <2> QED BY <2>1, <2>2, <2>3, SeqOf DEF Purge, Tables
<1> QED BY <1>1, <1>2, <1>3

(* What the programs of a save are made of *)
LEMMA SaveStatements ==
  ASSUME NEW g, NEW e \in Versions, NEW l \in Versions, e <= l
  PROVE  /\ \A b : PutOne("workers", Row(g, l)) \in SavePuts(b, g, e)
         /\ \A b : PutOne("checksums", Row(g, l)) \in SavePuts(b, g, e)
         /\ PutOne("tasks", Row(g, e)) \in SavePuts("memory", g, e)
         /\ PutOne("pieces", Row(g, l)) \in SavePuts("memory", g, e)
         /\ PutOne("blocks", Row(g, l)) \in SavePuts("memory", g, e)
         /\ PutOne("workers", NoRow) \in SavePuts("memory", g, e)
         /\ PutOne("checksums", NoRow) \in SavePuts("memory", g, e)
         /\ Put(Bundle(g, e, l)) \in SavePuts("json", g, e)
         /\ Do("copy") \in SavePuts("json", g, e) /\ Do("write") \in SavePuts("json", g, e)
         /\ PutOne("workers", Row(g, l)) \in RowPuts(g)
         /\ PutOne("checksums", Row(g, l)) \in RowPuts(g)
<1>1. PutOne("workers", Row(g, l)) \in RowPuts(g) /\ PutOne("checksums", Row(g, l)) \in RowPuts(g)
  BY DEF RowPuts
<1>2. l \in e .. MaxVersion
  BY Bounds DEF Versions
<1> HIDE DEF RowPuts
<1> QED
  BY <1>1, <1>2 DEF SavePuts, FileWrites

\* The fields of the statements.
LEMMA PutFacts ==
  /\ \A t, r : PutOne(t, r).do = "put" /\ DOMAIN PutOne(t, r).rows = {t} /\ PutOne(t, r).rows[t] = r
  /\ \A r : Put(r).do = "put" /\ Put(r).rows = r
  /\ \A d : Do(d).do = d
  /\ \A g, e, l : /\ DOMAIN Bundle(g, e, l) = Tables
                  /\ \A t \in Tables : Bundle(g, e, l)[t] = Row(g, IF t = "tasks" THEN e ELSE l)
BY DEF PutOne, Put, Do, Bundle

\* Store::save_task writes the row of the task, and its program is one of Saving.
LEMMA SaveTaskProgram ==
  ASSUME backend \in {"sqlite", "memory", "json"},
         NEW g, NEW e \in Versions, NEW l \in Versions, e <= l
  PROVE  Saving(backend, g, e, SaveTask(g, e, l)) /\ HasPut(SaveTask(g, e, l))
<1> DEFINE b == backend
<1>0. l \in e .. MaxVersion
  BY Bounds DEF Versions
<1>1. CASE b = "sqlite"
  <2>1. SaveTask(g, e, l) = <<Do("begin"), Put(Bundle(g, e, l)), Do("commit")>>
    BY <1>1 DEF SaveTask, Configured, Sqlite!SaveBundle, Sqlite!Do, Do, Sqlite!Put, Put,
       Sqlite!Bundle, Bundle, Sqlite!Row, Row,
                Sqlite!Tables, Tables
  <2>2. ToBegin(SaveTask(g, e, l), RowPuts(g), g, e)
    BY <2>1, <1>0 DEF ToBegin, ToPut, ToCommit
  <2>3. HasPut(SaveTask(g, e, l))
    <3>1. 2 \in DOMAIN SaveTask(g, e, l) /\ SaveTask(g, e, l)[2] = Put(Bundle(g, e, l))
      BY <2>1
    <3> QED BY <3>1, PutFacts DEF HasPut, Tables
  <2>4. SaveTask(g, e, l) \in Seq(TxWords(g, e))
    <3>1. /\ Do("begin") \in TxWords(g, e) /\ Do("commit") \in TxWords(g, e)
          /\ Put(Bundle(g, e, l)) \in TxWords(g, e)
      BY <1>0 DEF TxWords
    <3> QED BY <2>1, <3>1, SeqOf
  <2> QED BY <2>2, <2>3, <2>4, <1>1 DEF Saving
<1>2. CASE b = "memory"
  <2> DEFINE S == SavePuts(b, g, e)
  <2>1. SaveTask(g, e, l) = <<PutOne("tasks", Row(g, e))>> \o <<PutOne("workers", NoRow)>> \o <<PutOne("workers", Row(g, l))>>
           \o <<PutOne("pieces", Row(g, l))>> \o <<PutOne("blocks", Row(g, l))>>
           \o <<PutOne("checksums", NoRow)>> \o <<PutOne("checksums", Row(g, l))>>
    BY <1>2 DEF SaveTask, Configured, Memory!SaveBundle, Memory!SaveTask, Memory!SaveWorker,
       Memory!SavePieces, Memory!SaveBlocks,
        Memory!SaveChecksum, Memory!DeleteWorkers, Memory!DeleteChecksums, Memory!PutOne, PutOne, Memory!Put, Put, Memory!Row, Row,
        Memory!NoRow, NoRow
  <2>2. SaveTask(g, e, l) \in Seq(S)
    <3>1. /\ <<PutOne("tasks", Row(g, e))>> \in Seq(S)
          /\ <<PutOne("workers", NoRow)>> \in Seq(S)
          /\ <<PutOne("workers", Row(g, l))>> \in Seq(S)
          /\ <<PutOne("pieces", Row(g, l))>> \in Seq(S)
          /\ <<PutOne("blocks", Row(g, l))>> \in Seq(S)
          /\ <<PutOne("checksums", NoRow)>> \in Seq(S)
          /\ <<PutOne("checksums", Row(g, l))>> \in Seq(S)
      BY <1>2, SaveStatements, SeqOf
    <3> QED BY <2>1, <3>1, SeqOf
  <2>3. HasPut(SaveTask(g, e, l))
    <3> DEFINE x == PutOne("tasks", Row(g, e))
               u == <<PutOne("workers", NoRow)>> \o <<PutOne("workers", Row(g, l))>>
           \o <<PutOne("pieces", Row(g, l))>> \o <<PutOne("blocks", Row(g, l))>>
           \o <<PutOne("checksums", NoRow)>> \o <<PutOne("checksums", Row(g, l))>>
    <3>1. SaveTask(g, e, l)[1] = x /\ 1 \in DOMAIN SaveTask(g, e, l)
      BY <2>1, <2>2
    <3> QED BY <3>1, PutFacts DEF HasPut
  <2> QED BY <2>2, <2>3 DEF Saving
<1>3. CASE b = "json"
  <2> DEFINE S == SavePuts(b, g, e)
  <2>1. SaveTask(g, e, l) = <<Put(Bundle(g, e, l)), Do("copy"), Do("write")>>
    BY <1>3 DEF SaveTask, Configured, JsonFile!SaveBundle, JsonFile!Persisted, JsonFile!Do, Do,
       JsonFile!Put, Put, JsonFile!Bundle, Bundle,
                JsonFile!Row, Row, JsonFile!Tables, Tables
  <2>2. SaveTask(g, e, l) \in Seq(S)
    BY <1>3, <2>1, SaveStatements, SeqOf
  <2>3. HasPut(SaveTask(g, e, l))
    <3>1. 1 \in DOMAIN SaveTask(g, e, l) /\ SaveTask(g, e, l)[1] = Put(Bundle(g, e, l))
      BY <2>1
    <3> QED BY <3>1, PutFacts DEF HasPut, Tables
  <2> QED BY <2>2, <2>3 DEF Saving
<1> QED BY <1>1, <1>2, <1>3

\* A program that writes the row of the task still does so with more behind it.
LEMMA HasPutJoined ==
  ASSUME NEW S, NEW s \in Seq(S), NEW t \in Seq(S), HasPut(s)
  PROVE  HasPut(s \o t)
<1>1. PICK i \in DOMAIN s : s[i].do = "put" /\ "tasks" \in DOMAIN s[i].rows
  BY DEF HasPut
<1>2. i \in DOMAIN (s \o t) /\ (s \o t)[i] = s[i]
  OBVIOUS
<1> QED BY <1>1, <1>2 DEF HasPut

\* The two saves of Task::init are a program of Saving that writes the row of the task.
LEMMA InitializeProgram ==
  ASSUME backend \in {"sqlite", "memory", "json"}, NEW g, NEW e \in Versions
  PROVE  Saving(backend, g, e, Initialize(g, e)) /\ HasPut(Initialize(g, e))
<1> DEFINE b == backend
<1>0. e \in e .. MaxVersion /\ e <= e
  BY Bounds DEF Versions
<1>1. CASE b = "sqlite"
  <2> DEFINE x == Put(Bundle(g, e, e))  w == PutOne("checksums", Row(g, e))
             s == <<Do("begin"), x, Do("commit")>> \o <<w>>
  <2>1. Initialize(g, e) = s
    BY <1>1 DEF Initialize, SaveTask, SaveChecksums, Configured, Sqlite!SaveBundle,
       Sqlite!SaveChecksum, Sqlite!Do, Do, Sqlite!Put, Put,
                Sqlite!Bundle, Bundle, Sqlite!Row, Row, Sqlite!Tables, Tables, Sqlite!PutOne, PutOne
  <2>2. s # <<>> /\ Head(s) = Do("begin") /\ Tail(s) = <<x, Do("commit"), w>>
    BY Joined
  <2>3. ToPut(<<x, Do("commit"), w>>, RowPuts(g), g, e)
    BY <1>0, SaveStatements, SeqOf DEF ToPut, ToCommit
  <2>4. ToBegin(s, RowPuts(g), g, e)
    BY <2>2, <2>3 DEF ToBegin
  <2>5. HasPut(s)
    <3>1. x.do = "put" /\ "tasks" \in DOMAIN x.rows
      BY PutFacts DEF Tables
    <3> HIDE DEF x, w
    <3>2. /\ <<Do("begin"), x, Do("commit")>> \in Seq({Do("begin"), x, Do("commit"), w})
          /\ <<w>> \in Seq({Do("begin"), x, Do("commit"), w})
      OBVIOUS
    <3>3. HasPut(<<Do("begin"), x, Do("commit")>>)
      <4>1. /\ 2 \in DOMAIN <<Do("begin"), x, Do("commit")>>
            /\ <<Do("begin"), x, Do("commit")>>[2] = x
        OBVIOUS
      <4> QED BY <3>1, <4>1 DEF HasPut
    <3> QED BY <3>2, <3>3, HasPutJoined
  <2>6. s \in Seq(TxWords(g, e))
    <3>1. /\ Do("begin") \in TxWords(g, e) /\ Do("commit") \in TxWords(g, e)
          /\ x \in TxWords(g, e) /\ w \in TxWords(g, e)
      BY <1>0, SaveStatements DEF TxWords
    <3> HIDE DEF x, w
    <3> QED BY <3>1, SeqOf
  <2> QED BY <2>1, <2>4, <2>5, <2>6, <1>1 DEF Saving
<1>2. CASE b # "sqlite"
  <2> DEFINE S == SavePuts(b, g, e)
  <2>1. SaveTask(g, e, e) \in Seq(S) /\ HasPut(SaveTask(g, e, e))
    BY <1>0, <1>2, SaveTaskProgram DEF Saving
  <2>2. SaveChecksums(g, e) \in Seq(S)
    <3>1. CASE b = "memory"
      <4>1. SaveChecksums(g, e) = <<PutOne("checksums", Row(g, e))>>
        BY <3>1 DEF SaveChecksums, Configured, Memory!SaveChecksum, Memory!PutOne, PutOne,
           Memory!Put, Put, Memory!Row, Row
      <4> QED BY <4>1, <1>0, SaveStatements, SeqOf
    <3>2. CASE b = "json"
      <4>1. SaveChecksums(g, e) = <<PutOne("checksums", Row(g, e)), Do("copy"), Do("write")>>
        BY <3>2 DEF SaveChecksums, Configured, JsonFile!SaveChecksum, JsonFile!PutOne, PutOne,
           JsonFile!Put, Put, JsonFile!Row, Row,
           JsonFile!Persisted, JsonFile!Do, Do
      <4> QED BY <4>1, <3>2, <1>0, SaveStatements, SeqOf
    <3> QED BY <3>1, <3>2, <1>2
  <2>3. Initialize(g, e) \in Seq(S) /\ HasPut(Initialize(g, e))
    BY <2>1, <2>2, SeqOf, HasPutJoined DEF Initialize
  <2> QED BY <2>3 DEF Saving
<1> QED BY <1>1, <1>2

\* The save of a single worker writes its row and, with JSON, the file.
LEMMA WorkerProgram ==
  ASSUME backend \in {"sqlite", "memory", "json"}, NEW g, NEW e \in Versions
  PROVE  SaveWorker(g, e) \in Seq(RowPuts(g) \cup FileWrites(backend))
<1> DEFINE x == PutOne("workers", Row(g, e))
<1>0. e <= e
  BY Bounds DEF Versions
<1>1. x \in RowPuts(g)
  BY <1>0, SaveStatements
<1>2. CASE backend = "json"
  <2>1. SaveWorker(g, e) = <<x, Do("copy"), Do("write")>>
    BY <1>2 DEF SaveWorker, Configured, JsonFile!SaveWorker, JsonFile!PutOne, PutOne,
       JsonFile!Put, Put, JsonFile!Row, Row,
           JsonFile!Persisted, JsonFile!Do, Do
  <2>2. Do("copy") \in FileWrites(backend) /\ Do("write") \in FileWrites(backend)
    BY <1>2 DEF FileWrites
  <2> QED BY <2>1, <2>2, <1>1, SeqOf
<1>3. CASE backend # "json"
  <2>1. SaveWorker(g, e) = <<x>>
    BY <1>3 DEF SaveWorker, Configured, Memory!SaveWorker, Memory!PutOne, PutOne, Memory!Put,
       Put, Memory!Row, Row,
          Sqlite!SaveWorker, Sqlite!PutOne, Sqlite!Put, Sqlite!Row
  <2> QED BY <2>1, <1>1, SeqOf
<1> QED BY <1>2, <1>3

(* What a statement that puts rows of object g may be *)
Putting(x, g) ==
  /\ x.do = "put" /\ DOMAIN x.rows \subseteq Tables
  /\ \A t \in DOMAIN x.rows : x.rows[t] = NoRow \/ \E v \in Versions : x.rows[t] = Row(g, v)
SideRow(x, g) ==
  \E t \in {"workers", "checksums"}, v \in Versions : DOMAIN x.rows = {t} /\ x.rows[t] = Row(g, v)
OneGone(x) == \E t \in Tables : DOMAIN x.rows = {t} /\ x.rows[t] = NoRow
AllGone(x) == \A t \in DOMAIN x.rows : x.rows[t] = NoRow
Bundled(x, g, e) == \E l \in e .. MaxVersion : x.rows = Bundle(g, e, l)

\* A statement of RowPuts writes one row, of the workers or of the checksums.
LEMMA RowKinds ==
  ASSUME NEW g, NEW x \in RowPuts(g)
  PROVE  Putting(x, g) /\ SideRow(x, g)
BY PutFacts DEF RowPuts, Putting, SideRow, Tables

\* The statement with the bundle writes every table, the row of the task as it was read.
LEMMA BundleKinds ==
  ASSUME NEW g, NEW e \in Versions, NEW l \in e .. MaxVersion, NEW x, x = Put(Bundle(g, e, l))
  PROVE  /\ Putting(x, g) /\ Bundled(x, g, e) /\ "tasks" \in DOMAIN x.rows
         /\ x.rows["tasks"] = Row(g, e)
<1>1. l \in Versions
  BY Bounds DEF Versions
<1>2. x.do = "put" /\ x.rows = Bundle(g, e, l)
  BY PutFacts
<1>3. DOMAIN x.rows = Tables /\ \A t \in Tables : x.rows[t] = Row(g, IF t = "tasks" THEN e ELSE l)
  BY <1>2, PutFacts
<1> QED BY <1>1, <1>2, <1>3 DEF Putting, Bundled, Tables

\* Every statement of a save outside of a transaction is of one of these kinds.
LEMMA SaveKinds ==
  ASSUME NEW b \in {"sqlite", "memory", "json"}, NEW g, NEW e \in Versions,
         NEW x \in SavePuts(b, g, e)
  PROVE  \/ x.do \in {"copy", "write"} /\ b = "json"
         \/ /\ Putting(x, g)
            /\ "tasks" \in DOMAIN x.rows => x.rows["tasks"] = Row(g, e)
            /\ b = "sqlite" => SideRow(x, g)
            /\ b = "json" => SideRow(x, g) \/ Bundled(x, g, e)
<1>1. CASE x \in RowPuts(g)
  BY <1>1, RowKinds DEF SideRow
<1>2. CASE x \in FileWrites(b)
  BY <1>2, PutFacts DEF FileWrites
<1>3. CASE b = "json" /\ \E l \in e .. MaxVersion : x = Put(Bundle(g, e, l))
  BY <1>3, BundleKinds
<1>4. CASE b = "memory" /\ x = PutOne("tasks", Row(g, e))
  BY <1>4, PutFacts DEF Putting, Tables
<1>5. CASE b = "memory" /\ \E t \in {"pieces", "blocks"}, v \in Versions : x = PutOne(t, Row(g, v))
  BY <1>5, PutFacts DEF Putting, Tables
<1>6. CASE b = "memory" /\ \E t \in {"workers", "checksums"} : x = PutOne(t, NoRow)
  BY <1>6, PutFacts DEF Putting, Tables
<1>7. \/ x \in RowPuts(g) \/ x \in FileWrites(b)
      \/ b = "json" /\ \E l \in e .. MaxVersion : x = Put(Bundle(g, e, l))
      \/ b = "memory" /\ x = PutOne("tasks", Row(g, e))
      \/ b = "memory" /\ \E t \in {"pieces", "blocks"}, v \in Versions : x = PutOne(t, Row(g, v))
      \/ b = "memory" /\ \E t \in {"workers", "checksums"} : x = PutOne(t, NoRow)
  BY DEF SavePuts
<1> QED
  BY <1>1, <1>2, <1>3, <1>4, <1>5, <1>6, <1>7, Zenon

\* Every statement of a purge removes rows or rewrites the file.
LEMMA WipeKinds ==
  ASSUME NEW b \in {"sqlite", "memory", "json"}, NEW g, NEW x \in Wipes(b)
  PROVE  \/ x.do \in {"copy", "write"} /\ b = "json"
         \/ Putting(x, g) /\ AllGone(x) /\ (b = "sqlite" => OneGone(x))
<1>1. CASE x \in FileWrites(b)
  BY <1>1, PutFacts DEF FileWrites
<1>2. CASE \E t \in Tables : x = PutOne(t, NoRow)
  BY <1>2, PutFacts DEF Putting, OneGone, AllGone
<1>3. CASE b = "json" /\ x = Put([t \in Tables |-> NoRow])
  BY <1>3, PutFacts DEF Putting, AllGone
<1> QED
  BY <1>1, <1>2, <1>3, Zenon DEF Wipes

-----------------------------------------------------------------------------
(* The invariant *)

\* The program of a future, by its operation.
Program(b, op, g, e, s) ==
  /\ op \in SaveOps => Saving(b, g, e, s)
  /\ op = "delete" => s \in Seq(Wipes(b))
  /\ op = "worker" => s \in Seq(RowPuts(g) \cup FileWrites(b))

(* A future that is in a transaction: before its bundle, and after it *)
InPut(b, j) == b = "sqlite" /\ j.op \in SaveOps /\ ToPut(j.todo, RowPuts(j.gen), j.gen, j.seen)
InCommit(b, j) == b = "sqlite" /\ j.op \in SaveOps /\ ToCommit(j.todo, RowPuts(j.gen))

\* A future p at work, its job j, with the objects o and the gates h: what it is
\* allowed to be doing, and that an owner past the gate has it.
JobOK(b, p, j, o, h) ==
  /\ DOMAIN j = {"op", "step", "gen", "seen", "todo", "copy"}
  /\ j.op \in Ops /\ j.step \in {"gate", "rest", "run"} /\ j.gen \in 1 .. Len(o)
  /\ j.seen \in Versions /\ j.copy \in Store
  /\ j.step = "gate" => j.op \in OwnerOps
  /\ j.step = "rest" => j.op \in OwnerOps \cup {"save"} /\ j.seen <= o[j.gen].ver
  /\ j.step # "run" => j.todo = <<>>
  /\ Program(b, j.op, j.gen, j.seen, j.todo)
  /\ j.op \in OwnerOps => p \in Owners
  /\ j.op \in {"add", "delete"} => p \in Admins
  /\ j.op = "restore" => p = "boot"
  /\ j.op = "save" => p = "loop"
  /\ j.op = "worker" => p = "late"
  /\ j.op \in OwnerOps /\ j.step # "gate" => h[j.gen] = p

Jobs == DOMAIN job = Procs /\ \A p \in Procs : job[p] = Idle \/ JobOK(backend, p, job[p], obj, gate)

(* Rows are of objects that have their id *)
Owned(rows, o) ==
  \A id \in Ids, t \in Tables : rows[id][t] # NoRow =>
    rows[id][t].gen \in 1 .. Len(o) /\ o[rows[id][t].gen].id = id

\* Types of the store.
StoreTypes ==
  /\ content \in Store /\ tx \in Store
  /\ conn \in Procs \cup {"none"}
  /\ file \in [state : {"whole", "empty", "torn"}, rows : Store]
  /\ writers \subseteq Procs /\ clash \in BOOLEAN

\* Types of the manager.
TaskTypes ==
  /\ scenario \in Scenarios
  /\ up \in BOOLEAN /\ found \subseteq Ids
  /\ tasks \in [Ids -> 0 .. Len(obj)]
  /\ obj \in Seq(Objects)
  /\ Len(obj) <= scenario.objects
  /\ gate \in [Gens -> Procs \cup {"none"}]
  /\ events \in Seq([id : Ids, due : BOOLEAN])
  /\ faults \in 0 .. scenario.faults

\* Ids and objects: an object has an id not above its number, the map leads to
\* objects with their id, and rows are of objects that exist.
Registry ==
  /\ \A g \in 1 .. Len(obj) : obj[g].id <= g
  /\ \A id \in Ids : tasks[id] # 0 => obj[tasks[id]].id = id
  /\ Owned(content, obj) /\ Owned(tx, obj) /\ Owned(file.rows, obj) /\ \A p \in Procs : Owned(job[p].copy, obj)

\* While tasks are restored only the boot future works, and no row it still has
\* to restore goes away.
Booting ==
  /\ ~Ready => \A p \in Procs : p # "boot" => job[p] = Idle
  /\ \A id \in found : content[id]["tasks"] # NoRow
  /\ ~up => job["boot"] = Idle

\* The invariant that every other result rests on.
Base == StoreTypes /\ TaskTypes /\ Jobs /\ Registry /\ Booting

(* A statement of a program *)
PlainPut(b, op, g, e, x) ==
  /\ Putting(x, g)
  /\ "tasks" \in DOMAIN x.rows => \/ op \in SaveOps /\ x.rows["tasks"] = Row(g, e)
                                  \/ op = "delete" /\ x.rows["tasks"] = NoRow
  /\ b = "sqlite" => SideRow(x, g) \/ OneGone(x)
  /\ b = "json" => SideRow(x, g) \/ Bundled(x, g, e) \/ AllGone(x)

\* A program is a first statement and a rest.
LEMMA HeadTail ==
  ASSUME NEW S, NEW s \in Seq(S), s # <<>>
  PROVE  Head(s) \in S /\ Tail(s) \in Seq(S)
OBVIOUS

\* Outside of a transaction: the first statement and the program behind it.
LEMMA PlainStep ==
  ASSUME NEW b \in {"sqlite", "memory", "json"}, NEW op \in Ops, NEW g, NEW e \in Versions,
         NEW s, s # <<>>,
         \/ op \in SaveOps /\ s \in Seq(SavePuts(b, g, e))
         \/ op = "delete" /\ s \in Seq(Wipes(b))
         \/ op = "worker" /\ s \in Seq(RowPuts(g) \cup FileWrites(b))
  PROVE  /\ Program(b, op, g, e, Tail(s))
         /\ (Head(s).do \in {"copy", "write"} /\ b = "json") \/ PlainPut(b, op, g, e, Head(s))
<1>1. CASE op \in SaveOps /\ s \in Seq(SavePuts(b, g, e))
  BY <1>1, HeadTail, SaveKinds DEF PlainPut, Program, Saving, SaveOps
<1>2. CASE op = "delete" /\ s \in Seq(Wipes(b))
  BY <1>2, HeadTail, WipeKinds DEF PlainPut, Program, SaveOps, AllGone
<1>3. CASE op = "worker" /\ s \in Seq(RowPuts(g) \cup FileWrites(b))
  <2>1. /\ Head(s) \in RowPuts(g) \cup FileWrites(b)
        /\ Tail(s) \in Seq(RowPuts(g) \cup FileWrites(b))
    BY <1>3, HeadTail
  <2>2. Head(s) \in FileWrites(b) => Head(s).do \in {"copy", "write"} /\ b = "json"
    BY PutFacts DEF FileWrites
  <2>3. Head(s) \in RowPuts(g) => PlainPut(b, op, g, e, Head(s))
    BY RowKinds DEF PlainPut, SideRow
  <2> QED BY <1>3, <2>1, <2>2, <2>3 DEF Program, SaveOps
<1> QED BY <1>1, <1>2, <1>3

(* The statements of a transaction, and what is left after each. *)
LEMMA TxStep ==
  ASSUME NEW g, NEW e \in Versions, NEW s
  PROVE  /\ ToBegin(s, RowPuts(g), g, e) =>
              s # <<>> /\ Head(s).do = "begin" /\ ToPut(Tail(s), RowPuts(g), g, e)
         /\ ToPut(s, RowPuts(g), g, e) =>
              /\ s # <<>> /\ Putting(Head(s), g) /\ Bundled(Head(s), g, e)
              /\ ToCommit(Tail(s), RowPuts(g))
              /\ "tasks" \in DOMAIN Head(s).rows /\ Head(s).rows["tasks"] = Row(g, e)
              /\ Head(s).do = "put"
         /\ ToCommit(s, RowPuts(g)) => s # <<>> /\ Head(s).do = "commit" /\ Tail(s) \in Seq(SavePuts("sqlite", g, e))
         /\ s \in Seq(SavePuts("sqlite", g, e)) /\ s # <<>> => Head(s).do = "put" /\ SideRow(Head(s), g)
<1>1. RowPuts(g) = SavePuts("sqlite", g, e)
  BY DEF SavePuts, FileWrites
<1>2. ToBegin(s, RowPuts(g), g, e) =>
              s # <<>> /\ Head(s).do = "begin" /\ ToPut(Tail(s), RowPuts(g), g, e)
  BY PutFacts DEF ToBegin
<1>3. ToPut(s, RowPuts(g), g, e) =>
              /\ s # <<>> /\ Putting(Head(s), g) /\ Bundled(Head(s), g, e)
              /\ ToCommit(Tail(s), RowPuts(g))
              /\ "tasks" \in DOMAIN Head(s).rows /\ Head(s).rows["tasks"] = Row(g, e)
              /\ Head(s).do = "put"
  BY BundleKinds DEF ToPut, Putting
<1>4. ToCommit(s, RowPuts(g)) => s # <<>> /\ Head(s).do = "commit" /\ Tail(s) \in Seq(SavePuts("sqlite", g, e))
  BY <1>1, PutFacts DEF ToCommit
<1>5. s \in Seq(SavePuts("sqlite", g, e)) /\ s # <<>> => Head(s).do = "put" /\ SideRow(Head(s), g)
  BY HeadTail, SaveKinds DEF Putting
<1> QED BY <1>2, <1>3, <1>4, <1>5

(* No two of those at once *)
LEMMA TxOne ==
  ASSUME NEW g, NEW e \in Versions, NEW s
  PROVE  /\ ToBegin(s, RowPuts(g), g, e) => ~ToPut(s, RowPuts(g), g, e) /\ ~ToCommit(s, RowPuts(g))
         /\ ToPut(s, RowPuts(g), g, e) => ~ToCommit(s, RowPuts(g))
         /\ s \in Seq(SavePuts("sqlite", g, e)) =>
              ~ToBegin(s, RowPuts(g), g, e) /\ ~ToPut(s, RowPuts(g), g, e) /\ ~ToCommit(s, RowPuts(g))
<1>1. \A x : ~(Bundled(x, g, e) /\ SideRow(x, g))
  BY PutFacts DEF Bundled, SideRow, Tables
<1> QED BY <1>1, TxStep

\* The first statement of a program, with what it says about the transaction.
LEMMA StatementOf ==
  ASSUME NEW b \in {"sqlite", "memory", "json"}, NEW j, j.op \in Ops, j.seen \in Versions,
         Program(b, j.op, j.gen, j.seen, j.todo), j.todo # <<>>
  PROVE  /\ Program(b, j.op, j.gen, j.seen, Tail(j.todo))
         /\ \/ Head(j.todo).do \in {"copy", "write"} /\ b = "json" /\ ~InPut(b, j) /\ ~InCommit(b, j)
            \/ /\ Head(j.todo).do = "begin" /\ b = "sqlite" /\ j.op \in SaveOps /\ ~InPut(b, j) /\ ~InCommit(b, j)
               /\ ToPut(Tail(j.todo), RowPuts(j.gen), j.gen, j.seen)
            \/ Head(j.todo).do = "put" /\ InPut(b, j) /\ ~InCommit(b, j) /\ ToCommit(Tail(j.todo), RowPuts(j.gen))
            \/ /\ Head(j.todo).do = "commit" /\ InCommit(b, j) /\ ~InPut(b, j)
               /\ ~ToPut(Tail(j.todo), RowPuts(j.gen), j.gen, j.seen)
               /\ ~ToCommit(Tail(j.todo), RowPuts(j.gen))
            \/ /\ Head(j.todo).do = "put" /\ PlainPut(b, j.op, j.gen, j.seen, Head(j.todo)) /\ ~InPut(b, j) /\ ~InCommit(b, j)
               /\ b = "sqlite" /\ j.op \in SaveOps =>
                    ~ToPut(Tail(j.todo), RowPuts(j.gen), j.gen, j.seen) /\ ~ToCommit(Tail(j.todo), RowPuts(j.gen))
<1> DEFINE g == j.gen  e == j.seen  s == j.todo  t == Tail(s)
<1>0. j.op \in SaveOps \/ j.op = "delete" \/ j.op = "worker"
  BY DEF Ops, SaveOps
<1>1. CASE j.op \in SaveOps /\ s \in Seq(SavePuts(b, g, e))
  <2>1. /\ Program(b, j.op, g, e, t)
        /\ ((Head(s).do \in {"copy", "write"} /\ b = "json") \/ PlainPut(b, j.op, g, e, Head(s)))
    BY <1>1, PlainStep
  <2>2. b = "sqlite" => ~InPut(b, j) /\ ~InCommit(b, j)
    BY <1>1, TxOne DEF InPut, InCommit
  <2>3. b = "sqlite" => ~ToPut(t, RowPuts(g), g, e) /\ ~ToCommit(t, RowPuts(g))
    BY <1>1, TxOne, HeadTail
  <2>4. PlainPut(b, j.op, g, e, Head(s)) => Head(s).do = "put"
    BY DEF PlainPut, Putting
  <2> QED BY <2>1, <2>2, <2>3, <2>4 DEF InPut, InCommit
<1>2. CASE j.op \notin SaveOps
  <2>1. /\ Program(b, j.op, g, e, t)
        /\ ((Head(s).do \in {"copy", "write"} /\ b = "json") \/ PlainPut(b, j.op, g, e, Head(s)))
    BY <1>0, <1>2, PlainStep DEF Program
  <2>2. PlainPut(b, j.op, g, e, Head(s)) => Head(s).do = "put"
    BY DEF PlainPut, Putting
  <2> QED BY <1>2, <2>1, <2>2 DEF InPut, InCommit
<1>3. CASE j.op \in SaveOps /\ b = "sqlite" /\ ToCommit(s, RowPuts(g))
  <2>1. /\ Head(s).do = "commit" /\ t \in Seq(SavePuts("sqlite", g, e))
        /\ ~ToPut(s, RowPuts(g), g, e)
    BY <1>3, TxStep, TxOne
  <2>2. ~ToPut(t, RowPuts(g), g, e) /\ ~ToCommit(t, RowPuts(g))
    BY <2>1, TxOne
  <2>3. Program(b, j.op, g, e, t)
    BY <1>3, <2>1 DEF Program, Saving, SaveOps
  <2> QED BY <1>3, <2>1, <2>2, <2>3 DEF InPut, InCommit
<1>4. CASE /\ j.op \in SaveOps /\ b = "sqlite" /\ s \in Seq(TxWords(g, e))
           /\ ToPut(s, RowPuts(g), g, e)
  <2>1. Head(s).do = "put" /\ ToCommit(t, RowPuts(g)) /\ ~ToCommit(s, RowPuts(g))
    BY <1>4, TxStep, TxOne
  <2>2. Program(b, j.op, g, e, t)
    BY <1>4, <2>1, HeadTail DEF Program, Saving, SaveOps
  <2> QED BY <1>4, <2>1, <2>2 DEF InPut, InCommit
<1>5. CASE /\ j.op \in SaveOps /\ b = "sqlite" /\ s \in Seq(TxWords(g, e))
           /\ ToBegin(s, RowPuts(g), g, e)
  <2>1. /\ Head(s).do = "begin" /\ ToPut(t, RowPuts(g), g, e) /\ ~ToCommit(s, RowPuts(g))
        /\ ~ToPut(s, RowPuts(g), g, e)
    <3>1. Head(s).do = "begin" /\ ToPut(t, RowPuts(g), g, e)
      BY <1>5, TxStep
    <3>2. ~ToCommit(s, RowPuts(g)) /\ ~ToPut(s, RowPuts(g), g, e)
      BY <1>5, TxOne
    <3> QED BY <3>1, <3>2
  <2>2. Program(b, j.op, g, e, t)
    BY <1>5, <2>1, HeadTail DEF Program, Saving, SaveOps
  <2> QED BY <1>5, <2>1, <2>2 DEF InPut, InCommit
<1> QED BY <1>1, <1>2, <1>3, <1>4, <1>5 DEF Program, Saving

\* Rows and the empty tables.
LEMMA RowFacts ==
  /\ NoRow.gen = 0 /\ NoRow \in Rows /\ NoRows \in Store
  /\ \A g \in Gens, v \in Versions : Row(g, v) \in Rows /\ Row(g, v) # NoRow /\ Row(g, v).gen = g /\ Row(g, v).ver = v
  /\ \A id \in Ids, t \in Tables : NoRows[id][t] = NoRow
  /\ \A o : Owned(NoRows, o)
<1>1. NoRow.gen = 0 /\ NoRow \in Rows /\ \A id \in Ids, t \in Tables : NoRows[id][t] = NoRow
  BY DEF NoRow, Rows, NoRows, EmptyTables
<1>2. NoRows \in Store
  BY <1>1 DEF Store, NoRows, EmptyTables
<1>3. \A g \in Gens, v \in Versions : Row(g, v) \in Rows /\ Row(g, v) # NoRow /\ Row(g, v).gen = g /\ Row(g, v).ver = v
  BY Bounds DEF Row, NoRow, Rows, Gens, Versions
<1> QED BY <1>1, <1>2, <1>3 DEF Owned

\* A statement changes the rows of one id, in the tables it names.
LEMMA UpdatedFacts ==
  ASSUME NEW rows \in Store, NEW id \in Ids, NEW g \in Gens, NEW x, Putting(x, g)
  PROVE  /\ Updated(rows, id, x.rows) \in Store
         /\ \A i \in Ids : i # id => Updated(rows, id, x.rows)[i] = rows[i]
         /\ \A t \in Tables : Updated(rows, id, x.rows)[id][t] = IF t \in DOMAIN x.rows THEN x.rows[t] ELSE rows[id][t]
         /\ \A o : Owned(rows, o) /\ g \in 1 .. Len(o) /\ o[g].id = id => Owned(Updated(rows, id, x.rows), o)
<1>1. \A t \in DOMAIN x.rows : x.rows[t] \in Rows /\ (x.rows[t] = NoRow \/ x.rows[t].gen = g)
  BY RowFacts DEF Putting
<1> DEFINE new == x.rows  f == [t \in Tables |-> IF t \in DOMAIN new THEN new[t] ELSE rows[id][t]]
<1>2. Updated(rows, id, new) = [rows EXCEPT ![id] = f]
  BY DEF Updated
<1>3. f \in [Tables -> Rows]
  BY <1>1 DEF Store
<1>4. \A t \in Tables : f[t] = IF t \in DOMAIN new THEN new[t] ELSE rows[id][t]
  OBVIOUS
<1> HIDE DEF f
<1>5. /\ [rows EXCEPT ![id] = f] \in Store
      /\ [rows EXCEPT ![id] = f][id] = f
      /\ \A i \in Ids : i # id => [rows EXCEPT ![id] = f][i] = rows[i]
  BY <1>3 DEF Store
<1> DEFINE u == Updated(rows, id, new)
<1>6. u \in Store /\ u[id] = f /\ \A i \in Ids : i # id => u[i] = rows[i]
  BY <1>2, <1>5
<1> HIDE DEF u
<1>7. ASSUME NEW o, Owned(rows, o), g \in 1 .. Len(o), o[g].id = id
      PROVE  Owned(u, o)
  <2>1. \A t \in Tables : u[id][t] # NoRow => u[id][t].gen \in 1 .. Len(o) /\ o[u[id][t].gen].id = id
    BY <1>1, <1>4, <1>6, <1>7 DEF Owned
  <2> QED BY <2>1, <1>6, <1>7 DEF Owned
<1> QED BY <1>4, <1>6, <1>7 DEF u

(* Objects *)
Touch(o, g, v, t) == [o EXCEPT ![g].ver = v, ![g].told = t]

\* The fields of an object.
LEMMA ObjectFacts ==
  ASSUME NEW o \in Seq(Objects), NEW g \in 1 .. Len(o)
  PROVE  o[g].id \in Ids /\ o[g].spec \in Specs /\ o[g].ver \in Versions /\ o[g].told \in BOOLEAN
<1>1. o[g] \in Objects
  OBVIOUS
<1> QED BY <1>1 DEF Objects

\* Objects are added or touched; ids and downloads stay.
Grown(o, o2) ==
  /\ o2 \in Seq(Objects) /\ Len(o) <= Len(o2)
  /\ \A i \in 1 .. Len(o) : o2[i].id = o[i].id /\ o2[i].spec = o[i].spec

\* A touched object keeps its id and download; the others stay.
LEMMA TouchFacts ==
  ASSUME NEW o \in Seq(Objects), NEW g \in 1 .. Len(o), NEW v \in Versions, NEW t \in BOOLEAN,
         NEW o2, o2 = Touch(o, g, v, t)
  PROVE  /\ Grown(o, o2) /\ Len(o2) = Len(o)
         /\ o2[g].ver = v /\ o2[g].told = t
         /\ \A i \in 1 .. Len(o) : i # g => o2[i] = o[i]
<1>1. o[g] \in Objects
  OBVIOUS
<1> DEFINE r == [o[g] EXCEPT !.ver = v, !.told = t]
<1>2. r \in Objects /\ r.id = o[g].id /\ r.spec = o[g].spec /\ r.ver = v /\ r.told = t
  BY <1>1 DEF Objects
<1>3. o2 = [o EXCEPT ![g] = r]
  BY DEF Touch
<1> HIDE DEF r
<1>4. o2 \in Seq(Objects) /\ Len(o2) = Len(o) /\ o2[g] = r /\ \A i \in 1 .. Len(o) : i # g => o2[i] = o[i]
  BY <1>2, <1>3, ExceptSeq
<1> QED BY <1>2, <1>4 DEF Grown

\* TouchFacts for all objects, versions and flags.
LEMMA TouchAll ==
  ASSUME NEW o \in Seq(Objects)
  PROVE  \A g \in 1 .. Len(o), v \in Versions, t \in BOOLEAN :
           /\ Grown(o, Touch(o, g, v, t)) /\ Len(Touch(o, g, v, t)) = Len(o)
           /\ Touch(o, g, v, t)[g].ver = v /\ Touch(o, g, v, t)[g].told = t
           /\ \A i \in 1 .. Len(o) : i # g => Touch(o, g, v, t)[i] = o[i]
BY TouchFacts

\* A new object is behind the others.
LEMMA AppendFacts ==
  ASSUME NEW o \in Seq(Objects), NEW r \in Objects, NEW o2, o2 = Append(o, r)
  PROVE  Grown(o, o2) /\ Len(o2) = Len(o) + 1 /\ o2[Len(o) + 1] = r /\ \A i \in 1 .. Len(o) : o2[i] = o[i]
BY DEF Grown

\* Rows keep their owners when objects are touched or added.
LEMMA OwnedKept ==
  ASSUME NEW rows, NEW o \in Seq(Objects), NEW o2, Grown(o, o2), Owned(rows, o)
  PROVE  Owned(rows, o2)
BY DEF Grown, Owned

\* A future that does not move is still in order after a step of another.
LEMMA JobKept ==
  ASSUME NEW b, NEW q, NEW j, NEW o \in Seq(Objects), NEW h, NEW o2, NEW h2, Grown(o, o2),
         \A g \in 1 .. Len(o) : o[g].ver <= o2[g].ver,
         \A g \in 1 .. Len(o) : h[g] = q => h2[g] = q,
         JobOK(b, q, j, o, h)
  PROVE  JobOK(b, q, j, o2, h2)
<1>1. j.gen \in 1 .. Len(o) /\ j.gen \in 1 .. Len(o2) /\ j.seen \in Nat
  BY Bounds DEF JobOK, Grown, Versions
<1>2. o[j.gen].ver \in Nat /\ o2[j.gen].ver \in Nat
  BY <1>1, ObjectFacts, Bounds DEF Versions, Grown
<1>3. j.seen <= o[j.gen].ver => j.seen <= o2[j.gen].ver
  BY <1>1, <1>2
<1>4. j.op \in OwnerOps /\ j.step # "gate" => h2[j.gen] = q
  BY <1>1 DEF JobOK
<1> QED BY <1>1, <1>3, <1>4 DEF JobOK

-----------------------------------------------------------------------------
(* Steps *)

\* The fields of an idle future.
LEMMA IdleFacts ==
  /\ DOMAIN Idle = {"op", "step", "gen", "seen", "todo", "copy"}
  /\ Idle.op = "none" /\ Idle.step = "idle" /\ Idle.gen = 0 /\ Idle.seen = 0 /\ Idle.todo = <<>>
  /\ Idle.copy = NoRows
BY DEF Idle

\* The fields of a future that starts.
LEMMA NewJob ==
  ASSUME NEW op, NEW step, NEW g, NEW e, NEW s, NEW j, j = Job(op, step, g, e, s)
  PROVE  /\ DOMAIN j = {"op", "step", "gen", "seen", "todo", "copy"}
         /\ j.op = op /\ j.step = step /\ j.gen = g /\ j.seen = e /\ j.todo = s /\ j.copy = NoRows
BY DEF Job

\* One of the three repositories is configured.
LEMMA Backend == TaskTypes => backend \in {"sqlite", "memory", "json"}
BY Bounds DEF TaskTypes, backend

Rising(o, o2) == Grown(o, o2) /\ \A g \in 1 .. Len(o) : o[g].ver <= o2[g].ver

\* An object that stays has not lost a change.
LEMMA RisingSame ==
  ASSUME NEW o \in Seq(Objects)
  PROVE  Rising(o, o)
<1>1. \A g \in 1 .. Len(o) : o[g].ver \in Nat
  BY ObjectFacts, Bounds DEF Versions
<1> QED BY <1>1 DEF Rising, Grown

Moves(p, j) == DOMAIN job' = Procs /\ job'[p] = j /\ \A q \in Procs : q # p => job'[q] = job[q]

\* An assignment to job[p] moves p alone.
LEMMA Moving ==
  ASSUME Jobs, NEW p \in Procs
  PROVE  /\ \A j : job' = [job EXCEPT ![p] = j] => Moves(p, j)
         /\ job' = job => Moves(p, job[p])
BY DEF Jobs, Moves

\* Jobs after a step in which one future moves.
LEMMA JobsStep ==
  ASSUME Jobs, obj \in Seq(Objects), NEW p \in Procs, NEW j, Moves(p, j), scenario' = scenario,
         Rising(obj, obj'), NEW h, gate' = h,
         \A q \in Procs, g \in 1 .. Len(obj) : q # p /\ gate[g] = q => h[g] = q,
         j = Idle \/ JobOK(backend, p, j, obj', h)
  PROVE  Jobs'
<1>1. DOMAIN job' = Procs /\ job'[p] = j /\ \A q \in Procs : q # p => job'[q] = job[q]
  BY DEF Moves
<1>2. ASSUME NEW q \in Procs
      PROVE  job'[q] = Idle \/ JobOK(backend, q, job'[q], obj', h)
  <2>1. CASE q = p
    BY <2>1, <1>1
  <2>2. CASE q # p /\ job[q] # Idle
    <3>1. JobOK(backend, q, job[q], obj, gate)
      BY <2>2 DEF Jobs
    <3>2. JobOK(backend, q, job[q], obj', h)
      BY <2>2, <3>1, JobKept DEF Rising
    <3> QED BY <2>2, <3>2, <1>1
  <2> QED BY <2>1, <2>2, <1>1
<1>3. backend' = backend
  BY DEF backend
<1> QED BY <1>1, <1>2, <1>3 DEF Jobs

(* The rows when the store is left alone. *)
LEMMA StoreFrame ==
  ASSUME Base, UNCHANGED store, NEW o2, obj' = o2, Grown(obj, o2), NEW p \in Procs, NEW j,
         Moves(p, j),
         j.copy = job[p].copy \/ j.copy = NoRows
  PROVE  /\ StoreTypes'
         /\ Owned(content, obj)' /\ Owned(tx, obj)' /\ Owned(file.rows, obj)'
         /\ (\A q \in Procs : Owned(job[q].copy, obj))'
<1>1. obj \in Seq(Objects) /\ DOMAIN job = Procs
  BY DEF Base, TaskTypes, Jobs
<1>2. Owned(content, o2) /\ Owned(tx, o2) /\ Owned(file.rows, o2) /\ \A q \in Procs : Owned(job[q].copy, o2)
  BY <1>1, OwnedKept DEF Base, Registry
<1>3. \A q \in Procs : job'[q].copy = job[q].copy \/ job'[q].copy = NoRows
  BY DEF Moves
<1>4. \A q \in Procs : Owned(job'[q].copy, o2)
  BY <1>2, <1>3, RowFacts
<1> QED BY <1>2, <1>4 DEF Base, StoreTypes, store

(* The ids of the objects and of the map when objects change and none appears *)
LEMMA IdsFrame ==
  ASSUME Base, NEW o2, obj' = o2, Grown(obj, o2), Len(o2) = Len(obj), UNCHANGED tasks
  PROVE  /\ (\A g \in 1 .. Len(obj) : obj[g].id <= g)' /\ (tasks \in [Ids -> 0 .. Len(obj)])'
         /\ (\A id \in Ids : tasks[id] # 0 => obj[tasks[id]].id = id)'
<1>1. tasks \in [Ids -> 0 .. Len(obj)] /\ Len(obj) \in Nat
  BY DEF Base, TaskTypes
<1>2. \A id \in Ids : tasks[id] # 0 => tasks[id] \in 1 .. Len(obj)
  BY <1>1
<1> QED BY <1>1, <1>2 DEF Base, Registry, Grown

\* next_task_id finds an id: there are at most as many tasks as objects, and the
\* number of tasks plus one up to the next free id is within Ids.
LEMMA NextIdFacts ==
  ASSUME Base, Len(obj) < scenario.objects
  PROVE  NextId \in Ids /\ NextId \notin Known /\ NextId <= Len(obj) + 1
<1> DEFINE n == Len(obj) + 1
<1>1. Len(obj) \in Nat /\ n \in Ids /\ Ids \subseteq Nat
  BY Bounds DEF Base, TaskTypes, Ids
<1>2. Known \subseteq 1 .. Len(obj)
  <2> SUFFICES ASSUME NEW id \in Known PROVE id \in 1 .. Len(obj)
    OBVIOUS
  <2>1. id \in Ids /\ id \in Nat /\ id # 0 /\ tasks[id] # 0
    BY <1>1, Bounds DEF Known, Ids
  <2>2. tasks[id] \in 1 .. Len(obj) /\ obj[tasks[id]].id = id
    BY <1>1, <2>1 DEF Base, TaskTypes, Registry
  <2>3. id <= tasks[id]
    BY <2>2 DEF Base, Registry
  <2> QED BY <1>1, <2>1, <2>2, <2>3
<1>3. IsFiniteSet(1 .. Len(obj)) /\ Cardinality(1 .. Len(obj)) = Len(obj)
  <2>1. 1 \in Int /\ Len(obj) \in Int
    BY <1>1
  <2>2. /\ IsFiniteSet(1 .. Len(obj))
        /\ Cardinality(1 .. Len(obj)) = IF 1 > Len(obj) THEN 0 ELSE Len(obj) - 1 + 1
    BY <2>1, FS_Interval, Zenon
  <2> QED BY <1>1, <2>2
<1>4. Cardinality(Known) <= Len(obj) /\ Cardinality(Known) \in Nat
  BY <1>1, <1>2, <1>3, FS_Subset, FS_CardinalityType
<1>5. n > Cardinality(Known) /\ n \notin Known
  BY <1>1, <1>2, <1>4
<1> DEFINE S == {id \in Ids : id > Cardinality(Known) /\ id \notin Known}
<1>6. S \in SUBSET Nat /\ n \in S
  BY <1>1, <1>5
<1>7. PICK id \in S : \A m \in S : id <= m
  BY <1>6, LeastNumber
<1>8. /\ id > Cardinality(Known) /\ id \notin Known /\ id \in Ids
      /\ \A other \in Ids : other > Cardinality(Known) /\ other \notin Known => id <= other
  BY <1>7
<1>9. /\ NextId > Cardinality(Known) /\ NextId \notin Known /\ NextId \in Ids
      /\ \A other \in Ids : other > Cardinality(Known) /\ other \notin Known => NextId <= other
  BY <1>8 DEF NextId
<1> QED BY <1>1, <1>5, <1>9

\* An id in Manager::tasks leads to an object with that id.
LEMMA KnownFacts ==
  ASSUME Base, NEW id \in Known
  PROVE  id \in Ids /\ tasks[id] \in 1 .. Len(obj) /\ obj[tasks[id]].id = id
<1>1. tasks \in [Ids -> 0 .. Len(obj)] /\ Len(obj) \in Nat /\ id \in Ids /\ tasks[id] # 0
  BY DEF Base, TaskTypes, Known
<1> QED BY <1>1 DEF Base, Registry

(* Booting when the store stays and the manager stays ready *)
LEMMA BootFrame ==
  ASSUME Base, Ready, UNCHANGED <<up, found>>
  PROVE  Booting'
BY DEF Ready, Base, Booting

\* add_task_with_workers preserves Base.
LEMMA AddBase ==
  ASSUME Base, NEW a \in scenario.admins, NEW s \in scenario.specs, Add(a, s)
  PROVE  Base'
<1> DEFINE g == Len(obj) + 1
<1>0. /\ a \in Admins /\ s \in Specs /\ a \in Procs /\ scenario \in Scenarios
      /\ obj \in Seq(Objects)
      /\ a # "boot" /\ scenario.objects \in Nat /\ scenario.objects <= MaxGen /\ Len(obj) \in Nat
      /\ backend \in {"sqlite", "memory", "json"}
  BY Bounds, Backend, RepositoryAssumption DEF Base, TaskTypes, Procs
<1>1. /\ Ready /\ Len(obj) < scenario.objects /\ scenario' = scenario /\ UNCHANGED store
      /\ UNCHANGED <<up, found>> /\ UNCHANGED <<tasks, gate, events, faults>>
  BY DEF Add, Free
<1>2. NextId \in Ids /\ NextId <= g
  BY <1>1, NextIdFacts
<1>3. PICK r : r = [id |-> NextId, spec |-> s, ver |-> 0, told |-> TRUE]
  OBVIOUS
<1>4. r \in Objects /\ r.id = NextId
  BY <1>0, <1>2, <1>3, Bounds DEF Objects, Versions
<1>5. obj' = Append(obj, r)
  BY <1>3 DEF Add
<1>6. PICK o2 : o2 = Append(obj, r)
  OBVIOUS
<1>7. /\ Grown(obj, o2) /\ Len(o2) = g /\ o2[g] = r /\ (\A i \in 1 .. Len(obj) : o2[i] = obj[i])
      /\ obj' = o2
  <2>1. /\ Grown(obj, o2) /\ Len(o2) = g /\ o2[g] = r /\ (\A i \in 1 .. Len(obj) : o2[i] = obj[i])
    BY <1>0, <1>4, <1>6 DEF Grown
  <2> QED BY <2>1, <1>5, <1>6
<1>8. Rising(obj, o2)
  BY <1>0, <1>7, RisingSame DEF Rising
<1>9. PICK j : j = Job("add", "run", g, 0, Initialize(g, 0))
  OBVIOUS
<1>10. Moves(a, j)
  BY <1>0, <1>9, Moving DEF Add, Base
<1>11. JobOK(backend, a, j, o2, gate)
  <2>1. 0 \in Versions
    BY Bounds DEF Versions
  <2>2. Saving(backend, g, 0, Initialize(g, 0))
    BY <1>0, <2>1, InitializeProgram
  <2>3. g \in 1 .. Len(o2)
    BY <1>0, <1>7
  <2>4. /\ DOMAIN j = {"op", "step", "gen", "seen", "todo", "copy"}
         /\ j.op = "add" /\ j.step = "run" /\ j.gen = g /\ j.seen = 0
         /\ j.todo = Initialize(g, 0) /\ j.copy = NoRows
    BY <1>9, NewJob
  <2> HIDE DEF g
  <2>5. Program(backend, j.op, j.gen, j.seen, j.todo)
    BY <2>2, <2>4 DEF Program, SaveOps
  <2> QED BY <2>1, <2>3, <2>4, <2>5, <1>0, RowFacts DEF JobOK, Ops, OwnerOps
<1>12. Jobs'
  <2>1. Jobs /\ gate' = gate /\ Rising(obj, obj')
    BY <1>1, <1>7, <1>8 DEF Base
  <2> QED BY <1>0, <1>1, <1>7, <1>10, <1>11, <2>1, JobsStep
<1>13. j.copy = NoRows
  BY <1>9, NewJob
<1>14. /\ StoreTypes'
       /\ Owned(content, obj)' /\ Owned(tx, obj)' /\ Owned(file.rows, obj)'
       /\ (\A q \in Procs : Owned(job[q].copy, obj))'
  BY <1>0, <1>1, <1>7, <1>10, <1>13, StoreFrame
<1>15. /\ (\A i \in 1 .. Len(obj) : obj[i].id <= i)' /\ (tasks \in [Ids -> 0 .. Len(obj)])'
       /\ (\A id \in Ids : tasks[id] # 0 => obj[tasks[id]].id = id)'
  <2>1. \A i \in 1 .. Len(o2) : i \in 1 .. Len(obj) \/ i = g
    BY <1>0, <1>7
  <2>2. \A i \in 1 .. Len(o2) : o2[i].id <= i
    BY <2>1, <1>2, <1>4, <1>7 DEF Base, Registry
  <2>3. tasks \in [Ids -> 0 .. Len(o2)] /\ \A id \in Ids : tasks[id] # 0 => tasks[id] \in 1 .. Len(obj)
    BY <1>0, <1>7 DEF Base, TaskTypes
  <2>4. \A id \in Ids : tasks[id] # 0 => o2[tasks[id]].id = id
    BY <2>3, <1>7 DEF Base, Registry
  <2> QED BY <1>1, <1>7, <2>2, <2>3, <2>4
<1>16. TaskTypes'
  <2>1. o2 \in Seq(Objects) /\ Len(o2) <= scenario.objects
    BY <1>0, <1>1, <1>7 DEF Grown
  <2> QED BY <1>1, <1>7, <1>15, <2>1 DEF Base, TaskTypes
<1>17. Booting'
  BY <1>1, BootFrame
<1> QED BY <1>12, <1>14, <1>15, <1>16, <1>17 DEF Base, Registry

(* The steps that leave the store and the map alone *)
LEMMA CallBase ==
  ASSUME Base, UNCHANGED <<scenario, tasks>>, UNCHANGED store, up' = up, found' = found,
         faults' \in 0 .. scenario.faults,
         NEW p \in Procs, NEW j, Moves(p, j), NEW o2, obj' = o2, Rising(obj, o2),
         Len(o2) = Len(obj),
         NEW h \in [Gens -> Procs \cup {"none"}], gate' = h,
         \A q \in Procs, g \in 1 .. Len(obj) : q # p /\ gate[g] = q => h[g] = q,
         j = Idle \/ JobOK(backend, p, j, o2, h), j.copy = job[p].copy \/ j.copy = NoRows,
         events' \in Seq([id : Ids, due : BOOLEAN])
  PROVE  StoreTypes' /\ TaskTypes' /\ Jobs' /\ Registry'
<1>1. obj \in Seq(Objects) /\ Jobs /\ Grown(obj, o2) /\ o2 \in Seq(Objects)
  BY DEF Base, TaskTypes, Rising, Grown
<1>2. Jobs'
  <2>1. Rising(obj, obj') /\ scenario' = scenario /\ (j = Idle \/ JobOK(backend, p, j, obj', h))
    OBVIOUS
  <2> QED BY <1>1, <2>1, JobsStep
<1>3. /\ StoreTypes'
       /\ Owned(content, obj)' /\ Owned(tx, obj)' /\ Owned(file.rows, obj)'
       /\ (\A q \in Procs : Owned(job[q].copy, obj))'
  BY <1>1, StoreFrame
<1>4. /\ (\A i \in 1 .. Len(obj) : obj[i].id <= i)' /\ (tasks \in [Ids -> 0 .. Len(obj)])'
       /\ (\A id \in Ids : tasks[id] # 0 => obj[tasks[id]].id = id)'
  BY <1>1, IdsFrame
<1>5. TaskTypes'
  BY <1>1, <1>4 DEF Base, TaskTypes
<1> QED BY <1>2, <1>3, <1>4, <1>5 DEF Registry

(* A step of a future other than that of the restart: the manager is ready *)
LEMMA IsReady ==
  ASSUME Base, NEW p \in Procs, job[p] # Idle, p # "boot"
  PROVE  Ready
BY DEF Base, Booting

\* The futures have different names.
LEMMA ProcNames ==
  /\ "boot" \in Procs /\ "loop" \in Procs /\ "late" \in Procs
  /\ \A s \in Scenarios : s.admins \subseteq Procs /\ s.owners \subseteq Procs /\ s.admins \subseteq Admins /\ s.owners \subseteq Owners
  /\ "none" \notin Procs /\ "boot" \notin Admins /\ "boot" \notin Owners
  /\ "loop" \notin Admins /\ "loop" \notin Owners /\ "late" \notin Admins /\ "late" \notin Owners
  /\ \A p \in Admins : p \notin Owners
<1>1. \A s \in Scenarios : s.admins \subseteq Admins /\ s.owners \subseteq Owners
  BY Bounds
<1> QED BY <1>1, RepositoryAssumption DEF Procs

\* The queue of events stays one.
LEMMA EventFacts ==
  ASSUME Base
  PROVE  /\ events \in Seq([id : Ids, due : BOOLEAN])
         /\ events # <<>> => Tail(events) \in Seq([id : Ids, due : BOOLEAN])
         /\ \A id \in Ids, due \in BOOLEAN : Append(events, [id |-> id, due |-> due]) \in Seq([id : Ids, due : BOOLEAN])
<1>1. PICK E : E = [id : Ids, due : BOOLEAN]
  OBVIOUS
<1>2. events \in Seq(E)
  BY <1>1 DEF Base, TaskTypes
<1>3. \A id \in Ids, due \in BOOLEAN : [id |-> id, due |-> due] \in E
  BY <1>1
<1>4. \A x \in E : Append(events, x) \in Seq(E)
  BY <1>2
<1>5. events # <<>> => Tail(events) \in Seq(E)
  BY <1>2
<1>6. \A id \in Ids, due \in BOOLEAN : Append(events, [id |-> id, due |-> due]) \in Seq(E)
  BY <1>3, <1>4
<1> QED BY <1>1, <1>2, <1>5, <1>6

\* The faults so far are within their bound.
LEMMA FaultFacts == Base => faults \in 0 .. scenario.faults
BY DEF Base, TaskTypes

\* Manager::delete_task preserves Base.
LEMMA DeleteBase ==
  ASSUME Base, NEW a \in scenario.admins, NEW id \in Ids, Delete(a, id)
  PROVE  Base'
<1>0. /\ a \in Admins /\ a \in Procs /\ obj \in Seq(Objects)
      /\ backend \in {"sqlite", "memory", "json"} /\ Jobs
  BY ProcNames, Backend DEF Base, TaskTypes
<1>1. /\ Ready /\ id \in Known /\ UNCHANGED <<scenario, tasks>> /\ UNCHANGED store /\ up' = up
      /\ found' = found
      /\ obj' = obj /\ gate' = gate /\ events' = events /\ faults' = faults
  BY DEF Delete, Free
<1>2. PICK g : g = tasks[id]
  OBVIOUS
<1>3. g \in 1 .. Len(obj)
  BY <1>1, <1>2, KnownFacts
<1>4. PICK j : j = Job("delete", "run", g, 0, Purge)
  OBVIOUS
<1>5. Moves(a, j)
  BY <1>0, <1>2, <1>4, Moving DEF Delete
<1>6. /\ DOMAIN j = {"op", "step", "gen", "seen", "todo", "copy"}
      /\ j.op = "delete" /\ j.step = "run" /\ j.gen = g /\ j.seen = 0 /\ j.todo = Purge
      /\ j.copy = NoRows
  BY <1>4, NewJob
<1>7. JobOK(backend, a, j, obj, gate)
  <2>1. 0 \in Versions
    BY Bounds DEF Versions
  <2>2. Program(backend, j.op, j.gen, j.seen, j.todo)
    BY <1>0, <1>6, PurgeProgram DEF Program, SaveOps
  <2> QED BY <2>1, <2>2, <1>0, <1>3, <1>6, RowFacts DEF JobOK, Ops, OwnerOps
<1>8. StoreTypes' /\ TaskTypes' /\ Jobs' /\ Registry'
  <2>1. gate \in [Gens -> Procs \cup {"none"}] /\ Rising(obj, obj)
    BY <1>0, RisingSame DEF Base, TaskTypes
  <2>2. events' \in Seq([id : Ids, due : BOOLEAN]) /\ faults' \in 0 .. scenario.faults
    BY <1>1, EventFacts, FaultFacts
  <2> QED BY <1>0, <1>1, <1>5, <1>6, <1>7, <2>1, <2>2, CallBase
<1> QED BY <1>1, <1>8, BootFrame DEF Base

\* A change of a task in the map raises its version.
LEMMA ChangedObject ==
  ASSUME Base, NEW id \in Known, obj[tasks[id]].ver < scenario.changes, NEW o2,
         o2 = [obj EXCEPT ![tasks[id]].ver = @ + 1, ![tasks[id]].told = FALSE]
  PROVE  /\ Rising(obj, o2) /\ Len(o2) = Len(obj) /\ tasks[id] \in 1 .. Len(obj)
         /\ obj[tasks[id]].id = id
         /\ o2[tasks[id]].ver = obj[tasks[id]].ver + 1 /\ ~o2[tasks[id]].told
         /\ \A i \in 1 .. Len(obj) : i # tasks[id] => o2[i] = obj[i]
<1>1. PICK g : g = tasks[id]
  OBVIOUS
<1>2. g \in 1 .. Len(obj) /\ obj[g].id = id
  BY <1>1, KnownFacts
<1>3. obj \in Seq(Objects) /\ scenario.changes \in Nat /\ scenario.changes <= MaxVersion
  BY Bounds DEF Base, TaskTypes
<1>4. obj[g].ver \in Nat /\ \A i \in 1 .. Len(obj) : obj[i].ver \in Nat
  BY <1>2, <1>3, ObjectFacts, Bounds DEF Versions
<1>5. PICK v : v = obj[g].ver + 1
  OBVIOUS
<1>6. v \in Versions /\ obj[g].ver <= v
  BY <1>1, <1>3, <1>4, <1>5, Bounds DEF Versions
<1> PICK f \in BOOLEAN : f = FALSE
  OBVIOUS
<1>7. o2 = Touch(obj, g, v, f)
  BY <1>1, <1>5 DEF Touch
<1>8. /\ Grown(obj, o2) /\ Len(o2) = Len(obj) /\ o2[g].ver = v /\ o2[g].told = f
      /\ \A i \in 1 .. Len(obj) : i # g => o2[i] = obj[i]
  <2>1. PICK o3 : o3 = Touch(obj, g, v, f)
    OBVIOUS
  <2>2. /\ Grown(obj, o3) /\ Len(o3) = Len(obj) /\ o3[g].ver = v /\ o3[g].told = f
        /\ \A i \in 1 .. Len(obj) : i # g => o3[i] = obj[i]
    BY <1>2, <1>3, <1>6, <2>1, TouchFacts
  <2>3. o2 = o3
    BY <1>7, <2>1
  <2> QED BY <2>2, <2>3, Zenon
<1>9. Rising(obj, o2)
  BY <1>4, <1>6, <1>8 DEF Rising
<1> QED BY <1>1, <1>2, <1>5, <1>8, <1>9

\* A change that is to be saved preserves Base.
LEMMA ChangeBase ==
  ASSUME Base, NEW p \in scenario.owners, NEW id \in Ids, NEW op \in {"told", "silent"},
         Change(p, id, op)
  PROVE  Base'
<1>0. /\ p \in Owners /\ p \in Procs /\ obj \in Seq(Objects)
      /\ backend \in {"sqlite", "memory", "json"} /\ Jobs
  BY ProcNames, Backend DEF Base, TaskTypes
<1>1. /\ Ready /\ id \in Known /\ UNCHANGED <<scenario, tasks>> /\ UNCHANGED store /\ up' = up
      /\ found' = found
      /\ gate' = gate /\ events' = events /\ faults' = faults
      /\ obj[tasks[id]].ver < scenario.changes
  BY DEF Change, Free
<1>2. PICK o2 : o2 = [obj EXCEPT ![tasks[id]].ver = @ + 1, ![tasks[id]].told = FALSE]
  OBVIOUS
<1>3. obj' = o2
  BY <1>2 DEF Change
<1>4. Rising(obj, o2) /\ Len(o2) = Len(obj) /\ tasks[id] \in 1 .. Len(obj)
  BY <1>1, <1>2, ChangedObject
<1>5. PICK j : j = Job(op, "gate", tasks[id], 0, <<>>)
  OBVIOUS
<1>6. Moves(p, j)
  BY <1>0, <1>5, Moving DEF Change
<1>7. /\ DOMAIN j = {"op", "step", "gen", "seen", "todo", "copy"}
      /\ j.op = op /\ j.step = "gate" /\ j.gen = tasks[id] /\ j.seen = 0 /\ j.todo = <<>>
      /\ j.copy = NoRows
  BY <1>5, NewJob
<1>8. JobOK(backend, p, j, o2, gate)
  <2>1. 0 \in Versions
    BY Bounds DEF Versions
  <2>2. <<>> \in Seq(SavePuts(backend, j.gen, j.seen))
    OBVIOUS
  <2>3. Program(backend, j.op, j.gen, j.seen, j.todo)
    BY <1>7, <2>2 DEF Program, Saving, SaveOps
  <2> QED BY <2>1, <2>3, <1>0, <1>4, <1>7, RowFacts DEF JobOK, Ops, OwnerOps
<1>9. StoreTypes' /\ TaskTypes' /\ Jobs' /\ Registry'
  <2>1. gate \in [Gens -> Procs \cup {"none"}]
    BY DEF Base, TaskTypes
  <2>2. events' \in Seq([id : Ids, due : BOOLEAN]) /\ faults' \in 0 .. scenario.faults
    BY <1>1, EventFacts, FaultFacts
  <2> QED BY <1>0, <1>1, <1>3, <1>4, <1>6, <1>7, <1>8, <2>1, <2>2, CallBase
<1> QED BY <1>1, <1>9, BootFrame DEF Base

(* The steps of nobody: progress, and events that are skipped *)
LEMMA EventsBase ==
  ASSUME Base, Ready, UNCHANGED <<scenario, tasks>>, UNCHANGED store, up' = up, found' = found,
         faults' = faults,
         job' = job, gate' = gate, NEW o2, obj' = o2, Rising(obj, o2), Len(o2) = Len(obj), events' \in Seq([id : Ids, due : BOOLEAN])
  PROVE  Base'
<1>0. "boot" \in Procs /\ gate \in [Gens -> Procs \cup {"none"}] /\ Jobs /\ obj \in Seq(Objects)
  BY ProcNames DEF Base, TaskTypes
<1>1. Moves("boot", job["boot"])
  BY <1>0, Moving
<1>2. job["boot"] = Idle \/ JobOK(backend, "boot", job["boot"], o2, gate)
  BY <1>0, JobKept DEF Jobs, Rising
<1>3. faults' \in 0 .. scenario.faults
  BY FaultFacts
<1>4. StoreTypes' /\ TaskTypes' /\ Jobs' /\ Registry'
  BY <1>0, <1>1, <1>2, <1>3, CallBase
<1> QED BY <1>4, BootFrame DEF Base

\* Progress of a worker preserves Base.
LEMMA ProgressBase ==
  ASSUME Base, NEW id \in Ids, Progress(id)
  PROVE  Base'
<1>1. /\ Ready /\ id \in Known /\ UNCHANGED <<scenario, tasks>> /\ UNCHANGED store /\ up' = up
      /\ found' = found
      /\ gate' = gate /\ job' = job /\ faults' = faults /\ obj[tasks[id]].ver < scenario.changes
  BY DEF Progress
<1>2. PICK o2 : o2 = [obj EXCEPT ![tasks[id]].ver = @ + 1, ![tasks[id]].told = FALSE]
  OBVIOUS
<1>3. obj' = o2
  BY <1>2 DEF Progress
<1>4. Rising(obj, o2) /\ Len(o2) = Len(obj)
  BY <1>1, <1>2, ChangedObject
<1>5. events' \in Seq([id : Ids, due : BOOLEAN])
  BY EventFacts DEF Progress, Emit
<1> QED BY <1>1, <1>3, <1>4, <1>5, EventsBase

\* An event the loop does not save on preserves Base.
LEMMA SkipBase ==
  ASSUME Base, LoopSkips
  PROVE  Base'
<1>1. /\ Ready /\ UNCHANGED <<scenario, tasks>> /\ UNCHANGED store /\ up' = up /\ found' = found
      /\ gate' = gate /\ job' = job /\ faults' = faults /\ obj' = obj /\ events # <<>>
      /\ events' = Tail(events)
  BY DEF LoopSkips, Free
<1>2. Rising(obj, obj)
  BY RisingSame DEF Base, TaskTypes
<1>3. events' \in Seq([id : Ids, due : BOOLEAN])
  BY <1>1, EventFacts
<1> QED BY <1>1, <1>2, <1>3, EventsBase

\* persist_task_worker_later preserves Base.
LEMMA WorkerBase ==
  ASSUME Base, NEW id \in Ids, WorkerLater(id)
  PROVE  Base'
<1>0. "late" \in Procs /\ obj \in Seq(Objects) /\ backend \in {"sqlite", "memory", "json"} /\ Jobs
  BY ProcNames, Backend DEF Base, TaskTypes
<1>1. /\ Ready /\ id \in Known /\ UNCHANGED <<scenario, tasks>> /\ UNCHANGED store /\ up' = up
      /\ found' = found
      /\ obj' = obj /\ gate' = gate /\ events' = events /\ faults' = faults
  BY DEF WorkerLater, Free
<1>2. PICK g : g = tasks[id]
  OBVIOUS
<1>3. g \in 1 .. Len(obj) /\ obj[g].ver \in Versions
  BY <1>0, <1>1, <1>2, KnownFacts, ObjectFacts
<1>4. PICK j : j = Job("worker", "run", g, 0, SaveWorker(g, obj[g].ver))
  OBVIOUS
<1>5. Moves("late", j)
  BY <1>0, <1>2, <1>4, Moving DEF WorkerLater
<1>6. /\ DOMAIN j = {"op", "step", "gen", "seen", "todo", "copy"}
      /\ j.op = "worker" /\ j.step = "run" /\ j.gen = g /\ j.seen = 0
      /\ j.todo = SaveWorker(g, obj[g].ver) /\ j.copy = NoRows
  BY <1>4, NewJob
<1>7. JobOK(backend, "late", j, obj, gate)
  <2>1. 0 \in Versions
    BY Bounds DEF Versions
  <2>2. Program(backend, j.op, j.gen, j.seen, j.todo)
    BY <1>0, <1>3, <1>6, WorkerProgram DEF Program, SaveOps
  <2> QED BY <2>1, <2>2, <1>0, <1>3, <1>6, RowFacts DEF JobOK, Ops, OwnerOps
<1>8. StoreTypes' /\ TaskTypes' /\ Jobs' /\ Registry'
  <2>1. gate \in [Gens -> Procs \cup {"none"}] /\ Rising(obj, obj)
    BY <1>0, RisingSame DEF Base, TaskTypes
  <2>2. events' \in Seq([id : Ids, due : BOOLEAN]) /\ faults' \in 0 .. scenario.faults
    BY <1>1, EventFacts, FaultFacts
  <2> QED BY <1>0, <1>1, <1>5, <1>6, <1>7, <2>1, <2>2, CallBase
<1> QED BY <1>1, <1>8, BootFrame DEF Base

\* The empty program is one of every operation.
LEMMA EmptyProgram ==
  ASSUME NEW b, NEW op, NEW g, NEW e
  PROVE  Program(b, op, g, e, <<>>)
<1>1. \A S : <<>> \in Seq(S)
  OBVIOUS
<1> QED BY <1>1 DEF Program, Saving

\* The loop that starts a save preserves Base.
LEMMA LoopBase ==
  ASSUME Base, LoopSaves
  PROVE  Base'
<1>0. "loop" \in Procs /\ obj \in Seq(Objects) /\ Jobs
  BY ProcNames DEF Base, TaskTypes
<1>1. /\ Ready /\ Head(events).id \in Known /\ UNCHANGED <<scenario, tasks>> /\ UNCHANGED store
      /\ up' = up /\ found' = found
      /\ obj' = obj /\ gate' = gate /\ events # <<>> /\ events' = Tail(events) /\ faults' = faults
  BY DEF LoopSaves, Free
<1>2. PICK g : g = tasks[Head(events).id]
  OBVIOUS
<1>3. g \in 1 .. Len(obj) /\ obj[g].ver \in Versions /\ obj[g].ver <= obj[g].ver
  BY <1>0, <1>1, <1>2, KnownFacts, ObjectFacts, Bounds DEF Versions
<1>4. PICK j : j = Job("save", "rest", g, obj[g].ver, <<>>)
  OBVIOUS
<1>5. Moves("loop", j)
  BY <1>0, <1>2, <1>4, Moving DEF LoopSaves
<1>6. /\ DOMAIN j = {"op", "step", "gen", "seen", "todo", "copy"}
      /\ j.op = "save" /\ j.step = "rest" /\ j.gen = g /\ j.seen = obj[g].ver /\ j.todo = <<>>
      /\ j.copy = NoRows
  BY <1>4, NewJob
<1>7. JobOK(backend, "loop", j, obj, gate)
  <2>2. Program(backend, j.op, j.gen, j.seen, j.todo)
    BY <1>6, EmptyProgram
  <2> QED BY <2>2, <1>0, <1>3, <1>6, RowFacts DEF JobOK, Ops, OwnerOps
<1>8. StoreTypes' /\ TaskTypes' /\ Jobs' /\ Registry'
  <2>1. gate \in [Gens -> Procs \cup {"none"}] /\ Rising(obj, obj)
    BY <1>0, RisingSame DEF Base, TaskTypes
  <2>2. events' \in Seq([id : Ids, due : BOOLEAN]) /\ faults' \in 0 .. scenario.faults
    BY <1>1, EventFacts, FaultFacts
  <2> QED BY <1>0, <1>1, <1>5, <1>6, <1>7, <2>1, <2>2, CallBase
<1> QED BY <1>1, <1>8, BootFrame DEF Base

(* A future that is at work *)
LEMMA Working ==
  ASSUME Base, NEW p \in Procs, job[p].step # "idle"
  PROVE  /\ job[p] # Idle /\ JobOK(backend, p, job[p], obj, gate)
         /\ job[p].gen \in 1 .. Len(obj) /\ job[p].gen \in Gens
         /\ job[p].op # "restore" => p # "boot" /\ Ready
         /\ obj[job[p].gen].id \in Ids /\ obj[job[p].gen].ver \in Versions /\ obj \in Seq(Objects)
<1>1. job[p] # Idle
  BY IdleFacts
<1>2. JobOK(backend, p, job[p], obj, gate)
  BY <1>1 DEF Base, Jobs
<1>3. /\ obj \in Seq(Objects) /\ Len(obj) \in Nat /\ Len(obj) <= scenario.objects
      /\ scenario \in Scenarios
  BY DEF Base, TaskTypes
<1>4. job[p].gen \in 1 .. Len(obj) /\ job[p].op \in Ops
  BY <1>2 DEF JobOK
<1>5. job[p].gen \in Gens
  BY <1>3, <1>4, Bounds DEF Gens
<1>6. job[p].op # "restore" => p # "boot"
  BY <1>2, <1>4, ProcNames DEF JobOK, Ops, OwnerOps
<1> QED BY <1>1, <1>2, <1>3, <1>4, <1>5, <1>6, ObjectFacts, IsReady

\* Reading the task row behind the gate preserves Base.
LEMMA ReadTaskBase ==
  ASSUME Base, NEW p \in Procs, ReadTask(p)
  PROVE  Base'
<1>0. obj \in Seq(Objects) /\ Jobs /\ gate \in [Gens -> Procs \cup {"none"}]
  BY DEF Base, TaskTypes
<1>1. /\ UNCHANGED <<scenario, tasks>> /\ UNCHANGED store /\ up' = up /\ found' = found
      /\ obj' = obj /\ events' = events /\ faults' = faults /\ job[p].step = "gate"
  BY DEF ReadTask
<1>2. PICK g : g = job[p].gen
  OBVIOUS
<1>3. PICK i : i = job[p]
  OBVIOUS
<1>4. /\ JobOK(backend, p, i, obj, gate) /\ g \in 1 .. Len(obj) /\ g \in Gens
      /\ i.op \in OwnerOps /\ i.todo = <<>>
      /\ obj[g].ver \in Versions /\ obj[g].ver <= obj[g].ver /\ Ready
  <2>1. /\ JobOK(backend, p, i, obj, gate) /\ g \in 1 .. Len(obj) /\ g \in Gens
        /\ obj[g].ver \in Versions
    BY <1>1, <1>2, <1>3, Working
  <2>2. i.op \in OwnerOps /\ i.todo = <<>>
    BY <1>1, <1>3, <2>1 DEF JobOK
  <2>3. Ready
    BY <1>1, <1>3, <2>2, Working DEF OwnerOps
  <2> QED BY <2>1, <2>2, <2>3, Bounds DEF Versions
<1>5. PICK j : j = [i EXCEPT !.step = "rest", !.seen = obj[g].ver]
  OBVIOUS
<1>6. /\ DOMAIN j = {"op", "step", "gen", "seen", "todo", "copy"} /\ j.step = "rest"
      /\ j.seen = obj[g].ver
      /\ j.op = i.op /\ j.gen = g /\ j.todo = <<>> /\ j.copy = i.copy
  BY <1>2, <1>3, <1>4, <1>5 DEF JobOK
<1>7. Moves(p, j)
  <2>1. job' = [job EXCEPT ![p] = j]
    BY <1>2, <1>3, <1>5 DEF ReadTask
  <2> QED BY <1>0, <2>1, Moving
<1>8. PICK h : h = [gate EXCEPT ![g] = p]
  OBVIOUS
<1>9. /\ gate' = h /\ h \in [Gens -> Procs \cup {"none"}] /\ h[g] = p /\ gate[g] = "none"
      /\ \A q \in Procs, k \in 1 .. Len(obj) : q # p /\ gate[k] = q => h[k] = q
  <2>1. gate' = h /\ gate[g] = "none"
    BY <1>2, <1>8 DEF ReadTask
  <2>2. \A k \in 1 .. Len(obj) : k \in Gens
    BY Bounds DEF Base, TaskTypes, Gens
  <2> QED BY <1>0, <1>4, <1>8, <2>1, <2>2, ProcNames
<1>10. JobOK(backend, p, j, obj, h)
  <2>1. Program(backend, j.op, j.gen, j.seen, j.todo)
    BY <1>6, EmptyProgram
  <2> QED BY <2>1, <1>4, <1>6, <1>9 DEF JobOK, OwnerOps
<1>11. StoreTypes' /\ TaskTypes' /\ Jobs' /\ Registry'
  <2>1. Rising(obj, obj)
    BY <1>0, RisingSame
  <2>2. events' \in Seq([id : Ids, due : BOOLEAN]) /\ faults' \in 0 .. scenario.faults
    BY <1>1, EventFacts, FaultFacts
  <2> QED BY <1>1, <1>3, <1>6, <1>7, <1>9, <1>10, <2>1, <2>2, CallBase
<1> QED BY <1>1, <1>4, <1>11, BootFrame DEF Base

\* Reading the other rows preserves Base.
LEMMA ReadRestBase ==
  ASSUME Base, NEW p \in Procs, ReadRest(p)
  PROVE  Base'
<1>0. /\ obj \in Seq(Objects) /\ Jobs /\ gate \in [Gens -> Procs \cup {"none"}]
      /\ backend \in {"sqlite", "memory", "json"}
  BY Backend DEF Base, TaskTypes
<1>1. /\ UNCHANGED <<scenario, tasks>> /\ UNCHANGED store /\ up' = up /\ found' = found
      /\ obj' = obj /\ events' = events /\ faults' = faults /\ gate' = gate
      /\ job[p].step = "rest"
  BY DEF ReadRest
<1>2. PICK g : g = job[p].gen
  OBVIOUS
<1>3. PICK i : i = job[p]
  OBVIOUS
<1>4. /\ JobOK(backend, p, i, obj, gate) /\ g \in 1 .. Len(obj) /\ g \in Gens
      /\ i.op \in OwnerOps \cup {"save"}
      /\ obj[g].ver \in Versions /\ i.seen \in Versions /\ i.seen <= obj[g].ver /\ Ready
  <2>1. /\ JobOK(backend, p, i, obj, gate) /\ g \in 1 .. Len(obj) /\ g \in Gens
        /\ obj[g].ver \in Versions
    BY <1>1, <1>2, <1>3, Working
  <2>2. i.op \in OwnerOps \cup {"save"} /\ i.seen \in Versions /\ i.seen <= obj[g].ver
    BY <1>1, <1>2, <1>3, <2>1 DEF JobOK
  <2>3. Ready
    BY <1>1, <1>3, <2>2, Working DEF OwnerOps
  <2> QED BY <2>1, <2>2, <2>3
<1>5. PICK j : j = [i EXCEPT !.step = "run", !.todo = SaveTask(g, i.seen, obj[g].ver)]
  OBVIOUS
<1>6. /\ DOMAIN j = {"op", "step", "gen", "seen", "todo", "copy"} /\ j.step = "run"
      /\ j.todo = SaveTask(g, i.seen, obj[g].ver)
      /\ j.op = i.op /\ j.gen = g /\ j.seen = i.seen /\ j.copy = i.copy
  BY <1>2, <1>3, <1>4, <1>5 DEF JobOK
<1>7. Moves(p, j)
  <2>1. job' = [job EXCEPT ![p] = j]
    BY <1>2, <1>3, <1>5 DEF ReadRest
  <2> QED BY <1>0, <2>1, Moving
<1>10. JobOK(backend, p, j, obj, gate)
  <2>1. Program(backend, j.op, j.gen, j.seen, j.todo)
    BY <1>0, <1>4, <1>6, SaveTaskProgram DEF Program, SaveOps, OwnerOps
  <2> QED BY <2>1, <1>2, <1>3, <1>4, <1>6, <1>1 DEF JobOK, OwnerOps
<1>11. StoreTypes' /\ TaskTypes' /\ Jobs' /\ Registry'
  <2>1. Rising(obj, obj)
    BY <1>0, RisingSame
  <2>2. events' \in Seq([id : Ids, due : BOOLEAN]) /\ faults' \in 0 .. scenario.faults
    BY <1>1, EventFacts, FaultFacts
  <2> QED BY <1>0, <1>1, <1>3, <1>6, <1>7, <1>10, <2>1, <2>2, CallBase
<1> QED BY <1>1, <1>4, <1>11, BootFrame DEF Base

(* A statement of p was executed: the program of p goes on. *)
Stepped(p, j) ==
  /\ Moves(p, j) /\ job[p].todo # <<>>
  /\ DOMAIN j = {"op", "step", "gen", "seen", "todo", "copy"}
  /\ j.op = job[p].op /\ j.step = "run" /\ j.gen = job[p].gen /\ j.seen = job[p].seen
  /\ j.todo = Tail(job[p].todo)

\* p executes a statement.
Statements(p) ==
  /\ UNCHANGED others /\ up /\ job[p].step = "run" /\ job[p].todo # <<>>
  /\ \/ DoPut(p) \/ DoBegin(p) \/ DoCommit(p) \/ DoCopy(p) \/ DoWrite(p)

\* The actions of a statement have a guard and a frame in common.
LEMMA IsStatement ==
  ASSUME NEW p, DoPut(p) \/ DoBegin(p) \/ DoCommit(p) \/ DoCopy(p) \/ DoWrite(p)
  PROVE  Statements(p)
<1>1. ASSUME NEW what, Running(p, what) PROVE up /\ job[p].step = "run" /\ job[p].todo # <<>>
  BY <1>1 DEF Running
<1>2. CASE DoPut(p)
  BY <1>1, <1>2 DEF Statements, DoPut, others
<1>3. CASE DoBegin(p)
  BY <1>1, <1>3 DEF Statements, DoBegin, others
<1>4. CASE DoCommit(p)
  BY <1>1, <1>4 DEF Statements, DoCommit, others
<1>5. CASE DoCopy(p)
  BY <1>1, <1>5 DEF Statements, DoCopy, others
<1>6. CASE DoWrite(p)
  BY <1>1, <1>6 DEF Statements, DoWrite, others
<1> QED BY <1>2, <1>3, <1>4, <1>5, <1>6

\* A statement leaves the rest of the program and keeps everything else but the copy.
LEMMA SteppedJob ==
  ASSUME Base, NEW p \in Procs, Statements(p)
  PROVE  /\ Stepped(p, job'[p])
         /\ job'[p].copy = IF DoCopy(p) THEN content ELSE IF DoWrite(p) THEN NoRows ELSE job[p].copy
<1>1. PICK i : i = job[p]
  OBVIOUS
<1>2. i.step = "run" /\ i.todo # <<>> /\ JobOK(backend, p, i, obj, gate) /\ Jobs
  BY <1>1, Working DEF Statements, Base
<1>3. DOMAIN i = {"op", "step", "gen", "seen", "todo", "copy"}
  BY <1>2 DEF JobOK
<1>4. DoCopy(p) => ~DoWrite(p) /\ ~DoPut(p) /\ ~DoBegin(p) /\ ~DoCommit(p)
  BY DEF DoCopy, DoWrite, DoPut, DoBegin, DoCommit, Running
<1>5. DoWrite(p) => ~DoPut(p) /\ ~DoBegin(p) /\ ~DoCommit(p)
  BY DEF DoCopy, DoWrite, DoPut, DoBegin, DoCommit, Running
<1>6. CASE DoCopy(p)
  <2>1. PICK j : j = [i EXCEPT !.todo = Tail(@), !.copy = content]
    OBVIOUS
  <2>2. job' = [job EXCEPT ![p] = j]
    BY <1>1, <1>6, <2>1 DEF DoCopy
  <2>3. Moves(p, j) /\ job'[p] = j
    BY <1>2, <2>2, Moving DEF Moves
  <2>4. Stepped(p, j) /\ j.copy = content
    BY <1>1, <1>2, <1>3, <2>1, <2>3 DEF Stepped
  <2> QED BY <1>6, <2>3, <2>4
<1>7. CASE DoWrite(p)
  <2>1. PICK j : j = [i EXCEPT !.todo = Tail(@), !.copy = NoRows]
    OBVIOUS
  <2>2. job' = [job EXCEPT ![p] = j]
    BY <1>1, <1>7, <2>1 DEF DoWrite
  <2>3. Moves(p, j) /\ job'[p] = j
    BY <1>2, <2>2, Moving DEF Moves
  <2>4. Stepped(p, j) /\ j.copy = NoRows
    BY <1>1, <1>2, <1>3, <2>1, <2>3 DEF Stepped
  <2> QED BY <1>4, <1>7, <2>3, <2>4
<1>8. CASE ~DoWrite(p) /\ ~DoCopy(p)
  <2>1. PICK j : j = [i EXCEPT !.todo = Tail(@)]
    OBVIOUS
  <2>2. job' = [job EXCEPT ![p] = j]
    BY <1>1, <1>8, <2>1 DEF Statements, DoPut, DoBegin, DoCommit, Advance
  <2>3. Moves(p, j) /\ job'[p] = j
    BY <1>2, <2>2, Moving DEF Moves
  <2>4. Stepped(p, j) /\ j.copy = i.copy
    BY <1>1, <1>2, <1>3, <2>1, <2>3 DEF Stepped
  <2> QED BY <1>1, <1>8, <2>3, <2>4
<1> QED BY <1>6, <1>7, <1>8

(* What is left of Base when a statement was executed *)
LEMMA StatementBase ==
  ASSUME Base, NEW p \in Procs, Statements(p), job'[p].copy \in Store, StoreTypes',
         Owned(content', obj), Owned(tx', obj), Owned(file'.rows, obj), Owned(job'[p].copy, obj),
         \A id \in found : content'[id]["tasks"] # NoRow
  PROVE  Base'
<1>0. /\ obj \in Seq(Objects) /\ Jobs /\ gate \in [Gens -> Procs \cup {"none"}]
      /\ backend \in {"sqlite", "memory", "json"}
  BY Backend DEF Base, TaskTypes
<1>1. PICK j : j = job'[p]
  OBVIOUS
<1>2. PICK i : i = job[p]
  OBVIOUS
<1>3. i # Idle /\ JobOK(backend, p, i, obj, gate) /\ i.todo # <<>> /\ i.step = "run"
  BY <1>2, Working DEF Statements
<1>4. /\ Moves(p, j) /\ DOMAIN j = {"op", "step", "gen", "seen", "todo", "copy"}
      /\ j.op = i.op /\ j.step = "run" /\ j.gen = i.gen /\ j.seen = i.seen
      /\ j.todo = Tail(i.todo)
  BY <1>1, <1>2, SteppedJob DEF Stepped
<1>5. JobOK(backend, p, j, obj, gate)
  <2>1. i.op \in Ops /\ i.seen \in Versions /\ Program(backend, i.op, i.gen, i.seen, i.todo)
    BY <1>3 DEF JobOK
  <2>2. Program(backend, i.op, i.gen, i.seen, Tail(i.todo))
    BY <1>0, <1>3, <2>1, StatementOf
  <2>3. j.copy \in Store
    BY <1>1
  <2> QED BY <1>3, <1>4, <2>2, <2>3 DEF JobOK
<1>6. /\ scenario' = scenario /\ obj' = obj /\ gate' = gate /\ up' = up /\ found' = found
      /\ tasks' = tasks
      /\ events' = events /\ faults' = faults
  BY DEF Statements, others
<1>7. Jobs'
  <2>1. Rising(obj, obj') /\ JobOK(backend, p, j, obj', gate)
    BY <1>0, <1>5, <1>6, RisingSame
  <2> QED BY <1>0, <1>4, <1>6, <2>1, JobsStep
<1>8. TaskTypes'
  BY <1>6 DEF Base, TaskTypes
<1>9. Registry'
  <2>1. \A q \in Procs : Owned(job'[q].copy, obj)
    BY <1>4 DEF Moves, Base, Registry
  <2> QED BY <1>6, <2>1 DEF Base, Registry
<1>10. Booting'
  <2>1. up /\ Ready' = Ready
    BY <1>6 DEF Statements, Ready
  <2>2. ~Ready => p = "boot"
    BY <1>2, <1>3 DEF Base, Booting
  <2>3. ~Ready => \A q \in Procs : q # "boot" => job'[q] = Idle
    BY <2>2, <1>4 DEF Moves, Base, Booting
  <2> QED BY <1>6, <2>1, <2>3 DEF Booting
<1> QED BY <1>7, <1>8, <1>9, <1>10 DEF Base

\* A bundle in place of the rows of an id.
Replacing(rows, new, id, g, e) == \E l \in e .. MaxVersion : new = [rows EXCEPT ![id] = Bundle(g, e, l)]

\* Who is in a transaction has the connection, and the transaction holds the
\* content of before, with the bundle of that future once it was put.
Transaction ==
  /\ \A p \in Procs : InPut(backend, job[p]) \/ InCommit(backend, job[p]) => conn = p
  /\ conn # "none" =>
       \/ InPut(backend, job[conn]) /\ tx = content
       \/ /\ InCommit(backend, job[conn])
          /\ Replacing(content, tx, obj[job[conn].gen].id, job[conn].gen, job[conn].seen)

\* A bundle replaces all rows of one id.
LEMMA ReplacingFacts ==
  ASSUME NEW rows \in Store, NEW new, NEW id \in Ids, NEW g \in Gens, NEW e \in Versions,
         Replacing(rows, new, id, g, e)
  PROVE  /\ \A i \in Ids : i # id => new[i] = rows[i]
         /\ new[id]["tasks"] = Row(g, e)
         /\ \E l \in Versions : e <= l /\ \A t \in Tables : new[id][t] = Row(g, IF t = "tasks" THEN e ELSE l)
<1>1. PICK l \in e .. MaxVersion : new = [rows EXCEPT ![id] = Bundle(g, e, l)]
  BY DEF Replacing
<1>2. l \in Versions /\ e <= l
  BY Bounds DEF Versions
<1>3. new[id] = Bundle(g, e, l) /\ \A i \in Ids : i # id => new[i] = rows[i]
  BY <1>1 DEF Store
<1>4. \A t \in Tables : new[id][t] = Row(g, IF t = "tasks" THEN e ELSE l)
  BY <1>3, PutFacts
<1>5. new[id]["tasks"] = Row(g, e)
  BY <1>4 DEF Tables
<1> QED BY <1>2, <1>3, <1>4, <1>5

\* The statement with the bundle replaces all rows of the id.
LEMMA UpdatedBundle ==
  ASSUME NEW rows \in Store, NEW id \in Ids, NEW g, NEW e, NEW x, Bundled(x, g, e)
  PROVE  Replacing(rows, Updated(rows, id, x.rows), id, g, e)
<1>1. PICK l \in e .. MaxVersion : x.rows = Bundle(g, e, l)
  BY DEF Bundled
<1> DEFINE f == [t \in Tables |-> IF t \in DOMAIN x.rows THEN x.rows[t] ELSE rows[id][t]]
<1>2. f = Bundle(g, e, l)
  BY <1>1, PutFacts DEF Bundle
<1>3. Updated(rows, id, x.rows) = [rows EXCEPT ![id] = f]
  BY DEF Updated
<1> QED BY <1>1, <1>2, <1>3 DEF Replacing

(* The first statement of the program of a future that is at work *)
LEMMA AtStatement ==
  ASSUME Base, NEW p \in Procs, Statements(p)
  PROVE  /\ job[p].op \in Ops /\ job[p].seen \in Versions /\ job[p].gen \in Gens
         /\ job[p].gen \in 1 .. Len(obj)
         /\ obj[job[p].gen].id \in Ids /\ backend \in {"sqlite", "memory", "json"}
         /\ Program(backend, job[p].op, job[p].gen, job[p].seen, job[p].todo)
         /\ job[p].todo # <<>> /\ job[p].step = "run"
         /\ job[p].copy \in Store /\ Owned(job[p].copy, obj)
         /\ found # {} => p = "boot" /\ job[p].op = "restore"
<1>1. job[p].todo # <<>> /\ job[p].step = "run"
  BY DEF Statements
<1>2. /\ job[p] # Idle /\ JobOK(backend, p, job[p], obj, gate) /\ job[p].gen \in 1 .. Len(obj)
      /\ job[p].gen \in Gens
      /\ obj[job[p].gen].id \in Ids /\ (job[p].op # "restore" => p # "boot")
  BY <1>1, Working
<1>3. found # {} => p = "boot"
  BY <1>2 DEF Base, Booting, Ready
<1> QED BY <1>1, <1>2, <1>3, Backend DEF JobOK, Base, Registry

\* A put writes the bundle into the transaction of its own future, or a plain
\* statement into the tables while nobody has a transaction.
LEMMA PutEffect ==
  ASSUME Base, Transaction, NEW p \in Procs, DoPut(p), NEW j, j = job[p], NEW id,
         id = obj[j.gen].id
  PROVE  /\ Statements(p) /\ UNCHANGED <<conn, file, writers, clash>>
         /\ \/ /\ conn = p /\ InPut(backend, j) /\ InCommit(backend, job'[p]) /\ ~InPut(backend, job'[p])
               /\ tx = content /\ content' = content
               /\ tx' = Updated(content, id, Head(j.todo).rows) /\ Putting(Head(j.todo), j.gen)
               /\ Replacing(content, tx', id, j.gen, j.seen)
            \/ /\ conn # p /\ ~InPut(backend, j) /\ ~InCommit(backend, job'[p]) /\ ~InPut(backend, job'[p])
               /\ PlainPut(backend, j.op, j.gen, j.seen, Head(j.todo))
               /\ content' = Updated(content, id, Head(j.todo).rows) /\ tx' = tx
<1>1. Statements(p)
  BY IsStatement
<1>2. /\ j.op \in Ops /\ j.seen \in Versions /\ j.gen \in Gens /\ id \in Ids
      /\ Program(backend, j.op, j.gen, j.seen, j.todo) /\ j.todo # <<>>
      /\ backend \in {"sqlite", "memory", "json"}
  BY <1>1, AtStatement
<1>3. /\ Head(j.todo).do = "put" /\ UNCHANGED <<conn, file, writers, clash>>
      /\ conn = p => tx' = Updated(tx, id, Head(j.todo).rows) /\ content' = content
      /\ conn # p => content' = Updated(content, id, Head(j.todo).rows) /\ tx' = tx
  BY DEF DoPut, Running, Statement, View
<1>4. /\ job'[p].op = j.op /\ job'[p].gen = j.gen /\ job'[p].seen = j.seen
      /\ job'[p].todo = Tail(j.todo)
  BY <1>1, SteppedJob DEF Stepped
<1>5. \/ InPut(backend, j) /\ ~InCommit(backend, j) /\ ToCommit(Tail(j.todo), RowPuts(j.gen))
      \/ /\ PlainPut(backend, j.op, j.gen, j.seen, Head(j.todo)) /\ ~InPut(backend, j) /\ ~InCommit(backend, j)
         /\ backend = "sqlite" /\ j.op \in SaveOps =>
              ~ToPut(Tail(j.todo), RowPuts(j.gen), j.gen, j.seen) /\ ~ToCommit(Tail(j.todo), RowPuts(j.gen))
  BY <1>2, <1>3, StatementOf
<1>6. CASE conn = p
  <2>1. InPut(backend, j) \/ InCommit(backend, j)
    BY <1>6, ProcNames DEF Transaction
  <2>2. InPut(backend, j) /\ ~InCommit(backend, j) /\ ToCommit(Tail(j.todo), RowPuts(j.gen))
    BY <1>5, <2>1
  <2>3. tx = content
    BY <1>6, <2>2, ProcNames DEF Transaction
  <2>4. Putting(Head(j.todo), j.gen) /\ Bundled(Head(j.todo), j.gen, j.seen)
    BY <1>2, <2>2, TxStep DEF InPut
  <2>5. Replacing(content, Updated(content, id, Head(j.todo).rows), id, j.gen, j.seen)
    BY <1>2, <2>4, UpdatedBundle DEF Base, StoreTypes
  <2>6. InCommit(backend, job'[p]) /\ ~InPut(backend, job'[p])
    BY <1>2, <1>4, <2>2, TxOne DEF InCommit, InPut
  <2> QED BY <1>1, <1>3, <1>6, <2>2, <2>3, <2>4, <2>5, <2>6
<1>7. CASE conn # p
  <2>1. ~InPut(backend, j) /\ ~InCommit(backend, j)
    BY <1>7 DEF Transaction
  <2>2. ~InCommit(backend, job'[p]) /\ ~InPut(backend, job'[p])
    BY <1>4, <1>5, <2>1 DEF InCommit, InPut
  <2> QED BY <1>1, <1>3, <1>5, <1>7, <2>1, <2>2
<1> QED BY <1>6, <1>7

\* A put preserves Base.
LEMMA PutBase ==
  ASSUME Base, Transaction, NEW p \in Procs, DoPut(p)
  PROVE  Base'
<1>0. PICK j : j = job[p]
  OBVIOUS
<1> PICK id : id = obj[j.gen].id
  OBVIOUS
<1>1. /\ Statements(p) /\ UNCHANGED <<conn, file, writers, clash>>
  BY <1>0, PutEffect
<1>2. \/ conn = p /\ content' = content /\ tx' = Updated(content, id, Head(j.todo).rows) /\ Putting(Head(j.todo), j.gen)
      \/ /\ PlainPut(backend, j.op, j.gen, j.seen, Head(j.todo))
         /\ content' = Updated(content, id, Head(j.todo).rows) /\ tx' = tx
  BY <1>0, PutEffect
<1>3. /\ j.gen \in Gens /\ j.gen \in 1 .. Len(obj) /\ id \in Ids /\ j.copy \in Store
      /\ Owned(j.copy, obj) /\ j.seen \in Versions
      /\ found # {} => p = "boot" /\ j.op = "restore"
  BY <1>0, <1>1, AtStatement
<1>4. /\ content \in Store /\ tx \in Store /\ Owned(content, obj) /\ Owned(tx, obj)
      /\ Owned(file.rows, obj)
  BY DEF Base, StoreTypes, Registry
<1>5. PICK u : u = Updated(content, id, Head(j.todo).rows)
  OBVIOUS
<1>6. Putting(Head(j.todo), j.gen)
  BY <1>2 DEF PlainPut
<1>7. /\ u \in Store /\ Owned(u, obj)
      /\ \A i \in Ids : i # id => u[i] = content[i]
      /\ \A t \in Tables : u[id][t] = IF t \in DOMAIN Head(j.todo).rows THEN Head(j.todo).rows[t] ELSE content[id][t]
  <2>1. PICK g : g = j.gen
    OBVIOUS
  <2>2. PICK x : x = Head(j.todo)
    OBVIOUS
  <2>3. g \in Gens /\ Putting(x, g) /\ g \in 1 .. Len(obj) /\ obj[g].id = id
    BY <1>3, <1>6, <2>1, <2>2
  <2>4. /\ Updated(content, id, x.rows) \in Store
        /\ \A i \in Ids : i # id => Updated(content, id, x.rows)[i] = content[i]
        /\ \A t \in Tables : Updated(content, id, x.rows)[id][t] = IF t \in DOMAIN x.rows THEN x.rows[t] ELSE content[id][t]
    BY <1>3, <1>4, <2>3, UpdatedFacts
  <2>5. Owned(Updated(content, id, x.rows), obj)
    BY <1>3, <1>4, <2>3, UpdatedFacts
  <2> QED BY <2>2, <2>4, <2>5, <1>5
<1>8. content' \in Store /\ tx' \in Store /\ Owned(content', obj) /\ Owned(tx', obj)
  BY <1>2, <1>4, <1>5, <1>7
<1>9. job'[p].copy = j.copy
  <2>1. ~DoCopy(p) /\ ~DoWrite(p)
    BY DEF DoPut, DoCopy, DoWrite, Running
  <2> QED BY <1>0, <1>1, <2>1, SteppedJob
<1>10. ASSUME NEW i \in found
       PROVE  content'[i]["tasks"] # NoRow
  <2>1. content[i]["tasks"] # NoRow /\ i \in Ids /\ p = "boot" /\ j.op = "restore"
    BY <1>3 DEF Base, Booting, TaskTypes
  <2>2. CASE content' = content
    BY <2>1, <2>2
  <2>3. CASE content' = u /\ PlainPut(backend, j.op, j.gen, j.seen, Head(j.todo))
    <3>1. "tasks" \in DOMAIN Head(j.todo).rows => Head(j.todo).rows["tasks"] # NoRow
      BY <1>3, <2>1, <2>3, RowFacts DEF PlainPut
    <3>2. "tasks" \in Tables
      BY DEF Tables
    <3> QED BY <2>1, <2>3, <3>1, <3>2, <1>7
  <2> QED BY <1>2, <1>5, <2>2, <2>3
<1>11. StoreTypes'
  BY <1>1, <1>8 DEF Base, StoreTypes
<1> QED BY <1>1, <1>3, <1>4, <1>8, <1>9, <1>10, <1>11, StatementBase

\* begin: the next statement is the bundle.
LEMMA BeginEffect ==
  ASSUME Base, Transaction, NEW p \in Procs, DoBegin(p)
  PROVE  /\ Statements(p) /\ UNCHANGED <<content, file, writers, clash>> /\ conn = "none"
         /\ conn' = p /\ tx' = content
         /\ job'[p].copy = job[p].copy /\ InPut(backend, job'[p]) /\ ~InCommit(backend, job'[p])
         /\ job[p].op \in SaveOps /\ HasPut(Tail(job[p].todo))
<1>0. PICK j : j = job[p]
  OBVIOUS
<1>1. Statements(p)
  BY IsStatement
<1>2. /\ j.op \in Ops /\ j.seen \in Versions
      /\ Program(backend, j.op, j.gen, j.seen, j.todo) /\ j.todo # <<>>
      /\ backend \in {"sqlite", "memory", "json"}
  BY <1>0, <1>1, AtStatement
<1>3. /\ Head(j.todo).do = "begin" /\ UNCHANGED <<content, file, writers, clash>>
      /\ conn = "none" /\ conn' = p /\ tx' = content
  BY <1>0 DEF DoBegin, Running, Statement
<1>4. /\ job'[p].op = j.op /\ job'[p].gen = j.gen /\ job'[p].seen = j.seen
      /\ job'[p].todo = Tail(j.todo)
  BY <1>0, <1>1, SteppedJob DEF Stepped
<1>5. j.op \in SaveOps /\ backend = "sqlite" /\ ToPut(Tail(j.todo), RowPuts(j.gen), j.gen, j.seen)
  BY <1>2, <1>3, StatementOf
<1>6. InPut(backend, job'[p]) /\ ~InCommit(backend, job'[p])
  BY <1>2, <1>4, <1>5, TxOne DEF InPut, InCommit
<1>7. job'[p].copy = job[p].copy
  <2>1. ~DoCopy(p) /\ ~DoWrite(p)
    BY DEF DoBegin, DoCopy, DoWrite, Running
  <2> QED BY <1>1, <2>1, SteppedJob
<1>8. HasPut(Tail(j.todo))
  <2>1. PICK t : t = Tail(j.todo)
    OBVIOUS
  <2>2. /\ t # <<>> /\ Head(t).do = "put" /\ "tasks" \in DOMAIN Head(t).rows
        /\ ToCommit(Tail(t), RowPuts(j.gen))
    BY <1>2, <1>5, <2>1, TxStep
  <2>3. 1 \in DOMAIN t /\ t[1] = Head(t)
    <3>1. PICK S : j.todo \in Seq(S)
      BY <1>2, <1>5 DEF Program, Saving
    <3> QED BY <3>1, <2>1, <2>2, <1>2
  <2> QED BY <2>1, <2>2, <2>3 DEF HasPut
<1> QED BY <1>0, <1>1, <1>3, <1>5, <1>6, <1>7, <1>8

\* begin preserves Base.
LEMMA BeginBase ==
  ASSUME Base, Transaction, NEW p \in Procs, DoBegin(p)
  PROVE  Base'
<1>1. /\ Statements(p) /\ UNCHANGED <<content, file, writers, clash>> /\ conn' = p
      /\ tx' = content /\ job'[p].copy = job[p].copy
  BY BeginEffect
<1>2. job[p].copy \in Store /\ Owned(job[p].copy, obj)
  BY <1>1, AtStatement
<1>3. StoreTypes'
  BY <1>1 DEF Base, StoreTypes
<1>4. Owned(content', obj) /\ Owned(tx', obj) /\ Owned(file'.rows, obj) /\ \A id \in found : content'[id]["tasks"] # NoRow
  BY <1>1 DEF Base, Registry, Booting
<1> QED BY <1>1, <1>2, <1>3, <1>4, StatementBase

\* commit: what was in the transaction is the content with one bundle replaced.
LEMMA CommitEffect ==
  ASSUME Base, Transaction, NEW p \in Procs, DoCommit(p)
  PROVE  /\ Statements(p) /\ UNCHANGED <<file, writers, clash>> /\ conn = p /\ conn' = "none"
         /\ tx' = NoRows /\ content' = tx
         /\ job'[p].copy = job[p].copy /\ ~InPut(backend, job'[p]) /\ ~InCommit(backend, job'[p])
         /\ Replacing(content, content', obj[job[p].gen].id, job[p].gen, job[p].seen)
         /\ InCommit(backend, job[p])
<1>0. PICK j : j = job[p]
  OBVIOUS
<1>1. Statements(p)
  BY IsStatement
<1>2. /\ j.op \in Ops /\ j.seen \in Versions
      /\ Program(backend, j.op, j.gen, j.seen, j.todo) /\ j.todo # <<>>
      /\ backend \in {"sqlite", "memory", "json"}
  BY <1>0, <1>1, AtStatement
<1>3. /\ Head(j.todo).do = "commit" /\ UNCHANGED <<file, writers, clash>> /\ conn' = "none"
      /\ tx' = NoRows /\ content' = tx
  BY <1>0 DEF DoCommit, Running, Statement
<1>4. /\ job'[p].op = j.op /\ job'[p].gen = j.gen /\ job'[p].seen = j.seen
      /\ job'[p].todo = Tail(j.todo)
  BY <1>0, <1>1, SteppedJob DEF Stepped
<1>5. /\ InCommit(backend, j) /\ ~InPut(backend, j)
      /\ ~ToPut(Tail(j.todo), RowPuts(j.gen), j.gen, j.seen)
      /\ ~ToCommit(Tail(j.todo), RowPuts(j.gen))
  BY <1>2, <1>3, StatementOf
<1>6. ~InPut(backend, job'[p]) /\ ~InCommit(backend, job'[p])
  BY <1>4, <1>5 DEF InPut, InCommit
<1>7. job'[p].copy = job[p].copy
  <2>1. ~DoCopy(p) /\ ~DoWrite(p)
    BY DEF DoCommit, DoCopy, DoWrite, Running
  <2> QED BY <1>1, <2>1, SteppedJob
<1>8. conn = p /\ Replacing(content, tx, obj[job[p].gen].id, job[p].gen, job[p].seen)
  BY <1>0, <1>5, ProcNames DEF Transaction
<1> QED BY <1>0, <1>1, <1>3, <1>5, <1>6, <1>7, <1>8

\* commit preserves Base.
LEMMA CommitBase ==
  ASSUME Base, Transaction, NEW p \in Procs, DoCommit(p)
  PROVE  Base'
<1>1. /\ Statements(p) /\ UNCHANGED <<file, writers, clash>> /\ conn' = "none" /\ tx' = NoRows
      /\ content' = tx
      /\ job'[p].copy = job[p].copy
      /\ Replacing(content, content', obj[job[p].gen].id, job[p].gen, job[p].seen)
  BY CommitEffect
<1>2. /\ job[p].copy \in Store /\ Owned(job[p].copy, obj) /\ obj[job[p].gen].id \in Ids
      /\ job[p].gen \in Gens /\ job[p].seen \in Versions
  BY <1>1, AtStatement
<1>3. StoreTypes'
  BY <1>1, RowFacts DEF Base, StoreTypes
<1>4. Owned(content', obj) /\ Owned(tx', obj) /\ Owned(file'.rows, obj)
  BY <1>1, RowFacts DEF Base, Registry
<1>5. \A id \in found : content'[id]["tasks"] # NoRow
  <2>1. PICK i : i = obj[job[p].gen].id
    OBVIOUS
  <2>2. /\ \A id \in Ids : id # i => content'[id] = content[id]
        /\ content'[i]["tasks"] = Row(job[p].gen, job[p].seen)
    BY <1>1, <1>2, <2>1, ReplacingFacts DEF Base, StoreTypes
  <2>3. Row(job[p].gen, job[p].seen) # NoRow
    BY <1>2, RowFacts
  <2>4. \A id \in found : id \in Ids /\ content[id]["tasks"] # NoRow
    BY DEF Base, Booting, TaskTypes
  <2> QED BY <2>2, <2>3, <2>4
<1> QED BY <1>1, <1>2, <1>3, <1>4, <1>5, StatementBase

\* Only the JSON repository copies its state and writes a file.
LEMMA FileEffect ==
  ASSUME Base, NEW p \in Procs, DoCopy(p) \/ DoWrite(p)
  PROVE  /\ Statements(p) /\ UNCHANGED <<content, conn, tx>> /\ backend = "json"
         /\ ~InPut(backend, job'[p]) /\ ~InCommit(backend, job'[p])
<1>0. PICK j : j = job[p]
  OBVIOUS
<1>1. Statements(p)
  BY IsStatement
<1>2. /\ j.op \in Ops /\ j.seen \in Versions
      /\ Program(backend, j.op, j.gen, j.seen, j.todo) /\ j.todo # <<>>
      /\ backend \in {"sqlite", "memory", "json"}
  BY <1>0, <1>1, AtStatement
<1>3. /\ Head(j.todo).do \in {"copy", "write"} /\ UNCHANGED <<content, conn, tx>>
  BY <1>0 DEF DoCopy, DoWrite, Running, Statement
<1>5. backend = "json"
  BY <1>2, <1>3, StatementOf
<1> QED BY <1>1, <1>3, <1>5 DEF InPut, InCommit

\* The copy of the state in persist_state preserves Base.
LEMMA CopyBase ==
  ASSUME Base, NEW p \in Procs, DoCopy(p)
  PROVE  Base'
<1>1. /\ Statements(p) /\ UNCHANGED <<content, conn, tx>> /\ file' = file
      /\ writers' = writers \cup {p} /\ clash' = (writers # {})
  BY FileEffect DEF DoCopy
<1>2. job'[p].copy = content
  BY <1>1, SteppedJob
<1>3. StoreTypes'
  BY <1>1 DEF Base, StoreTypes
<1>4. /\ Owned(content', obj) /\ Owned(tx', obj) /\ Owned(file'.rows, obj)
      /\ (\A id \in found : content'[id]["tasks"] # NoRow)
      /\ job'[p].copy \in Store /\ Owned(job'[p].copy, obj)
  BY <1>1, <1>2 DEF Base, Registry, Booting, StoreTypes
<1> QED BY <1>1, <1>3, <1>4, StatementBase

\* Files that are whole, and files that are not.
LEMMA FileFacts ==
  /\ \A rows : JsonFile!Whole(rows).rows = rows /\ JsonFile!Whole(rows).state = "whole"
  /\ \A rows \in Store : JsonFile!Whole(rows) \in [state : {"whole", "empty", "torn"}, rows : Store]
  /\ \A f \in JsonFile!Damaged(NoRows) : f \in [state : {"whole", "empty", "torn"}, rows : Store] /\ f.rows = NoRows
<1>1. /\ \A rows : JsonFile!Whole(rows).rows = rows /\ JsonFile!Whole(rows).state = "whole"
      /\ \A rows \in Store : JsonFile!Whole(rows) \in [state : {"whole", "empty", "torn"}, rows : Store]
  BY DEF JsonFile!Whole
<1>2. JsonFile!EmptyTables(DOMAIN NoRows) = NoRows
  BY DEF JsonFile!EmptyTables, NoRows, EmptyTables, JsonFile!NoRow, NoRow, JsonFile!Tables, Tables
<1>3. \A f \in JsonFile!Damaged(NoRows) : f \in [state : {"whole", "empty", "torn"}, rows : Store] /\ f.rows = NoRows
  BY <1>2, RowFacts DEF JsonFile!Damaged
<1> QED BY <1>1, <1>3

\* The write of persist_state preserves Base.
LEMMA WriteBase ==
  ASSUME Base, NEW p \in Procs, DoWrite(p)
  PROVE  Base'
<1>1. /\ Statements(p) /\ UNCHANGED <<content, conn, tx>> /\ clash' = clash
      /\ writers' = writers \ {p}
  BY FileEffect DEF DoWrite
<1>2. job'[p].copy = NoRows
  <2>1. ~DoCopy(p)
    BY DEF DoWrite, DoCopy, Running
  <2> QED BY <1>1, <2>1, SteppedJob
<1>3. file' = JsonFile!Whole(job[p].copy) \/ file' \in JsonFile!Damaged(NoRows)
  BY DEF DoWrite
<1>4. job[p].copy \in Store /\ Owned(job[p].copy, obj)
  BY <1>1, AtStatement
<1>5. file' \in [state : {"whole", "empty", "torn"}, rows : Store] /\ Owned(file'.rows, obj)
  BY <1>3, <1>4, FileFacts, RowFacts
<1>6. StoreTypes'
  BY <1>1, <1>5 DEF Base, StoreTypes
<1>7. /\ Owned(content', obj) /\ Owned(tx', obj)
      /\ (\A id \in found : content'[id]["tasks"] # NoRow)
      /\ job'[p].copy \in Store /\ Owned(job'[p].copy, obj)
  BY <1>1, <1>2, RowFacts DEF Base, Registry, Booting, StoreTypes
<1> QED BY <1>1, <1>5, <1>6, <1>7, StatementBase

(* The gates that a future gives back *)
LEMMA GatesBack ==
  ASSUME Base, NEW p \in Procs
  PROVE  /\ Ungated(p) \in [Gens -> Procs \cup {"none"}]
         /\ \A q \in Procs, g \in 1 .. Len(obj) : q # p /\ gate[g] = q => Ungated(p)[g] = q
<1>1. gate \in [Gens -> Procs \cup {"none"}] /\ \A k \in 1 .. Len(obj) : k \in Gens
  BY Bounds DEF Base, TaskTypes, Gens
<1> QED BY <1>1 DEF Ungated

(* A future ends, one way or the other. *)
LEMMA EndBase ==
  ASSUME Base, NEW p \in Procs, Moves(p, Idle), scenario' = scenario, up' = up,
         found' \subseteq found, gate' = Ungated(p),
         NEW o2, obj' = o2, Rising(obj, o2), Len(o2) = Len(obj), StoreTypes', content' = content,
         tx' = tx \/ tx' = NoRows, file'.rows = file.rows \/ file'.rows = NoRows,
         tasks' \in [Ids -> 0 .. Len(obj)],
         \A id \in Ids : tasks'[id] # 0 => obj[tasks'[id]].id = id,
         events' \in Seq([id : Ids, due : BOOLEAN]), faults' \in 0 .. scenario.faults
  PROVE  Base'
<1>0. obj \in Seq(Objects) /\ Jobs /\ Grown(obj, o2) /\ o2 \in Seq(Objects) /\ Len(obj) \in Nat
  <2>1. obj \in Seq(Objects) /\ Jobs
    BY DEF Base, TaskTypes
  <2>2. Grown(obj, o2)
    BY DEF Rising
  <2>3. o2 \in Seq(Objects)
    BY <2>2 DEF Grown
  <2> QED BY <2>1, <2>2, <2>3, LenProperties
<1>1. Jobs'
  <2>1. Rising(obj, obj')
    OBVIOUS
  <2>2. PICK h : h = Ungated(p)
    OBVIOUS
  <2>3. gate' = h /\ \A q \in Procs, g \in 1 .. Len(obj) : q # p /\ gate[g] = q => h[g] = q
    BY <2>2, GatesBack
  <2>4. PICK j : j = Idle
    OBVIOUS
  <2> QED BY <1>0, <2>1, <2>3, <2>4, JobsStep
<1>2. TaskTypes'
  BY <1>0, GatesBack DEF Base, TaskTypes
<1>3. /\ Owned(content', o2) /\ Owned(tx', o2) /\ Owned(file'.rows, o2) /\ \A q \in Procs : Owned(job'[q].copy, o2)
  <2>1. Owned(content, o2) /\ Owned(tx, o2) /\ Owned(file.rows, o2) /\ \A q \in Procs : Owned(job[q].copy, o2)
    BY <1>0, OwnedKept DEF Base, Registry
  <2>2. \A q \in Procs : job'[q].copy = job[q].copy \/ job'[q].copy = NoRows
    BY IdleFacts DEF Moves
  <2> QED BY <2>1, <2>2, RowFacts
<1>4. /\ \A g \in 1 .. Len(o2) : o2[g].id <= g
      /\ \A id \in Ids : tasks'[id] # 0 => o2[tasks'[id]].id = id
  <2>1. \A id \in Ids : tasks'[id] # 0 => tasks'[id] \in 1 .. Len(obj)
    BY <1>0
  <2> QED BY <1>0, <2>1 DEF Base, Registry, Grown
<1>5. Registry'
  BY <1>3, <1>4 DEF Registry
<1>6. Booting'
  <2>1. ~Ready' => ~Ready
    BY DEF Ready
  <2>2. \A q \in Procs : job[q] = Idle => job'[q] = Idle
    BY DEF Moves
  <2> QED BY <2>1, <2>2, ProcNames DEF Base, Booting
<1> QED BY <1>1, <1>2, <1>5, <1>6 DEF Base

\* The object with the flag that its last change was announced.
Told(o, g, t) == [o EXCEPT ![g].told = t]

\* Setting the flag of an object changes nothing else.
LEMMA ToldObject ==
  ASSUME Base, NEW g \in 1 .. Len(obj), NEW t \in BOOLEAN, NEW o2, o2 = Told(obj, g, t)
  PROVE  /\ Rising(obj, o2) /\ Len(o2) = Len(obj)
         /\ o2[g].ver = obj[g].ver /\ o2[g].told = t
         /\ \A i \in 1 .. Len(obj) : i # g => o2[i] = obj[i]
<1>1. obj \in Seq(Objects) /\ obj[g] \in Objects /\ \A i \in 1 .. Len(obj) : obj[i].ver \in Nat
  BY ObjectFacts, Bounds DEF Base, TaskTypes, Versions
<1> DEFINE r == [obj[g] EXCEPT !.told = t]
<1>2. /\ r \in Objects /\ r.id = obj[g].id /\ r.spec = obj[g].spec /\ r.ver = obj[g].ver
      /\ r.told = t
  BY <1>1 DEF Objects
<1>3. o2 = [obj EXCEPT ![g] = r]
  BY DEF Told
<1> HIDE DEF r
<1>4. o2 \in Seq(Objects) /\ Len(o2) = Len(obj) /\ o2[g] = r /\ \A i \in 1 .. Len(obj) : i # g => o2[i] = obj[i]
  <2>1. PICK o3 : o3 = [obj EXCEPT ![g] = r]
    OBVIOUS
  <2>2. o3 \in Seq(Objects) /\ Len(o3) = Len(obj) /\ o3[g] = r /\ \A i \in 1 .. Len(obj) : i # g => o3[i] = obj[i]
    BY <1>1, <1>2, <2>1, ExceptSeq
  <2> QED BY <1>3, <2>1, <2>2
<1>5. Rising(obj, o2)
  BY <1>1, <1>2, <1>4 DEF Rising, Grown
<1> QED BY <1>2, <1>4, <1>5

(* What Return does, by the operation. *)
LEMMA ReturnEffect ==
  ASSUME Base, NEW p \in Procs, Return(p), NEW g, g = job[p].gen, NEW id, id = obj[g].id,
         NEW op, op = job[p].op
  PROVE  /\ up /\ job[p].step = "run" /\ job[p].todo = <<>> /\ Moves(p, Idle)
         /\ UNCHANGED <<scenario, up, faults>> /\ UNCHANGED store
         /\ gate' = Ungated(p) /\ g \in 1 .. Len(obj) /\ id \in Ids /\ op \in Ops
         /\ found' = IF op = "restore" THEN found \ {id} ELSE found
         /\ op \in {"add", "restore"} => tasks' = [tasks EXCEPT ![id] = g]
         /\ op = "delete" => tasks' = [tasks EXCEPT ![id] = 0]
         /\ op \notin {"add", "restore", "delete"} => tasks' = tasks
         /\ op = "told" => obj' = [obj EXCEPT ![g].told = TRUE] /\ events' = Append(events, [id |-> id, due |-> TRUE])
         /\ op # "told" => obj' = obj /\ events' = events
<1>1. job[p].step = "run"
  BY DEF Return
<1>2. g \in 1 .. Len(obj) /\ id \in Ids /\ op \in Ops
  BY <1>1, Working DEF JobOK
<1>3. Moves(p, Idle)
  BY Moving DEF Return, Base
<1> QED BY <1>1, <1>2, <1>3 DEF Return, Emit

\* The end of a program preserves Base.
LEMMA ReturnBase ==
  ASSUME Base, NEW p \in Procs, Return(p)
  PROVE  Base'
<1> PICK g : g = job[p].gen
  OBVIOUS
<1> PICK id : id = obj[g].id
  OBVIOUS
<1> PICK op : op = job[p].op
  OBVIOUS
<1>1. /\ Moves(p, Idle) /\ UNCHANGED <<scenario, up, faults>> /\ UNCHANGED store
      /\ gate' = Ungated(p) /\ g \in 1 .. Len(obj) /\ id \in Ids /\ op \in Ops
      /\ found' = IF op = "restore" THEN found \ {id} ELSE found
  BY ReturnEffect
<1>2. /\ op \in {"add", "restore"} => tasks' = [tasks EXCEPT ![id] = g]
      /\ op = "delete" => tasks' = [tasks EXCEPT ![id] = 0]
      /\ op \notin {"add", "restore", "delete"} => tasks' = tasks
  BY DEF Return
<1>3. /\ op = "told" => obj' = [obj EXCEPT ![g].told = TRUE] /\ events' = Append(events, [id |-> id, due |-> TRUE])
      /\ op # "told" => obj' = obj /\ events' = events
  BY DEF Return, Emit
<1>4. Len(obj) \in Nat /\ tasks \in [Ids -> 0 .. Len(obj)] /\ obj \in Seq(Objects)
  BY DEF Base, TaskTypes
<1>5. tasks' \in [Ids -> 0 .. Len(obj)] /\ \A k \in Ids : tasks'[k] # 0 => obj[tasks'[k]].id = k
  <2>1. CASE tasks' = [tasks EXCEPT ![id] = g]
    BY <1>1, <1>4, <2>1 DEF Base, Registry
  <2>2. CASE tasks' = [tasks EXCEPT ![id] = 0]
    BY <1>1, <1>4, <2>2 DEF Base, Registry
  <2>3. CASE tasks' = tasks
    BY <1>4, <2>3 DEF Base, Registry
  <2> QED BY <1>2, <2>1, <2>2, <2>3
<1>6. PICK o2 : o2 = obj'
  OBVIOUS
<1>7. Rising(obj, o2) /\ Len(o2) = Len(obj)
  <2>1. CASE op = "told"
    <3> PICK t \in BOOLEAN : t = TRUE
      OBVIOUS
    <3>1. o2 = Told(obj, g, t)
      BY <1>3, <1>6, <2>1 DEF Told
    <3>2. PICK o3 : o3 = Told(obj, g, t)
      OBVIOUS
    <3>3. Rising(obj, o3) /\ Len(o3) = Len(obj)
      BY <1>1, <3>2, ToldObject
    <3> QED BY <3>1, <3>2, <3>3
  <2>2. CASE op # "told"
    BY <1>3, <1>4, <1>6, <2>2, RisingSame
  <2> QED BY <2>1, <2>2
<1>8. /\ events' \in Seq([id : Ids, due : BOOLEAN]) /\ faults' \in 0 .. scenario.faults
      /\ found' \subseteq found
  BY <1>1, <1>3, EventFacts, FaultFacts
<1>9. StoreTypes' /\ content' = content /\ tx' = tx /\ file' = file
  BY <1>1 DEF Base, StoreTypes, store
<1> QED BY <1>1, <1>5, <1>6, <1>7, <1>8, <1>9, EndBase

\* What a failed statement does.
LEMMA AbortEffect ==
  ASSUME Base, NEW p \in Procs, job[p].step = "run", NEW g, g = job[p].gen, Abort(p, g), NEW o2,
         o2 = obj'
  PROVE  /\ Moves(p, Idle) /\ gate' = Ungated(p) /\ found' \subseteq found /\ g \in 1 .. Len(obj)
         /\ Rising(obj, o2) /\ Len(o2) = Len(obj) /\ ~o2[g].told
         /\ \A i \in 1 .. Len(obj) : i # g => o2[i] = obj[i]
         /\ events' \in Seq([id : Ids, due : BOOLEAN])
         /\ events' = events \/ events' = Append(events, [id |-> obj[g].id, due |-> TRUE])
         /\ UNCHANGED <<scenario, content, up, tasks>>
         /\ conn' = (IF conn = p THEN "none" ELSE conn) /\ tx' = (IF conn = p THEN NoRows ELSE tx)
         /\ writers' = writers \ {p} /\ clash' = (clash \/ p \in writers)
         /\ StoreTypes' /\ (file' = file \/ file'.rows = NoRows)
<1>1. /\ g \in 1 .. Len(obj) /\ obj[g].id \in Ids /\ obj \in Seq(Objects)
      /\ obj[g].ver \in Versions
  BY Working
<1>2. /\ job' = [job EXCEPT ![p] = Idle] /\ gate' = Ungated(p) /\ found' \subseteq found
      /\ UNCHANGED <<scenario, content, up, tasks>>
      /\ conn' = (IF conn = p THEN "none" ELSE conn) /\ tx' = (IF conn = p THEN NoRows ELSE tx)
      /\ writers' = writers \ {p} /\ clash' = (clash \/ p \in writers)
      /\ (file' = file \/ file' \in JsonFile!Damaged(NoRows))
  BY DEF Abort
<1>3. Moves(p, Idle)
  BY <1>2, Moving DEF Base
<1>4. StoreTypes' /\ (file' = file \/ file'.rows = NoRows)
  BY <1>2, FileFacts, RowFacts DEF Base, StoreTypes
<1> PICK f \in BOOLEAN : f = FALSE
  OBVIOUS
<1>5. \/ /\ obj[g].ver < scenario.changes
         /\ obj' = [obj EXCEPT ![g].ver = @ + 1, ![g].told = FALSE]
         /\ events' = Append(events, [id |-> obj[g].id, due |-> TRUE])
      \/ obj' = Told(obj, g, f) /\ events' = events
  BY DEF Abort, Emit, Told
<1>6. /\ events' \in Seq([id : Ids, due : BOOLEAN])
      /\ (events' = events \/ events' = Append(events, [id |-> obj[g].id, due |-> TRUE]))
  BY <1>1, <1>5, EventFacts
<1>7. Rising(obj, o2) /\ Len(o2) = Len(obj) /\ o2[g].told = f /\ \A i \in 1 .. Len(obj) : i # g => o2[i] = obj[i]
  <2>1. CASE /\ obj[g].ver < scenario.changes
             /\ obj' = [obj EXCEPT ![g].ver = @ + 1, ![g].told = FALSE]
    <3>1. obj[g].ver \in Nat /\ \A i \in 1 .. Len(obj) : obj[i].ver \in Nat
      BY <1>1, ObjectFacts, Bounds DEF Versions
    <3>2. PICK v : v = obj[g].ver + 1
      OBVIOUS
    <3>3. v \in Versions /\ obj[g].ver <= v
      <4>1. scenario.changes \in Nat /\ scenario.changes <= MaxVersion /\ MaxVersion \in Nat
        BY Bounds DEF Base, TaskTypes
      <4> QED BY <2>1, <3>1, <3>2, <4>1 DEF Versions
    <3>4. PICK o3 : o3 = Touch(obj, g, v, f)
      OBVIOUS
    <3>5. /\ Grown(obj, o3) /\ Len(o3) = Len(obj) /\ o3[g].ver = v /\ o3[g].told = f
          /\ \A i \in 1 .. Len(obj) : i # g => o3[i] = obj[i]
      BY <1>1, <3>3, <3>4, TouchFacts
    <3>6. Rising(obj, o3)
      BY <3>1, <3>3, <3>5 DEF Rising
    <3>7. o2 = o3
      BY <2>1, <3>2, <3>4 DEF Touch
    <3> QED BY <3>5, <3>6, <3>7
  <2>2. CASE obj' = Told(obj, g, f)
    <3>1. PICK o3 : o3 = Told(obj, g, f)
      OBVIOUS
    <3>2. /\ Rising(obj, o3) /\ Len(o3) = Len(obj) /\ o3[g].told = f /\ \A i \in 1 .. Len(obj) : i # g => o3[i] = obj[i]
      BY <1>1, <3>1, ToldObject
    <3> QED BY <2>2, <3>1, <3>2
  <2> QED BY <1>5, <2>1, <2>2
<1> QED BY <1>1, <1>2, <1>3, <1>4, <1>6, <1>7

\* A failed or refused statement preserves Base.
LEMMA AbortBase ==
  ASSUME Base, NEW p \in Procs, Fails(p) \/ Refuses(p)
  PROVE  Base'
<1>1. PICK g : g = job[p].gen
  OBVIOUS
<1>2. job[p].step = "run" /\ Abort(p, g)
  BY <1>1 DEF Fails, Refuses, Running
<1>3. PICK o2 : o2 = obj'
  OBVIOUS
<1>4. /\ Moves(p, Idle) /\ gate' = Ungated(p) /\ found' \subseteq found
      /\ Rising(obj, o2) /\ Len(o2) = Len(obj)
      /\ events' \in Seq([id : Ids, due : BOOLEAN])
      /\ UNCHANGED <<scenario, content, up, tasks>>
      /\ tx' = (IF conn = p THEN NoRows ELSE tx)
      /\ StoreTypes' /\ (file' = file \/ file'.rows = NoRows)
  BY <1>1, <1>2, <1>3, AbortEffect
<1>5. faults' \in 0 .. scenario.faults
  <2>1. faults' = faults \/ (faults' = faults + 1 /\ faults < scenario.faults)
    <3>1. Fails(p) => faults < scenario.faults /\ faults' = faults + 1
      BY Zenon DEF Fails
    <3>2. Refuses(p) => faults' = faults
      BY Zenon DEF Refuses
    <3> QED BY <3>1, <3>2
  <2>2. faults \in Nat /\ faults <= scenario.faults /\ scenario.faults \in Nat
    BY Bounds DEF Base, TaskTypes
  <2> QED BY <2>1, <2>2
<1>6. tasks' \in [Ids -> 0 .. Len(obj)] /\ \A id \in Ids : tasks'[id] # 0 => obj[tasks'[id]].id = id
  BY <1>4 DEF Base, TaskTypes, Registry
<1>7. (tx' = tx \/ tx' = NoRows) /\ (file'.rows = file.rows \/ file'.rows = NoRows)
  BY <1>4
<1> QED BY <1>3, <1>4, <1>5, <1>6, <1>7, EndBase

\* A crash preserves Base.
LEMMA CrashBase ==
  ASSUME Base, Crash
  PROVE  Base'
<1>1. /\ scenario' = scenario /\ obj' = obj /\ content' = content /\ up' = FALSE /\ found' = {}
      /\ conn' = "none"
      /\ tx' = NoRows /\ writers' = {} /\ clash' = FALSE /\ events' = <<>>
      /\ faults' = faults + 1 /\ faults < scenario.faults
      /\ tasks' = [id \in Ids |-> 0] /\ gate' = [g \in Gens |-> "none"]
      /\ job' = [p \in Procs |-> Idle]
      /\ (file' = file \/ file' \in JsonFile!Damaged(NoRows))
  BY DEF Crash
<1>2. StoreTypes'
  BY <1>1, FileFacts, RowFacts DEF Base, StoreTypes
<1>3. DOMAIN job' = Procs /\ \A p \in Procs : job'[p] = Idle
  BY <1>1
<1>4. Jobs'
  BY <1>3 DEF Jobs
<1>5. TaskTypes'
  <2>1. faults' \in 0 .. scenario.faults
    BY <1>1, Bounds DEF Base, TaskTypes
  <2>2. tasks' \in [Ids -> 0 .. Len(obj)] /\ gate' \in [Gens -> Procs \cup {"none"}]
    <3>1. Len(obj) \in Nat
      BY DEF Base, TaskTypes
    <3>2. 0 \in 0 .. Len(obj)
      BY <3>1
    <3> QED BY <1>1, <3>2
  <2>3. events' \in Seq([id : Ids, due : BOOLEAN])
    BY <1>1
  <2> QED BY <1>1, <2>1, <2>2, <2>3 DEF Base, TaskTypes
<1>6. Registry'
  <2>1. Owned(file'.rows, obj) /\ Owned(tx', obj) /\ \A p \in Procs : Owned(job'[p].copy, obj)
    BY <1>1, <1>3, FileFacts, RowFacts, IdleFacts DEF Base, Registry
  <2>2. \A id \in Ids : tasks'[id] = 0
    BY <1>1
  <2> QED BY <1>1, <2>1, <2>2 DEF Base, Registry
<1>7. Booting'
  BY <1>1, <1>3, ProcNames DEF Booting
<1> QED BY <1>2, <1>4, <1>5, <1>6, <1>7 DEF Base

(* What a new process loads *)
LEMMA LoadableFacts ==
  ASSUME Base, NEW rows \in Loadable
  PROVE  /\ rows = content \/ rows = NoRows \/ rows = file.rows
         /\ backend = "sqlite" => rows = content
         /\ backend = "memory" => rows = NoRows
         /\ backend = "json" => rows = file.rows
<1>1. backend \in {"sqlite", "memory", "json"}
  BY Backend DEF Base
<1>2. CASE backend = "sqlite"
  BY <1>2 DEF Loadable, Configured, Sqlite!Opened
<1>3. CASE backend = "memory"
  <2>1. DOMAIN content = Ids
    BY DEF Base, StoreTypes, Store
  <2>2. Loadable = {Memory!EmptyTables(Ids)}
    BY <1>3, <2>1 DEF Loadable, Configured, Memory!Opened
  <2>3. Memory!EmptyTables(Ids) = NoRows
    BY DEF Memory!EmptyTables, NoRows, EmptyTables, Memory!NoRow, NoRow, Memory!Tables, Tables
  <2> QED BY <1>3, <2>2, <2>3
<1>4. CASE backend = "json"
  BY <1>4 DEF Loadable, Configured, JsonFile!Opened
<1> QED BY <1>1, <1>2, <1>3, <1>4

\* Manager::init preserves Base: what is loaded has owners.
LEMMA OpenBase ==
  ASSUME Base, Open
  PROVE  Base'
<1>1. /\ UNCHANGED <<scenario, conn, tx, file, writers, clash, tasks, obj, gate, events, job, faults>>
      /\ content' \in Loadable /\ up' = TRUE /\ found' = Sqlite!LoadTasks(content') /\ ~up
  BY DEF Open
<1>2. content' = content \/ content' = NoRows \/ content' = file.rows
  BY <1>1, LoadableFacts
<1>3. content' \in Store /\ Owned(content', obj)
  BY <1>2, RowFacts DEF Base, StoreTypes, Registry
<1>4. found' = {id \in Ids : content'[id]["tasks"] # NoRow}
  BY <1>1, <1>3 DEF Sqlite!LoadTasks, Store, Sqlite!NoRow, NoRow
<1>5. StoreTypes'
  BY <1>1, <1>3 DEF Base, StoreTypes
<1>6. TaskTypes'
  BY <1>1, <1>4 DEF Base, TaskTypes
<1>7. Jobs' /\ Registry'
  BY <1>1, <1>3 DEF Base, Jobs, Registry, backend
<1>8. \A p \in Procs : job[p] = Idle
  BY <1>1 DEF Base, Booting, Ready
<1>9. Booting'
  BY <1>1, <1>4, <1>8 DEF Booting
<1> QED BY <1>5, <1>6, <1>7, <1>9 DEF Base

\* What restore_tasks does with a row: reject it, or start to add its object.
Restored(id, g, ver) ==
  \/ found' = found \ {id} /\ obj' = obj /\ job' = job
  \/ /\ found' = found /\ Moves("boot", Job("restore", "run", g, ver, Initialize(g, ver)))
     /\ ~SpecKnown(obj[g].spec)
     /\ Grown(obj, obj') /\ Len(obj') = Len(obj) /\ obj'[g].ver = ver /\ obj'[g].told = TRUE
     /\ \A i \in 1 .. Len(obj) : i # g => obj'[i] = obj[i]

\* restore_tasks works for the object the row is of, and only then for others.
LEMMA RestoreEffect ==
  ASSUME Base, NEW id \in Ids, Restore(id)
  PROVE  /\ up /\ id \in found /\ (\A p \in Procs : job[p] = Idle)
         /\ UNCHANGED <<scenario, up, tasks, gate, events, faults>>
         /\ UNCHANGED store
         /\ \E g \in 1 .. Len(obj), ver \in Versions :
              obj[g].id = id /\ content[id]["tasks"] = Row(g, ver) /\ Restored(id, g, ver)
<1>1. /\ up /\ id \in found /\ job["boot"] = Idle
      /\ UNCHANGED <<scenario, up, tasks, gate, events, faults>> /\ UNCHANGED store
  BY DEF Restore
<1>2. \A p \in Procs : job[p] = Idle
  BY <1>1 DEF Base, Booting, Ready
<1>3. PICK r : r = content[id]["tasks"]
  OBVIOUS
<1>4. "tasks" \in Tables /\ r # NoRow /\ r \in Rows
  BY <1>1, <1>3 DEF Base, Booting, StoreTypes, Store, Tables
<1>5. PICK g \in Gens, ver \in Versions : r = Row(g, ver)
  <2>1. r \in [gen : Gens, ver : 0 .. MaxVersion]
    BY <1>4 DEF Rows
  <2> QED BY <2>1 DEF Row, Versions
<1>6. r.gen = g /\ r.ver = ver
  BY <1>5, RowFacts
<1>7. g \in 1 .. Len(obj) /\ obj[g].id = id
  BY <1>3, <1>4, <1>6 DEF Base, Registry, Owned
<1>8. \/ found' = found \ {id} /\ obj' = obj /\ job' = job
      \/ /\ found' = found /\ job' = [job EXCEPT !["boot"] = Job("restore", "run", g, ver, Initialize(g, ver))]
         /\ obj' = Touch(obj, g, ver, TRUE) /\ ~SpecKnown(obj[g].spec)
  BY <1>3, <1>6 DEF Restore, Touch
<1>9. ASSUME /\ found' = found /\ job' = [job EXCEPT !["boot"] = Job("restore", "run", g, ver, Initialize(g, ver))]
             /\ obj' = Touch(obj, g, ver, TRUE) /\ ~SpecKnown(obj[g].spec)
      PROVE  Restored(id, g, ver)
  <2>1. Moves("boot", Job("restore", "run", g, ver, Initialize(g, ver)))
    BY <1>9, ProcNames, Moving DEF Base
  <2>2. obj \in Seq(Objects)
    BY DEF Base, TaskTypes
  <2>3. /\ Grown(obj, Touch(obj, g, ver, TRUE)) /\ Len(Touch(obj, g, ver, TRUE)) = Len(obj)
        /\ Touch(obj, g, ver, TRUE)[g].ver = ver /\ Touch(obj, g, ver, TRUE)[g].told = TRUE
        /\ \A i \in 1 .. Len(obj) : i # g => Touch(obj, g, ver, TRUE)[i] = obj[i]
    <3>1. \A t \in BOOLEAN :
            /\ Grown(obj, Touch(obj, g, ver, t)) /\ Len(Touch(obj, g, ver, t)) = Len(obj)
            /\ Touch(obj, g, ver, t)[g].ver = ver /\ Touch(obj, g, ver, t)[g].told = t
            /\ \A i \in 1 .. Len(obj) : i # g => Touch(obj, g, ver, t)[i] = obj[i]
      BY <1>7, <2>2, TouchAll
    <3> QED BY <3>1, TRUE \in BOOLEAN, Zenon
  <2> QED BY <1>9, <2>1, <2>3 DEF Restored
<1>10. Restored(id, g, ver)
  BY <1>8, <1>9 DEF Restored
<1> QED BY <1>1, <1>2, <1>3, <1>5, <1>7, <1>10

\* restore_tasks preserves Base.
LEMMA RestoreBase ==
  ASSUME Base, NEW id \in Ids, Restore(id)
  PROVE  Base'
<1>0. /\ up /\ id \in found /\ (\A p \in Procs : job[p] = Idle)
      /\ UNCHANGED <<scenario, up, tasks, gate, events, faults>>
      /\ UNCHANGED store
  BY RestoreEffect
<1> PICK g \in 1 .. Len(obj), ver \in Versions : obj[g].id = id /\ Restored(id, g, ver)
  BY RestoreEffect
<1> PICK o2 : o2 = obj'
  OBVIOUS
<1>1. /\ up /\ id \in found /\ (\A p \in Procs : job[p] = Idle)
      /\ UNCHANGED <<scenario, up, tasks, gate, events, faults>>
      /\ UNCHANGED store
      /\ \/ found' = found \ {id} /\ obj' = obj /\ job' = job
         \/ /\ found' = found /\ Moves("boot", Job("restore", "run", g, ver, Initialize(g, ver)))
            /\ Grown(obj, o2) /\ Len(o2) = Len(obj)
  BY <1>0 DEF Restored
<1>2. CASE found' = found \ {id} /\ obj' = obj /\ job' = job
  <2>1. StoreTypes' /\ TaskTypes' /\ Jobs' /\ Registry'
    BY <1>1, <1>2 DEF Base, StoreTypes, TaskTypes, Jobs, Registry, store, backend
  <2>2. Booting'
    BY <1>1, <1>2 DEF Base, Booting, store
  <2> QED BY <2>1, <2>2 DEF Base
<1>3. CASE /\ found' = found /\ Moves("boot", Job("restore", "run", g, ver, Initialize(g, ver)))
           /\ Grown(obj, o2) /\ Len(o2) = Len(obj)
  <2>0. PICK j : j = Job("restore", "run", g, ver, Initialize(g, ver))
    OBVIOUS
  <2>1. /\ DOMAIN j = {"op", "step", "gen", "seen", "todo", "copy"}
        /\ j.op = "restore" /\ j.step = "run" /\ j.gen = g /\ j.seen = ver
        /\ j.todo = Initialize(g, ver) /\ j.copy = NoRows
    BY <2>0, NewJob
  <2>2. Program(backend, j.op, j.gen, j.seen, j.todo)
    <3>1. Saving(backend, g, ver, Initialize(g, ver))
      BY <1>1, InitializeProgram, Backend DEF Base
    <3> QED BY <2>1, <3>1 DEF Program, SaveOps
  <2>3. JobOK(backend, "boot", j, o2, gate)
    BY <1>1, <1>3, <2>1, <2>2, RowFacts DEF JobOK, Ops, OwnerOps
  <2>4. DOMAIN job' = Procs /\ job'["boot"] = j /\ \A q \in Procs : q # "boot" => job'[q] = Idle
    BY <1>1, <1>3, <2>0 DEF Moves
  <2>5. backend' = backend
    BY <1>1 DEF backend
  <2>6. Jobs'
    BY <1>1, <2>3, <2>4, <2>5 DEF Jobs
  <2>7. /\ StoreTypes'
        /\ Owned(content, obj)' /\ Owned(tx, obj)' /\ Owned(file.rows, obj)'
        /\ (\A q \in Procs : Owned(job[q].copy, obj))'
    BY <1>1, <1>3, <2>0, <2>1, ProcNames, StoreFrame
  <2>8. /\ (\A i \in 1 .. Len(obj) : obj[i].id <= i)' /\ (tasks \in [Ids -> 0 .. Len(obj)])'
        /\ (\A k \in Ids : tasks[k] # 0 => obj[tasks[k]].id = k)'
    BY <1>1, <1>3, IdsFrame
  <2>9. TaskTypes'
    BY <1>1, <1>3, <2>8 DEF Base, TaskTypes, Grown
  <2>10. Booting'
    BY <1>1, <1>3, <2>4 DEF Base, Booting, store, Ready
  <2> QED BY <2>6, <2>7, <2>8, <2>9, <2>10 DEF Base, Registry
<1> QED BY <1>1, <1>2, <1>3

\* The first state.
LEMMA InitBase ==
  ASSUME Init
  PROVE  Base /\ Transaction
<1>1. \A p \in Procs : job[p] = Idle
  BY DEF Init
<1>2. StoreTypes
  BY FileFacts, RowFacts DEF Init, StoreTypes
<1>3. TaskTypes
  <2>1. /\ obj = <<>> /\ Len(obj) = 0 /\ obj \in Seq(Objects)
        /\ events \in Seq([id : Ids, due : BOOLEAN])
    BY DEF Init
  <2>2. tasks \in [Ids -> 0 .. 0] /\ gate \in [Gens -> Procs \cup {"none"}]
    BY DEF Init
  <2>3. scenario \in Scenarios /\ 0 <= scenario.objects /\ faults \in 0 .. scenario.faults
    <3>1. scenario \in Scenarios /\ faults = 0
      BY DEF Init
    <3> QED BY <3>1, Bounds
  <2> QED BY <2>1, <2>2, <2>3 DEF Init, TaskTypes
<1>4. Jobs
  BY <1>1 DEF Init, Jobs
<1>5. Registry
  <2>1. Owned(content, obj) /\ Owned(tx, obj) /\ Owned(file.rows, obj)
    BY FileFacts, RowFacts DEF Init
  <2>2. \A p \in Procs : Owned(job[p].copy, obj)
    BY <1>1, RowFacts, IdleFacts
  <2> QED BY <2>1, <2>2 DEF Init, Registry
<1>6. Booting
  BY <1>1 DEF Init, Booting, Ready
<1>7. Transaction
  BY <1>1, IdleFacts DEF Init, Transaction, InPut, InCommit, SaveOps
<1> QED BY <1>2, <1>3, <1>4, <1>5, <1>6, <1>7 DEF Base

\* A step that changes nothing preserves Base.
LEMMA StutterBase ==
  ASSUME Base, UNCHANGED vars
  PROVE  Base'
BY DEF Base, vars, StoreTypes, TaskTypes, Jobs, Registry, Booting, backend, Ready

(* The actions by name *)
LEMMA Actions ==
  ASSUME Next
  PROVE  \/ \E a \in scenario.admins, s \in scenario.specs : Add(a, s)
         \/ \E a \in scenario.admins, id \in Ids : Delete(a, id)
         \/ \E p \in scenario.owners, id \in Ids, op \in {"told", "silent"} : Change(p, id, op)
         \/ \E id \in Ids : Progress(id)
         \/ \E id \in Ids : WorkerLater(id)
         \/ LoopSaves \/ LoopSkips \/ Open \/ (\E id \in Ids : Restore(id)) \/ Crash
         \/ \E p \in Procs : ReadTask(p)
         \/ \E p \in Procs : ReadRest(p)
         \/ \E p \in Procs : DoPut(p)
         \/ \E p \in Procs : DoBegin(p)
         \/ \E p \in Procs : DoCommit(p)
         \/ \E p \in Procs : DoCopy(p)
         \/ \E p \in Procs : DoWrite(p)
         \/ \E p \in Procs : Return(p)
         \/ \E p \in Procs : Fails(p) \/ Refuses(p)
BY Zenon DEF Next, Call, Loop, Boot, Step

\* Every step preserves Base.  The transaction is needed for commit: it knows
\* what is in tx.
LEMMA BaseStep ==
  ASSUME Base, Transaction, [Next]_vars
  PROVE  Base'
<1>1. CASE UNCHANGED vars
  BY <1>1, StutterBase
<1>2. CASE Next
  BY <1>2, Actions, AddBase, DeleteBase, ChangeBase, ProgressBase, WorkerBase, LoopBase,
     SkipBase, OpenBase, RestoreBase, CrashBase,
     ReadTaskBase, ReadRestBase, PutBase, BeginBase, CommitBase, CopyBase, WriteBase, ReturnBase, AbortBase, Zenon
<1> QED BY <1>1, <1>2

-----------------------------------------------------------------------------
(* The transaction *)

Outside(b, j) == ~InPut(b, j) /\ ~InCommit(b, j)

(* The steps of a future outside of a transaction that leave the tables alone *)
LEMMA TxFrame ==
  ASSUME Base, Transaction, UNCHANGED <<scenario, content, conn, tx>>, Grown(obj, obj'),
         \A q \in Procs : job'[q] = job[q] \/ (conn # q /\ Outside(backend, job'[q]))
  PROVE  Transaction'
<1>1. backend' = backend
  BY DEF backend
<1>2. ASSUME NEW q \in Procs, InPut(backend, job'[q]) \/ InCommit(backend, job'[q])
      PROVE  conn = q
  <2>1. job'[q] = job[q]
    BY <1>2 DEF Outside
  <2> QED BY <1>2, <2>1 DEF Transaction
<1>3. ASSUME conn # "none"
      PROVE  /\ job'[conn] = job[conn]
             /\ InCommit(backend, job[conn]) => job[conn].gen \in 1 .. Len(obj) /\ obj'[job[conn].gen].id = obj[job[conn].gen].id
  <2>1. conn \in Procs
    BY <1>3 DEF Base, StoreTypes
  <2>2. job'[conn] = job[conn]
    BY <2>1
  <2>3. InCommit(backend, job[conn]) => job[conn] # Idle
    BY IdleFacts DEF InCommit, SaveOps
  <2>4. InCommit(backend, job[conn]) => job[conn].gen \in 1 .. Len(obj)
    BY <2>1, <2>3 DEF Base, Jobs, JobOK
  <2> QED BY <2>2, <2>4 DEF Grown
<1>4. conn # "none" =>
       \/ InPut(backend, job'[conn]) /\ tx = content
       \/ /\ InCommit(backend, job'[conn])
          /\ Replacing(content, tx, obj'[job'[conn].gen].id, job'[conn].gen, job'[conn].seen)
  <2> SUFFICES ASSUME conn # "none"
               PROVE  \/ InPut(backend, job'[conn]) /\ tx = content
                      \/ /\ InCommit(backend, job'[conn])
                         /\ Replacing(content, tx, obj'[job'[conn].gen].id, job'[conn].gen, job'[conn].seen)
    OBVIOUS
  <2>1. CASE InPut(backend, job[conn]) /\ tx = content
    BY <2>1, <1>3
  <2>2. CASE /\ InCommit(backend, job[conn])
             /\ Replacing(content, tx, obj[job[conn].gen].id, job[conn].gen, job[conn].seen)
    BY <2>2, <1>3
  <2> QED BY <2>1, <2>2 DEF Transaction
<1> QED BY <1>1, <1>2, <1>4 DEF Transaction

(* A future without a program has no transaction. *)
LEMMA NoProgram ==
  ASSUME NEW b, NEW j, j.todo = <<>>
  PROVE  Outside(b, j)
BY DEF Outside, InPut, InCommit, ToPut, ToCommit

\* A future that is not in a transaction does not have the connection.
LEMMA NotConnected ==
  ASSUME Base, Transaction, NEW p \in Procs, Outside(backend, job[p])
  PROVE  conn # p
BY ProcNames DEF Transaction, Outside

(* What a future starts or goes on with is not in a transaction yet. *)
LEMMA NewOutside ==
  ASSUME NEW b \in {"sqlite", "memory", "json"}, NEW j, j.seen \in Versions,
         \/ j.op \notin SaveOps
         \/ j.todo = <<>>
         \/ backend = b /\ j.todo = Initialize(j.gen, j.seen)
         \/ backend = b /\ \E l \in Versions : j.seen <= l /\ j.todo = SaveTask(j.gen, j.seen, l)
  PROVE  Outside(b, j)
<1>0. CASE b # "sqlite" \/ j.op \notin SaveOps \/ j.todo = <<>>
  BY <1>0, NoProgram DEF Outside, InPut, InCommit
<1>1. CASE b = "sqlite" /\ backend = b /\ j.todo = Initialize(j.gen, j.seen)
  <2> DEFINE g == j.gen  e == j.seen  s == j.todo
  <2>1. e \in e .. MaxVersion
    BY Bounds DEF Versions
  <2>2. s = <<Do("begin"), Put(Bundle(g, e, e)), Do("commit")>> \o <<PutOne("checksums", Row(g, e))>>
    BY <1>1 DEF Initialize, SaveTask, SaveChecksums, Configured, Sqlite!SaveBundle,
       Sqlite!SaveChecksum, Sqlite!Do, Do, Sqlite!Put, Put,
                Sqlite!Bundle, Bundle, Sqlite!Row, Row, Sqlite!Tables, Tables, Sqlite!PutOne, PutOne
  <2>3. Head(s) = Do("begin")
    BY <2>2, Joined
  <2>4. Head(s).do = "begin"
    BY <2>3, PutFacts
  <2> QED BY <2>4, TxStep DEF Outside, InPut, InCommit
<1>2. CASE b = "sqlite" /\ backend = b /\ \E l \in Versions : j.seen <= l /\ j.todo = SaveTask(j.gen, j.seen, l)
  <2> DEFINE g == j.gen  e == j.seen  s == j.todo
  <2>0. PICK l \in Versions : s = SaveTask(g, e, l)
    BY <1>2
  <2>1. s = <<Do("begin"), Put(Bundle(g, e, l)), Do("commit")>>
    BY <1>2, <2>0 DEF SaveTask, Configured, Sqlite!SaveBundle, Sqlite!Do, Do, Sqlite!Put, Put,
       Sqlite!Bundle, Bundle, Sqlite!Row, Row,
                Sqlite!Tables, Tables
  <2>2. Head(s) = Do("begin")
    BY <2>1
  <2>4. Head(s).do = "begin"
    BY <2>2, PutFacts
  <2> QED BY <2>4, TxStep DEF Outside, InPut, InCommit
<1> QED BY <1>0, <1>1, <1>2

(* A future that was idle starts. *)
Starts(p, op, step, g, e, s) == p \in Procs /\ job[p] = Idle /\ Moves(p, Job(op, step, g, e, s))

\* A future that starts leaves the transactions alone.
LEMMA StartTx ==
  ASSUME Base, Transaction, UNCHANGED <<scenario, content, conn, tx>>, Grown(obj, obj'),
         NEW p, NEW op, NEW step, NEW g, NEW e \in Versions, NEW s, Starts(p, op, step, g, e, s),
         op \notin SaveOps \/ s = <<>> \/ s = Initialize(g, e)
  PROVE  Transaction'
<1>1. /\ p \in Procs /\ job[p] = Idle /\ Moves(p, Job(op, step, g, e, s))
      /\ backend \in {"sqlite", "memory", "json"}
  BY Backend DEF Starts, Base
<1>2. conn # p
  BY <1>1, IdleFacts, NoProgram, NotConnected
<1>3. PICK j : j = Job(op, step, g, e, s)
  OBVIOUS
<1>4. j.op = op /\ j.gen = g /\ j.seen = e /\ j.todo = s
  BY <1>3, NewJob
<1>5. Outside(backend, j)
  BY <1>1, <1>4, NewOutside
<1>6. \A q \in Procs : job'[q] = job[q] \/ (conn # q /\ Outside(backend, job'[q]))
  BY <1>1, <1>2, <1>3, <1>5 DEF Moves
<1> QED BY <1>6, TxFrame

\* What an add does.
LEMMA AddEffect ==
  ASSUME Base, NEW a \in scenario.admins, NEW s \in scenario.specs, Add(a, s), NEW g,
         g = Len(obj) + 1
  PROVE  /\ Ready /\ UNCHANGED store
         /\ UNCHANGED <<scenario, up, found, tasks, gate, events, faults>>
         /\ Starts(a, "add", "run", g, 0, Initialize(g, 0)) /\ a \in Admins
         /\ Grown(obj, obj') /\ Len(obj') = g /\ (\A i \in 1 .. Len(obj) : obj'[i] = obj[i])
         /\ obj'[g].ver = 0 /\ obj'[g].id \in Ids /\ obj'[g].id \notin Known
<1>0. /\ a \in Admins /\ s \in Specs /\ a \in Procs /\ obj \in Seq(Objects) /\ Len(obj) \in Nat
  BY Bounds, ProcNames DEF Base, TaskTypes
<1>1. /\ Ready /\ job[a] = Idle /\ Len(obj) < scenario.objects /\ UNCHANGED store
      /\ UNCHANGED <<scenario, up, found, tasks, gate, events, faults>>
  BY DEF Add, Free
<1>2. NextId \in Ids /\ NextId \notin Known
  BY <1>1, NextIdFacts
<1>3. PICK r : r = [id |-> NextId, spec |-> s, ver |-> 0, told |-> TRUE]
  OBVIOUS
<1>4. r \in Objects /\ r.id = NextId /\ r.ver = 0
  BY <1>0, <1>2, <1>3, Bounds DEF Objects, Versions
<1>5. obj' = Append(obj, r)
  BY <1>3 DEF Add
<1>6. PICK o2 : o2 = obj'
  OBVIOUS
<1>7. /\ Grown(obj, o2) /\ Len(o2) = Len(obj) + 1 /\ o2[Len(obj) + 1] = r
      /\ (\A i \in 1 .. Len(obj) : o2[i] = obj[i])
  BY <1>0, <1>4, <1>5, <1>6 DEF Grown
<1>8. Starts(a, "add", "run", g, 0, Initialize(g, 0))
  <2>1. job' = [job EXCEPT ![a] = Job("add", "run", g, 0, Initialize(g, 0))]
    BY DEF Add
  <2> QED BY <1>0, <1>1, <2>1, Moving DEF Starts, Base
<1> QED BY <1>0, <1>1, <1>2, <1>4, <1>6, <1>7, <1>8

\* What a delete does at first.
LEMMA DeleteEffect ==
  ASSUME Base, NEW a \in scenario.admins, NEW id \in Ids, Delete(a, id)
  PROVE  /\ Ready /\ UNCHANGED store
         /\ UNCHANGED <<scenario, up, found, tasks, obj, gate, events, faults>>
         /\ Starts(a, "delete", "run", tasks[id], 0, Purge) /\ a \in Admins /\ id \in Known
<1>0. a \in Admins /\ a \in Procs
  BY ProcNames DEF Base, TaskTypes
<1> QED BY <1>0, Moving DEF Delete, Free, Starts, Base

\* The object after a change.
Changed(o, g) == [o EXCEPT ![g].ver = @ + 1, ![g].told = FALSE]

\* ChangedObject for all tasks in the map.
LEMMA ChangedAll ==
  ASSUME Base
  PROVE  \A id \in Known : obj[tasks[id]].ver < scenario.changes =>
           /\ Rising(obj, Changed(obj, tasks[id])) /\ Len(Changed(obj, tasks[id])) = Len(obj)
           /\ ~Changed(obj, tasks[id])[tasks[id]].told
           /\ \A i \in 1 .. Len(obj) : i # tasks[id] => Changed(obj, tasks[id])[i] = obj[i]
<1> SUFFICES ASSUME NEW id \in Known, obj[tasks[id]].ver < scenario.changes
             PROVE  /\ Rising(obj, Changed(obj, tasks[id]))
                    /\ Len(Changed(obj, tasks[id])) = Len(obj)
                    /\ ~Changed(obj, tasks[id])[tasks[id]].told
                    /\ \A i \in 1 .. Len(obj) : i # tasks[id] => Changed(obj, tasks[id])[i] = obj[i]
  OBVIOUS
<1>1. PICK o2 : o2 = [obj EXCEPT ![tasks[id]].ver = @ + 1, ![tasks[id]].told = FALSE]
  OBVIOUS
<1>2. Rising(obj, o2) /\ Len(o2) = Len(obj)
  BY <1>1, ChangedObject
<1>3. ~o2[tasks[id]].told
  BY <1>1, ChangedObject
<1>4. \A i \in 1 .. Len(obj) : i # tasks[id] => o2[i] = obj[i]
  BY <1>1, ChangedObject
<1>5. o2 = Changed(obj, tasks[id])
  BY <1>1 DEF Changed
<1> QED BY <1>2, <1>3, <1>4, <1>5

\* What a change does.
LEMMA ChangeEffect ==
  ASSUME Base, NEW p \in scenario.owners, NEW id \in Ids, NEW op \in {"told", "silent"},
         Change(p, id, op)
  PROVE  /\ Ready /\ UNCHANGED store
         /\ UNCHANGED <<scenario, up, found, tasks, gate, events, faults>>
         /\ Starts(p, op, "gate", tasks[id], 0, <<>>) /\ p \in Owners /\ id \in Known
         /\ Rising(obj, obj') /\ Len(obj') = Len(obj) /\ ~obj'[tasks[id]].told
         /\ \A i \in 1 .. Len(obj) : i # tasks[id] => obj'[i] = obj[i]
<1>0. p \in Owners /\ p \in Procs
  BY ProcNames DEF Base, TaskTypes
<1>1. /\ Ready /\ UNCHANGED store
      /\ UNCHANGED <<scenario, up, found, tasks, gate, events, faults>>
      /\ Starts(p, op, "gate", tasks[id], 0, <<>>) /\ id \in Known
      /\ obj[tasks[id]].ver < scenario.changes
      /\ obj' = Changed(obj, tasks[id])
  BY <1>0, Moving DEF Changed, Change, Free, Starts, Base
<1>2. /\ Rising(obj, obj') /\ Len(obj') = Len(obj) /\ ~obj'[tasks[id]].told
      /\ \A i \in 1 .. Len(obj) : i # tasks[id] => obj'[i] = obj[i]
  <2>1. /\ Rising(obj, Changed(obj, tasks[id])) /\ Len(Changed(obj, tasks[id])) = Len(obj)
        /\ ~Changed(obj, tasks[id])[tasks[id]].told
        /\ \A i \in 1 .. Len(obj) : i # tasks[id] => Changed(obj, tasks[id])[i] = obj[i]
    BY <1>1, ChangedAll
  <2> QED BY <1>1, <2>1
<1> QED BY <1>0, <1>1, <1>2

\* What progress does.
LEMMA ProgressEffect ==
  ASSUME Base, NEW id \in Ids, Progress(id)
  PROVE  /\ Ready /\ UNCHANGED store
         /\ UNCHANGED <<scenario, up, found, tasks, gate, job, faults>>
         /\ id \in Known /\ events' = Append(events, [id |-> id, due |-> FALSE])
         /\ Rising(obj, obj') /\ Len(obj') = Len(obj) /\ ~obj'[tasks[id]].told
         /\ \A i \in 1 .. Len(obj) : i # tasks[id] => obj'[i] = obj[i]
<1>1. /\ Ready /\ UNCHANGED store /\ UNCHANGED <<scenario, up, found, tasks, gate, job, faults>>
      /\ id \in Known /\ events' = Append(events, [id |-> id, due |-> FALSE])
      /\ obj[tasks[id]].ver < scenario.changes
      /\ obj' = Changed(obj, tasks[id])
  BY DEF Changed, Progress, Emit
<1>2. /\ Rising(obj, obj') /\ Len(obj') = Len(obj) /\ ~obj'[tasks[id]].told
      /\ \A i \in 1 .. Len(obj) : i # tasks[id] => obj'[i] = obj[i]
  <2>1. /\ Rising(obj, Changed(obj, tasks[id])) /\ Len(Changed(obj, tasks[id])) = Len(obj)
        /\ ~Changed(obj, tasks[id])[tasks[id]].told
        /\ \A i \in 1 .. Len(obj) : i # tasks[id] => Changed(obj, tasks[id])[i] = obj[i]
    BY <1>1, ChangedAll
  <2> QED BY <1>1, <2>1
<1> QED BY <1>1, <1>2

\* What the save of a worker does at first.
LEMMA WorkerEffect ==
  ASSUME Base, NEW id \in Ids, WorkerLater(id)
  PROVE  /\ Ready /\ UNCHANGED store
         /\ UNCHANGED <<scenario, up, found, tasks, obj, gate, events, faults>>
         /\ \E s : Starts("late", "worker", "run", tasks[id], 0, s)
         /\ id \in Known
BY ProcNames, Moving DEF WorkerLater, Free, Starts, Base

\* What the loop does when it saves.
LEMMA LoopEffect ==
  ASSUME Base, LoopSaves
  PROVE  /\ Ready /\ UNCHANGED store
         /\ UNCHANGED <<scenario, up, found, tasks, obj, gate, faults>>
         /\ events # <<>> /\ events' = Tail(events) /\ Head(events).id \in Known
         /\ Starts("loop", "save", "rest", tasks[Head(events).id], obj[tasks[Head(events).id]].ver, <<>>)
BY ProcNames, Moving DEF LoopSaves, Free, Starts, Base

\* What reading the task row does.
LEMMA ReadTaskEffect ==
  ASSUME Base, NEW p \in Procs, ReadTask(p), NEW g, g = job[p].gen, NEW j, j = job'[p]
  PROVE  /\ Ready /\ UNCHANGED store
         /\ UNCHANGED <<scenario, up, found, tasks, obj, events, faults>>
         /\ job[p].step = "gate" /\ job[p].op \in OwnerOps /\ job[p].todo = <<>>
         /\ g \in 1 .. Len(obj) /\ p \in Owners
         /\ Moves(p, j) /\ j.op = job[p].op /\ j.step = "rest" /\ j.gen = g
         /\ j.seen = obj[g].ver /\ j.todo = <<>> /\ j.copy = job[p].copy
         /\ gate[g] = "none" /\ gate' = [gate EXCEPT ![g] = p]
<1>1. /\ up /\ job[p].step = "gate" /\ UNCHANGED store
      /\ UNCHANGED <<scenario, up, found, tasks, obj, events, faults>>
      /\ gate[g] = "none" /\ gate' = [gate EXCEPT ![g] = p]
  BY DEF ReadTask
<1>2. PICK i : i = job[p]
  OBVIOUS
<1>3. JobOK(backend, p, i, obj, gate) /\ g \in 1 .. Len(obj)
  BY <1>1, <1>2, Working
<1>4. /\ i.op \in OwnerOps /\ i.todo = <<>> /\ p \in Owners
      /\ DOMAIN i = {"op", "step", "gen", "seen", "todo", "copy"}
  BY <1>1, <1>2, <1>3 DEF JobOK
<1>5. Ready
  BY <1>1, <1>2, <1>4, Working DEF OwnerOps
<1>6. PICK k : k = [i EXCEPT !.step = "rest", !.seen = obj[g].ver]
  OBVIOUS
<1>7. /\ k.op = i.op /\ k.step = "rest" /\ k.gen = g /\ k.seen = obj[g].ver /\ k.todo = <<>>
      /\ k.copy = i.copy
  BY <1>2, <1>4, <1>6
<1>8. job' = [job EXCEPT ![p] = k]
  BY <1>2, <1>6 DEF ReadTask
<1>9. Moves(p, k) /\ job'[p] = k
  BY <1>8, Moving DEF Base, Moves
<1> QED BY <1>1, <1>2, <1>3, <1>4, <1>5, <1>7, <1>9

\* What reading the other rows does.
LEMMA ReadRestEffect ==
  ASSUME Base, NEW p \in Procs, ReadRest(p), NEW g, g = job[p].gen, NEW j, j = job'[p]
  PROVE  /\ Ready /\ UNCHANGED store
         /\ UNCHANGED <<scenario, up, found, tasks, obj, gate, events, faults>>
         /\ job[p].step = "rest" /\ job[p].op \in OwnerOps \cup {"save"} /\ job[p].todo = <<>>
         /\ g \in 1 .. Len(obj)
         /\ Moves(p, j) /\ j.op = job[p].op /\ j.step = "run" /\ j.gen = g
         /\ j.seen = job[p].seen /\ j.seen \in Versions
         /\ j.todo = SaveTask(g, j.seen, obj[g].ver) /\ obj[g].ver \in Versions
         /\ j.seen <= obj[g].ver
         /\ j.copy = job[p].copy
<1>1. /\ up /\ job[p].step = "rest" /\ UNCHANGED store
      /\ UNCHANGED <<scenario, up, found, tasks, obj, gate, events, faults>>
  BY DEF ReadRest
<1>2. PICK i : i = job[p]
  OBVIOUS
<1>3. JobOK(backend, p, i, obj, gate) /\ g \in 1 .. Len(obj) /\ obj[g].ver \in Versions
  BY <1>1, <1>2, Working
<1>4. /\ i.op \in OwnerOps \cup {"save"} /\ i.todo = <<>>
      /\ DOMAIN i = {"op", "step", "gen", "seen", "todo", "copy"}
      /\ i.seen \in Versions /\ i.seen <= obj[g].ver
  BY <1>1, <1>2, <1>3 DEF JobOK
<1>5. Ready
  BY <1>1, <1>2, <1>4, Working DEF OwnerOps
<1>6. PICK k : k = [i EXCEPT !.step = "run", !.todo = SaveTask(g, i.seen, obj[g].ver)]
  OBVIOUS
<1>7. /\ k.op = i.op /\ k.step = "run" /\ k.gen = g /\ k.seen = i.seen
      /\ k.todo = SaveTask(g, i.seen, obj[g].ver) /\ k.copy = i.copy
  BY <1>2, <1>4, <1>6
<1>8. job' = [job EXCEPT ![p] = k]
  BY <1>2, <1>6 DEF ReadRest
<1>9. Moves(p, k) /\ job'[p] = k
  BY <1>8, Moving DEF Base, Moves
<1> QED BY <1>1, <1>2, <1>3, <1>4, <1>5, <1>7, <1>9

\* The parts of the store.
LEMMA StoreSame == UNCHANGED store => UNCHANGED <<content, conn, tx, file, writers, clash>>
BY DEF store

\* Calls preserve Transaction.
LEMMA CallTx ==
  ASSUME Base, Transaction,
         \/ \E a \in scenario.admins, s \in scenario.specs : Add(a, s)
         \/ \E a \in scenario.admins, id \in Ids : Delete(a, id)
         \/ \E p \in scenario.owners, id \in Ids, op \in {"told", "silent"} : Change(p, id, op)
         \/ \E id \in Ids : WorkerLater(id)
         \/ LoopSaves
  PROVE  Transaction'
<1>0. obj \in Seq(Objects) /\ 0 \in Versions /\ Grown(obj, obj)
  BY Bounds, RisingSame DEF Base, TaskTypes, Versions, Rising
<1>1. ASSUME NEW a \in scenario.admins, NEW s \in scenario.specs, Add(a, s)
      PROVE  Transaction'
  <2>1. PICK g : g = Len(obj) + 1
    OBVIOUS
  <2>2. /\ Starts(a, "add", "run", g, 0, Initialize(g, 0)) /\ UNCHANGED store
        /\ scenario' = scenario /\ Grown(obj, obj')
    BY <1>1, <2>1, AddEffect
  <2> QED BY <1>0, <2>2, StoreSame, StartTx
<1>2. ASSUME NEW a \in scenario.admins, NEW id \in Ids, Delete(a, id)
      PROVE  Transaction'
  <2>2. /\ Starts(a, "delete", "run", tasks[id], 0, Purge) /\ UNCHANGED store
        /\ scenario' = scenario /\ Grown(obj, obj')
    BY <1>0, <1>2, DeleteEffect
  <2>3. "delete" \notin SaveOps
    BY DEF SaveOps
  <2> QED BY <1>0, <2>2, <2>3, StoreSame, StartTx
<1>3. ASSUME NEW p \in scenario.owners, NEW id \in Ids, NEW op \in {"told", "silent"},
             Change(p, id, op)
      PROVE  Transaction'
  <2>2. /\ Starts(p, op, "gate", tasks[id], 0, <<>>) /\ UNCHANGED store /\ scenario' = scenario
        /\ Grown(obj, obj')
    BY <1>3, ChangeEffect DEF Rising
  <2> QED BY <1>0, <2>2, StoreSame, StartTx
<1>4. ASSUME NEW id \in Ids, WorkerLater(id)
      PROVE  Transaction'
  <2>2. PICK s : Starts("late", "worker", "run", tasks[id], 0, s)
    BY <1>4, WorkerEffect
  <2>3. UNCHANGED store /\ scenario' = scenario /\ Grown(obj, obj')
    BY <1>0, <1>4, WorkerEffect
  <2>4. "worker" \notin SaveOps
    BY DEF SaveOps
  <2> QED BY <1>0, <2>2, <2>3, <2>4, StoreSame, StartTx
<1>5. ASSUME LoopSaves
      PROVE  Transaction'
  <2>1. PICK g : g = tasks[Head(events).id]
    OBVIOUS
  <2>2. /\ Starts("loop", "save", "rest", g, obj[g].ver, <<>>) /\ UNCHANGED store
        /\ scenario' = scenario /\ Grown(obj, obj')
    BY <1>0, <1>5, <2>1, LoopEffect
  <2>3. obj[g].ver \in Versions
    BY <1>0, <1>5, <2>1, LoopEffect, KnownFacts, ObjectFacts
  <2> QED BY <2>2, <2>3, StoreSame, StartTx
<1> QED BY <1>1, <1>2, <1>3, <1>4, <1>5

\* Steps without a future preserve Transaction.
LEMMA QuietTx ==
  ASSUME Base, Transaction, Grown(obj, obj'), UNCHANGED <<scenario, job>>, UNCHANGED store
  PROVE  Transaction'
BY StoreSame, TxFrame

\* Reading preserves Transaction.
LEMMA ReadTx ==
  ASSUME Base, Transaction, NEW p \in Procs, ReadTask(p) \/ ReadRest(p)
  PROVE  Transaction'
<1> DEFINE g == job[p].gen  j == job'[p]
<1>0. obj \in Seq(Objects) /\ Grown(obj, obj) /\ backend \in {"sqlite", "memory", "json"}
  BY RisingSame, Backend DEF Base, TaskTypes, Rising
<1>1. job[p].todo = <<>> /\ Moves(p, j) /\ UNCHANGED store /\ scenario' = scenario /\ obj' = obj
  BY ReadTaskEffect, ReadRestEffect
<1>2. Outside(backend, j)
  <2>1. CASE ReadTask(p)
    BY <2>1, ReadTaskEffect, NoProgram
  <2>2. CASE ReadRest(p)
    <3>1. /\ j.seen \in Versions /\ j.gen = g /\ j.todo = SaveTask(g, j.seen, obj[g].ver)
          /\ obj[g].ver \in Versions /\ j.seen <= obj[g].ver
      BY <2>2, ReadRestEffect
    <3> HIDE DEF j, g
    <3> QED BY <1>0, <3>1, NewOutside
  <2> QED BY <2>1, <2>2
<1>3. conn # p
  BY <1>1, NoProgram, NotConnected
<1>4. \A q \in Procs : job'[q] = job[q] \/ (conn # q /\ Outside(backend, job'[q]))
  BY <1>1, <1>2, <1>3 DEF Moves
<1> QED BY <1>0, <1>1, <1>4, StoreSame, TxFrame

\* Statements preserve Transaction: begin finds the connection free, the bundle goes
\* into tx, commit takes it out, and a plain statement of another future waits.
LEMMA StatementTx ==
  ASSUME Base, Transaction, NEW p \in Procs,
         DoPut(p) \/ DoBegin(p) \/ DoCommit(p) \/ DoCopy(p) \/ DoWrite(p)
  PROVE  Transaction'
<1>0. obj \in Seq(Objects) /\ Grown(obj, obj) /\ p # "none"
  BY RisingSame, ProcNames DEF Base, TaskTypes, Rising
<1>1. Statements(p)
  BY IsStatement
<1>2. scenario' = scenario /\ obj' = obj /\ backend' = backend
  BY <1>1 DEF Statements, others, backend
<1>3. /\ \A q \in Procs : q # p => job'[q] = job[q]
      /\ job'[p].op = job[p].op /\ job'[p].gen = job[p].gen /\ job'[p].seen = job[p].seen
  BY <1>1, SteppedJob DEF Stepped, Moves
<1>4. CASE DoPut(p)
  <2>1. PICK j : j = job[p]
    OBVIOUS
  <2>2. PICK id : id = obj[j.gen].id
    OBVIOUS
  <2>3. conn' = conn
    BY <1>4, <2>1, <2>2, PutEffect
  <2>4. CASE /\ conn = p /\ InCommit(backend, job'[p]) /\ ~InPut(backend, job'[p])
             /\ content' = content /\ Replacing(content, tx', id, j.gen, j.seen)
    <3>1. \A q \in Procs : InPut(backend, job'[q]) \/ InCommit(backend, job'[q]) => conn = q
      BY <1>3, <2>4 DEF Transaction
    <3> QED BY <1>2, <1>3, <2>1, <2>2, <2>3, <2>4, <3>1 DEF Transaction
  <2>5. CASE /\ conn # p /\ ~InCommit(backend, job'[p]) /\ ~InPut(backend, job'[p]) /\ tx' = tx
             /\ Connected(p)
    <3>1. \A q \in Procs : InPut(backend, job'[q]) \/ InCommit(backend, job'[q]) => conn = q
      BY <1>3, <2>5 DEF Transaction
    <3>2. conn = "none"
      <4>1. CASE backend = "sqlite"
        BY <2>5, <4>1 DEF Connected
      <4>2. CASE backend # "sqlite"
        BY <4>2 DEF Transaction, InPut, InCommit
      <4> QED BY <4>1, <4>2
    <3> QED BY <1>2, <2>3, <3>1, <3>2 DEF Transaction
  <2>6. Connected(p)
    BY <1>4 DEF DoPut
  <2> QED BY <1>4, <2>1, <2>2, <2>4, <2>5, <2>6, PutEffect
<1>5. CASE DoBegin(p)
  <2>1. /\ conn = "none" /\ conn' = p /\ tx' = content /\ content' = content
        /\ InPut(backend, job'[p]) /\ ~InCommit(backend, job'[p])
    BY <1>5, BeginEffect
  <2>2. \A q \in Procs : InPut(backend, job'[q]) \/ InCommit(backend, job'[q]) => q = p
    BY <1>3, <2>1, ProcNames DEF Transaction
  <2> QED BY <1>2, <2>1, <2>2 DEF Transaction
<1>6. CASE DoCommit(p)
  <2>1. conn = p /\ conn' = "none" /\ ~InPut(backend, job'[p]) /\ ~InCommit(backend, job'[p])
    BY <1>6, CommitEffect
  <2>2. \A q \in Procs : ~InPut(backend, job'[q]) /\ ~InCommit(backend, job'[q])
    BY <1>3, <2>1 DEF Transaction
  <2> QED BY <1>2, <2>1, <2>2 DEF Transaction
<1>7. CASE DoCopy(p) \/ DoWrite(p)
  <2>1. backend = "json" /\ UNCHANGED <<content, conn, tx>> /\ Outside(backend, job'[p])
    BY <1>7, FileEffect DEF Outside
  <2>2. conn # p
    <3>1. Outside(backend, job[p])
      BY <2>1 DEF Outside, InPut, InCommit
    <3> QED BY <3>1, NotConnected
  <2>3. \A q \in Procs : job'[q] = job[q] \/ (conn # q /\ Outside(backend, job'[q]))
    BY <1>3, <2>1, <2>2
  <2> QED BY <1>0, <1>2, <2>1, <2>3, TxFrame
<1> QED BY <1>4, <1>5, <1>6, <1>7

(* All futures are idle: nobody has the connection. *)
LEMMA IdleTx ==
  ASSUME Base, Transaction, \A q \in Procs : job[q] = Idle
  PROVE  conn = "none"
<1>1. \A q \in Procs : conn # q
  BY IdleFacts, NoProgram, NotConnected
<1> QED BY <1>1 DEF Base, StoreTypes

(* A future ends. *)
LEMMA EndTx ==
  ASSUME Base, Transaction, NEW p \in Procs, Return(p) \/ Fails(p) \/ Refuses(p)
  PROVE  Transaction'
<1>0. obj \in Seq(Objects) /\ Grown(obj, obj) /\ p # "none"
  BY RisingSame, ProcNames DEF Base, TaskTypes, Rising
<1>1. Outside(backend, Idle)
  BY IdleFacts, NoProgram
<1>2. CASE Return(p)
  <2>1. PICK g : g = job[p].gen
    OBVIOUS
  <2>2. PICK id : id = obj[g].id
    OBVIOUS
  <2>3. PICK op : op = job[p].op
    OBVIOUS
  <2>4. /\ job[p].todo = <<>> /\ Moves(p, Idle) /\ scenario' = scenario /\ UNCHANGED store
        /\ g \in 1 .. Len(obj)
        /\ op = "told" => obj' = [obj EXCEPT ![g].told = TRUE]
        /\ op # "told" => obj' = obj
    BY <1>2, <2>1, <2>2, <2>3, ReturnEffect
  <2>5. (op = "told" => obj' = [obj EXCEPT ![g].told = TRUE]) /\ (op # "told" => obj' = obj)
    BY <2>4
  <2>6. Grown(obj, obj')
    <3>1. CASE op = "told"
      <4> PICK t \in BOOLEAN : t = TRUE
        OBVIOUS
      <4>1. obj' = Told(obj, g, t)
        BY <2>5, <3>1 DEF Told
      <4>2. PICK o3 : o3 = Told(obj, g, t)
        OBVIOUS
      <4>3. Rising(obj, o3)
        BY <2>4, <4>2, ToldObject
      <4> QED BY <4>1, <4>2, <4>3 DEF Rising
    <3>2. CASE op # "told"
      BY <1>0, <2>5, <3>2
    <3> QED BY <3>1, <3>2
  <2>7. conn # p
    BY <2>4, NoProgram, NotConnected
  <2>8. \A q \in Procs : job'[q] = job[q] \/ (conn # q /\ Outside(backend, job'[q]))
    BY <1>1, <2>4, <2>7 DEF Moves
  <2> QED BY <2>4, <2>6, <2>8, StoreSame, TxFrame
<1>3. CASE Fails(p) \/ Refuses(p)
  <2>1. PICK g : g = job[p].gen
    OBVIOUS
  <2>2. job[p].step = "run" /\ Abort(p, g)
    BY <1>3, <2>1 DEF Fails, Refuses, Running
  <2>3. PICK o2 : o2 = obj'
    OBVIOUS
  <2>4. /\ Moves(p, Idle) /\ Rising(obj, o2) /\ UNCHANGED <<scenario, content>>
        /\ conn' = (IF conn = p THEN "none" ELSE conn) /\ tx' = (IF conn = p THEN NoRows ELSE tx)
    BY <2>1, <2>2, <2>3, AbortEffect
  <2>5. CASE conn = p
    <3>1. \A q \in Procs : Outside(backend, job'[q])
      BY <1>1, <2>4, <2>5 DEF Moves, Transaction, Outside
    <3>2. conn' = "none" /\ backend' = backend
      BY <2>4, <2>5 DEF backend
    <3> QED BY <3>1, <3>2 DEF Transaction, Outside
  <2>6. CASE conn # p
    <3>1. \A q \in Procs : job'[q] = job[q] \/ (conn # q /\ Outside(backend, job'[q]))
      BY <1>1, <2>4, <2>6 DEF Moves
    <3>2. UNCHANGED <<scenario, content, conn, tx>> /\ Grown(obj, obj')
      BY <2>3, <2>4, <2>6 DEF Rising
    <3> QED BY <3>1, <3>2, TxFrame
  <2> QED BY <2>5, <2>6
<1> QED BY <1>2, <1>3

(* The process ends, and starts again. *)
LEMMA BootTx ==
  ASSUME Base, Transaction, Crash \/ Open \/ \E id \in Ids : Restore(id)
  PROVE  Transaction'
<1>0. obj \in Seq(Objects) /\ Grown(obj, obj)
  BY RisingSame DEF Base, TaskTypes, Rising
<1>1. CASE Crash
  <2>1. \A q \in Procs : job'[q] = Idle
    BY <1>1 DEF Crash
  <2>2. \A q \in Procs : Outside(backend', job'[q])
    BY <2>1, IdleFacts, NoProgram
  <2>3. conn' = "none"
    BY <1>1 DEF Crash
  <2> QED BY <2>2, <2>3 DEF Transaction, Outside
<1>2. CASE Open
  <2>1. ~up /\ job' = job /\ conn' = conn
    BY <1>2 DEF Open
  <2>2. \A q \in Procs : job[q] = Idle
    BY <2>1 DEF Base, Booting, Ready
  <2>3. \A q \in Procs : Outside(backend', job'[q])
    BY <2>1, <2>2, IdleFacts, NoProgram
  <2>4. conn' = "none"
    BY <2>1, <2>2, IdleTx
  <2> QED BY <2>3, <2>4 DEF Transaction, Outside
<1>3. ASSUME NEW id \in Ids, Restore(id)
      PROVE  Transaction'
  <2>1. (\A q \in Procs : job[q] = Idle) /\ scenario' = scenario /\ UNCHANGED store
    BY <1>3, RestoreEffect
  <2>2. PICK g \in 1 .. Len(obj), ver \in Versions : Restored(id, g, ver)
    BY <1>3, RestoreEffect
  <2>3. CASE obj' = obj /\ job' = job
    BY <1>0, <2>1, <2>3, QuietTx
  <2>4. CASE Moves("boot", Job("restore", "run", g, ver, Initialize(g, ver))) /\ Grown(obj, obj')
    <3>1. Starts("boot", "restore", "run", g, ver, Initialize(g, ver))
      BY <2>1, <2>4, ProcNames DEF Starts
    <3> QED BY <2>1, <2>4, <3>1, StoreSame, StartTx
  <2> QED BY <2>2, <2>3, <2>4 DEF Restored
<1> QED BY <1>1, <1>2, <1>3

(* The scenario is chosen once. *)
LEMMA BackendStep ==
  ASSUME [Next]_vars
  PROVE  scenario' = scenario
<1>1. CASE UNCHANGED vars
  BY <1>1 DEF vars
<1>2. CASE Next
  <2>1. ASSUME NEW p \in Procs, Statements(p)
        PROVE  scenario' = scenario
    BY <2>1 DEF Statements, others
  <2>2. ASSUME NEW p \in Procs, ReadTask(p) \/ ReadRest(p) \/ Return(p)
        PROVE  scenario' = scenario
    BY <2>2 DEF ReadTask, ReadRest, Return
  <2>3. ASSUME NEW p \in Procs, Fails(p) \/ Refuses(p)
        PROVE  scenario' = scenario
    BY <2>3 DEF Fails, Refuses, Abort
  <2>4. ASSUME NEW id \in Ids, Progress(id) \/ WorkerLater(id) \/ Restore(id)
        PROVE  scenario' = scenario
    BY <2>4 DEF Progress, WorkerLater, Restore
  <2>5. ASSUME NEW a, NEW s, Add(a, s) \/ Delete(a, s)
        PROVE  scenario' = scenario
    BY <2>5 DEF Add, Delete
  <2>6. ASSUME NEW a, NEW s, NEW op, Change(a, s, op)
        PROVE  scenario' = scenario
    BY <2>6 DEF Change
  <2>7. ASSUME LoopSaves \/ LoopSkips \/ Open \/ Crash
        PROVE  scenario' = scenario
    BY <2>7 DEF LoopSaves, LoopSkips, Open, Crash
  <2> QED BY <1>2, <2>1, <2>2, <2>3, <2>4, <2>5, <2>6, <2>7, Actions, IsStatement, Zenon
<1> QED BY <1>1, <1>2

\* Every step preserves Transaction.
LEMMA TransactionStep ==
  ASSUME Base, Transaction, [Next]_vars
  PROVE  Transaction'
<1>0. obj \in Seq(Objects) /\ Grown(obj, obj)
  BY RisingSame DEF Base, TaskTypes, Rising
<1>1. CASE UNCHANGED vars
  BY <1>0, <1>1, QuietTx DEF vars, store
<1>2. ASSUME NEW id \in Ids, Progress(id)
      PROVE  Transaction'
  <2>1. UNCHANGED <<scenario, job>> /\ UNCHANGED store
    BY <1>2 DEF Progress
  <2>2. Grown(obj, obj')
    BY <1>2, ProgressEffect DEF Rising
  <2> QED BY <2>1, <2>2, QuietTx
<1>3. CASE LoopSkips
  <2>1. UNCHANGED <<scenario, job, obj>> /\ UNCHANGED store
    BY <1>3 DEF LoopSkips
  <2> QED BY <1>0, <2>1, QuietTx
<1>4. CASE Next
  BY <1>2, <1>3, <1>4, Actions, CallTx, ReadTx, StatementTx, EndTx, BootTx, Zenon
<1> QED BY <1>1, <1>4

\* Base implies the type invariant.
LEMMA BaseTypes ==
  ASSUME Base
  PROVE  TypeOK
<1>1. \A p \in Procs : \/ job[p] = Idle
                       \/ /\ job[p].op \in Ops /\ job[p].step \in {"gate", "rest", "run"}
                          /\ job[p].gen \in 1 .. Len(obj)
  BY DEF Base, Jobs, JobOK
<1> QED BY <1>1 DEF TypeOK, Base, StoreTypes, TaskTypes, Store, Objects, Versions

\* Types of the store, the registry and the futures hold always; in particular
\* every future that is busy works for an object that exists, whatever was
\* deleted, restored or added meanwhile.
THEOREM TypeCorrect == Spec => []TypeOK
<1>1. Init => Base /\ Transaction
  BY InitBase
<1>2. Base /\ Transaction /\ [Next]_vars => Base' /\ Transaction'
  BY BaseStep, TransactionStep
<1>3. Base => TypeOK
  BY BaseTypes
<1> QED BY <1>1, <1>2, <1>3, PTL DEF Spec

-----------------------------------------------------------------------------
(* What a restart finds *)

\* Rows of pieces and blocks belong to the row of their task.
Whole(rows) ==
  \A id \in Ids : rows[id]["tasks"] # NoRow =>
    \A t \in {"pieces", "blocks"} : rows[id][t] # NoRow =>
      rows[id][t].gen = rows[id]["tasks"].gen /\ rows[id][t].ver >= rows[id]["tasks"].ver

\* Every place that holds rows is whole, but for the memory, which a restart
\* finds empty.
AllWhole ==
  backend # "memory" =>
    /\ Whole(content) /\ Whole(tx) /\ Whole(file.rows) /\ \A p \in Procs : Whole(job[p].copy)

(* A step other than a put moves rows between the places that hold some. *)
Old(rows) ==
  \/ rows = NoRows \/ rows = content \/ rows = tx \/ rows = file.rows
  \/ \E q \in Procs : rows = job[q].copy

\* All places hold what one of them held before, or nothing.
Shuffled == Old(content') /\ Old(tx') /\ Old(file'.rows) /\ \A q \in Procs : Old(job'[q].copy)

\* A step of the futures alone.
LEMMA JobsShuffled ==
  ASSUME UNCHANGED store, \A q \in Procs : job'[q].copy = job[q].copy \/ job'[q].copy = NoRows
  PROVE  Shuffled
<1>1. content' = content /\ tx' = tx /\ file' = file
  BY StoreSame
<1>2. Old(content') /\ Old(tx') /\ Old(file'.rows)
  BY <1>1 DEF Old
<1> QED BY <1>2 DEF Shuffled, Old

\* A future that starts has no copy of the state.
LEMMA StartShuffled ==
  ASSUME UNCHANGED store, NEW p, NEW op, NEW step, NEW g, NEW e, NEW s,
         Starts(p, op, step, g, e, s)
  PROVE  Shuffled
<1>1. PICK j : j = Job(op, step, g, e, s)
  OBVIOUS
<1>2. j.copy = NoRows
  BY <1>1, NewJob
<1>3. \A q \in Procs : job'[q].copy = job[q].copy \/ job'[q].copy = NoRows
  BY <1>1, <1>2 DEF Starts, Moves
<1> QED BY <1>3, JobsShuffled

\* Calls put no rows.
LEMMA CallShuffled ==
  ASSUME Base,
         \/ \E a \in scenario.admins, s \in scenario.specs : Add(a, s)
         \/ \E a \in scenario.admins, id \in Ids : Delete(a, id)
         \/ \E p \in scenario.owners, id \in Ids, op \in {"told", "silent"} : Change(p, id, op)
         \/ \E id \in Ids : Progress(id) \/ WorkerLater(id)
         \/ LoopSaves \/ LoopSkips
  PROVE  Shuffled
<1>1. ASSUME NEW a \in scenario.admins, NEW s \in scenario.specs, Add(a, s)
      PROVE  Shuffled
  <2>1. PICK g : g = Len(obj) + 1
    OBVIOUS
  <2>2. Starts(a, "add", "run", g, 0, Initialize(g, 0)) /\ UNCHANGED store
    BY <1>1, <2>1, AddEffect
  <2> QED BY <2>2, StartShuffled
<1>2. ASSUME NEW a \in scenario.admins, NEW id \in Ids, Delete(a, id)
      PROVE  Shuffled
  BY <1>2, DeleteEffect, StartShuffled
<1>3. ASSUME NEW p \in scenario.owners, NEW id \in Ids, NEW op \in {"told", "silent"},
             Change(p, id, op)
      PROVE  Shuffled
  BY <1>3, ChangeEffect, StartShuffled
<1>4. ASSUME NEW id \in Ids, WorkerLater(id)
      PROVE  Shuffled
  BY <1>4, WorkerEffect, StartShuffled
<1>5. CASE LoopSaves
  BY <1>5, LoopEffect, StartShuffled
<1>6. ASSUME LoopSkips \/ \E id \in Ids : Progress(id)
      PROVE  Shuffled
  <2>1. job' = job /\ UNCHANGED store
    BY <1>6 DEF LoopSkips, Progress
  <2> QED BY <2>1, JobsShuffled
<1> QED BY <1>1, <1>2, <1>3, <1>4, <1>5, <1>6

\* Steps of a future other than a put move rows at most.
LEMMA StepShuffled ==
  ASSUME Base, Transaction, NEW p \in Procs,
         \/ ReadTask(p) \/ ReadRest(p) \/ DoBegin(p) \/ DoCommit(p) \/ DoCopy(p) \/ DoWrite(p)
         \/ Return(p) \/ Fails(p) \/ Refuses(p)
  PROVE  Shuffled
<1>1. CASE ReadTask(p) \/ ReadRest(p)
  <2>1. UNCHANGED store /\ Moves(p, job'[p]) /\ job'[p].copy = job[p].copy
    BY <1>1, ReadTaskEffect, ReadRestEffect
  <2> QED BY <2>1, JobsShuffled DEF Moves
<1>2. CASE DoBegin(p) \/ DoCommit(p)
  <2>1. Statements(p) /\ file' = file /\ job'[p].copy = job[p].copy
    BY <1>2, BeginEffect, CommitEffect
  <2>2. \A q \in Procs : q # p => job'[q] = job[q]
    BY <2>1, SteppedJob DEF Stepped, Moves
  <2>3. Old(content') /\ Old(tx')
    <3>1. CASE DoBegin(p)
      BY <3>1, BeginEffect DEF Old
    <3>2. CASE DoCommit(p)
      BY <3>2, CommitEffect DEF Old
    <3> QED BY <1>2, <3>1, <3>2
  <2>4. \A q \in Procs : job'[q].copy = job[q].copy
    BY <2>1, <2>2
  <2> QED BY <2>1, <2>3, <2>4 DEF Old, Shuffled
<1>3. CASE DoCopy(p) \/ DoWrite(p)
  <2>1. Statements(p) /\ UNCHANGED <<content, conn, tx>>
    BY <1>3, FileEffect
  <2>2. \A q \in Procs : q # p => job'[q] = job[q]
    BY <2>1, SteppedJob DEF Stepped, Moves
  <2>3. Old(job'[p].copy)
    BY <1>3, <2>1, SteppedJob DEF Old
  <2>4. Old(file'.rows)
    <3>1. CASE DoCopy(p)
      BY <3>1 DEF DoCopy, Old
    <3>2. CASE DoWrite(p)
      <4>1. file' = JsonFile!Whole(job[p].copy) \/ file' \in JsonFile!Damaged(NoRows)
        BY <3>2 DEF DoWrite
      <4>2. file'.rows = job[p].copy \/ file'.rows = NoRows
        BY <4>1, FileFacts
      <4> QED BY <4>2 DEF Old
    <3> QED BY <1>3, <3>1, <3>2
  <2>5. \A q \in Procs : Old(job'[q].copy)
    <3>1. \A q \in Procs : Old(job[q].copy)
      BY DEF Old
    <3> QED BY <2>2, <2>3, <3>1
  <2>6. Old(content') /\ Old(tx')
    BY <2>1 DEF Old
  <2> QED BY <2>4, <2>5, <2>6 DEF Shuffled
<1>4. CASE Return(p)
  <2>1. Moves(p, Idle) /\ UNCHANGED store
    BY <1>4, ReturnEffect
  <2> QED BY <2>1, IdleFacts, JobsShuffled DEF Moves
<1>5. CASE Fails(p) \/ Refuses(p)
  <2>1. PICK g : g = job[p].gen
    OBVIOUS
  <2>2. job[p].step = "run" /\ Abort(p, g)
    BY <1>5, <2>1 DEF Fails, Refuses, Running
  <2>3. PICK o2 : o2 = obj'
    OBVIOUS
  <2>4. /\ Moves(p, Idle) /\ content' = content
        /\ tx' = (IF conn = p THEN NoRows ELSE tx)
        /\ (file' = file \/ file'.rows = NoRows)
    BY <2>1, <2>2, <2>3, AbortEffect
  <2>5. Old(content') /\ Old(tx') /\ Old(file'.rows)
    BY <2>4 DEF Old
  <2>6. \A q \in Procs : Old(job'[q].copy)
    BY <2>4, IdleFacts DEF Moves, Old
  <2> QED BY <2>5, <2>6 DEF Shuffled
<1> QED BY <1>1, <1>2, <1>3, <1>4, <1>5

\* A crash and a restart move rows at most.
LEMMA BootShuffled ==
  ASSUME Base, Crash \/ Open \/ \E id \in Ids : Restore(id)
  PROVE  Shuffled
<1>1. CASE Crash
  <2>1. content' = content /\ tx' = NoRows /\ (file' = file \/ file' \in JsonFile!Damaged(NoRows))
        /\ \A q \in Procs : job'[q] = Idle
    BY <1>1 DEF Crash
  <2>2. Old(content') /\ Old(tx') /\ Old(file'.rows)
    BY <2>1, FileFacts DEF Old
  <2> QED BY <2>1, <2>2, IdleFacts DEF Shuffled, Old
<1>2. CASE Open
  <2>1. content' \in Loadable /\ tx' = tx /\ file' = file /\ job' = job
    BY <1>2 DEF Open
  <2>2. content' = content \/ content' = NoRows \/ content' = file.rows
    BY <2>1, LoadableFacts
  <2>3. Old(content') /\ Old(tx') /\ Old(file'.rows)
    BY <2>1, <2>2 DEF Old
  <2> QED BY <2>1, <2>3 DEF Shuffled, Old
<1>3. ASSUME NEW id \in Ids, Restore(id)
      PROVE  Shuffled
  <2>1. (\A q \in Procs : job[q] = Idle) /\ UNCHANGED store
    BY <1>3, RestoreEffect
  <2>2. PICK g \in 1 .. Len(obj), ver \in Versions : Restored(id, g, ver)
    BY <1>3, RestoreEffect
  <2>3. CASE job' = job
    BY <2>1, <2>3, JobsShuffled
  <2>4. CASE Moves("boot", Job("restore", "run", g, ver, Initialize(g, ver)))
    <3>1. Starts("boot", "restore", "run", g, ver, Initialize(g, ver))
      BY <2>1, <2>4, ProcNames DEF Starts
    <3> QED BY <2>1, <3>1, StartShuffled
  <2> QED BY <2>2, <2>3, <2>4 DEF Restored
<1> QED BY <1>1, <1>2, <1>3

\* Every step puts rows, or moves them.
LEMMA PutOrShuffled ==
  ASSUME Base, Transaction, [Next]_vars
  PROVE  Shuffled \/ \E p \in Procs : DoPut(p)
<1>1. CASE UNCHANGED vars
  BY <1>1, JobsShuffled DEF vars, store
<1>2. CASE Next
  BY <1>2, Actions, CallShuffled, StepShuffled, BootShuffled, Zenon
<1> QED BY <1>1, <1>2

(* Replacing the rows of an id, changing a row of the workers or checksums *)
(* and removing rows keep the rest together.                               *)
LEMMA WholePut ==
  ASSUME NEW rows \in Store, NEW id \in Ids, NEW g \in Gens, NEW e \in Versions, NEW x,
         Putting(x, g), Whole(rows),
         SideRow(x, g) \/ OneGone(x) \/ AllGone(x) \/ Bundled(x, g, e)
  PROVE  Whole(Updated(rows, id, x.rows))
<1>1. PICK u : u = Updated(rows, id, x.rows)
  OBVIOUS
<1>2. /\ \A i \in Ids : i # id => u[i] = rows[i]
      /\ \A t \in Tables : u[id][t] = IF t \in DOMAIN x.rows THEN x.rows[t] ELSE rows[id][t]
  BY <1>1, UpdatedFacts
<1>3. /\ "tasks" \in Tables /\ "pieces" \in Tables /\ "blocks" \in Tables
  BY DEF Tables
<1>4. CASE SideRow(x, g)
  <2>1. \A t \in {"tasks", "pieces", "blocks"} : t \notin DOMAIN x.rows
    BY <1>4 DEF SideRow
  <2>2. \A t \in {"tasks", "pieces", "blocks"} : u[id][t] = rows[id][t]
    BY <1>2, <1>3, <2>1
  <2>3. Whole(u)
    BY <1>2, <2>2 DEF Whole
  <2> QED BY <1>1, <2>3
<1>5. CASE OneGone(x) \/ AllGone(x)
  <2>1. \A t \in DOMAIN x.rows : x.rows[t] = NoRow
    BY <1>5 DEF OneGone, AllGone
  <2>2. \A t \in {"tasks", "pieces", "blocks"} : u[id][t] = rows[id][t] \/ u[id][t] = NoRow
    BY <1>2, <1>3, <2>1
  <2>3. Whole(u)
    BY <1>2, <2>2 DEF Whole
  <2> QED BY <1>1, <2>3
<1>6. CASE Bundled(x, g, e)
  <2>1. Replacing(rows, u, id, g, e)
    BY <1>1, <1>6, UpdatedBundle
  <2>2. u[id]["tasks"] = Row(g, e)
    BY <2>1, ReplacingFacts
  <2>3. PICK l \in Versions : e <= l /\ \A t \in Tables : u[id][t] = Row(g, IF t = "tasks" THEN e ELSE l)
    BY <2>1, ReplacingFacts
  <2>4. \A t \in {"pieces", "blocks"} : u[id][t] = Row(g, l)
    BY <1>3, <2>3
  <2>5. Row(g, l).gen = Row(g, e).gen /\ Row(g, l).ver >= Row(g, e).ver
    <3>1. Row(g, l).gen = g /\ Row(g, e).gen = g /\ Row(g, l).ver = l /\ Row(g, e).ver = e
      BY RowFacts
    <3>2. l \in Nat /\ e \in Nat
      BY Bounds DEF Versions
    <3> QED BY <2>3, <3>1, <3>2
  <2>6. Whole(u)
    BY <1>2, <2>2, <2>4, <2>5 DEF Whole
  <2> QED BY <1>1, <2>6
<1> QED BY <1>4, <1>5, <1>6

\* Every step keeps all places whole, with SQLite and with JSON.
LEMMA WholeStep ==
  ASSUME Base, Transaction, AllWhole, [Next]_vars
  PROVE  AllWhole'
<1>0. scenario' = scenario
  BY BackendStep
<1>1. backend' = backend
  BY <1>0 DEF backend
<1>2. CASE Shuffled
  <2> SUFFICES ASSUME backend # "memory"
               PROVE  Whole(content') /\ Whole(tx') /\ Whole(file'.rows) /\ \A p \in Procs : Whole(job'[p].copy)
    BY <1>1 DEF AllWhole, Whole
  <2>1. Whole(NoRows)
    BY RowFacts DEF Whole, Tables
  <2>2. ASSUME NEW rows, Old(rows)
        PROVE  Whole(rows)
    BY <2>1, <2>2 DEF Old, AllWhole
  <2> QED BY <1>2, <2>2 DEF Shuffled
<1>3. ASSUME NEW p \in Procs, DoPut(p)
      PROVE  AllWhole'
  <2> SUFFICES ASSUME backend # "memory"
               PROVE  Whole(content') /\ Whole(tx') /\ Whole(file'.rows) /\ \A q \in Procs : Whole(job'[q].copy)
    BY <1>1 DEF AllWhole, Whole
  <2>1. PICK j : j = job[p]
    OBVIOUS
  <2>2. PICK id : id = obj[j.gen].id
    OBVIOUS
  <2>3. Statements(p) /\ file' = file
    BY <1>3, <2>1, <2>2, PutEffect
  <2>4. \/ content' = content /\ tx' = Updated(content, id, Head(j.todo).rows) /\ InPut(backend, j)
        \/ /\ content' = Updated(content, id, Head(j.todo).rows) /\ tx' = tx
           /\ PlainPut(backend, j.op, j.gen, j.seen, Head(j.todo))
    BY <1>3, <2>1, <2>2, PutEffect
  <2>5. /\ j.gen \in Gens /\ id \in Ids /\ j.seen \in Versions
        /\ backend \in {"sqlite", "memory", "json"} /\ content \in Store
    BY <2>1, <2>2, <2>3, AtStatement DEF Base, StoreTypes
  <2>6. PICK x : x = Head(j.todo)
    OBVIOUS
  <2>7. /\ Putting(x, j.gen)
        /\ (SideRow(x, j.gen) \/ OneGone(x) \/ AllGone(x) \/ Bundled(x, j.gen, j.seen))
    <3>1. CASE InPut(backend, j)
      BY <2>5, <2>6, <3>1, TxStep DEF InPut
    <3>2. CASE PlainPut(backend, j.op, j.gen, j.seen, x)
      BY <2>5, <3>2 DEF PlainPut
    <3> QED BY <2>4, <2>6, <3>1, <3>2
  <2>8. Whole(content) /\ Whole(tx) /\ Whole(file.rows) /\ \A q \in Procs : Whole(job[q].copy)
    BY DEF AllWhole
  <2>9. Whole(Updated(content, id, x.rows))
    BY <2>5, <2>7, <2>8, WholePut
  <2>10. \A q \in Procs : job'[q].copy = job[q].copy
    <3>1. ~DoCopy(p) /\ ~DoWrite(p)
      BY <1>3 DEF DoPut, DoCopy, DoWrite, Running
    <3> QED BY <2>3, <3>1, SteppedJob DEF Stepped, Moves
  <2>11. Whole(content') /\ Whole(tx')
    BY <2>4, <2>6, <2>8, <2>9
  <2> QED BY <2>3, <2>8, <2>10, <2>11
<1> QED BY <1>2, <1>3, PutOrShuffled

\* What a new process loads is one of those places.
LEMMA WholeDisk ==
  ASSUME Base, AllWhole
  PROVE  BundlesAreWhole
<1>1. Whole(NoRows)
  BY RowFacts DEF Whole, Tables
<1>2. Disk = NoRows \/ Disk \in Loadable
  BY DEF Disk
<1>3. Whole(Disk)
  <2>1. CASE Disk = NoRows
    BY <1>1, <2>1
  <2>2. CASE Disk \in Loadable
    <3>1. PICK rows \in Loadable : rows = Disk
      BY <2>2
    <3>2. /\ backend = "sqlite" => rows = content
          /\ backend = "memory" => rows = NoRows
          /\ backend = "json" => rows = file.rows
      BY <3>1, LoadableFacts
    <3>3. backend \in {"sqlite", "memory", "json"}
      BY Backend DEF Base
    <3> QED BY <1>1, <3>1, <3>2, <3>3 DEF AllWhole
  <2> QED BY <1>2, <2>1, <2>2
<1> QED BY <1>3 DEF BundlesAreWhole, Whole

\* The first state is whole: it is empty.
LEMMA InitWhole ==
  ASSUME Init
  PROVE  AllWhole
<1>1. Whole(NoRows)
  BY RowFacts DEF Whole, Tables
<1>2. content = NoRows /\ tx = NoRows /\ file = JsonFile!Whole(NoRows) /\ \A p \in Procs : job[p] = Idle
  BY DEF Init
<1> QED BY <1>1, <1>2, FileFacts, IdleFacts DEF AllWhole

\* What a restart finds of a task belongs together, with every backend and after
\* every crash, failed statement, overlap of saves and reuse of an id: pieces and
\* blocks are of the object the task row is of, and not older than that row.
THEOREM BundlesAreWholeCorrect == Spec => []BundlesAreWhole
<1>1. Init => Base /\ Transaction /\ AllWhole
  BY InitBase, InitWhole
<1>2. Base /\ Transaction /\ AllWhole /\ [Next]_vars => Base' /\ Transaction' /\ AllWhole'
  BY BaseStep, TransactionStep, WholeStep
<1>3. Base /\ AllWhole => BundlesAreWhole
  BY WholeDisk
<1> QED BY <1>1, <1>2, <1>3, PTL DEF Spec

-----------------------------------------------------------------------------
(* The SQLite store implements the atomic store *)

(* Who changes what the repository answers *)
LEMMA ContentStep ==
  ASSUME [Next]_vars
  PROVE  \/ content' = content \/ Open
         \/ \E p \in Procs : DoPut(p)
         \/ \E p \in Procs : DoCommit(p)
<1>1. CASE UNCHANGED vars
  BY <1>1 DEF vars
<1>2. CASE Next
  <2>1. ASSUME NEW p \in Procs, DoBegin(p) \/ DoCopy(p) \/ DoWrite(p)
        PROVE  content' = content
    BY <2>1 DEF DoBegin, DoCopy, DoWrite
  <2>2. ASSUME NEW p \in Procs, ReadTask(p) \/ ReadRest(p) \/ Return(p)
        PROVE  content' = content
    BY <2>2, StoreSame DEF ReadTask, ReadRest, Return
  <2>3. ASSUME NEW p \in Procs, Fails(p) \/ Refuses(p)
        PROVE  content' = content
    BY <2>3 DEF Fails, Refuses, Abort
  <2>4. ASSUME NEW id \in Ids, Progress(id) \/ WorkerLater(id) \/ Restore(id)
        PROVE  content' = content
    BY <2>4, StoreSame DEF Progress, WorkerLater, Restore
  <2>5. ASSUME NEW a, NEW s, Add(a, s) \/ Delete(a, s)
        PROVE  content' = content
    BY <2>5, StoreSame DEF Add, Delete
  <2>6. ASSUME NEW a, NEW s, NEW op, Change(a, s, op)
        PROVE  content' = content
    BY <2>6, StoreSame DEF Change
  <2>7. ASSUME LoopSaves \/ LoopSkips
        PROVE  content' = content
    BY <2>7, StoreSame DEF LoopSaves, LoopSkips
  <2>8. ASSUME Crash
        PROVE  content' = content
    BY <2>8 DEF Crash
  <2> QED BY <1>2, <2>1, <2>2, <2>3, <2>4, <2>5, <2>6, <2>7, <2>8, Actions, Zenon
<1> QED BY <1>1, <1>2

(* One row of one id is put in place of another. *)
OneRow(rows, new, id, t, r) == new = [rows EXCEPT ![id][t] = r]

\* A statement with one row is an assignment to that row.
LEMMA UpdatedRow ==
  ASSUME NEW rows \in Store, NEW id \in Ids, NEW t \in Tables, NEW x, DOMAIN x.rows = {t}
  PROVE  OneRow(rows, Updated(rows, id, x.rows), id, t, x.rows[t])
<1> DEFINE f == [k \in Tables |-> IF k \in DOMAIN x.rows THEN x.rows[k] ELSE rows[id][k]]
<1>1. Updated(rows, id, x.rows) = [rows EXCEPT ![id] = f]
  BY DEF Updated
<1>2. rows[id] \in [Tables -> Rows]
  BY DEF Store
<1>3. f = [rows[id] EXCEPT ![t] = x.rows[t]]
  BY <1>2
<1> QED BY <1>1, <1>3 DEF OneRow

(* With SQLite every step that others can see is one of the atomic store's. *)
LEMMA SqliteStep ==
  ASSUME Base, Transaction, [Next]_vars, backend = "sqlite"
  PROVE  \/ content' = content
         \/ \E id \in Ids, g \in Gens, e \in Versions : Replacing(content, content', id, g, e)
         \/ \E id \in Ids, t \in {"workers", "checksums"}, g \in Gens, v \in Versions :
              OneRow(content, content', id, t, Row(g, v))
         \/ \E id \in Ids, t \in Tables : OneRow(content, content', id, t, NoRow)
<1>0. content \in Store
  BY DEF Base, StoreTypes
<1>1. CASE Open
  <2>1. content' \in Loadable
    BY <1>1 DEF Open
  <2>2. PICK rows \in Loadable : rows = content'
    BY <2>1
  <2>3. rows = content
    BY LoadableFacts
  <2> QED BY <2>2, <2>3
<1>2. ASSUME NEW p \in Procs, DoCommit(p)
      PROVE  \E id \in Ids, g \in Gens, e \in Versions : Replacing(content, content', id, g, e)
  <2>1. Statements(p) /\ Replacing(content, content', obj[job[p].gen].id, job[p].gen, job[p].seen)
    BY <1>2, CommitEffect
  <2>2. obj[job[p].gen].id \in Ids /\ job[p].gen \in Gens /\ job[p].seen \in Versions
    BY <2>1, AtStatement
  <2> QED BY <2>1, <2>2
<1>3. ASSUME NEW p \in Procs, DoPut(p), content' # content
      PROVE  \/ \E id \in Ids, t \in {"workers", "checksums"}, g \in Gens, v \in Versions :
                   OneRow(content, content', id, t, Row(g, v))
             \/ \E id \in Ids, t \in Tables : OneRow(content, content', id, t, NoRow)
  <2>1. PICK j : j = job[p]
    OBVIOUS
  <2>2. PICK id : id = obj[j.gen].id
    OBVIOUS
  <2>3. /\ Statements(p) /\ content' = Updated(content, id, Head(j.todo).rows)
        /\ PlainPut(backend, j.op, j.gen, j.seen, Head(j.todo))
    BY <1>3, <2>1, <2>2, PutEffect
  <2>4. j.gen \in Gens /\ id \in Ids
    BY <2>1, <2>2, <2>3, AtStatement
  <2>5. PICK x : x = Head(j.todo)
    OBVIOUS
  <2>6. SideRow(x, j.gen) \/ OneGone(x)
    BY <2>3, <2>5 DEF PlainPut
  <2>7. CASE SideRow(x, j.gen)
    <3>1. PICK t \in {"workers", "checksums"}, v \in Versions : DOMAIN x.rows = {t} /\ x.rows[t] = Row(j.gen, v)
      BY <2>7 DEF SideRow
    <3>2. t \in Tables
      BY DEF Tables
    <3>3. OneRow(content, content', id, t, Row(j.gen, v))
      BY <1>0, <2>3, <2>4, <2>5, <3>1, <3>2, UpdatedRow
    <3> QED BY <2>4, <3>3
  <2>8. CASE OneGone(x)
    <3>1. PICK t \in Tables : DOMAIN x.rows = {t} /\ x.rows[t] = NoRow
      BY <2>8 DEF OneGone
    <3>2. OneRow(content, content', id, t, NoRow)
      BY <1>0, <2>3, <2>4, <2>5, <3>1, UpdatedRow
    <3> QED BY <2>4, <3>2
  <2> QED BY <2>6, <2>7, <2>8
<1> QED BY <1>1, <1>2, <1>3, ContentStep

\* The names of the abstract module mean the same.
LEMMA AtomicNames ==
  /\ \A g, e, l : A!Bundle(g, e, l) = Bundle(g, e, l)
  /\ A!NoRow = NoRow /\ A!Tables = Tables /\ A!EmptyTables(Ids) = NoRows
  /\ \A g \in Gens, v \in Versions : Row(g, v) \in A!AnyRow
BY DEF A!Bundle, Bundle, A!NoRow, NoRow, A!Tables, Tables, A!EmptyTables, NoRows, EmptyTables,
   A!AnyRow, Row, A!Row, Gens, Versions

\* Every step of the repository is one of the atomic store, or none.
LEMMA AtomicStep ==
  ASSUME Base, Transaction, [Next]_vars
  PROVE  A!Next \/ UNCHANGED (IF backend = "sqlite" THEN content ELSE NoRows)
<1>0. backend' = backend
  BY BackendStep DEF backend
<1>1. CASE backend # "sqlite" \/ content' = content
  BY <1>0, <1>1
<1>2. ASSUME backend = "sqlite", NEW id \in Ids, NEW g \in Gens, NEW e \in Versions,
             Replacing(content, content', id, g, e)
      PROVE  A!Next
  <2>1. PICK l \in e .. MaxVersion : content' = [content EXCEPT ![id] = Bundle(g, e, l)]
    BY <1>2 DEF Replacing
  <2>2. e \in 0 .. MaxVersion /\ l \in 0 .. MaxVersion /\ e <= l /\ g \in 1 .. MaxGen
    BY Bounds DEF Versions, Gens
  <2>3. A!SaveBundle(id)
    BY <1>0, <1>2, <2>1, <2>2, AtomicNames DEF A!SaveBundle
  <2> QED BY <2>3 DEF A!Next
<1>3. ASSUME backend = "sqlite", NEW id \in Ids, NEW t \in {"workers", "checksums"},
             NEW g \in Gens, NEW v \in Versions,
             OneRow(content, content', id, t, Row(g, v))
      PROVE  A!Next
  <2>1. Row(g, v) \in A!AnyRow
    BY AtomicNames
  <2>2. A!SaveRow(id)
    BY <1>0, <1>3, <2>1 DEF A!SaveRow, OneRow
  <2> QED BY <2>2 DEF A!Next
<1>4. ASSUME backend = "sqlite", NEW id \in Ids, NEW t \in Tables,
             OneRow(content, content', id, t, NoRow)
      PROVE  A!Next
  <2>1. A!Remove(id)
    BY <1>0, <1>4, AtomicNames DEF A!Remove, OneRow
  <2> QED BY <2>1 DEF A!Next
<1> QED BY <1>1, <1>2, <1>3, <1>4, SqliteStep

\* SqliteRepository implements the atomic store: save_bundle is one step to
\* everybody else, whatever fails, whoever saves meanwhile and whenever the
\* process ends.
THEOREM AtomicStoreCorrect == Spec => AtomicStoreSpec
<1>1. Init => Base /\ Transaction
  BY InitBase
<1>2. Base /\ Transaction /\ [Next]_vars => Base' /\ Transaction'
  BY BaseStep, TransactionStep
<1>3. Init => A!Init
  BY AtomicNames DEF Init, A!Init
<1>4. Base /\ Transaction /\ [Next]_vars => [A!Next]_(IF backend = "sqlite" THEN content ELSE NoRows)
  BY AtomicStep
<1> QED BY <1>1, <1>2, <1>3, <1>4, PTL DEF Spec, AtomicStoreSpec, A!Spec

-----------------------------------------------------------------------------
(* What is settled is stored *)

\* A due event of an id, an object that is alone with its id, a row as it should be.
Due(ev, id) == \E i \in DOMAIN ev : ev[i].id = id /\ ev[i].due
Only(o, g) == \A h \in 1 .. Len(o) : o[h].id = o[g].id => h = g
Stored(rows, o, g) == rows[o[g].id]["tasks"] = Row(g, o[g].ver)

(* The future will still write the row of the task. *)
Pend(c, p, j) ==
  j.op \in SaveOps /\ (j.step = "rest" \/ (j.step = "run" /\ (HasPut(j.todo) \/ c = p)))

\* An add or a restore.
Enters(j) == j.op \in {"add", "restore"}

(* The future will write the row as it is, or remove the task. *)
Waits(c, p, j, v) ==
  \/ j.op \in OwnerOps /\ j.step = "gate"
  \/ j.op = "delete"
  \/ Pend(c, p, j) /\ j.seen = v

\* What a future that saves task g has seen of it.
Sees(ev, o, g, j) ==
  j.gen = g =>
    /\ j.op \in OwnerOps /\ j.step # "gate" => j.seen = o[g].ver
    /\ j.op = "save" => j.seen = o[g].ver \/ Due(ev, o[g].id)

\* A future that adds or restores task g has its last change, and writes it or
\* has written it.
EntersWith(rows, c, o, g, p, j) ==
  j.gen = g /\ Enters(j) => j.seen = o[g].ver /\ (Only(o, g) => Pend(c, p, j) \/ Stored(rows, o, g))

\* What is kept of a task that was told: who saves has seen its last change, or a
\* due event makes the loop save again; and as long as it is in the map the row
\* is stored, an event is due, or a future is going to write it or to delete
\* the task.
Keeps(g) ==
  /\ \A p \in Procs : Sees(events, obj, g, job[p]) /\ EntersWith(content, conn, obj, g, p, job[p])
  /\ Only(obj, g) /\ tasks[obj[g].id] = g =>
       \/ Due(events, obj[g].id) \/ Stored(content, obj, g)
       \/ \E p \in Procs : job[p].gen = g /\ Waits(conn, p, job[p], obj[g].ver)

\* Keeps for every task that was told.
Kept == \A g \in 1 .. Len(obj) : obj[g].told => Keeps(g)

\* A task that is being added or restored is not in the map, and no other future
\* works for it.
Exclusive ==
  \A p \in Procs : Enters(job[p]) =>
    /\ tasks[obj[job[p].gen].id] # job[p].gen
    /\ \A q \in Procs : q # p => job[q].gen # job[p].gen

\* Without a manager there is no map.
Down == ~up => \A id \in Ids : tasks[id] = 0

\* The invariant behind SettledIsStored.
Settling == Kept /\ Exclusive /\ Down

\* What is kept of task g when one future moves: it keeps its part, and a
\* row that it overwrites is written again or announced.
LEMMA KeepsFrame ==
  ASSUME Base, Exclusive, Kept, NEW g \in 1 .. Len(obj), obj[g].told, Grown(obj, obj'),
         obj'[g].ver = obj[g].ver,
         NEW p \in Procs, \A q \in Procs : q # p => job'[q] = job[q] /\ (conn = q => conn' = q),
         Due(events, obj[g].id) => Due(events', obj[g].id),
         tasks'[obj[g].id] = g => tasks[obj[g].id] = g,
         Sees(events', obj, g, job'[p]), EntersWith(content', conn', obj, g, p, job'[p]),
         Only(obj, g) /\ Stored(content, obj, g) /\ job[p].gen # g => Stored(content', obj, g),
         Only(obj, g) /\ job[p].gen = g /\ (Stored(content, obj, g) \/ Waits(conn, p, job[p], obj[g].ver)) =>
           \/ tasks'[obj[g].id] # g \/ Due(events', obj[g].id) \/ Stored(content', obj, g)
           \/ job'[p].gen = g /\ Waits(conn', p, job'[p], obj[g].ver)
  PROVE  Keeps(g)'
<1>1. obj'[g].id = obj[g].id /\ obj'[g].ver = obj[g].ver /\ (Only(obj', g) => Only(obj, g))
  BY DEF Grown, Only, Base, TaskTypes
<1>2. \A rows : Stored(rows, obj', g) = Stored(rows, obj, g)
  BY <1>1 DEF Stored
<1>3. Keeps(g)
  BY DEF Kept
<1>4. ASSUME NEW q \in Procs, q # p
      PROVE  /\ Pend(conn, q, job[q]) => Pend(conn', q, job'[q])
             /\ Waits(conn, q, job[q], obj[g].ver) => Waits(conn', q, job'[q], obj[g].ver)
  <2>1. job'[q] = job[q] /\ (conn = q => conn' = q)
    BY <1>4
  <2> QED BY <2>1 DEF Pend, Waits
<1>5. ASSUME NEW q \in Procs
      PROVE  Sees(events', obj', g, job'[q])
  <2>1. Sees(events', obj, g, job'[q])
    <3>1. CASE q = p
      BY <3>1
    <3>2. CASE q # p
      BY <1>3, <3>2 DEF Keeps, Sees
    <3> QED BY <3>1, <3>2
  <2> QED BY <1>1, <2>1 DEF Sees
<1>6. ASSUME NEW q \in Procs
      PROVE  EntersWith(content', conn', obj', g, q, job'[q])
  <2>1. EntersWith(content', conn', obj, g, q, job'[q])
    <3>1. CASE q = p
      BY <3>1
    <3>2. CASE q # p
      <4> SUFFICES ASSUME job'[q].gen = g, Enters(job'[q])
                   PROVE  /\ job'[q].seen = obj[g].ver
                          /\ (Only(obj, g) => Pend(conn', q, job'[q]) \/ Stored(content', obj, g))
        BY DEF EntersWith
      <4>1. job[q].gen = g /\ Enters(job[q]) /\ job'[q].seen = job[q].seen
        BY <3>2
      <4>2. job[p].gen # g
        BY <3>2, <4>1 DEF Exclusive
      <4>3. /\ job[q].seen = obj[g].ver
            /\ (Only(obj, g) => Pend(conn, q, job[q]) \/ Stored(content, obj, g))
        BY <1>3, <4>1 DEF Keeps, EntersWith
      <4> QED BY <1>4, <3>2, <4>1, <4>2, <4>3
    <3> QED BY <3>1, <3>2
  <2> QED BY <1>1, <1>2, <2>1 DEF EntersWith
<1>7. ASSUME Only(obj', g), tasks'[obj'[g].id] = g
      PROVE  \/ Due(events', obj'[g].id) \/ Stored(content', obj', g)
             \/ \E q \in Procs : job'[q].gen = g /\ Waits(conn', q, job'[q], obj'[g].ver)
  <2>1. Only(obj, g) /\ tasks[obj[g].id] = g /\ tasks'[obj[g].id] = g
    BY <1>1, <1>7
  <2>2. \/ Due(events, obj[g].id) \/ Stored(content, obj, g)
        \/ \E q \in Procs : job[q].gen = g /\ Waits(conn, q, job[q], obj[g].ver)
    BY <1>3, <2>1 DEF Keeps
  <2>3. ASSUME NEW q \in Procs, job[q].gen = g, Waits(conn, q, job[q], obj[g].ver), q # p
        PROVE  job'[q].gen = g /\ Waits(conn', q, job'[q], obj[g].ver)
    BY <1>4, <2>3
  <2> QED BY <1>1, <1>2, <2>1, <2>2, <2>3
<1> QED BY <1>5, <1>6, <1>7 DEF Keeps

\* Exclusive after a step of one future with the map as it was.
LEMMA ExclusiveFrame ==
  ASSUME Base, Exclusive, Grown(obj, obj'), tasks' = tasks, NEW p \in Procs,
         \A q \in Procs : q # p => job'[q] = job[q],
         \/ job'[p] = Idle
         \/ job'[p].gen = job[p].gen /\ job'[p].op = job[p].op
         \/ ~Enters(job'[p]) /\ job'[p].gen \in 1 .. Len(obj) /\ tasks[obj[job'[p].gen].id] = job'[p].gen
  PROVE  Exclusive'
<1>1. \A q \in Procs : Enters(job[q]) => job[q].gen \in 1 .. Len(obj)
  <2>1. ~Enters(Idle)
    BY IdleFacts DEF Enters
  <2> QED BY <2>1 DEF Base, Jobs, JobOK
<1>2. \A g \in 1 .. Len(obj) : obj'[g].id = obj[g].id
  BY DEF Grown
<1>3. CASE job'[p] = Idle
  <2>1. ~Enters(Idle) /\ Idle.gen = 0
    BY IdleFacts DEF Enters
  <2>2. \A q \in Procs : job[q].gen \in 1 .. Len(obj) => job[q].gen # 0
    BY DEF Base, TaskTypes
  <2> QED BY <1>1, <1>2, <1>3, <2>1, <2>2 DEF Exclusive
<1>4. CASE job'[p].gen = job[p].gen /\ job'[p].op = job[p].op
  <2>1. \A q \in Procs : job'[q].gen = job[q].gen /\ job'[q].op = job[q].op
    BY <1>4
  <2>2. \A q \in Procs : Enters(job'[q]) => Enters(job[q])
    BY <2>1 DEF Enters
  <2> QED BY <1>1, <1>2, <2>1, <2>2 DEF Exclusive
<1>5. CASE /\ ~Enters(job'[p]) /\ job'[p].gen \in 1 .. Len(obj)
           /\ tasks[obj[job'[p].gen].id] = job'[p].gen
  BY <1>1, <1>2, <1>5 DEF Exclusive
<1> QED BY <1>3, <1>4, <1>5

(* A future that was idle starts to work for a task in the map. *)
LEMMA StartSettling ==
  ASSUME Base, Settling, UNCHANGED store, UNCHANGED <<up, tasks, events>>, Grown(obj, obj'),
         NEW p, NEW op, NEW step, NEW h \in 1 .. Len(obj), NEW e, NEW s,
         Starts(p, op, step, h, e, s),
         op = "delete" \/ op = "worker" \/ (op \in OwnerOps /\ step = "gate"),
         tasks[obj[h].id] = h,
         Len(obj') = Len(obj), \A g \in 1 .. Len(obj) : obj'[g] = obj[g] \/ ~obj'[g].told
  PROVE  Settling'
<1>1. content' = content /\ conn' = conn /\ p \in Procs /\ job[p] = Idle /\ job[p].gen = 0
  BY StoreSame, IdleFacts DEF Starts
<1>2. PICK j : j = job'[p]
  OBVIOUS
<1>3. j.op = op /\ j.step = step /\ j.gen = h /\ \A q \in Procs : q # p => job'[q] = job[q]
  <2>1. j = Job(op, step, h, e, s) /\ \A q \in Procs : q # p => job'[q] = job[q]
    BY <1>2 DEF Starts, Moves
  <2> QED BY <2>1, NewJob
<1>4. ~Enters(j)
  BY <1>3 DEF Enters, OwnerOps
<1>5. Exclusive'
  BY <1>1, <1>2, <1>3, <1>4, ExclusiveFrame DEF Settling
<1>6. ASSUME NEW g \in 1 .. Len(obj'), obj'[g].told
      PROVE  Keeps(g)'
  <2>1. g \in 1 .. Len(obj) /\ obj'[g] = obj[g] /\ obj[g].told /\ g # 0
    BY <1>6 DEF Base, TaskTypes
  <2>2. Sees(events', obj, g, j)
    BY <1>3 DEF Sees, OwnerOps
  <2>3. EntersWith(content', conn', obj, g, p, j)
    BY <1>4 DEF EntersWith
  <2> QED BY <1>1, <1>2, <1>3, <2>1, <2>2, <2>3, KeepsFrame DEF Settling
<1> QED BY <1>5, <1>6 DEF Settling, Kept, Down

\* Events that are due, when one is sent or taken.
LEMMA DueFacts ==
  ASSUME NEW S, NEW ev \in Seq(S)
  PROVE  /\ \A x, id : Due(ev, id) => Due(Append(ev, x), id)
         /\ \A x : x.due => Due(Append(ev, x), x.id)
         /\ \A id : ev # <<>> /\ Due(ev, id) => Due(Tail(ev), id) \/ (Head(ev).id = id /\ Head(ev).due)
<1>1. ASSUME NEW x, NEW id, Due(ev, id)
      PROVE  Due(Append(ev, x), id)
  <2>1. PICK i \in DOMAIN ev : ev[i].id = id /\ ev[i].due
    BY <1>1 DEF Due
  <2>2. i \in DOMAIN Append(ev, x) /\ Append(ev, x)[i] = ev[i]
    OBVIOUS
  <2> QED BY <2>1, <2>2 DEF Due
<1>2. ASSUME NEW x, x.due
      PROVE  Due(Append(ev, x), x.id)
  <2>1. Len(ev) + 1 \in DOMAIN Append(ev, x) /\ Append(ev, x)[Len(ev) + 1] = x
    OBVIOUS
  <2> QED BY <1>2, <2>1 DEF Due
<1>3. ASSUME NEW id, ev # <<>>, Due(ev, id)
      PROVE  Due(Tail(ev), id) \/ (Head(ev).id = id /\ Head(ev).due)
  <2>1. PICK i \in DOMAIN ev : ev[i].id = id /\ ev[i].due
    BY <1>3 DEF Due
  <2>2. CASE i = 1
    BY <2>1, <2>2
  <2>3. CASE i # 1
    <3>1. i - 1 \in DOMAIN Tail(ev) /\ Tail(ev)[i - 1] = ev[i]
      BY <1>3, <2>3
    <3> QED BY <2>1, <3>1 DEF Due
  <2> QED BY <2>2, <2>3
<1> QED BY <1>1, <1>2, <1>3

(* No future moves and no due event is lost. *)
LEMMA QuietSettling ==
  ASSUME Base, Settling, UNCHANGED store, UNCHANGED <<up, tasks, job>>, Grown(obj, obj'),
         Len(obj') = Len(obj),
         \A id \in Ids : Due(events, id) => Due(events', id),
         \A g \in 1 .. Len(obj) : obj'[g] = obj[g] \/ ~obj'[g].told
  PROVE  Settling'
<1>1. content' = content /\ conn' = conn /\ "loop" \in Procs
  BY StoreSame, ProcNames
<1>2. PICK p \in Procs : TRUE
  BY <1>1
<1>3. Exclusive'
  BY <1>2, ExclusiveFrame DEF Settling
<1>4. ASSUME NEW g \in 1 .. Len(obj'), obj'[g].told
      PROVE  Keeps(g)'
  <2>1. g \in 1 .. Len(obj) /\ obj'[g] = obj[g] /\ obj[g].told
    BY <1>4
  <2>2. obj[g].id \in Ids
    BY <2>1, ObjectFacts DEF Base, TaskTypes
  <2>3. Sees(events, obj, g, job[p]) /\ EntersWith(content, conn, obj, g, p, job[p])
    BY <2>1 DEF Settling, Kept, Keeps
  <2>4. Sees(events', obj, g, job[p])
    BY <2>2, <2>3 DEF Sees
  <2> QED BY <1>1, <1>2, <2>1, <2>2, <2>3, <2>4, KeepsFrame DEF Settling
<1> QED BY <1>3, <1>4 DEF Settling, Kept, Down

\* Calls for a task in the map preserve Settling.
LEMMA CallSettling ==
  ASSUME Base, Settling,
         \/ \E a \in scenario.admins, id \in Ids : Delete(a, id)
         \/ \E p \in scenario.owners, id \in Ids, op \in {"told", "silent"} : Change(p, id, op)
         \/ \E id \in Ids : Progress(id) \/ WorkerLater(id)
  PROVE  Settling'
<1>0. obj \in Seq(Objects) /\ Grown(obj, obj)
  BY RisingSame DEF Base, TaskTypes, Rising
<1>1. ASSUME NEW a \in scenario.admins, NEW id \in Ids, Delete(a, id)
      PROVE  Settling'
  <2>1. UNCHANGED store /\ UNCHANGED <<up, tasks, obj, events>> /\ id \in Known
    BY <1>1, DeleteEffect
  <2>2. Starts(a, "delete", "run", tasks[id], 0, Purge)
    BY <1>1, DeleteEffect
  <2>3. tasks[id] \in 1 .. Len(obj) /\ obj[tasks[id]].id = id
    BY <2>1, KnownFacts
  <2> QED BY <1>0, <2>1, <2>2, <2>3, StartSettling
<1>2. ASSUME NEW p \in scenario.owners, NEW id \in Ids, NEW op \in {"told", "silent"},
             Change(p, id, op)
      PROVE  Settling'
  <2>1. /\ UNCHANGED store /\ UNCHANGED <<up, tasks, events>> /\ id \in Known
        /\ Grown(obj, obj') /\ Len(obj') = Len(obj) /\ ~obj'[tasks[id]].told
        /\ \A i \in 1 .. Len(obj) : i # tasks[id] => obj'[i] = obj[i]
    BY <1>2, ChangeEffect DEF Rising
  <2>2. Starts(p, op, "gate", tasks[id], 0, <<>>)
    BY <1>2, ChangeEffect
  <2>3. tasks[id] \in 1 .. Len(obj) /\ obj[tasks[id]].id = id
    BY <2>1, KnownFacts
  <2>4. op \in OwnerOps
    BY DEF OwnerOps
  <2>5. \A g \in 1 .. Len(obj) : obj'[g] = obj[g] \/ ~obj'[g].told
    BY <2>1
  <2> QED BY <1>0, <2>1, <2>2, <2>3, <2>4, <2>5, StartSettling
<1>3. ASSUME NEW id \in Ids, WorkerLater(id)
      PROVE  Settling'
  <2>1. UNCHANGED store /\ UNCHANGED <<up, tasks, obj, events>> /\ id \in Known
    BY <1>3, WorkerEffect
  <2>2. PICK s : Starts("late", "worker", "run", tasks[id], 0, s)
    BY <1>3, WorkerEffect
  <2>3. tasks[id] \in 1 .. Len(obj) /\ obj[tasks[id]].id = id
    BY <2>1, KnownFacts
  <2> QED BY <1>0, <2>1, <2>2, <2>3, StartSettling
<1>4. ASSUME NEW id \in Ids, Progress(id)
      PROVE  Settling'
  <2>1. /\ UNCHANGED store /\ UNCHANGED <<up, tasks, job>>
        /\ Grown(obj, obj') /\ Len(obj') = Len(obj) /\ ~obj'[tasks[id]].told
        /\ \A i \in 1 .. Len(obj) : i # tasks[id] => obj'[i] = obj[i]
    BY <1>4, ProgressEffect DEF Rising
  <2>2. events' = Append(events, [id |-> id, due |-> FALSE])
    BY <1>4, ProgressEffect
  <2>3. PICK x : x = [id |-> id, due |-> FALSE]
    OBVIOUS
  <2>4. \A k : Due(events, k) => Due(events', k)
    BY <2>2, <2>3, EventFacts, DueFacts
  <2>5. \A g \in 1 .. Len(obj) : obj'[g] = obj[g] \/ ~obj'[g].told
    BY <2>1
  <2> QED BY <2>1, <2>4, <2>5, QuietSettling
<1> QED BY <1>1, <1>2, <1>3, <1>4

(* A new object, or one that is restored: its future is alone with it. *)
LEMMA EnterSettling ==
  ASSUME Base, Base', Settling, UNCHANGED store, UNCHANGED <<scenario, up, tasks, events>>,
         Grown(obj, obj'),
         NEW p, NEW op, NEW h \in 1 .. Len(obj'), NEW e \in Versions,
         Starts(p, op, "run", h, e, Initialize(h, e)), op \in {"add", "restore"},
         tasks[obj'[h].id] # h, obj'[h].ver = e,
         \A q \in Procs : job[q].gen # h,
         \A g \in 1 .. Len(obj') : g # h => g \in 1 .. Len(obj) /\ obj'[g] = obj[g]
  PROVE  Settling'
<1>1. /\ content' = content /\ conn' = conn /\ p \in Procs /\ job[p] = Idle /\ job[p].gen = 0
      /\ backend \in {"sqlite", "memory", "json"}
  BY StoreSame, IdleFacts, Backend DEF Starts, Base
<1>2. PICK j : j = job'[p]
  OBVIOUS
<1>3. /\ j.op = op /\ j.step = "run" /\ j.gen = h /\ j.seen = e /\ j.todo = Initialize(h, e)
      /\ \A q \in Procs : q # p => job'[q] = job[q]
  <2>1. j = Job(op, "run", h, e, Initialize(h, e)) /\ \A q \in Procs : q # p => job'[q] = job[q]
    BY <1>2 DEF Starts, Moves
  <2> QED BY <2>1, NewJob
<1>4. op \in SaveOps /\ op \notin OwnerOps /\ op # "save"
  BY DEF SaveOps, OwnerOps
<1>5. HasPut(Initialize(h, e))
  BY <1>1, InitializeProgram
<1>6. Pend(conn', p, j)
  BY <1>3, <1>4, <1>5 DEF Pend
<1>7. \A q \in Procs : Enters(job[q]) => job[q].gen \in 1 .. Len(obj)
  <2>1. ~Enters(Idle)
    BY IdleFacts DEF Enters
  <2> QED BY <2>1 DEF Base, Jobs, JobOK
<1>8. Exclusive'
  <2>1. \A g \in 1 .. Len(obj) : obj'[g].id = obj[g].id
    BY DEF Grown
  <2>2. Exclusive
    BY DEF Settling
  <2>3. ASSUME NEW q \in Procs, Enters(job'[q])
        PROVE  /\ tasks'[obj'[job'[q].gen].id] # job'[q].gen
               /\ \A r \in Procs : r # q => job'[r].gen # job'[q].gen
    <3>1. CASE q = p
      BY <1>2, <1>3, <3>1
    <3>2. CASE q # p
      <4>1. job'[q] = job[q] /\ job[q].gen \in 1 .. Len(obj) /\ job[q].gen # h
        BY <1>3, <1>7, <2>3, <3>2
      <4> QED BY <1>2, <1>3, <2>1, <2>2, <2>3, <4>1 DEF Exclusive
    <3> QED BY <3>1, <3>2
  <2> QED BY <2>3 DEF Exclusive
<1>9. ASSUME NEW g \in 1 .. Len(obj'), obj'[g].told
      PROVE  Keeps(g)'
  <2>1. CASE g = h
    <3>1. ASSUME NEW q \in Procs, q # p
          PROVE  job'[q].gen # g
      BY <1>3, <2>1, <3>1
    <3>2. \A q \in Procs : Sees(events', obj', g, job'[q])
      BY <1>2, <1>3, <1>4, <3>1 DEF Sees
    <3>3. \A q \in Procs : EntersWith(content', conn', obj', g, q, job'[q])
      BY <1>2, <1>3, <1>6, <2>1, <3>1 DEF EntersWith
    <3> QED BY <2>1, <3>2, <3>3 DEF Keeps
  <2>2. CASE g # h
    <3>0. g \in 1 .. Len(obj) /\ obj'[g] = obj[g]
      BY <1>9, <2>2
    <3>1. /\ g \in 1 .. Len(obj) /\ obj'[g] = obj[g] /\ obj[g].told /\ obj'[g].ver = obj[g].ver
          /\ g # 0
      <4>1. obj[g].told
        BY <1>9, <3>0
      <4>2. g # 0
        BY <3>0
      <4> QED BY <3>0, <4>1, <4>2
    <3>2. Sees(events', obj, g, j) /\ EntersWith(content', conn', obj, g, p, j)
      BY <1>3, <2>2 DEF Sees, EntersWith
    <3> QED BY <1>1, <1>2, <1>3, <3>1, <3>2, KeepsFrame DEF Settling
  <2> QED BY <2>1, <2>2
<1> QED BY <1>8, <1>9 DEF Settling, Kept, Down

\* An add preserves Settling.
LEMMA AddSettling ==
  ASSUME Base, Base', Settling, NEW a \in scenario.admins, NEW s \in scenario.specs, Add(a, s)
  PROVE  Settling'
<1>1. PICK h : h = Len(obj) + 1
  OBVIOUS
<1>2. /\ UNCHANGED store /\ UNCHANGED <<scenario, up, tasks, events>>
      /\ Grown(obj, obj') /\ Len(obj') = h /\ (\A i \in 1 .. Len(obj) : obj'[i] = obj[i])
      /\ obj'[h].ver = 0 /\ obj'[h].id \in Ids
  BY <1>1, AddEffect
<1>3. Starts(a, "add", "run", h, 0, Initialize(h, 0))
  BY <1>1, AddEffect
<1>4. Len(obj) \in Nat /\ tasks \in [Ids -> 0 .. Len(obj)] /\ 0 \in Versions
  BY Bounds DEF Base, TaskTypes, Versions
<1>5. h \in 1 .. Len(obj') /\ tasks[obj'[h].id] # h
  BY <1>1, <1>2, <1>4
<1>6. \A q \in Procs : job[q].gen # h
  <2>1. \A q \in Procs : job[q] = Idle \/ job[q].gen \in 1 .. Len(obj)
    BY DEF Base, Jobs, JobOK
  <2> QED BY <1>1, <1>4, <2>1, IdleFacts
<1>7. \A g \in 1 .. Len(obj') : g # h => g \in 1 .. Len(obj) /\ obj'[g] = obj[g]
  BY <1>1, <1>2, <1>4
<1> QED BY <1>2, <1>3, <1>4, <1>5, <1>6, <1>7, EnterSettling

\* restore_tasks preserves Settling: a task that is in the map is not restored
\* again.
LEMMA RestoreSettling ==
  ASSUME Base, Base', Settling, NEW id \in Ids, Restore(id)
  PROVE  Settling'
<1>0. obj \in Seq(Objects) /\ Grown(obj, obj)
  BY RisingSame DEF Base, TaskTypes, Rising
<1>1. /\ (\A q \in Procs : job[q] = Idle) /\ UNCHANGED store
      /\ UNCHANGED <<scenario, up, tasks, events>>
  BY RestoreEffect
<1>2. PICK g \in 1 .. Len(obj), ver \in Versions : obj[g].id = id /\ Restored(id, g, ver)
  BY RestoreEffect
<1>3. CASE obj' = obj /\ job' = job
  BY <1>0, <1>1, <1>3, QuietSettling
<1>4. CASE /\ Moves("boot", Job("restore", "run", g, ver, Initialize(g, ver)))
           /\ ~SpecKnown(obj[g].spec)
           /\ Grown(obj, obj') /\ Len(obj') = Len(obj) /\ obj'[g].ver = ver
           /\ \A i \in 1 .. Len(obj) : i # g => obj'[i] = obj[i]
  <2>1. Starts("boot", "restore", "run", g, ver, Initialize(g, ver))
    BY <1>1, <1>4, ProcNames DEF Starts
  <2>2. tasks[id] # g
    BY <1>4 DEF SpecKnown, Known
  <2>3. obj'[g].id = id
    BY <1>2, <1>4 DEF Grown
  <2>4. \A q \in Procs : job[q].gen # g
    BY <1>1, IdleFacts DEF Base, TaskTypes
  <2>5. \A i \in 1 .. Len(obj') : i # g => i \in 1 .. Len(obj) /\ obj'[i] = obj[i]
    BY <1>4
  <2>6. g \in 1 .. Len(obj') /\ tasks[obj'[g].id] # g /\ obj'[g].ver = ver /\ Grown(obj, obj')
    BY <1>4, <2>2, <2>3
  <2> QED BY <1>1, <2>1, <2>4, <2>5, <2>6, EnterSettling
<1> QED BY <1>2, <1>3, <1>4 DEF Restored

(* Only the event loop saves on an event. *)
LEMMA LoopAlone ==
  ASSUME Base
  PROVE  \A q \in Procs : job[q].op = "save" => q = "loop"
<1>1. Idle.op # "save"
  BY IdleFacts
<1> QED BY <1>1 DEF Base, Jobs, JobOK

(* The loop takes an event. *)
LEMMA LoopKeeps ==
  ASSUME Base, Settling, NEW g \in 1 .. Len(obj), obj[g].told, UNCHANGED store,
         UNCHANGED <<obj, tasks>>,
         job["loop"] = Idle, \A q \in Procs : q # "loop" => job'[q] = job[q],
         Sees(events', obj, g, job'["loop"]), ~Enters(job'["loop"]),
         \A id \in Ids : Due(events, id) /\ tasks[id] = g =>
           \/ Due(events', id)
           \/ job'["loop"].gen = g /\ Waits(conn, "loop", job'["loop"], obj[g].ver)
  PROVE  Keeps(g)'
<1>0. content' = content /\ conn' = conn /\ obj[g].id \in Ids /\ "loop" \in Procs
  BY StoreSame, ObjectFacts, ProcNames DEF Base, TaskTypes
<1>1. Keeps(g)
  BY DEF Settling, Kept
<1>2. \A q \in Procs : q # "loop" => job[q].op # "save"
  BY LoopAlone
<1>3. \A q \in Procs : Sees(events', obj, g, job'[q])
  BY <1>1, <1>2 DEF Keeps, Sees
<1>4. \A q \in Procs : EntersWith(content, conn, obj, g, q, job'[q])
  BY <1>1 DEF Keeps, EntersWith
<1>5. ASSUME Only(obj, g), tasks[obj[g].id] = g
      PROVE  \/ Due(events', obj[g].id) \/ Stored(content, obj, g)
             \/ \E q \in Procs : job'[q].gen = g /\ Waits(conn, q, job'[q], obj[g].ver)
  <2>1. job["loop"].gen # g
    BY IdleFacts
  <2>2. ASSUME NEW q \in Procs, job[q].gen = g, Waits(conn, q, job[q], obj[g].ver)
        PROVE  job'[q].gen = g /\ Waits(conn, q, job'[q], obj[g].ver)
    BY <2>1, <2>2
  <2> QED BY <1>0, <1>1, <1>5, <2>2 DEF Keeps
<1> QED BY <1>0, <1>3, <1>4, <1>5 DEF Keeps

\* The loop preserves Settling: the event it takes becomes a save of the state
\* at that moment, or is of a task that is gone.
LEMMA LoopSettling ==
  ASSUME Base, Settling, LoopSaves \/ LoopSkips
  PROVE  Settling'
<1>0. obj \in Seq(Objects) /\ Grown(obj, obj) /\ "loop" \in Procs
  BY RisingSame, ProcNames DEF Base, TaskTypes, Rising
<1>1. CASE LoopSaves
  <2>1. PICK k : k = Head(events).id
    OBVIOUS
  <2>2. PICK h : h = tasks[k]
    OBVIOUS
  <2>3. /\ UNCHANGED store /\ UNCHANGED <<up, tasks, obj>> /\ events # <<>>
        /\ events' = Tail(events) /\ k \in Known
        /\ Starts("loop", "save", "rest", h, obj[h].ver, <<>>)
    BY <1>1, <2>1, <2>2, LoopEffect
  <2>4. h \in 1 .. Len(obj) /\ obj[h].id = k
    BY <2>2, <2>3, KnownFacts
  <2>5. PICK j : j = job'["loop"]
    OBVIOUS
  <2>6. /\ j.op = "save" /\ j.step = "rest" /\ j.gen = h /\ j.seen = obj[h].ver
        /\ \A q \in Procs : q # "loop" => job'[q] = job[q]
    <3>1. j = Job("save", "rest", h, obj[h].ver, <<>>) /\ \A q \in Procs : q # "loop" => job'[q] = job[q]
      BY <2>3, <2>5 DEF Starts, Moves
    <3>2. j.op = "save" /\ j.step = "rest" /\ j.gen = h /\ j.seen = obj[h].ver
      BY <3>1, NewJob
    <3> QED BY <3>1, <3>2
  <2>7. ~Enters(j) /\ job["loop"] = Idle
    BY <2>3, <2>6 DEF Enters, Starts
  <2>8. Exclusive'
    BY <1>0, <2>2, <2>3, <2>4, <2>5, <2>6, <2>7, ExclusiveFrame DEF Settling
  <2>9. ASSUME NEW g \in 1 .. Len(obj), obj[g].told
        PROVE  Keeps(g)'
    <3>1. Sees(events', obj, g, j)
      BY <2>6 DEF Sees, OwnerOps
    <3>2. j.gen = g => Waits(conn, "loop", j, obj[g].ver)
      BY <2>6 DEF Waits, Pend, SaveOps
    <3>3. \A id \in Ids : Due(events, id) => Due(events', id) \/ id = k
      BY <2>1, <2>3, EventFacts, DueFacts
    <3>4. \A id \in Ids : Due(events, id) /\ tasks[id] = g => Due(events', id) \/ (j.gen = g /\ Waits(conn, "loop", j, obj[g].ver))
      BY <2>2, <2>6, <3>2, <3>3
    <3> QED BY <2>3, <2>5, <2>6, <2>7, <2>9, <3>1, <3>4, LoopKeeps
  <2> QED BY <2>3, <2>8, <2>9 DEF Settling, Kept, Down
<1>2. CASE LoopSkips
  <2>1. /\ UNCHANGED store /\ UNCHANGED <<up, tasks, obj, job>> /\ events # <<>>
        /\ events' = Tail(events)
        /\ job["loop"] = Idle /\ (Head(events).due => Head(events).id \notin Known)
    BY <1>2 DEF LoopSkips, Free
  <2>2. Exclusive'
    BY <1>0, <2>1, ExclusiveFrame DEF Settling
  <2>3. ASSUME NEW g \in 1 .. Len(obj), obj[g].told
        PROVE  Keeps(g)'
    <3>1. job'["loop"].gen # g /\ ~Enters(job'["loop"])
      BY <2>1, IdleFacts DEF Enters
    <3>2. Sees(events', obj, g, job'["loop"])
      BY <3>1 DEF Sees
    <3>3. \A id \in Ids : Due(events, id) => Due(events', id) \/ tasks[id] = 0
      BY <2>1, EventFacts, DueFacts DEF Known
    <3>4. \A id \in Ids : Due(events, id) /\ tasks[id] = g => Due(events', id)
      BY <3>3
    <3> QED BY <2>1, <2>3, <3>1, <3>2, <3>4, LoopKeeps
  <2> QED BY <2>1, <2>2, <2>3 DEF Settling, Kept, Down
<1> QED BY <1>1, <1>2

(* A future reads what it is going to save. *)
LEMMA ReadSettling ==
  ASSUME Base, Settling, NEW p \in Procs, ReadTask(p) \/ ReadRest(p)
  PROVE  Settling'
<1>0. obj \in Seq(Objects) /\ Grown(obj, obj) /\ backend \in {"sqlite", "memory", "json"}
  BY RisingSame, Backend DEF Base, TaskTypes, Rising
<1>1. PICK h : h = job[p].gen
  OBVIOUS
<1>2. PICK j : j = job'[p]
  OBVIOUS
<1>3. /\ UNCHANGED store /\ UNCHANGED <<up, tasks, obj, events>> /\ Moves(p, j)
      /\ j.op = job[p].op /\ j.gen = h
      /\ j.op \in OwnerOps \cup {"save"}
  <2>1. CASE ReadTask(p)
    BY <1>1, <1>2, <2>1, ReadTaskEffect
  <2>2. CASE ReadRest(p)
    BY <1>1, <1>2, <2>2, ReadRestEffect
  <2> QED BY <2>1, <2>2
<1>4. ~Enters(j) /\ j.op # "delete" /\ j.op \in SaveOps
  BY <1>3 DEF Enters, OwnerOps, SaveOps
<1>5. Exclusive'
  BY <1>0, <1>1, <1>2, <1>3, ExclusiveFrame DEF Settling, Moves
<1>6. content' = content /\ conn' = conn
  BY <1>3, StoreSame
<1>7. ASSUME NEW g \in 1 .. Len(obj), obj[g].told
      PROVE  Keeps(g)'
  <2>0. Keeps(g)
    BY <1>7 DEF Settling, Kept
  <2>1. EntersWith(content', conn', obj, g, p, j)
    BY <1>4 DEF EntersWith
  <2>2. CASE ReadTask(p)
    <3>1. j.step = "rest" /\ j.seen = obj[h].ver /\ j.op \in OwnerOps
      BY <1>1, <1>2, <2>2, ReadTaskEffect
    <3>2. Sees(events', obj, g, j)
      BY <1>3, <3>1 DEF Sees, OwnerOps
    <3>3. j.gen = g => Waits(conn', p, j, obj[g].ver)
      BY <1>3, <1>4, <3>1 DEF Waits, Pend
    <3> QED BY <1>0, <1>1, <1>2, <1>3, <1>6, <1>7, <2>1, <3>2, <3>3, KeepsFrame DEF Settling,
               Moves
  <2>3. CASE ReadRest(p)
    <3>1. /\ j.step = "run" /\ j.seen = job[p].seen /\ j.seen \in Versions /\ job[p].step = "rest"
          /\ j.todo = SaveTask(h, j.seen, obj[h].ver) /\ obj[h].ver \in Versions
          /\ j.seen <= obj[h].ver
      BY <1>1, <1>2, <2>3, ReadRestEffect
    <3>2. HasPut(j.todo)
      BY <1>0, <3>1, SaveTaskProgram
    <3>3. Pend(conn', p, j)
      BY <1>4, <3>1, <3>2 DEF Pend
    <3>4. Sees(events', obj, g, j)
      <4>1. Sees(events, obj, g, job[p])
        BY <2>0 DEF Keeps
      <4> QED BY <1>1, <1>3, <3>1, <4>1 DEF Sees
    <3>5. Waits(conn, p, job[p], obj[g].ver) => Waits(conn', p, j, obj[g].ver)
      BY <1>3, <1>4, <3>1, <3>3 DEF Waits
    <3> QED BY <1>0, <1>1, <1>2, <1>3, <1>6, <1>7, <2>1, <3>4, <3>5, KeepsFrame DEF Settling,
               Moves
  <2> QED BY <2>2, <2>3
<1> QED BY <1>3, <1>5, <1>7 DEF Settling, Kept, Down

(* The rows of the tasks, but for the one of an id *)
TasksBut(rows, new, id) == \A i \in Ids : i # id => new[i]["tasks"] = rows[i]["tasks"]

\* A statement preserves Settling: it leaves the row of the task alone, writes
\* what its future has seen, or belongs to a delete.
LEMMA StatementSettling ==
  ASSUME Base, Settling, NEW p \in Procs, Statements(p), NEW i, i = job[p], NEW id,
         id = obj[i.gen].id,
         \A q \in Procs : q # p /\ conn = q => conn' = q, TasksBut(content, content', id),
         \/ content'[id]["tasks"] = content[id]["tasks"] /\ (Pend(conn, p, i) => Pend(conn', p, job'[p]))
         \/ i.op \in SaveOps /\ content'[id]["tasks"] = Row(i.gen, i.seen)
         \/ i.op = "delete"
  PROVE  Settling'
<1>0. obj \in Seq(Objects) /\ Grown(obj, obj)
  BY RisingSame DEF Base, TaskTypes, Rising
<1>1. PICK j : j = job'[p]
  OBVIOUS
<1>2. /\ \A q \in Procs : q # p => job'[q] = job[q]
      /\ j.op = i.op /\ j.step = "run" /\ j.gen = i.gen /\ j.seen = i.seen /\ i.step = "run"
  BY <1>1, SteppedJob DEF Stepped, Moves, Statements
<1>3. UNCHANGED <<up, tasks, obj, events>>
  BY DEF Statements, others
<1>4. Exclusive'
  BY <1>0, <1>1, <1>2, <1>3, ExclusiveFrame DEF Settling
<1>5. i.op \in Ops /\ i.gen \in 1 .. Len(obj) /\ id \in Ids
  BY AtStatement
<1>6. ASSUME NEW g \in 1 .. Len(obj), obj[g].told
      PROVE  Keeps(g)'
  <2>0. Keeps(g) /\ obj[g].id \in Ids
    BY <1>0, <1>6, ObjectFacts DEF Settling, Kept
  <2>1. Sees(events', obj, g, j)
    <3>1. Sees(events, obj, g, i)
      BY <2>0 DEF Keeps
    <3> QED BY <1>2, <1>3, <3>1 DEF Sees
  <2>2. Only(obj, g) /\ i.gen # g => id # obj[g].id
    BY <1>5 DEF Only
  <2>3. Only(obj, g) /\ i.gen # g /\ Stored(content, obj, g) => Stored(content', obj, g)
    BY <2>0, <2>2 DEF Stored, TasksBut
  <2>4. EntersWith(content, conn, obj, g, p, i)
    BY <2>0 DEF Keeps
  <2>5. CASE /\ content'[id]["tasks"] = content[id]["tasks"]
             /\ (Pend(conn, p, i) => Pend(conn', p, j))
    <3>1. Stored(content, obj, g) => Stored(content', obj, g)
      BY <2>0, <2>5 DEF Stored, TasksBut
    <3>2. EntersWith(content', conn', obj, g, p, j)
      BY <1>2, <2>4, <2>5, <3>1 DEF EntersWith, Enters
    <3>3. Waits(conn, p, i, obj[g].ver) => Waits(conn', p, j, obj[g].ver)
      BY <1>2, <2>5 DEF Waits
    <3> QED BY <1>0, <1>1, <1>2, <1>3, <1>6, <2>1, <3>1, <3>2, <3>3, KeepsFrame DEF Settling
  <2>6. CASE i.op \in SaveOps /\ content'[id]["tasks"] = Row(i.gen, i.seen)
    <3>1. i.gen = g /\ i.seen = obj[g].ver => Stored(content', obj, g)
      BY <2>6 DEF Stored
    <3>2. i.gen = g => i.seen = obj[g].ver \/ Due(events', obj[g].id)
      <4>1. CASE Enters(i)
        BY <2>4, <4>1 DEF EntersWith
      <4>2. CASE i.op \in OwnerOps \cup {"save"}
        BY <1>2, <2>1, <4>2 DEF Sees
      <4> QED BY <2>6, <4>1, <4>2 DEF Enters, OwnerOps, SaveOps
    <3>3. EntersWith(content', conn', obj, g, p, j)
      BY <1>2, <2>4, <3>1 DEF EntersWith, Enters
    <3> QED BY <1>0, <1>1, <1>2, <1>3, <1>6, <2>1, <2>3, <3>1, <3>2, <3>3, KeepsFrame DEF Settling
  <2>7. CASE i.op = "delete"
    <3>1. Waits(conn', p, j, obj[g].ver)
      BY <1>2, <2>7 DEF Waits
    <3>2. EntersWith(content', conn', obj, g, p, j)
      BY <1>2, <2>7 DEF EntersWith, Enters
    <3> QED BY <1>0, <1>1, <1>2, <1>3, <1>6, <2>1, <2>3, <3>1, <3>2, KeepsFrame DEF Settling
  <2> QED BY <1>1, <2>5, <2>6, <2>7
<1> QED BY <1>3, <1>4, <1>6 DEF Settling, Kept, Down

(* The row of the task that is still to be put, behind another statement *)
LEMMA PutLater ==
  ASSUME NEW S, NEW s \in Seq(S), s # <<>>, HasPut(s),
         ~(Head(s).do = "put" /\ "tasks" \in DOMAIN Head(s).rows)
  PROVE  HasPut(Tail(s))
<1>1. PICK i \in DOMAIN s : s[i].do = "put" /\ "tasks" \in DOMAIN s[i].rows
  BY DEF HasPut
<1>2. i # 1
  BY <1>1
<1>3. i - 1 \in DOMAIN Tail(s) /\ Tail(s)[i - 1] = s[i]
  BY <1>2
<1> QED BY <1>1, <1>3 DEF HasPut

\* A program is a sequence.
LEMMA ProgramIsSeq ==
  ASSUME NEW b, NEW op \in Ops, NEW g, NEW e, NEW s, Program(b, op, g, e, s)
  PROVE  \E S : s \in Seq(S)
BY DEF Program, Saving, Ops, SaveOps

(* A statement that does not put the row of the task *)
LEMMA PendStep ==
  ASSUME Base, NEW p \in Procs, Statements(p), NEW x, x = Head(job[p].todo),
         ~(x.do = "put" /\ "tasks" \in DOMAIN x.rows), Pend(conn, p, job[p]), conn' = conn \/ conn # p
  PROVE  Pend(conn', p, job'[p])
<1>1. /\ job[p].op \in Ops /\ Program(backend, job[p].op, job[p].gen, job[p].seen, job[p].todo)
      /\ job[p].todo # <<>>
      /\ job[p].step = "run"
  BY AtStatement
<1>2. job'[p].op = job[p].op /\ job'[p].step = "run" /\ job'[p].todo = Tail(job[p].todo)
  BY SteppedJob DEF Stepped
<1>3. PICK S : job[p].todo \in Seq(S)
  BY <1>1, ProgramIsSeq
<1>4. HasPut(job[p].todo) => HasPut(Tail(job[p].todo))
  BY <1>1, <1>3, PutLater
<1> QED BY <1>1, <1>2, <1>4 DEF Pend

\* Statements preserve Settling.
LEMMA StepSettling ==
  ASSUME Base, Transaction, Settling, NEW p \in Procs,
         DoPut(p) \/ DoBegin(p) \/ DoCommit(p) \/ DoCopy(p) \/ DoWrite(p)
  PROVE  Settling'
<1>0. Statements(p)
  BY IsStatement
<1>1. PICK i : i = job[p]
  OBVIOUS
<1>2. PICK id : id = obj[i.gen].id
  OBVIOUS
<1>3. /\ id \in Ids /\ i.gen \in Gens /\ i.seen \in Versions /\ i.step = "run"
      /\ content \in Store /\ p # "none"
  BY <1>0, <1>1, <1>2, AtStatement, ProcNames DEF Base, StoreTypes
<1>4. job'[p].op = i.op /\ job'[p].step = "run"
  BY <1>0, <1>1, SteppedJob DEF Stepped
<1>5. CASE DoPut(p)
  <2>1. conn' = conn
    BY <1>1, <1>2, <1>5, PutEffect
  <2>2. CASE conn = p /\ InPut(backend, i) /\ content' = content
    <3>1. Pend(conn', p, job'[p])
      BY <1>4, <2>1, <2>2 DEF Pend, InPut
    <3>2. TasksBut(content, content', id) /\ content'[id]["tasks"] = content[id]["tasks"]
      BY <2>2 DEF TasksBut
    <3> QED BY <1>0, <1>1, <1>2, <2>1, <3>1, <3>2, StatementSettling
  <2>3. CASE /\ PlainPut(backend, i.op, i.gen, i.seen, Head(i.todo))
             /\ content' = Updated(content, id, Head(i.todo).rows) /\ conn # p
    <3>1. PICK x : x = Head(i.todo)
      OBVIOUS
    <3>2. PICK g : g = i.gen
      OBVIOUS
    <3>3. Putting(x, g) /\ g \in Gens
      BY <1>3, <2>3, <3>1, <3>2 DEF PlainPut
    <3>4. /\ \A k \in Ids : k # id => content'[k] = content[k]
          /\ \A t \in Tables : content'[id][t] = IF t \in DOMAIN x.rows THEN x.rows[t] ELSE content[id][t]
      BY <1>3, <2>3, <3>1, <3>3, UpdatedFacts
    <3>5. TasksBut(content, content', id) /\ "tasks" \in Tables
      BY <3>4 DEF TasksBut, Tables
    <3>6. CASE "tasks" \in DOMAIN x.rows
      <4>1. (i.op \in SaveOps /\ content'[id]["tasks"] = Row(i.gen, i.seen)) \/ i.op = "delete"
        BY <2>3, <3>1, <3>4, <3>5, <3>6 DEF PlainPut
      <4> QED BY <1>0, <1>1, <1>2, <2>1, <3>5, <4>1, StatementSettling
    <3>7. CASE "tasks" \notin DOMAIN x.rows
      <4>1. content'[id]["tasks"] = content[id]["tasks"]
        BY <3>4, <3>5, <3>7
      <4>2. Pend(conn, p, i) => Pend(conn', p, job'[p])
        BY <1>0, <1>1, <2>1, <3>1, <3>7, PendStep
      <4> QED BY <1>0, <1>1, <1>2, <2>1, <3>5, <4>1, <4>2, StatementSettling
    <3> QED BY <3>6, <3>7
  <2> QED BY <1>1, <1>2, <1>5, <2>2, <2>3, PutEffect
<1>6. CASE DoBegin(p)
  <2>1. content' = content /\ conn = "none" /\ conn' = p /\ job[p].op \in SaveOps
    BY <1>6, BeginEffect
  <2>2. Pend(conn', p, job'[p])
    BY <1>1, <1>4, <2>1 DEF Pend
  <2>3. TasksBut(content, content', id) /\ content'[id]["tasks"] = content[id]["tasks"]
    BY <2>1 DEF TasksBut
  <2>4. \A q \in Procs : conn # q
    BY <2>1, ProcNames
  <2> QED BY <1>0, <1>1, <1>2, <2>2, <2>3, <2>4, StatementSettling
<1>7. CASE DoCommit(p)
  <2>1. conn = p /\ Replacing(content, content', id, i.gen, i.seen) /\ InCommit(backend, i)
    BY <1>1, <1>2, <1>7, CommitEffect
  <2>2. content'[id]["tasks"] = Row(i.gen, i.seen) /\ \A k \in Ids : k # id => content'[k] = content[k]
    BY <1>3, <2>1, ReplacingFacts
  <2>3. TasksBut(content, content', id) /\ i.op \in SaveOps
    BY <2>1, <2>2 DEF TasksBut, InCommit
  <2> QED BY <1>0, <1>1, <1>2, <2>1, <2>2, <2>3, StatementSettling
<1>8. CASE DoCopy(p) \/ DoWrite(p)
  <2>1. content' = content /\ conn' = conn
    BY <1>8, FileEffect
  <2>2. TasksBut(content, content', id) /\ content'[id]["tasks"] = content[id]["tasks"]
    BY <2>1 DEF TasksBut
  <2>3. Head(i.todo).do # "put"
    BY <1>1, <1>8 DEF DoCopy, DoWrite, Running, Statement
  <2>4. Pend(conn, p, i) => Pend(conn', p, job'[p])
    BY <1>0, <1>1, <2>1, <2>3, PendStep
  <2> QED BY <1>0, <1>1, <1>2, <2>1, <2>2, <2>4, StatementSettling
<1> QED BY <1>5, <1>6, <1>7, <1>8

(* A future of task h ends: what is kept of the other tasks, and of h if   *)
(* the object stays as it is.                                              *)
LEMMA EndKeeps ==
  ASSUME Base, Settling, NEW p \in Procs, job[p].step = "run", Moves(p, Idle), Grown(obj, obj'),
         content' = content,
         \A q \in Procs : q # p /\ conn = q => conn' = q,
         NEW g \in 1 .. Len(obj), obj[g].told, obj'[g].ver = obj[g].ver,
         Due(events, obj[g].id) => Due(events', obj[g].id),
         tasks'[obj[g].id] = g => tasks[obj[g].id] = g,
         \/ job[p].gen # g
         \/ tasks'[obj[g].id] # g
         \/ job[p].op # "delete" /\ ~Pend(conn, p, job[p])
  PROVE  Keeps(g)'
<1>1. job'[p] = Idle /\ Idle.gen # g /\ \A q \in Procs : q # p => job'[q] = job[q]
  BY IdleFacts DEF Moves
<1>2. Sees(events', obj, g, Idle) /\ EntersWith(content', conn', obj, g, p, Idle)
  BY <1>1 DEF Sees, EntersWith
<1>3. job[p].op # "delete" /\ ~Pend(conn, p, job[p]) => ~Waits(conn, p, job[p], obj[g].ver)
  BY DEF Waits
<1> QED BY <1>1, <1>2, <1>3, KeepsFrame DEF Settling

(* The task is put into the map or taken out of it. *)
LEMMA EndExclusive ==
  ASSUME Base, Exclusive, NEW p \in Procs, Moves(p, Idle), Grown(obj, obj'), NEW id,
         \A k \in Ids : k # id => tasks'[k] = tasks[k],
         \/ tasks'[id] = tasks[id]
         \/ tasks'[id] = 0
         \/ Enters(job[p]) /\ tasks'[id] = job[p].gen
  PROVE  Exclusive'
<1>1. job'[p] = Idle /\ Idle.gen = 0 /\ ~Enters(Idle) /\ \A q \in Procs : q # p => job'[q] = job[q]
  BY IdleFacts DEF Moves, Enters
<1>2. \A q \in Procs : Enters(job[q]) => job[q].gen \in 1 .. Len(obj)
  BY <1>1 DEF Base, Jobs, JobOK
<1>3. \A g \in 1 .. Len(obj) : obj'[g].id = obj[g].id /\ obj[g].id \in Ids /\ g # 0
  BY ObjectFacts DEF Grown, Base, TaskTypes
<1>4. ASSUME NEW q \in Procs, Enters(job'[q])
      PROVE  /\ tasks'[obj'[job'[q].gen].id] # job'[q].gen
             /\ \A r \in Procs : r # q => job'[r].gen # job'[q].gen
  <2>1. q # p /\ job'[q] = job[q] /\ job[q].gen \in 1 .. Len(obj)
    BY <1>1, <1>2, <1>4
  <2>2. tasks[obj[job[q].gen].id] # job[q].gen /\ \A r \in Procs : r # q => job[r].gen # job[q].gen
    BY <1>4, <2>1 DEF Exclusive
  <2>3. job'[p].gen # job[q].gen /\ job[p].gen # job[q].gen
    BY <1>1, <1>3, <2>1, <2>2
  <2>4. \A r \in Procs : r # q => job'[r].gen # job'[q].gen
    BY <1>1, <2>1, <2>2, <2>3
  <2>5. tasks'[obj[job[q].gen].id] # job[q].gen
    BY <1>3, <2>1, <2>2, <2>3
  <2> QED BY <1>3, <2>1, <2>4, <2>5
<1> QED BY <1>4 DEF Exclusive

\* The end of a program preserves Settling: an owner announces its save after
\* the row is written, while it still has the gate.
LEMMA ReturnSettling ==
  ASSUME Base, Transaction, Settling, NEW p \in Procs, Return(p)
  PROVE  Settling'
<1>0. obj \in Seq(Objects) /\ Grown(obj, obj)
  BY RisingSame DEF Base, TaskTypes, Rising
<1>1. PICK h : h = job[p].gen
  OBVIOUS
<1>2. PICK id : id = obj[h].id
  OBVIOUS
<1>3. PICK op : op = job[p].op
  OBVIOUS
<1>4. /\ up /\ job[p].step = "run" /\ job[p].todo = <<>> /\ Moves(p, Idle) /\ up' = up
      /\ UNCHANGED store
      /\ h \in 1 .. Len(obj) /\ id \in Ids /\ op \in Ops
  BY <1>1, <1>2, <1>3, ReturnEffect
<1>5. /\ op \in {"add", "restore"} => tasks' = [tasks EXCEPT ![id] = h]
      /\ op = "delete" => tasks' = [tasks EXCEPT ![id] = 0]
      /\ op \notin {"add", "restore", "delete"} => tasks' = tasks
  BY <1>1, <1>2, <1>3 DEF Return
<1>18. op # "told" => obj' = obj /\ events' = events
  BY <1>1, <1>2, <1>3 DEF Return
<1>19. op = "told" => obj' = [obj EXCEPT ![h].told = TRUE]
  BY <1>1, <1>2, <1>3 DEF Return
<1>20. op = "told" => events' = Append(events, [id |-> id, due |-> TRUE])
  BY <1>1, <1>2, <1>3 DEF Return, Emit
<1>6. /\ Grown(obj, obj') /\ Len(obj') = Len(obj)
      /\ (\A g \in 1 .. Len(obj) : obj'[g].ver = obj[g].ver)
      /\ \A g \in 1 .. Len(obj) : g # h \/ op # "told" => obj'[g] = obj[g]
  <2>1. CASE op = "told"
    <3>6. PICK t \in BOOLEAN : t = TRUE
      OBVIOUS
    <3>1. obj' = Told(obj, h, t)
      BY <1>19, <2>1, <3>6 DEF Told
    <3>2. PICK o3 : o3 = Told(obj, h, t)
      OBVIOUS
    <3>0. h \in 1 .. Len(obj)
      BY <1>4
    <3>3. Rising(obj, o3) /\ Len(o3) = Len(obj)
      BY <3>0, <3>2, ToldObject
    <3>4. o3[h].ver = obj[h].ver
      BY <3>0, <3>2, ToldObject
    <3>5. ASSUME NEW i \in 1 .. Len(obj), i # h
          PROVE  o3[i] = obj[i]
      BY <3>0, <3>2, <3>5, ToldObject
    <3> QED BY <2>1, <3>1, <3>2, <3>3, <3>4, <3>5 DEF Rising
  <2>2. CASE op # "told"
    BY <1>0, <1>18, <2>2
  <2> QED BY <2>1, <2>2
<1>7. content' = content /\ conn' = conn /\ tasks \in [Ids -> 0 .. Len(obj)]
  BY <1>4, StoreSame DEF Base, TaskTypes
<1>8. ~Pend(conn, p, job[p])
  <2>1. conn # p
    BY <1>4, NoProgram, NotConnected
  <2>2. ~HasPut(<<>>)
    BY DEF HasPut
  <2> QED BY <1>4, <2>1, <2>2 DEF Pend
<1>9. \A k \in Ids : Due(events, k) => Due(events', k)
  <2>1. CASE op = "told"
    <3>1. PICK x : x = [id |-> id, due |-> TRUE]
      OBVIOUS
    <3>2. \A k : Due(events, k) => Due(Append(events, x), k)
      BY EventFacts, DueFacts
    <3> QED BY <1>20, <2>1, <3>1, <3>2
  <2> QED BY <1>18, <2>1
<1>10. \A k \in Ids : k # id => tasks'[k] = tasks[k]
  BY <1>5, <1>7
<1>11. \/ op \in {"add", "restore"} /\ tasks'[id] = h
       \/ op = "delete" /\ tasks'[id] = 0
       \/ op \notin {"add", "restore", "delete"} /\ tasks'[id] = tasks[id]
  BY <1>4, <1>5, <1>7
<1>12. Exclusive'
  BY <1>1, <1>3, <1>4, <1>6, <1>10, <1>11, EndExclusive DEF Settling, Enters
<1>13. ASSUME NEW g \in 1 .. Len(obj), g # h, obj[g].told
       PROVE  Keeps(g)'
  <2>1. obj[g].id \in Ids
    BY <1>0, ObjectFacts
  <2>2. tasks'[obj[g].id] = g => tasks[obj[g].id] = g
    BY <1>10, <1>11, <1>13, <2>1
  <2> QED BY <1>1, <1>4, <1>6, <1>7, <1>9, <1>13, <2>1, <2>2, EndKeeps
<1>14. ASSUME op \in {"add", "restore"}, obj[h].told
       PROVE  Keeps(h)'
  <2>1. Enters(job[p]) /\ Keeps(h)
    BY <1>3, <1>4, <1>14 DEF Enters, Settling, Kept
  <2>2. \A q \in Procs : job'[q].gen # h
    <3>1. Idle.gen # h
      BY <1>4, IdleFacts
    <3>2. \A q \in Procs : q # p => job[q].gen # h
      BY <1>1, <2>1 DEF Settling, Exclusive
    <3> QED BY <1>4, <3>1, <3>2 DEF Moves
  <2>3. Only(obj, h) => Stored(content, obj, h)
    BY <1>1, <1>8, <2>1 DEF Keeps, EntersWith
  <2>4. obj' = obj /\ op # "told"
    BY <1>14, <1>18
  <2>5. \A q \in Procs : Sees(events', obj', h, job'[q]) /\ EntersWith(content', conn', obj', h, q, job'[q])
    BY <2>2 DEF Sees, EntersWith
  <2> QED BY <1>7, <2>3, <2>4, <2>5 DEF Keeps
<1>15. ASSUME op = "told"
       PROVE  Keeps(h)'
  <2>1. obj'[h].id = id /\ obj'[h].ver = obj[h].ver
    BY <1>2, <1>4, <1>6 DEF Grown
  <2>2. Due(events', id)
    <3>1. PICK x : x = [id |-> id, due |-> TRUE]
      OBVIOUS
    <3>2. x.id = id /\ x.due
      BY <3>1
    <3>3. Due(Append(events, x), x.id)
      BY <3>2, EventFacts, DueFacts
    <3> QED BY <1>20, <1>15, <3>1, <3>2, <3>3
  <2>3. gate[h] = p
    <3>1. JobOK(backend, p, job[p], obj, gate)
      BY <1>4, Working
    <3> QED BY <1>1, <1>3, <1>4, <1>15, <3>1 DEF JobOK, OwnerOps
  <2>4. ASSUME NEW q \in Procs, job'[q].gen = h
        PROVE  /\ ~(job'[q].op \in OwnerOps /\ job'[q].step # "gate")
               /\ ~Enters(job'[q])
    <3>1. q # p /\ job'[q] = job[q]
      BY <1>4, <2>4, IdleFacts DEF Moves
    <3>2. job[q] # Idle
      BY <1>4, <2>4, <3>1, IdleFacts
    <3>3. JobOK(backend, q, job[q], obj, gate)
      BY <3>2 DEF Base, Jobs
    <3>4. ~(job[q].op \in OwnerOps /\ job[q].step # "gate")
      BY <2>3, <2>4, <3>1, <3>3 DEF JobOK
    <3>5. ~Enters(job[q])
      BY <1>1, <2>4, <3>1 DEF Settling, Exclusive
    <3> QED BY <3>1, <3>4, <3>5
  <2>5. \A q \in Procs : Sees(events', obj', h, job'[q]) /\ EntersWith(content', conn', obj', h, q, job'[q])
    BY <2>1, <2>2, <2>4 DEF Sees, EntersWith
  <2> QED BY <2>1, <2>2, <2>5 DEF Keeps
<1>16. ASSUME op \notin {"add", "restore", "told"}, obj[h].told
       PROVE  Keeps(h)'
  <2>1. tasks'[obj[h].id] = h => tasks[obj[h].id] = h
    BY <1>2, <1>4, <1>11, <1>16
  <2>2. tasks'[obj[h].id] # h \/ job[p].op # "delete"
    BY <1>2, <1>3, <1>4, <1>11
  <2> QED BY <1>2, <1>4, <1>6, <1>7, <1>8, <1>9, <1>16, <2>1, <2>2, EndKeeps
<1>17. ASSUME NEW g \in 1 .. Len(obj'), obj'[g].told
       PROVE  Keeps(g)'
  <2>1. g \in 1 .. Len(obj)
    BY <1>6
  <2>2. g # h \/ op # "told" => obj[g].told
    BY <1>6, <1>17, <2>1
  <2> QED BY <1>13, <1>14, <1>15, <1>16, <2>1, <2>2
<1> QED BY <1>4, <1>12, <1>17 DEF Settling, Kept, Down

\* A failed statement preserves Settling: the task does not count as saved.
LEMMA AbortSettling ==
  ASSUME Base, Settling, NEW p \in Procs, Fails(p) \/ Refuses(p)
  PROVE  Settling'
<1>1. PICK h : h = job[p].gen
  OBVIOUS
<1>2. job[p].step = "run" /\ Abort(p, h)
  BY <1>1 DEF Fails, Refuses, Running
<1>3. PICK o2 : o2 = obj'
  OBVIOUS
<1>4. /\ Moves(p, Idle) /\ h \in 1 .. Len(obj)
      /\ Rising(obj, o2) /\ Len(o2) = Len(obj) /\ ~o2[h].told
      /\ \A i \in 1 .. Len(obj) : i # h => o2[i] = obj[i]
      /\ events' = events \/ events' = Append(events, [id |-> obj[h].id, due |-> TRUE])
      /\ UNCHANGED <<content, up, tasks>>
      /\ conn' = (IF conn = p THEN "none" ELSE conn)
  BY <1>1, <1>2, <1>3, AbortEffect
<1>5. \A k : Due(events, k) => Due(events', k)
  <2>1. PICK x : x = [id |-> obj[h].id, due |-> TRUE]
    OBVIOUS
  <2>2. \A k : Due(events, k) => Due(Append(events, x), k)
    BY EventFacts, DueFacts
  <2> QED BY <1>4, <2>1, <2>2
<1>6. Grown(obj, obj') /\ Len(obj') = Len(obj)
  BY <1>3, <1>4 DEF Rising
<1>7. Exclusive'
  BY <1>4, <1>6, EndExclusive DEF Settling
<1>8. ASSUME NEW g \in 1 .. Len(obj'), obj'[g].told
      PROVE  Keeps(g)'
  <2>1. g \in 1 .. Len(obj) /\ g # h
    BY <1>3, <1>4, <1>6, <1>8
  <2>2. obj'[g] = obj[g]
    BY <1>3, <1>4, <2>1
  <2>3. obj[g].told /\ obj'[g].ver = obj[g].ver
    BY <1>8, <2>2
  <2> QED BY <1>1, <1>2, <1>4, <1>5, <1>6, <2>1, <2>3, EndKeeps
<1> QED BY <1>4, <1>7, <1>8 DEF Settling, Kept, Down

(* No task is in the map and no future is at work. *)
LEMMA EmptySettling ==
  ASSUME obj \in Seq(Objects), \A id \in Ids : tasks[id] = 0, \A p \in Procs : job[p] = Idle
  PROVE  Settling
<1>1. Idle.gen = 0 /\ ~Enters(Idle)
  BY IdleFacts DEF Enters
<1>2. Exclusive /\ Down
  BY <1>1 DEF Exclusive, Down
<1>3. ASSUME NEW g \in 1 .. Len(obj)
      PROVE  Keeps(g)
  <2>1. g # 0 /\ obj[g].id \in Ids
    BY ObjectFacts
  <2>2. \A p \in Procs : job[p].gen # g
    BY <1>1, <2>1
  <2> QED BY <2>1, <2>2 DEF Keeps, Sees, EntersWith
<1> QED BY <1>2, <1>3 DEF Settling, Kept

(* The same of the next state *)
LEMMA EmptyNext ==
  ASSUME obj' \in Seq(Objects), \A id \in Ids : tasks'[id] = 0, \A p \in Procs : job'[p] = Idle
  PROVE  Settling'
<1>1. Idle.gen = 0 /\ ~Enters(Idle)
  BY IdleFacts DEF Enters
<1>2. Exclusive' /\ Down'
  BY <1>1 DEF Exclusive, Down
<1>3. ASSUME NEW g \in 1 .. Len(obj')
      PROVE  Keeps(g)'
  <2>1. g # 0 /\ obj'[g].id \in Ids
    BY ObjectFacts
  <2>2. \A p \in Procs : job'[p].gen # g
    BY <1>1, <2>1
  <2> QED BY <2>1, <2>2 DEF Keeps, Sees, EntersWith
<1> QED BY <1>2, <1>3 DEF Settling, Kept

\* A crash and Manager::init preserve Settling.
LEMMA RestartSettling ==
  ASSUME Base, Base', Settling, Crash \/ Open
  PROVE  Settling'
<1>1. obj' \in Seq(Objects)
  BY DEF Base, TaskTypes
<1>2. CASE Crash
  <2>1. (\A id \in Ids : tasks'[id] = 0) /\ \A p \in Procs : job'[p] = Idle
    BY <1>2 DEF Crash
  <2> QED BY <1>1, <2>1, EmptyNext
<1>3. CASE Open
  <2>1. ~up /\ tasks' = tasks /\ job' = job
    BY <1>3 DEF Open
  <2>2. (\A id \in Ids : tasks'[id] = 0) /\ \A p \in Procs : job'[p] = Idle
    BY <2>1 DEF Settling, Down, Base, Booting, Ready
  <2> QED BY <1>1, <2>2, EmptyNext
<1> QED BY <1>2, <1>3

\* Every step preserves Settling.
LEMMA SettlingStep ==
  ASSUME Base, Base', Transaction, Settling, [Next]_vars
  PROVE  Settling'
<1>0. obj \in Seq(Objects) /\ Grown(obj, obj)
  BY RisingSame DEF Base, TaskTypes, Rising
<1>1. CASE UNCHANGED vars
  BY <1>0, <1>1, QuietSettling DEF vars, store
<1>2. CASE Next
  BY <1>2, Actions, CallSettling, AddSettling, RestoreSettling, LoopSettling, ReadSettling,
     StepSettling, ReturnSettling,
     AbortSettling, RestartSettling, Zenon
<1> QED BY <1>1, <1>2

-----------------------------------------------------------------------------
(* The JSON file *)

At(s, what) == s # <<>> /\ Head(s).do = what
Words == {"put", "copy", "write"}

\* What is left of a program of JsonFileRepository: every change of the state is
\* followed by the two halves of persist_state.
FileProgram(s) ==
  \A i \in 1 .. Len(s) :
    /\ s[i].do \in Words
    /\ s[i].do = "put" => i < Len(s) /\ s[i + 1].do = "copy"
    /\ s[i].do = "copy" => i < Len(s) /\ s[i + 1].do = "write"
    /\ s[i].do = "write" /\ i < Len(s) => s[i + 1].do = "put"
Fresh(s) == FileProgram(s) /\ ~At(s, "copy") /\ ~At(s, "write")

\* One rewriting is under way that began with the present state.
AloneAt(p) == At(job[p].todo, "write") /\ writers = {p} /\ ~clash /\ job[p].copy = content

\* The file holds the state, or it will, or the last rewriting was disturbed.
FileInv ==
  backend = "json" /\ up =>
    /\ \A p \in Procs : FileProgram(job[p].todo)
    /\ \A p \in Procs : At(job[p].todo, "write") => p \in writers
    /\ \/ clash
       \/ \E p \in Procs : At(job[p].todo, "copy")
       \/ \E p \in Procs : AloneAt(p)
       \/ writers = {} /\ file.rows = content

\* Nobody rewrites the file while the manager is away.
Away == ~up => writers = {}

\* The rest of a program.
LEMMA FileTail ==
  ASSUME NEW S, NEW s \in Seq(S), s # <<>>, FileProgram(s), NEW t, t = Tail(s)
  PROVE  /\ FileProgram(t) /\ Head(s).do \in Words
         /\ At(s, "put") => At(t, "copy")
         /\ At(s, "copy") => At(t, "write")
         /\ At(s, "write") => ~At(t, "copy") /\ ~At(t, "write")
<1>1. /\ t \in Seq(S) /\ Len(s) \in Nat /\ Len(s) >= 1 /\ Len(t) = Len(s) - 1
      /\ Head(s) = s[1] /\ \A i \in 1 .. Len(t) : t[i] = s[i + 1]
  OBVIOUS
<1>2. t # <<>> => Len(s) > 1 /\ Head(t) = s[2]
  BY <1>1
<1>3. t = <<>> => Len(s) = 1
  BY <1>1
<1>4. FileProgram(t)
  BY <1>1 DEF FileProgram
<1>5. /\ s[1].do \in Words /\ (s[1].do = "put" => 1 < Len(s) /\ s[2].do = "copy")
      /\ (s[1].do = "copy" => 1 < Len(s) /\ s[2].do = "write")
      /\ (s[1].do = "write" /\ 1 < Len(s) => s[2].do = "put")
  BY <1>1 DEF FileProgram
<1> QED BY <1>1, <1>2, <1>3, <1>4, <1>5 DEF At

\* One call of the repository.
LEMMA FreshOne ==
  ASSUME NEW x, x.do = "put", NEW s, s = <<x, Do("copy"), Do("write")>>
  PROVE  Fresh(s)
<1>1. /\ Len(s) = 3 /\ s[1].do = "put" /\ s[2].do = "copy" /\ s[3].do = "write" /\ s # <<>>
      /\ Head(s) = x
  BY PutFacts
<1> HIDE DEF Fresh
<1>2. FileProgram(s)
  BY <1>1 DEF FileProgram, Words
<1> QED BY <1>1, <1>2 DEF Fresh, At

\* One call after another.
LEMMA FreshJoined ==
  ASSUME NEW S, NEW s \in Seq(S), NEW t \in Seq(S), Fresh(s), Fresh(t)
  PROVE  Fresh(s \o t)
<1> DEFINE u == s \o t
<1>1. /\ u \in Seq(S) /\ Len(s) \in Nat /\ Len(t) \in Nat /\ Len(u) = Len(s) + Len(t)
      /\ \A i \in 1 .. Len(s) : u[i] = s[i]
      /\ \A i \in Len(s) + 1 .. Len(u) : u[i] = t[i - Len(s)]
  OBVIOUS
<1>2. Len(t) > 0 => t[1].do = "put"
  <2>1. Len(t) > 0 => t # <<>> /\ Head(t) = t[1] /\ t[1].do \in Words
    BY <1>1 DEF Fresh, FileProgram
  <2> QED BY <2>1 DEF Fresh, At, Words
<1>3. Len(s) > 0 => s[1].do = "put"
  <2>1. Len(s) > 0 => s # <<>> /\ Head(s) = s[1] /\ s[1].do \in Words
    BY <1>1 DEF Fresh, FileProgram
  <2> QED BY <2>1 DEF Fresh, At, Words
<1>4. u # <<>> => Len(u) > 0 /\ Head(u) = u[1]
  BY <1>1
<1> HIDE DEF u
<1>5. FileProgram(u)
  <2> SUFFICES ASSUME NEW i \in 1 .. Len(u)
               PROVE  /\ u[i].do \in Words
                      /\ u[i].do = "put" => i < Len(u) /\ u[i + 1].do = "copy"
                      /\ u[i].do = "copy" => i < Len(u) /\ u[i + 1].do = "write"
                      /\ u[i].do = "write" /\ i < Len(u) => u[i + 1].do = "put"
    BY DEF FileProgram
  <2>1. CASE i <= Len(s)
    <3>1. /\ s[i].do \in Words
          /\ s[i].do = "put" => i < Len(s) /\ s[i + 1].do = "copy"
          /\ s[i].do = "copy" => i < Len(s) /\ s[i + 1].do = "write"
          /\ s[i].do = "write" /\ i < Len(s) => s[i + 1].do = "put"
      BY <1>1, <2>1 DEF Fresh, FileProgram
    <3>2. u[i] = s[i] /\ (i < Len(s) => u[i + 1] = s[i + 1] /\ i < Len(u))
      BY <1>1, <2>1
    <3>3. i = Len(s) /\ i < Len(u) => u[i + 1] = t[1] /\ Len(t) > 0
      BY <1>1
    <3>4. i < Len(s) \/ i = Len(s)
      BY <1>1, <2>1
    <3> QED BY <1>2, <3>1, <3>2, <3>3, <3>4
  <2>2. CASE i > Len(s)
    <3>1. PICK k : k = i - Len(s)
      OBVIOUS
    <3>2. k \in 1 .. Len(t) /\ u[i] = t[k] /\ (i < Len(u) <=> k < Len(t)) /\ (k < Len(t) => u[i + 1] = t[k + 1])
      <4>1. /\ k \in 1 .. Len(t) /\ (i < Len(u) <=> k < Len(t)) /\ i \in Len(s) + 1 .. Len(u)
            /\ k < Len(t) => i + 1 \in Len(s) + 1 .. Len(u) /\ (i + 1) - Len(s) = k + 1
        BY <1>1, <2>2, <3>1
      <4> QED BY <1>1, <3>1, <4>1
    <3>3. /\ t[k].do \in Words
          /\ t[k].do = "put" => k < Len(t) /\ t[k + 1].do = "copy"
          /\ t[k].do = "copy" => k < Len(t) /\ t[k + 1].do = "write"
          /\ t[k].do = "write" /\ k < Len(t) => t[k + 1].do = "put"
      BY <3>2 DEF Fresh, FileProgram
    <3> QED BY <3>2, <3>3
  <2> QED BY <1>1, <2>1, <2>2
<1>6. Len(u) > 0 => u[1].do = "put"
  BY <1>1, <1>2, <1>3
<1> QED BY <1>4, <1>5, <1>6 DEF Fresh, At, u

\* The calls that the actions begin with.
LEMMA FreshCalls ==
  ASSUME backend = "json"
  PROVE  /\ Fresh(<<>>) /\ Fresh(Purge)
         /\ \A g, v : Fresh(SaveWorker(g, v))
         /\ \A g, e, l : Fresh(SaveTask(g, e, l))
         /\ \A g, v : Fresh(Initialize(g, v))
<1> DEFINE T(x) == <<x, Do("copy"), Do("write")>>
           S(x, y) == {x, y, Do("copy"), Do("write")}
<1>1. \A x : x.do = "put" => Fresh(T(x))
  BY FreshOne
<1>2. Fresh(<<>>)
  BY DEF Fresh, FileProgram, At
<1>3. \A g, v : SaveWorker(g, v) = T(PutOne("workers", Row(g, v)))
  BY DEF SaveWorker, Configured, JsonFile!SaveWorker, JsonFile!PutOne, PutOne, JsonFile!Put, Put,
     JsonFile!Row, Row, JsonFile!Persisted, JsonFile!Do, Do
<1>4. \A g, e, l : SaveTask(g, e, l) = T(Put(Bundle(g, e, l)))
  BY DEF SaveTask, Configured, JsonFile!SaveBundle, JsonFile!Persisted, JsonFile!Do, Do,
     JsonFile!Put, Put, JsonFile!Bundle, Bundle, JsonFile!Row, Row, JsonFile!Tables, Tables
<1>5. \A g, v : SaveChecksums(g, v) = T(PutOne("checksums", Row(g, v)))
  BY DEF SaveChecksums, Configured, JsonFile!SaveChecksum, JsonFile!PutOne, PutOne, JsonFile!Put,
     Put, JsonFile!Row, Row, JsonFile!Persisted, JsonFile!Do, Do
<1>6. /\ DeleteWorkers = T(PutOne("workers", NoRow))
      /\ DeleteChecksums = T(PutOne("checksums", NoRow))
      /\ DeleteTask = T(Put([t \in Tables |-> NoRow])) \o T(PutOne("pieces", NoRow)) \o T(PutOne("blocks", NoRow))
  BY DEF DeleteWorkers, DeleteChecksums, DeleteTask, Configured, JsonFile!DeleteWorkers,
     JsonFile!DeleteChecksums, JsonFile!DeleteTask, JsonFile!DeletePieces, JsonFile!DeleteBlocks,
     JsonFile!PutOne, PutOne, JsonFile!NoRow, NoRow, JsonFile!Put, Put,
     JsonFile!Persisted, JsonFile!Do, Do, JsonFile!Tables, Tables
<1>7. \A x, W : x \in W /\ Do("copy") \in W /\ Do("write") \in W => T(x) \in Seq(W)
  BY SeqOf
<1> HIDE DEF T
<1>8. Fresh(Purge)
  <2> DEFINE a == PutOne("workers", NoRow)  b == PutOne("checksums", NoRow)
             c == Put([t \in Tables |-> NoRow])  d == PutOne("pieces", NoRow)
             f == PutOne("blocks", NoRow)
             W == {a, b, c, d, f, Do("copy"), Do("write")}
  <2>1. a.do = "put" /\ b.do = "put" /\ c.do = "put" /\ d.do = "put" /\ f.do = "put"
    BY PutFacts
  <2>2. /\ Fresh(T(a)) /\ Fresh(T(b)) /\ Fresh(T(c)) /\ Fresh(T(d)) /\ Fresh(T(f))
    BY <1>1, <2>1
  <2>3. Purge = T(a) \o T(b) \o (T(c) \o T(d) \o T(f)) \o T(a)
    BY <1>6 DEF Purge
  <2> HIDE DEF a, b, c, d, f
  <2>4. T(a) \in Seq(W) /\ T(b) \in Seq(W) /\ T(c) \in Seq(W) /\ T(d) \in Seq(W) /\ T(f) \in Seq(W)
    BY <1>7
  <2> HIDE DEF W
  <2>5. Fresh(T(c) \o T(d)) /\ T(c) \o T(d) \in Seq(W)
    BY <2>2, <2>4, FreshJoined, SeqOf
  <2>6. Fresh(T(c) \o T(d) \o T(f)) /\ T(c) \o T(d) \o T(f) \in Seq(W)
    BY <2>2, <2>4, <2>5, FreshJoined, SeqOf
  <2>7. Fresh(T(a) \o T(b)) /\ T(a) \o T(b) \in Seq(W)
    BY <2>2, <2>4, FreshJoined, SeqOf
  <2>8. /\ Fresh(T(a) \o T(b) \o (T(c) \o T(d) \o T(f)))
        /\ T(a) \o T(b) \o (T(c) \o T(d) \o T(f)) \in Seq(W)
    BY <2>6, <2>7, FreshJoined, SeqOf
  <2>9. Fresh(T(a) \o T(b) \o (T(c) \o T(d) \o T(f)) \o T(a))
    BY <2>2, <2>4, <2>8, FreshJoined
  <2> QED BY <2>3, <2>9
<1>9. ASSUME NEW g, NEW v
      PROVE  Fresh(Initialize(g, v))
  <2> DEFINE x == Put(Bundle(g, v, v))  y == PutOne("checksums", Row(g, v))  W == S(x, y)
  <2>1. x.do = "put" /\ y.do = "put"
    BY PutFacts
  <2>2. Initialize(g, v) = T(x) \o T(y)
    BY <1>4, <1>5 DEF Initialize
  <2> HIDE DEF x, y
  <2>3. T(x) \in Seq(W) /\ T(y) \in Seq(W) /\ Fresh(T(x)) /\ Fresh(T(y))
    BY <1>1, <1>7, <2>1
  <2> HIDE DEF W
  <2> QED BY <2>2, <2>3, FreshJoined
<1>10. \A g, v : PutOne("workers", Row(g, v)).do = "put"
  BY PutFacts
<1>11. \A g, e, l : Put(Bundle(g, e, l)).do = "put"
  BY PutFacts
<1> QED BY <1>1, <1>2, <1>3, <1>4, <1>8, <1>9, <1>10, <1>11

\* A future that is not at a statement of persist_state begins a call, or stays out of it.
LEMMA FileFrame ==
  ASSUME Base, FileInv, UNCHANGED store, scenario' = scenario, up' = up, NEW p \in Procs, NEW j, Moves(p, j),
         ~At(job[p].todo, "copy"), ~At(job[p].todo, "write"),
         backend = "json" => Fresh(j.todo)
  PROVE  FileInv'
<1>1. backend' = backend /\ content' = content /\ file' = file /\ writers' = writers /\ clash' = clash
  BY StoreSame DEF backend
<1> SUFFICES ASSUME backend = "json", up
             PROVE  /\ \A q \in Procs : FileProgram(job'[q].todo)
                    /\ \A q \in Procs : At(job'[q].todo, "write") => q \in writers
                    /\ \/ clash
                       \/ \E q \in Procs : At(job'[q].todo, "copy")
                       \/ \E q \in Procs : AloneAt(q)'
                       \/ writers = {} /\ file.rows = content
  BY <1>1 DEF FileInv
<1>2. job'[p] = j /\ \A q \in Procs : q # p => job'[q] = job[q]
  BY DEF Moves
<1>3. \A q \in Procs : FileProgram(job'[q].todo) /\ (At(job'[q].todo, "write") => q \in writers)
  BY <1>2 DEF FileInv, Fresh
<1>4. \A q \in Procs : AloneAt(q) => AloneAt(q)'
  BY <1>1, <1>2 DEF AloneAt
<1>5. \A q \in Procs : At(job[q].todo, "copy") => At(job'[q].todo, "copy")
  BY <1>2
<1> QED BY <1>3, <1>4, <1>5 DEF FileInv

\* A future that starts.
LEMMA FileStart ==
  ASSUME Base, FileInv, UNCHANGED store, scenario' = scenario, up' = up,
         NEW p, NEW op, NEW step, NEW g, NEW e, NEW s, Starts(p, op, step, g, e, s),
         backend = "json" => Fresh(s)
  PROVE  FileInv'
<1>1. PICK j : j = Job(op, step, g, e, s)
  OBVIOUS
<1>2. j.todo = s /\ p \in Procs /\ Moves(p, j)
  BY <1>1, NewJob DEF Starts
<1>3. ~At(job[p].todo, "copy") /\ ~At(job[p].todo, "write")
  BY IdleFacts DEF Starts, At
<1> QED BY <1>2, <1>3, FileFrame

\* Nobody moves.
LEMMA FileRest ==
  ASSUME FileInv, UNCHANGED store, scenario' = scenario, up' = up, job' = job
  PROVE  FileInv'
<1>1. content' = content /\ file' = file /\ writers' = writers /\ clash' = clash
  BY StoreSame
<1> QED BY <1>1 DEF FileInv, AloneAt, backend

\* Calls preserve FileInv.
LEMMA CallFile ==
  ASSUME Base, FileInv,
         \/ \E a \in scenario.admins, s \in scenario.specs : Add(a, s)
         \/ \E a \in scenario.admins, id \in Ids : Delete(a, id)
         \/ \E p \in scenario.owners, id \in Ids, op \in {"told", "silent"} : Change(p, id, op)
         \/ \E id \in Ids : Progress(id) \/ WorkerLater(id)
         \/ LoopSaves \/ LoopSkips
  PROVE  FileInv'
<1>1. ASSUME NEW a \in scenario.admins, NEW s \in scenario.specs, Add(a, s)
      PROVE  FileInv'
  <2>1. PICK g : g = Len(obj) + 1
    OBVIOUS
  <2>2. /\ Starts(a, "add", "run", g, 0, Initialize(g, 0)) /\ UNCHANGED store
        /\ scenario' = scenario /\ up' = up
    BY <1>1, <2>1, AddEffect
  <2>3. backend = "json" => Fresh(Initialize(g, 0))
    BY FreshCalls
  <2> QED BY <2>2, <2>3, FileStart
<1>2. ASSUME NEW a \in scenario.admins, NEW id \in Ids, Delete(a, id)
      PROVE  FileInv'
  <2>1. /\ Starts(a, "delete", "run", tasks[id], 0, Purge) /\ UNCHANGED store
        /\ scenario' = scenario /\ up' = up
    BY <1>2, DeleteEffect
  <2>2. backend = "json" => Fresh(Purge)
    BY FreshCalls
  <2> QED BY <2>1, <2>2, FileStart
<1>3. ASSUME NEW p \in scenario.owners, NEW id \in Ids, NEW op \in {"told", "silent"},
             Change(p, id, op)
      PROVE  FileInv'
  <2>1. /\ Starts(p, op, "gate", tasks[id], 0, <<>>) /\ UNCHANGED store
        /\ scenario' = scenario /\ up' = up
    BY <1>3, ChangeEffect
  <2>2. backend = "json" => Fresh(<<>>)
    BY FreshCalls
  <2> QED BY <2>1, <2>2, FileStart
<1>4. ASSUME NEW id \in Ids, WorkerLater(id)
      PROVE  FileInv'
  <2>1. PICK s : s = SaveWorker(tasks[id], obj[tasks[id]].ver)
    OBVIOUS
  <2>2. /\ Starts("late", "worker", "run", tasks[id], 0, s) /\ UNCHANGED store
        /\ scenario' = scenario /\ up' = up
    BY <1>4, <2>1, ProcNames, Moving DEF WorkerLater, Free, Starts, Base
  <2>3. backend = "json" => Fresh(s)
    BY <2>1, FreshCalls
  <2> QED BY <2>2, <2>3, FileStart
<1>5. CASE LoopSaves
  <2>1. PICK g, v : Starts("loop", "save", "rest", g, v, <<>>)
    BY <1>5, LoopEffect
  <2>2. UNCHANGED store /\ scenario' = scenario /\ up' = up
    BY <1>5, LoopEffect
  <2>3. backend = "json" => Fresh(<<>>)
    BY FreshCalls
  <2> QED BY <2>1, <2>2, <2>3, FileStart
<1>6. ASSUME LoopSkips \/ \E id \in Ids : Progress(id)
      PROVE  FileInv'
  <2>1. job' = job /\ UNCHANGED store /\ scenario' = scenario /\ up' = up
    BY <1>6 DEF LoopSkips, Progress
  <2> QED BY <2>1, FileRest
<1> QED BY <1>1, <1>2, <1>3, <1>4, <1>5, <1>6

\* The statements preserve FileInv: a change of the state leads to persist_state,
\* which copies the state and, alone, leaves the copy in the file.
LEMMA StatementFile ==
  ASSUME Base, Transaction, FileInv, NEW p \in Procs,
         DoPut(p) \/ DoBegin(p) \/ DoCommit(p) \/ DoCopy(p) \/ DoWrite(p)
  PROVE  FileInv'
<1>1. Statements(p)
  BY IsStatement
<1>2. PICK s : s = job[p].todo
  OBVIOUS
<1>3. /\ s # <<>> /\ up /\ job'[p].todo = Tail(s) /\ \A q \in Procs : q # p => job'[q] = job[q]
      /\ up' = up /\ scenario' = scenario
  BY <1>1, <1>2, SteppedJob DEF Stepped, Moves, Statements, others
<1>4. backend' = backend
  BY <1>3 DEF backend
<1> SUFFICES ASSUME backend = "json"
             PROVE  /\ \A q \in Procs : FileProgram(job'[q].todo)
                    /\ \A q \in Procs : At(job'[q].todo, "write") => q \in writers'
                    /\ \/ clash'
                       \/ \E q \in Procs : At(job'[q].todo, "copy")
                       \/ \E q \in Procs : AloneAt(q)'
                       \/ writers' = {} /\ file'.rows = content'
  BY <1>4 DEF FileInv
<1>5. \E S : s \in Seq(S)
  BY <1>1, <1>2, AtStatement, ProgramIsSeq
<1>6. PICK t : t = Tail(s)
  OBVIOUS
<1>7. /\ \A q \in Procs : FileProgram(job[q].todo) /\ (At(job[q].todo, "write") => q \in writers)
      /\ \/ clash
         \/ \E q \in Procs : At(job[q].todo, "copy")
         \/ \E q \in Procs : AloneAt(q)
         \/ writers = {} /\ file.rows = content
  BY <1>3 DEF FileInv
<1>8. /\ FileProgram(t) /\ Head(s).do \in Words
      /\ (At(s, "put") => At(t, "copy")) /\ (At(s, "copy") => At(t, "write"))
      /\ (At(s, "write") => ~At(t, "copy") /\ ~At(t, "write"))
  BY <1>2, <1>3, <1>5, <1>6, <1>7, FileTail
<1>9. \A q \in Procs : FileProgram(job'[q].todo)
  BY <1>3, <1>6, <1>7, <1>8
<1>10. \A w, v : At(s, w) /\ At(s, v) => w = v
  BY DEF At
<1>11. \A w, v : At(t, w) /\ At(t, v) => w = v
  BY DEF At
<1>12. CASE DoPut(p)
  <2>1. At(s, "put") /\ writers' = writers
    BY <1>2, <1>3, <1>12 DEF DoPut, Running, Statement, At
  <2>2. At(t, "copy") /\ ~At(t, "write")
    BY <1>8, <1>11, <2>1
  <2> QED BY <1>3, <1>6, <1>7, <1>9, <2>1, <2>2
<1>13. CASE DoBegin(p) \/ DoCommit(p)
  <2>1. Head(s).do \in {"begin", "commit"}
    BY <1>2, <1>13 DEF DoBegin, DoCommit, Running, Statement
  <2> QED BY <1>8, <2>1 DEF Words
<1>14. CASE DoCopy(p)
  <2>1. /\ At(s, "copy") /\ writers' = writers \cup {p} /\ clash' = (writers # {})
        /\ content' = content /\ file' = file
    BY <1>2, <1>3, <1>14 DEF DoCopy, Running, Statement, At
  <2>2. At(t, "write")
    BY <1>8, <2>1
  <2>3. job'[p].copy = content
    BY <1>1, <1>14, SteppedJob
  <2>4. \A q \in Procs : At(job'[q].todo, "write") => q \in writers'
    BY <1>3, <1>7, <2>1
  <2>5. writers = {} => AloneAt(p)'
    BY <1>3, <1>6, <2>1, <2>2, <2>3 DEF AloneAt
  <2> QED BY <1>9, <2>1, <2>4, <2>5
<1>15. CASE DoWrite(p)
  <2>1. /\ At(s, "write") /\ writers' = writers \ {p} /\ clash' = clash /\ content' = content
        /\ (clash \/ file' = JsonFile!Whole(job[p].copy))
    BY <1>2, <1>3, <1>15 DEF DoWrite, Running, Statement, At
  <2>2. p \in writers
    BY <1>2, <1>7, <2>1
  <2>3. ~At(t, "write") /\ ~At(s, "copy")
    BY <1>8, <1>10, <2>1
  <2>4. \A q \in Procs : At(job'[q].todo, "write") => q \in writers'
    BY <1>3, <1>6, <1>7, <2>1, <2>3
  <2>5. \A q \in Procs : At(job[q].todo, "copy") => At(job'[q].todo, "copy")
    BY <1>2, <1>3, <2>3
  <2>6. ASSUME NEW q \in Procs, AloneAt(q), ~clash
        PROVE  writers' = {} /\ file'.rows = content'
    <3>1. q = p /\ job[p].copy = content
      BY <2>2, <2>6 DEF AloneAt
    <3> QED BY <2>1, <2>6, <3>1, FileFacts DEF AloneAt
  <2> QED BY <1>7, <1>9, <2>1, <2>2, <2>4, <2>5, <2>6
<1> QED BY <1>12, <1>13, <1>14, <1>15

\* The other steps of a future preserve FileInv.
LEMMA StepFile ==
  ASSUME Base, FileInv, NEW p \in Procs,
         ReadTask(p) \/ ReadRest(p) \/ Return(p) \/ Fails(p) \/ Refuses(p)
  PROVE  FileInv'
<1>1. CASE ReadTask(p)
  <2>1. PICK j, g : j = job'[p] /\ g = job[p].gen
    OBVIOUS
  <2>2. /\ UNCHANGED store /\ scenario' = scenario /\ up' = up /\ Moves(p, j)
        /\ job[p].todo = <<>> /\ j.todo = <<>>
    BY <1>1, <2>1, ReadTaskEffect
  <2> QED BY <2>2, FreshCalls, FileFrame DEF At
<1>2. CASE ReadRest(p)
  <2>1. PICK j, g : j = job'[p] /\ g = job[p].gen
    OBVIOUS
  <2>2. /\ UNCHANGED store /\ scenario' = scenario /\ up' = up /\ Moves(p, j)
        /\ job[p].todo = <<>> /\ j.todo = SaveTask(g, j.seen, obj[g].ver)
    BY <1>2, <2>1, ReadRestEffect
  <2>3. backend = "json" => Fresh(j.todo)
    BY <2>2, FreshCalls
  <2> QED BY <2>2, <2>3, FileFrame DEF At
<1>3. CASE Return(p)
  <2>1. /\ UNCHANGED store /\ scenario' = scenario /\ up' = up /\ Moves(p, Idle) /\ job[p].todo = <<>>
    BY <1>3, ReturnEffect
  <2> QED BY <2>1, IdleFacts, FreshCalls, FileFrame DEF At
<1>4. CASE Fails(p) \/ Refuses(p)
  <2>1. PICK g, o2 : g = job[p].gen /\ o2 = obj'
    OBVIOUS
  <2>2. job[p].step = "run" /\ Abort(p, g) /\ up /\ job[p].todo # <<>>
    BY <1>4, <2>1 DEF Fails, Refuses, Running
  <2>3. /\ Moves(p, Idle) /\ UNCHANGED <<scenario, content, up>>
        /\ writers' = writers \ {p} /\ clash' = (clash \/ p \in writers)
    BY <2>1, <2>2, AbortEffect
  <2>4. backend' = backend
    BY <2>3 DEF backend
  <2> SUFFICES ASSUME backend = "json"
               PROVE  FileInv'
    BY <2>4 DEF FileInv
  <2>5. At(job[p].todo, "write")
    BY <1>4, <2>2 DEF Fails, Refuses, Refused, Statement, At
  <2>6. p \in writers /\ \A q \in Procs : FileProgram(job[q].todo) /\ (At(job[q].todo, "write") => q \in writers)
    BY <2>2, <2>5 DEF FileInv
  <2>7. /\ job'[p].todo = <<>> /\ \A q \in Procs : q # p => job'[q] = job[q]
    BY <2>3, IdleFacts DEF Moves
  <2>8. \A q \in Procs : FileProgram(job'[q].todo)
    BY <2>6, <2>7, FreshCalls DEF Fresh
  <2>9. \A q \in Procs : At(job'[q].todo, "write") => q \in writers'
    BY <2>3, <2>6, <2>7 DEF At
  <2> QED BY <2>3, <2>6, <2>8, <2>9 DEF FileInv
<1> QED BY <1>1, <1>2, <1>3, <1>4

\* A crash and a restart preserve FileInv: the state is what the file holds.
LEMMA BootFile ==
  ASSUME Base, FileInv, Crash \/ Open \/ \E id \in Ids : Restore(id),
         Away
  PROVE  FileInv'
<1>1. CASE Crash
  BY <1>1 DEF Crash, FileInv
<1>2. CASE Open
  <2>1. /\ ~up /\ content' \in Loadable /\ job' = job /\ file' = file /\ writers' = {}
        /\ scenario' = scenario
    BY <1>2 DEF Open, Away
  <2>2. backend' = backend /\ \A p \in Procs : job'[p].todo = <<>>
    BY <2>1, IdleFacts DEF Base, Booting, Ready, backend
  <2>3. backend = "json" => content' = file.rows
    BY <2>1, LoadableFacts
  <2>4. FileProgram(<<>>) /\ ~At(<<>>, "write")
    BY DEF FileProgram, At
  <2> QED BY <2>1, <2>2, <2>3, <2>4 DEF FileInv
<1>3. ASSUME NEW id \in Ids, Restore(id)
      PROVE  FileInv'
  <2>1. (\A q \in Procs : job[q] = Idle) /\ UNCHANGED store /\ scenario' = scenario /\ up' = up
    BY <1>3, RestoreEffect
  <2>2. PICK g \in 1 .. Len(obj), ver \in Versions : Restored(id, g, ver)
    BY <1>3, RestoreEffect
  <2>3. CASE job' = job
    BY <2>1, <2>3, FileRest
  <2>4. CASE Moves("boot", Job("restore", "run", g, ver, Initialize(g, ver)))
    <3>1. Starts("boot", "restore", "run", g, ver, Initialize(g, ver))
      BY <2>1, <2>4, ProcNames DEF Starts
    <3>2. backend = "json" => Fresh(Initialize(g, ver))
      BY FreshCalls
    <3> QED BY <2>1, <3>1, <3>2, FileStart
  <2> QED BY <2>2, <2>3, <2>4 DEF Restored
<1> QED BY <1>1, <1>2, <1>3

\* Only a crash takes the manager away.
LEMMA AwayStep ==
  ASSUME Base, Transaction, Away, [Next]_vars
  PROVE  Away'
<1>1. CASE UNCHANGED vars
  BY <1>1 DEF vars, Away
<1>2. CASE Crash
  BY <1>2 DEF Crash, Away
<1>3. CASE Open
  BY <1>3 DEF Open, Away
<1>4. CASE /\ Next /\ ~Crash /\ ~Open
  <2>1. CASE \/ \E a \in scenario.admins, s \in scenario.specs : Add(a, s)
             \/ \E a \in scenario.admins, id \in Ids : Delete(a, id)
             \/ \E p \in scenario.owners, id \in Ids, op \in {"told", "silent"} : Change(p, id, op)
             \/ \E id \in Ids : Progress(id)
             \/ \E id \in Ids : WorkerLater(id)
             \/ LoopSaves \/ LoopSkips
    <3>1. \A a, s : Add(a, s) => up /\ up' = up
      BY DEF Add, Free, Ready
    <3>2. \A a, id : Delete(a, id) => up /\ up' = up
      BY DEF Delete, Free, Ready
    <3>3. \A p, id, op : Change(p, id, op) => up /\ up' = up
      BY DEF Change, Free, Ready
    <3>4. \A id : Progress(id) => up /\ up' = up
      BY DEF Progress, Ready
    <3>5. \A id : WorkerLater(id) => up /\ up' = up
      BY DEF WorkerLater, Free, Ready
    <3>6. LoopSaves \/ LoopSkips => up /\ up' = up
      BY DEF LoopSaves, LoopSkips, Free, Ready
    <3>7. up /\ up' = up
      BY <2>1, <3>1, <3>2, <3>3, <3>4, <3>5, <3>6, Zenon
    <3> QED BY <3>7 DEF Away
  <2>2. CASE \E id \in Ids : Restore(id)
    BY <2>2 DEF Restore, Away
  <2>3. CASE \E p \in Procs : ReadTask(p) \/ ReadRest(p) \/ Return(p)
    <3>1. \A p : ReadTask(p) => up /\ up' = up
      BY DEF ReadTask
    <3>2. \A p : ReadRest(p) => up /\ up' = up
      BY DEF ReadRest
    <3>3. \A p : Return(p) => up /\ up' = up
      BY Zenon DEF Return
    <3>4. up /\ up' = up
      BY <2>3, <3>1, <3>2, <3>3, Zenon
    <3> QED BY <3>4 DEF Away
  <2>4. CASE \E p \in Procs : DoPut(p) \/ DoBegin(p) \/ DoCommit(p) \/ DoCopy(p) \/ DoWrite(p)
    BY <2>4, IsStatement DEF Statements, others, Away
  <2>5. CASE \E p \in Procs : Fails(p) \/ Refuses(p)
    <3>1. \A p, g : Abort(p, g) => up' = up
      BY Zenon DEF Abort
    <3>2. \A p : Fails(p) => up /\ up' = up
      BY <3>1, Zenon DEF Fails
    <3>3. \A p : Refuses(p) => up /\ up' = up
      BY <3>1, Zenon DEF Refuses, Running
    <3>4. up /\ up' = up
      BY <2>5, <3>2, <3>3, Zenon
    <3> QED BY <3>4 DEF Away
  <2> QED BY <1>4, <2>1, <2>2, <2>3, <2>4, <2>5, Actions, Zenon
<1> QED BY <1>1, <1>2, <1>3, <1>4

\* Every step preserves FileInv.
LEMMA FileStep ==
  ASSUME Base, Transaction, Away, FileInv, [Next]_vars
  PROVE  FileInv'
<1>1. CASE UNCHANGED vars
  BY <1>1, FileRest DEF vars, store
<1>2. CASE Next
  BY <1>2, Actions, CallFile, StatementFile, StepFile, BootFile, Zenon
<1> QED BY <1>1, <1>2

\* At rest nothing is due, nobody waits and nobody rewrites the file: what is
\* left is that the state is as it should be and the file holds it.
LEMMA SettledNow ==
  ASSUME Base, Settling, FileInv
  PROVE  SettledIsStored
<1> SUFFICES ASSUME Quiet, backend = "json" => ~clash,
                    NEW id \in Known, Alone(id), obj[tasks[id]].told
             PROVE  Durable[id]["tasks"] = Row(tasks[id], obj[tasks[id]].ver)
  BY DEF SettledIsStored
<1>1. PICK g : g = tasks[id]
  OBVIOUS
<1>2. g \in 1 .. Len(obj) /\ obj[g].id = id /\ id \in Ids /\ g # 0
  BY <1>1, KnownFacts DEF Known
<1>3. Keeps(g) /\ Only(obj, g)
  BY <1>1, <1>2 DEF Settling, Kept, Only, Alone
<1>4. ~Due(events, id)
  BY DEF Quiet, Due
<1>5. \A p \in Procs : job[p].gen # g
  BY <1>2, IdleFacts DEF Quiet
<1>6. content[id]["tasks"] = Row(g, obj[g].ver)
  BY <1>1, <1>2, <1>3, <1>4, <1>5 DEF Keeps, Stored
<1>7. Durable = content
  <2>1. \A p \in Procs : job[p].todo = <<>>
    BY IdleFacts DEF Quiet
  <2>2. \A p \in Procs : ~At(job[p].todo, "copy") /\ ~At(job[p].todo, "write")
    BY <2>1 DEF At
  <2> QED BY <2>2 DEF Durable, FileInv, AloneAt, Quiet, Ready
<1> QED BY <1>1, <1>6, <1>7

\* When everything has come to rest, a task whose last change was saved by
\* persist_task and announced by an event is stored as it is, in the file for
\* JSON, although the event loop saves the same task without the gate.  Left out
\* are ids that were used twice and, for JSON, the time after a rewriting of the
\* file that overlapped another one or failed.
THEOREM SettledIsStoredCorrect == Spec => []SettledIsStored
<1>1. Init => Base /\ Transaction /\ Settling /\ Away /\ FileInv
  <2> SUFFICES ASSUME Init
               PROVE  Base /\ Transaction /\ Settling /\ Away /\ FileInv
    OBVIOUS
  <2>1. Base /\ Transaction
    BY InitBase
  <2>2. Settling
    BY <2>1, EmptySettling DEF Init, Base, TaskTypes
  <2>3. Away
    BY DEF Init, Away
  <2>4. FileInv
    <3>1. \A p \in Procs : job[p].todo = <<>>
      BY IdleFacts DEF Init
    <3>2. FileProgram(<<>>) /\ ~At(<<>>, "write")
      BY DEF FileProgram, At
    <3>3. writers = {} /\ file.rows = content
      BY FileFacts DEF Init
    <3> QED BY <3>1, <3>2, <3>3 DEF FileInv
  <2> QED BY <2>1, <2>2, <2>3, <2>4
<1>2. Base /\ Transaction /\ Settling /\ Away /\ FileInv /\ [Next]_vars
        => Base' /\ Transaction' /\ Settling' /\ Away' /\ FileInv'
  BY BaseStep, TransactionStep, SettlingStep, AwayStep, FileStep
<1>3. Base /\ Settling /\ FileInv => SettledIsStored
  BY SettledNow
<1> QED BY <1>1, <1>2, <1>3, PTL DEF Spec
=============================================================================
