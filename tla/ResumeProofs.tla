---------------------------- MODULE ResumeProofs ----------------------------
(***************************************************************************)
(* Theorems about Resume, for every number of workers and blocks, every    *)
(* number of versions and every combination of troubles: its types, and    *)
(* what a task that becomes Completed has in its file.                     *)
(*                                                                         *)
(* Five invariants carry them.  CheckInv: a file that was checked and not  *)
(* touched since has the bytes of the checksum.  Calm: while a start is in *)
(* progress nothing else is under way.  Settled: nobody writes to a        *)
(* completed file.  Written: what the workers of this run have counted is  *)
(* in the file.  OneVersion: what a worker adds is of the version that is  *)
(* there.                                                                  *)
(***************************************************************************)
EXTENDS Resume, SequenceTheorems, NaturalsInduction, WellFoundedInduction, TLAPS

(***************************************************************************)
(* Numbers and sequences.                                                  *)
(***************************************************************************)

\* A set of numbers has a least one.
LEMMA LeastNumber ==
    ASSUME NEW S \in SUBSET Nat, S # {}
    PROVE  \E n \in S : \A m \in S : n <= m
<1>1. PICK n \in S : \A m \in S : ~(<<m, n>> \in OpToRel(<, Nat))
  BY NatLessThanWellFounded, WFMin, Zenon
<1>2. \A m \in S : ~(m < n)
  BY <1>1 DEF OpToRel
<1>3. n \in Nat /\ \A m \in S : m \in Nat
  OBVIOUS
<1> QED BY <1>2, <1>3

\* Products are ordered as their first factors are.
LEMMA Products ==
    ASSUME NEW a \in Nat, NEW b \in Nat, NEW c \in Nat \ {0}
    PROVE  /\ a * c \in Nat
           /\ a <= b <=> a * c <= b * c
           /\ (a + 1) * c = a * c + c
  OBVIOUS

\* A function on the first numbers is a sequence.
LEMMA FunctionIsFile ==
    ASSUME NEW S, NEW n \in Nat, NEW f \in [1..n -> S]
    PROVE  f \in Seq(S) /\ Len(f) = n /\ DOMAIN f = 1..n
  OBVIOUS

(***************************************************************************)
(* The blocks of a file.                                                   *)
(***************************************************************************)

\* The range of a scenario.
LEMMA ScenarioTypes ==
    ASSUME TypeOK
    PROVE  /\ Lanes \in Nat \ {0} /\ LaneLen \in Nat \ {0} /\ Size \in Nat \ {0}
           /\ Checked \in BOOLEAN /\ Overlap \in BOOLEAN
<1>1. scenario \in [lanes : Nat \ {0}, len : Nat \ {0}, checked : BOOLEAN, overlap : BOOLEAN,
                    validations : SUBSET BOOLEAN \ {{}}, troubles : SUBSET AllTroubles, budget : Nat]
  BY ResumeAssumption DEF TypeOK
<1>2. Lanes \in Nat \ {0} /\ LaneLen \in Nat \ {0} /\ Checked \in BOOLEAN /\ Overlap \in BOOLEAN
  BY <1>1 DEF Lanes, LaneLen, Checked, Overlap
<1>3. Lanes * LaneLen >= 1 * LaneLen
  BY <1>2, Products
<1> QED BY <1>2, <1>3, Products DEF Size

\* A worker's blocks are blocks of the file.
LEMMA BlockInFile ==
    ASSUME TypeOK, NEW w \in Workers, NEW k \in 1..LaneLen
    PROVE  Block(w, k) \in Blocks
<1>1. Lanes \in Nat \ {0} /\ LaneLen \in Nat \ {0} /\ Size \in Nat
  BY ScenarioTypes
<1>2. w \in Nat \ {0} /\ w <= Lanes
  BY <1>1 DEF Workers
<1>3. PICK v \in Nat : w = v + 1
  BY <1>2
<1>4. v * LaneLen \in Nat /\ (v + 1) * LaneLen = v * LaneLen + LaneLen
  BY <1>1, <1>3, Products
<1>5. (v + 1) * LaneLen <= Lanes * LaneLen
  BY <1>1, <1>2, <1>3, Products
<1>6. Block(w, k) = v * LaneLen + k
  BY <1>3 DEF Block
<1> QED BY <1>1, <1>4, <1>5, <1>6 DEF Blocks, Size

\* Different places are different blocks.
LEMMA BlocksDiffer ==
    ASSUME TypeOK, NEW w \in Workers, NEW v \in Workers,
           NEW k \in 1..LaneLen, NEW l \in 1..LaneLen, Block(w, k) = Block(v, l)
    PROVE  w = v /\ k = l
<1>1. Lanes \in Nat \ {0} /\ LaneLen \in Nat \ {0}
  BY ScenarioTypes
<1>2. \A a, b \in 1..Lanes, i, j \in 1..LaneLen : a < b => Block(a, i) < Block(b, j)
  <2> SUFFICES ASSUME NEW a \in 1..Lanes, NEW b \in 1..Lanes,
                      NEW i \in 1..LaneLen, NEW j \in 1..LaneLen, a < b
               PROVE  Block(a, i) < Block(b, j)
    OBVIOUS
  <2>1. PICK c \in Nat, d \in Nat : a = c + 1 /\ b = d + 1
    <3> a - 1 \in Nat /\ b - 1 \in Nat /\ a = (a - 1) + 1 /\ b = (b - 1) + 1
      BY <1>1
    <3> QED OBVIOUS
  <2>2. c + 1 <= d
    BY <2>1
  <2>3. (c + 1) * LaneLen = c * LaneLen + LaneLen /\ c * LaneLen \in Nat /\ d * LaneLen \in Nat
    BY <1>1, Products
  <2>4. (c + 1) * LaneLen <= d * LaneLen
    BY <1>1, <2>2, Products
  <2>5. Block(a, i) = c * LaneLen + i /\ Block(b, j) = d * LaneLen + j
    BY <2>1 DEF Block
  <2> QED BY <1>1, <2>3, <2>4, <2>5
<1>3. w \in 1..Lanes /\ v \in 1..Lanes /\ Block(w, k) \in Nat /\ Block(v, l) \in Nat
  BY <1>1, BlockInFile, ScenarioTypes DEF Workers, Blocks
<1>4. w = v
  BY <1>1, <1>2, <1>3
<1>5. (w - 1) * LaneLen \in Int
  BY <1>1, <1>3
<1> QED BY <1>1, <1>4, <1>5 DEF Block

\* Every block of the file is a worker's.
LEMMA BlockOfWorker ==
    ASSUME TypeOK, NEW b \in Blocks
    PROVE  \E w \in Workers, k \in 1..LaneLen : b = Block(w, k)
<1>1. Lanes \in Nat \ {0} /\ LaneLen \in Nat \ {0} /\ Size \in Nat
  BY ScenarioTypes
<1>2. b \in Nat \ {0} /\ b <= Lanes * LaneLen
  BY <1>1 DEF Blocks, Size
<1> DEFINE S == {n \in Nat : b <= n * LaneLen}
<1>3. Lanes \in S
  BY <1>1, <1>2
<1>4. PICK n \in S : \A m \in S : n <= m
  <2> HIDE DEF S
  <2> S \in SUBSET Nat
    BY DEF S
  <2> QED BY <1>3, LeastNumber
<1>5. n \in Nat /\ b <= n * LaneLen /\ n <= Lanes
  BY <1>1, <1>3, <1>4
<1>6. n # 0
  BY <1>1, <1>2, <1>5
<1>7. PICK v \in Nat : n = v + 1
  BY <1>5, <1>6
<1>8. v \notin S
  BY <1>4, <1>7
<1>9. v * LaneLen \in Nat /\ n * LaneLen = v * LaneLen + LaneLen
  BY <1>1, <1>7, Products
<1>10. v * LaneLen < b
  BY <1>2, <1>8, <1>9
<1>11. b - v * LaneLen \in 1..LaneLen /\ n \in Workers
  BY <1>1, <1>2, <1>5, <1>6, <1>9, <1>10 DEF Workers
<1>12. b = Block(n, b - v * LaneLen)
  BY <1>2, <1>7, <1>9 DEF Block
<1> QED BY <1>11, <1>12

\* The count a worker is seeded with.
LEMMA SeededCount ==
    ASSUME TypeOK, NEW w \in Workers
    PROVE  /\ Seeded(w) \in 0..LaneLen
           /\ \A k \in 1..Seeded(w) : Block(w, k) \in blocks
<1>1. LaneLen \in Nat
  BY ScenarioTypes
<1> DEFINE S == {n \in 0..LaneLen : n < LaneLen => Block(w, n + 1) \notin blocks}
<1>2. LaneLen \in S /\ S \in SUBSET Nat
  BY <1>1
<1>3. PICK n \in S : \A m \in S : n <= m
  <2> HIDE DEF S
  <2> QED BY <1>2, LeastNumber
<1>4. n \in 0..LaneLen /\ (n < LaneLen => Block(w, n + 1) \notin blocks)
  OBVIOUS
<1>5. \A k \in 1..n : Block(w, k) \in blocks
  <2> SUFFICES ASSUME NEW k \in 1..n, Block(w, k) \notin blocks
               PROVE  FALSE
    OBVIOUS
  <2>1. k - 1 \in 0..LaneLen /\ (k - 1) + 1 = k /\ k - 1 < n
    BY <1>1, <1>4
  <2>2. k - 1 \in S
    BY <2>1
  <2> QED BY <1>1, <1>3, <1>4, <2>1, <2>2
<1> QED BY <1>4, <1>5 DEF Seeded

(***************************************************************************)
(* Types.                                                                  *)
(***************************************************************************)

Records ==
    [status : Statuses, ident : 0..MaxVersion, blocks : SUBSET Blocks, progress : BOOLEAN,
     planned : BOOLEAN, got : [Workers -> 0..LaneLen], wst : [Workers -> Statuses]]

\* What SetLen makes of a file.
LEMMA SetLenTypes ==
    ASSUME TypeOK
    PROVE  LET f == [b \in Blocks |-> IF b <= Len(data) THEN data[b] ELSE 0]
           IN  f \in Seq(0..MaxVersion) /\ Len(f) = Size /\ DOMAIN f = 1..Size
<1>1. Size \in Nat
  BY ScenarioTypes
<1>2. data \in Seq(0..MaxVersion) /\ MaxVersion \in Nat
  BY ResumeAssumption DEF TypeOK
<1>3. [b \in Blocks |-> IF b <= Len(data) THEN data[b] ELSE 0] \in [1..Size -> 0..MaxVersion]
  BY <1>1, <1>2 DEF Blocks
<1> QED BY <1>1, <1>3, FunctionIsFile

\* What a write makes of a file.
LEMMA WriteAtTypes ==
    ASSUME TypeOK, NEW b \in Blocks, NEW v \in 0..MaxVersion
    PROVE  /\ WriteAt(b, v) \in Seq(0..MaxVersion)
           /\ Len(WriteAt(b, v)) = IF b > Len(data) THEN b ELSE Len(data)
           /\ DOMAIN WriteAt(b, v) = 1..Len(WriteAt(b, v))
<1>1. Size \in Nat /\ b \in Nat
  BY ScenarioTypes DEF Blocks
<1>2. data \in Seq(0..MaxVersion) /\ MaxVersion \in Nat
  BY ResumeAssumption DEF TypeOK
<1> DEFINE n == IF b > Len(data) THEN b ELSE Len(data)
<1>3. n \in Nat
  BY <1>1, <1>2
<1>4. WriteAt(b, v) \in [1..n -> 0..MaxVersion]
  BY <1>1, <1>2 DEF WriteAt
<1> HIDE DEF n
<1>5. WriteAt(b, v) \in Seq(0..MaxVersion) /\ Len(WriteAt(b, v)) = n /\ DOMAIN WriteAt(b, v) = 1..n
  BY <1>3, <1>4, FunctionIsFile
<1> QED BY <1>5 DEF n

\* The scenario and the settings stay.
LEMMA Static ==
    ASSUME [Next]_vars
    PROVE  /\ scenario' = scenario /\ strategy' = strategy /\ validated' = validated
           /\ Workers' = Workers /\ Size' = Size /\ Blocks' = Blocks /\ LaneLen' = LaneLen
           /\ Lanes' = Lanes /\ Checked' = Checked /\ Overlap' = Overlap
<1>1. scenario' = scenario /\ strategy' = strategy /\ validated' = validated
  <2>1. CASE UNCHANGED vars
    BY <2>1 DEF vars, env, queue, past
  <2>2. CASE Resume \/ Start \/ Preparing \/ Probe \/ Existing \/ Finish \/ Reset \/ Open
             \/ SetLen \/ Launch \/ EnsureWorkers
    BY <2>2 DEF Resume, Start, Preparing, Probe, Existing, Finish, Reset, Open, SetLen, Launch,
       EnsureWorkers, env, queue, past
  <2>3. CASE \E w \in Workers : WorkerStep(w)
    BY <2>3 DEF WorkerStep, Begin, Request, Write, Break, Fail, Complete, SaveRow, env, queue, past
  <2>4. CASE Progress \/ HandleComplete \/ Finalize \/ Persist \/ Pause \/ Cancel \/ Crash
             \/ Restore \/ OriginChanges \/ Meddle
    BY <2>4 DEF Progress, HandleComplete, Finalize, Persist, Pause, Cancel, Crash, Restore,
       OriginChanges, Meddle, env, queue, past
  <2> QED BY <2>1, <2>2, <2>3, <2>4 DEF Next
<1>2. Lanes' = Lanes /\ LaneLen' = LaneLen /\ Checked' = Checked /\ Overlap' = Overlap
  BY <1>1 DEF Lanes, LaneLen, Checked, Overlap
<1>3. Size' = Size /\ Workers' = Workers
  BY <1>2 DEF Size, Workers
<1>4. Blocks' = Blocks
  BY <1>3 DEF Blocks
<1> QED BY <1>1, <1>2, <1>3, <1>4

\* What is covered are blocks.
LEMMA CoveredTypes == Covered \subseteq Blocks
  BY DEF Covered

\* The types hold at the beginning.
LEMMA TypeInit == Init => TypeOK
<1> SUFFICES ASSUME Init PROVE TypeOK
  OBVIOUS
<1>1. scenario \in [lanes : Nat \ {0}, len : Nat \ {0}, checked : BOOLEAN, overlap : BOOLEAN,
                    validations : SUBSET BOOLEAN \ {{}}, troubles : SUBSET AllTroubles, budget : Nat]
  BY ResumeAssumption DEF Init
<1>2. scenario.lanes \in Nat /\ scenario.len \in Nat /\ scenario.budget \in Nat
      /\ validated \in BOOLEAN /\ MaxVersion \in Nat \ {0}
  BY <1>1, ResumeAssumption DEF Init
<1>3. Size \in Nat /\ LaneLen \in Nat
  BY <1>2 DEF Size, Lanes, LaneLen
<1>4. data \in Seq(0..MaxVersion)
  <2>1. \A n \in Nat : [b \in 1..n |-> 0] \in Seq(0..MaxVersion)
    BY <1>2, FunctionIsFile
  <2>2. Expected \in [1..Size -> 0..MaxVersion]
    BY <1>2 DEF Expected, Blocks
  <2>3. Expected \in Seq(0..MaxVersion)
    BY <1>3, <2>2, FunctionIsFile
  <2>4. <<>> \in Seq(0..MaxVersion)
    OBVIOUS
  <2>5. \/ data = <<>> \/ data = Expected
        \/ \E n \in {0, Size, Size + 1} : data = [b \in 1..n |-> 0]
    BY DEF Init
  <2>6. CASE \E n \in {0, Size, Size + 1} : data = [b \in 1..n |-> 0]
    <3>1. PICK n \in {0, Size, Size + 1} : data = [b \in 1..n |-> 0]
      BY <2>6
    <3>2. n \in Nat
      BY <1>3
    <3> QED BY <2>1, <3>1, <3>2, Zenon
  <2> QED BY <2>3, <2>4, <2>5, <2>6
<1>5. /\ got \in [Workers -> 0..LaneLen] /\ body \in [Workers -> 0..MaxVersion]
      /\ wst \in [Workers -> Statuses]
      /\ live \in [Workers -> BOOLEAN] /\ begin \in [Workers -> BOOLEAN]
  BY <1>2, <1>3 DEF Init, Fresh, Statuses
<1>6. {up, progress, manifest, planned, exists, touched, mixed} \subseteq BOOLEAN
  BY DEF Init
<1>7. status \in Statuses /\ {ident, prev} \subseteq 0..MaxVersion /\ origin \in 1..MaxVersion
      /\ blocks \subseteq Blocks /\ events \in Nat /\ trouble \in Nat
  BY <1>2 DEF Init, Statuses
<1>8. db \in Records
  BY <1>5, <1>6, <1>7 DEF Init, Records
<1> QED BY <1>2, <1>4, <1>5, <1>6, <1>7, <1>8 DEF Init, TypeOK, Records

\* A task without workers.
LEMMA NoWorkersTypes ==
    ASSUME TypeOK, [Next]_vars, NoWorkers
    PROVE  /\ planned' = FALSE
           /\ got' \in [Workers -> 0..LaneLen] /\ body' \in [Workers -> 0..MaxVersion]
           /\ wst' \in [Workers -> Statuses]
           /\ live' \in [Workers -> BOOLEAN] /\ begin' \in [Workers -> BOOLEAN]
<1>1. LaneLen \in Nat /\ MaxVersion \in Nat
  BY ScenarioTypes, ResumeAssumption
<1> QED BY <1>1 DEF NoWorkers, Fresh, Statuses

\* Every step keeps the types.
LEMMA TypeStep == TypeOK /\ [Next]_vars => TypeOK'
<1> SUFFICES ASSUME TypeOK, [Next]_vars PROVE TypeOK'
  OBVIOUS
<1>1. /\ scenario' = scenario /\ strategy' = strategy /\ validated' = validated
      /\ Workers' = Workers /\ Size' = Size /\ Blocks' = Blocks /\ LaneLen' = LaneLen
  BY Static
<1>2. /\ Lanes \in Nat \ {0} /\ LaneLen \in Nat \ {0} /\ Size \in Nat \ {0}
      /\ MaxVersion \in Nat \ {0}
  BY ScenarioTypes, ResumeAssumption
<1> USE <1>1, <1>2 DEF TypeOK, Records
<1>3. CASE Resume
  BY <1>3 DEF Resume, Saved, Fresh, Statuses, task, pool, start, disk, env, queue, past
<1>4. CASE Start
  <2>1. CASE status \in {"Pending", "Paused", "Completed"}
    BY <1>4, <2>1 DEF Start, task, pool, disk, env, queue, past
  <2>2. CASE status \notin {"Pending", "Paused", "Completed"}
    <3>1. /\ NoWorkers /\ db' = [db EXCEPT !.planned = FALSE]
          /\ blocks' = {} /\ progress' = FALSE /\ manifest' = FALSE
          /\ exists' = FALSE /\ data' = <<>> /\ pc' = "preparing"
          /\ UNCHANGED <<status, ident, up, events, verdict, prev, origin, trouble>>
      BY <1>4, <2>2 DEF Start, env, queue, past
    <3>0. touched' \in BOOLEAN /\ mixed' \in BOOLEAN
      BY <1>4, <2>2 DEF Start, Touches
    <3>2. db' \in Records
      BY <3>1
    <3>3. data' \in Seq(0..MaxVersion)
      BY <3>1
    <3> QED BY <3>0, <3>1, <3>2, <3>3, NoWorkersTypes, Zenon
  <2> QED BY <2>1, <2>2
<1>5. CASE Preparing
  BY <1>5 DEF Preparing, Saved, Fresh, Statuses, task, pool, start, disk, env, queue, past
<1>6. CASE Probe
  <2>1. /\ ident' \in 0..MaxVersion /\ prev' \in 0..MaxVersion /\ manifest' \in BOOLEAN
        /\ pc' \in {"existing", "idle"} /\ trouble' \in Nat
    <3>1. Validator(origin) \in 0..MaxVersion
      BY DEF Validator
    <3>2. ident' \in 0..MaxVersion /\ prev' \in 0..MaxVersion /\ pc' \in {"existing", "idle"}
      BY <1>6, <3>1 DEF Probe
    <3>3. manifest' \in BOOLEAN
      BY <1>6 DEF Probe
    <3>4. trouble' \in Nat
      BY <1>6 DEF Probe, Happens
    <3> QED BY <3>2, <3>3, <3>4
  <2> QED BY <1>6, <2>1 DEF Probe, pool, disk, env, queue, past
<1>7. CASE Existing
  <2>1. /\ UNCHANGED <<task, pool, db, up, events, verdict, prev, origin, trouble, mixed>>
        /\ pc' \in {"finish", "reset", "open"}
    BY <1>7 DEF Existing, task, pool, env, queue, past
  <2>2. exists' \in BOOLEAN /\ touched' \in BOOLEAN
    BY <1>7 DEF Existing, Touches, disk, queue, past
  <2>3. data' \in Seq(0..MaxVersion)
    <3> <<>> \in Seq(0..MaxVersion)
      OBVIOUS
    <3> QED BY <1>7 DEF Existing, disk, queue, past
  <2> QED BY <2>1, <2>2, <2>3 DEF task, pool
<1>24. ASSUME NEW s \in BOOLEAN, FinishJob(s)
       PROVE  /\ status' \in Statuses /\ blocks' \subseteq Blocks /\ progress' \in BOOLEAN
              /\ db' \in Records /\ UNCHANGED <<ident, manifest, pool>>
  <2>1. status' \in Statuses /\ blocks' \subseteq Blocks /\ UNCHANGED <<ident, manifest, pool>>
    BY <1>24 DEF FinishJob, Statuses, pool
  <2>2. progress' \in BOOLEAN
    BY <1>24 DEF FinishJob
  <2>3. db' = Saved
    BY <1>24 DEF FinishJob
  <2> QED BY <2>1, <2>2, <2>3 DEF Saved, pool
<1>25. CASE Finish
  <2>1. FinishJob(TRUE) /\ UNCHANGED <<up, events, verdict, prev, exists, data, origin, trouble, mixed>>
        /\ pc' = "idle"
    BY <1>25 DEF Finish, disk, env, queue, past
  <2>2. touched' \in BOOLEAN
    BY <1>25 DEF Finish
  <2> QED BY <1>24, <2>1, <2>2 DEF pool
<1>26. CASE Finalize
  <2>1. /\ FinishJob(verdict = "good") /\ verdict' = "none"
        /\ UNCHANGED <<up, events, pc, prev, exists, data, origin, trouble, mixed>>
    BY <1>26 DEF Finalize, disk, env, start
  <2>2. touched' \in BOOLEAN
    BY <1>26 DEF Finalize
  <2>3. (verdict = "good") \in BOOLEAN
    OBVIOUS
  <2> QED BY <1>24, <2>1, <2>2, <2>3 DEF pool
<1>8. CASE Reset
  <2>1. /\ NoWorkers /\ db' = [db EXCEPT !.planned = FALSE]
        /\ blocks' = {} /\ progress' = FALSE /\ pc' = "open" /\ mixed' = FALSE
        /\ UNCHANGED <<up, status, ident, manifest, events, verdict, prev, exists, data, origin, trouble,
                       touched>>
    BY <1>8 DEF Reset, disk, env, queue, past
  <2>2. db' \in Records
    BY <2>1
  <2> QED BY <2>1, <2>2, NoWorkersTypes
<1>9. CASE Open
  BY <1>9, CoveredTypes DEF Open, Touches, Sync, Downloaded, Saved, Fresh, Statuses, task, pool,
     start, disk, env, queue, past
<1>10. CASE SetLen
  <2>1. touched' \in BOOLEAN
    BY <1>10 DEF SetLen, Touches
  <2>2. data' \in Seq(0..MaxVersion)
    BY <1>10, SetLenTypes DEF SetLen
  <2> QED BY <1>10, <2>1, <2>2 DEF SetLen, task, pool, env, queue
<1>11. CASE Launch
  BY <1>11 DEF Launch, Saved, Fresh, Statuses, task, pool, start, disk, env, queue, past
<1>12. CASE EnsureWorkers
  <2>1. /\ got' \in [Workers -> 0..LaneLen] /\ wst' \in [Workers -> Statuses]
        /\ body' \in [Workers -> 0..MaxVersion]
        /\ live' \in [Workers -> BOOLEAN] /\ begin' \in [Workers -> BOOLEAN]
    <3>1. CASE planned
      BY <1>12, <3>1 DEF EnsureWorkers
    <3>2. CASE ~planned
      <4>1. got' \in [Workers -> 0..LaneLen]
        <5>1. \A w \in Workers : Seeded(w) \in 0..LaneLen
          BY SeededCount
        <5> QED BY <1>12, <3>2, <5>1 DEF EnsureWorkers
      <4>2. wst' \in [Workers -> Statuses] /\ body' \in [Workers -> 0..MaxVersion]
        BY <1>12, <3>2 DEF EnsureWorkers, Fresh, Statuses
      <4>3. live' \in [Workers -> BOOLEAN] /\ begin' \in [Workers -> BOOLEAN]
        BY <1>12, <3>2 DEF EnsureWorkers
      <4> QED BY <4>1, <4>2, <4>3
    <3> QED BY <3>1, <3>2
  <2>2. db' \in Records
    BY <1>12, <2>1 DEF EnsureWorkers
  <2> QED BY <1>12, <2>1, <2>2 DEF EnsureWorkers, task, disk, env, queue, past
<1>13. CASE Progress
  BY <1>13, CoveredTypes DEF Progress, Sync, Downloaded, Saved, Fresh, Statuses, task, pool,
     start, disk, env, queue, past
<1>14. CASE HandleComplete
  <2>1. UNCHANGED <<status, ident, manifest, pool, up, pc, prev, exists, data, db, origin, trouble,
                    touched, mixed>>
    BY <1>14 DEF HandleComplete, start, disk, env, past
  <2>2. events' \in Nat /\ verdict' \in {"none", "good", "bad"}
    BY <1>14 DEF HandleComplete
  <2>3. blocks' \subseteq Blocks /\ progress' \in BOOLEAN
    BY <1>14, CoveredTypes DEF HandleComplete, Sync, Downloaded
  <2> QED BY <2>1, <2>2, <2>3 DEF pool
<1>15. CASE Persist
  BY <1>15 DEF Persist, Saved, Fresh, Statuses, task, pool, start, disk, env, queue, past
<1>16. CASE Pause
  BY <1>16 DEF Pause, Happens, Saved, Fresh, Statuses, task, pool, start, disk, env, queue, past
<1>17. CASE Cancel
  BY <1>17 DEF Cancel, CancelWorkers, Happens, Saved, Fresh, Statuses, task, pool, start,
     disk, env, queue, past
<1>18. CASE Crash
  <2>1. /\ up' = FALSE /\ status' = "Pending" /\ ident' = 0 /\ blocks' = {} /\ progress' = FALSE
        /\ manifest' = FALSE /\ NoWorkers /\ events' = 0 /\ pc' = "idle" /\ prev' = 0
        /\ verdict' = "none" /\ touched' = FALSE /\ mixed' = mixed
        /\ trouble > 0 /\ trouble' = trouble - 1
        /\ UNCHANGED <<exists, data, db, origin>>
    BY <1>18 DEF Crash, Happens, disk, env, queue, past
  <2>2. /\ status' \in Statuses /\ trouble' \in Nat /\ events' \in Nat
        /\ ident' \in 0..MaxVersion /\ prev' \in 0..MaxVersion
    BY <2>1 DEF Statuses
  <2> QED BY <2>1, <2>2, NoWorkersTypes, Zenon
<1>19. CASE Restore
  <2>1. /\ up' = TRUE /\ UNCHANGED <<manifest, live, begin, body, events, verdict, pc, prev>>
        /\ UNCHANGED <<exists, data, origin, trouble, touched, mixed>>
    BY <1>19 DEF Restore, start, disk, env, queue, past
  <2>2. /\ status' \in Statuses /\ ident' \in 0..MaxVersion /\ blocks' \subseteq Blocks
        /\ planned' \in BOOLEAN /\ progress' \in BOOLEAN
    BY <1>19 DEF Restore, Statuses
  <2>3. got' \in [Workers -> 0..LaneLen] /\ wst' \in [Workers -> Statuses]
    BY <1>19 DEF Restore, Statuses, Fresh
  <2>4. db' \in Records
    BY <1>19, <2>2, <2>3 DEF Restore, Saved
  <2> QED BY <2>1, <2>2, <2>3, <2>4
<1>20. CASE OriginChanges
  BY <1>20 DEF OriginChanges, Saved, Fresh, Statuses, task, pool, start, disk, env, queue, past
<1>21. CASE Meddle
  <2>1. data' \in Seq(0..MaxVersion)
    <3>1. CASE data' = <<>>
      BY <3>1
    <3>2. CASE \E n \in 0..(Len(data) - 1) : data' = SubSeq(data, 1, n)
      BY <3>2
    <3> QED BY <1>21, <3>1, <3>2 DEF Meddle
  <2>2. exists' \in BOOLEAN /\ trouble' \in Nat
    <3>1. exists' \in BOOLEAN
      BY <1>21 DEF Meddle
    <3>2. trouble' \in Nat
      <4>1. trouble > 0 /\ trouble' = trouble - 1
        BY <1>21, Zenon DEF Meddle, Happens
      <4> QED BY <4>1
    <3> QED BY <3>1, <3>2
  <2> QED BY <1>21, <2>1, <2>2 DEF Meddle, task, pool, start, env, queue, past
<1>22. CASE UNCHANGED vars
  BY <1>22 DEF vars, task, pool, start, disk, env, queue, past
<1>23. ASSUME NEW w \in Workers, WorkerStep(w) PROVE TypeOK'
  <2>1. CASE Begin(w)
    <3>1. /\ begin' \in [Workers -> BOOLEAN] /\ live' \in [Workers -> BOOLEAN]
          /\ wst' \in [Workers -> Statuses] /\ body' \in [Workers -> 0..MaxVersion]
      <4>1. begin' \in [Workers -> BOOLEAN] /\ live' \in [Workers -> BOOLEAN]
        BY <2>1 DEF Begin
      <4>2. wst' \in [Workers -> Statuses]
        BY <2>1 DEF Begin, Statuses
      <4>3. body' \in [Workers -> 0..MaxVersion]
        <5>1. body' = body \/ body' = Fresh
          BY <2>1, Zenon DEF Begin
        <5>2. 0 \in 0..MaxVersion
          BY ResumeAssumption
        <5>3. Fresh \in [Workers -> 0..MaxVersion]
          BY <5>2 DEF Fresh
        <5>4. body \in [Workers -> 0..MaxVersion]
          BY <1>1
        <5> QED BY <5>1, <5>3, <5>4
      <4> QED BY <4>1, <4>2, <4>3
    <3>2. status' \in Statuses
      BY <2>1 DEF Begin, Statuses
    <3> QED BY <2>1, <3>1, <3>2 DEF Begin, start, disk, env, queue, past
  <2>2. CASE Request(w)
    BY <2>2 DEF Request, Saved, Fresh, Statuses, task, pool, start, disk, env, queue, past
  <2>3. CASE Write(w)
    <3>1. got[w] + 1 \in 1..LaneLen /\ body[w] \in 0..MaxVersion
      BY <2>3 DEF Write
    <3>2. Block(w, got[w] + 1) \in Blocks
      BY <3>1, BlockInFile
    <3>3. data' \in Seq(0..MaxVersion)
      BY <2>3, <3>1, <3>2, WriteAtTypes DEF Write
    <3>4. got' \in [Workers -> 0..LaneLen]
      BY <2>3, <3>1 DEF Write
    <3> QED BY <2>3, <3>3, <3>4 DEF Write, Touches, task, start, env, queue, past
  <2>4. CASE Break(w)
    BY <2>4 DEF Break, Saved, Fresh, Statuses, task, pool, start, disk, env, queue, past
  <2>5. CASE Fail(w)
    BY <2>5 DEF Fail, StopAndFail, CancelWorkers, Happens, Saved, Fresh, Statuses, task,
       pool, start, disk, env, queue, past
  <2>6. CASE Complete(w)
    BY <2>6 DEF Complete, Active, Saved, Fresh, Statuses, task, pool, start, disk, env, queue, past
  <2>7. CASE SaveRow(w)
    BY <2>7 DEF SaveRow, Saved, Fresh, Statuses, task, pool, start, disk, env, queue, past
  <2> QED BY <1>23, <2>1, <2>2, <2>3, <2>4, <2>5, <2>6, <2>7 DEF WorkerStep
<1> QED BY <1>3, <1>4, <1>5, <1>6, <1>7, <1>8, <1>9, <1>10, <1>11, <1>12, <1>13, <1>14,
       <1>15, <1>16, <1>17, <1>18, <1>19, <1>20, <1>21, <1>22, <1>23, <1>25, <1>26 DEF Next

\* Every variable keeps its range, through pauses, failures, crashes and restores.
THEOREM TypeCorrect == Spec => []TypeOK
<1>1. Init => TypeOK
  BY TypeInit
<1>2. TypeOK /\ [Next]_vars => TypeOK'
  BY TypeStep
<1> QED BY <1>1, <1>2, PTL DEF Spec

(***************************************************************************)
(* What runs when.                                                         *)
(***************************************************************************)
CrashFree == "crash" \notin scenario.troubles

\* A process that is down has nothing under way; without crashes it is up.
Phases ==
    /\ ~up => /\ pc = "idle" /\ events = 0 /\ verdict = "none" /\ ~planned
              /\ \A w \in Workers : ~begin[w] /\ ~live[w]
    /\ CrashFree => up
    /\ validated \in scenario.validations

\* At the beginning the process is up.
LEMMA PhasesInit == Init => Phases
  BY DEF Init, Phases, CrashFree

\* Only a crash takes the process down, and it leaves nothing under way.
LEMMA PhasesStep == TypeOK /\ Phases /\ [Next]_vars => Phases'
<1> SUFFICES ASSUME TypeOK, Phases, [Next]_vars PROVE Phases'
  OBVIOUS
<1>1. scenario' = scenario /\ validated' = validated /\ Workers' = Workers
  BY Static
<1> USE <1>1 DEF Phases, CrashFree
<1>2. CASE Resume
  BY <1>2 DEF Resume, task, pool, start, disk, env, queue, past
<1>3. CASE Start
  BY <1>3 DEF Start, NoWorkers, task, pool, start, disk, env, queue, past
<1>4. CASE Preparing
  BY <1>4 DEF Preparing, task, pool, start, disk, env, queue, past
<1>5. CASE Probe
  BY <1>5 DEF Probe, Happens, task, pool, start, disk, env, queue, past
<1>6. CASE Existing
  BY <1>6 DEF Existing, task, pool, start, disk, env, queue, past
<1>23. CASE Finish
  BY <1>23 DEF Finish, FinishJob, task, pool, start, disk, env, queue, past
<1>24. CASE Finalize
  BY <1>24 DEF Finalize, FinishJob, task, pool, start, disk, env, queue, past
<1>7. CASE Reset
  BY <1>7 DEF Reset, NoWorkers, task, pool, start, disk, env, queue, past
<1>8. CASE Open
  BY <1>8 DEF Open, Sync, task, pool, start, disk, env, queue, past
<1>9. CASE SetLen
  BY <1>9 DEF SetLen, task, pool, start, disk, env, queue, past
<1>10. CASE Launch
  BY <1>10 DEF Launch, task, pool, start, disk, env, queue, past
<1>11. CASE EnsureWorkers
  BY <1>11 DEF EnsureWorkers, task, pool, start, disk, env, queue, past
<1>12. CASE Progress
  BY <1>12 DEF Progress, Sync, task, pool, start, disk, env, queue, past
<1>13. CASE HandleComplete
  BY <1>13 DEF HandleComplete, Sync, task, pool, start, disk, env, queue, past
<1>14. CASE Persist
  BY <1>14 DEF Persist, task, pool, start, disk, env, queue, past
<1>15. CASE Pause
  BY <1>15 DEF Pause, Happens, task, pool, start, disk, env, queue, past
<1>16. CASE Cancel
  BY <1>16 DEF Cancel, CancelWorkers, Happens, task, pool, start, disk, env, queue, past
<1>17. CASE Crash
  BY <1>17 DEF Crash, NoWorkers, Happens, task, pool, start, disk, env, queue, past
<1>18. CASE Restore
  BY <1>18 DEF Restore, task, pool, start, disk, env, queue, past
<1>19. CASE OriginChanges
  BY <1>19 DEF OriginChanges, task, pool, start, disk, env, queue, past
<1>20. CASE Meddle
  BY <1>20 DEF Meddle, Happens, task, pool, start, disk, env, queue, past
<1>21. CASE UNCHANGED vars
  BY <1>21 DEF vars, task, pool, start, disk, env, queue, past
<1>22. ASSUME NEW w \in Workers, WorkerStep(w) PROVE Phases'
  <2>1. CASE Begin(w)
    BY <2>1 DEF Begin, task, pool, start, disk, env, queue, past
  <2>2. CASE Request(w)
    BY <2>2 DEF Request, task, pool, start, disk, env, queue, past
  <2>3. CASE Write(w)
    BY <2>3 DEF Write, task, pool, start, disk, env, queue, past
  <2>4. CASE Break(w)
    BY <2>4 DEF Break, task, pool, start, disk, env, queue, past
  <2>5. CASE Fail(w)
    BY <2>5 DEF Fail, StopAndFail, CancelWorkers, Happens, task, pool, start, disk, env, queue, past
  <2>6. CASE Complete(w)
    BY <2>6 DEF Complete, Active, task, pool, start, disk, env, queue, past
  <2>7. CASE SaveRow(w)
    BY <2>7 DEF SaveRow, task, pool, start, disk, env, queue, past
  <2> QED BY <1>22, <2>1, <2>2, <2>3, <2>4, <2>5, <2>6, <2>7 DEF WorkerStep
<1> QED BY <1>2, <1>3, <1>4, <1>5, <1>6, <1>7, <1>8, <1>9, <1>10, <1>11, <1>12, <1>13, <1>14,
       <1>15, <1>16, <1>17, <1>18, <1>19, <1>20, <1>21, <1>22, <1>23, <1>24 DEF Next

\* The workers have ended and none that was spawned will run.
Ended == \A w \in Workers : ~Active(w) /\ (begin[w] => wst[w] \in {"Completed", "Canceled"})

\* Runs that do not overlap: while a start is in progress nothing else is under way,
\* what is under way belongs to the workers there are, a file that is being finished is
\* left alone, and a completed task has nothing under way that could change its file; the
\* record is Completed only if the task is, or was and is to start anew.
Calm ==
    ~Overlap =>
      /\ pc # "idle" => AtRest
      /\ events > 0 \/ verdict # "none" => planned
      /\ \A w \in Workers : begin[w] => planned
      /\ verdict # "none" => \A w \in Workers : wst[w] \in {"Completed", "Canceled"}
      /\ ~touched
      /\ up /\ status = "Completed" => pc = "idle" /\ Ended
      /\ up /\ db.status = "Completed" =>
           \/ status = "Completed"
           \/ status = "Failed" /\ pc = "idle" /\ Ended
           \/ pc = "preparing" /\ ~exists

\* At the beginning nothing is under way.
LEMMA CalmInit == Init => Calm
  BY DEF Init, Calm

\* Every step keeps Calm: a start waits for rest, and what completes has stopped.
LEMMA CalmStep == TypeOK /\ Phases /\ Calm /\ [Next]_vars => Calm'
<1> SUFFICES ASSUME TypeOK, Phases, Calm, [Next]_vars, ~Overlap
             PROVE  Calm'
  BY Static DEF Calm
<1>1. Workers' = Workers /\ Overlap' = Overlap
  BY Static
<1>2. /\ events \in Nat /\ up \in BOOLEAN /\ planned \in BOOLEAN
      /\ begin \in [Workers -> BOOLEAN] /\ live \in [Workers -> BOOLEAN]
      /\ wst \in [Workers -> Statuses]
      /\ db \in Records /\ verdict \in {"none", "good", "bad"} /\ touched \in BOOLEAN
  BY DEF TypeOK, Records
<1> USE <1>1, <1>2 DEF Records, Calm, Phases, AtRest, Active, Ended
<1>3. CASE Resume
  BY <1>3 DEF Resume, Saved, task, pool, start, disk, env, queue, past
<1>4. CASE Start
  BY <1>4 DEF Start, NoWorkers, Touches, Saved, task, pool, start, disk, env, queue, past
<1>5. CASE Preparing
  BY <1>5 DEF Preparing, Saved, task, pool, start, disk, env, queue, past
<1>6. CASE Probe
  BY <1>6 DEF Probe, Happens, Saved, task, pool, start, disk, env, queue, past
<1>7. CASE Existing
  BY <1>7 DEF Existing, Touches, Saved, task, pool, start, disk, env, queue, past
<1>24. CASE Finish
  BY <1>24 DEF Finish, FinishJob, Saved, task, pool, start, disk, env, queue, past
<1>25. CASE Finalize
  <2>1. /\ up /\ verdict # "none" /\ verdict' = "none" /\ planned
        /\ UNCHANGED <<up, events, pc, planned, wst, live, begin>>
        /\ db'.status = status' /\ ~touched'
    <3>1. up /\ verdict # "none" /\ verdict' = "none" /\ UNCHANGED <<up, events, pc>> /\ ~touched'
      BY <1>25 DEF Finalize, start, queue, past
    <3>2. UNCHANGED <<planned, wst, live, begin>> /\ db'.status = status'
      BY <1>25 DEF Finalize, FinishJob, Saved, pool, queue, past
    <3> QED BY <3>1, <3>2
  <2>2. pc = "idle" /\ \A w \in Workers : wst[w] \in {"Completed", "Canceled"}
    BY <2>1
  <2> QED BY <2>1, <2>2
<1>8. CASE Reset
  BY <1>8 DEF Reset, NoWorkers, Saved, task, pool, start, disk, env, queue, past
<1>9. CASE Open
  BY <1>9 DEF Open, Touches, Sync, Saved, task, pool, start, disk, env, queue, past
<1>10. CASE SetLen
  BY <1>10 DEF SetLen, Touches, Saved, task, pool, start, disk, env, queue, past
<1>11. CASE Launch
  BY <1>11 DEF Launch, Saved, task, pool, start, disk, env, queue, past
<1>12. CASE EnsureWorkers
  <2>1. /\ up /\ pc = "workers" /\ pc' = "idle" /\ planned'
        /\ UNCHANGED <<up, status, events, verdict, touched>> /\ db'.status = db.status
    <3>1. up /\ pc = "workers" /\ pc' = "idle" /\ UNCHANGED <<up, status, events, verdict, touched>>
      BY <1>12 DEF EnsureWorkers, task, queue, past
    <3>2. planned'
      BY <1>12 DEF EnsureWorkers
    <3>3. db'.status = db.status
      BY <1>12 DEF EnsureWorkers
    <3> QED BY <3>1, <3>2, <3>3
  <2>2. status # "Completed" /\ db.status # "Completed" /\ verdict = "none"
    BY <2>1
  <2> QED BY <2>1, <2>2
<1>13. CASE Progress
  BY <1>13 DEF Progress, Sync, Saved, task, pool, start, disk, env, queue, past
<1>14. CASE HandleComplete
  <2>1. /\ up /\ events > 0 /\ planned /\ pc = "idle" /\ events' = events - 1
        /\ UNCHANGED <<up, pc, planned, begin, live, wst, status, db, touched, exists>>
    <3>1. /\ up /\ events > 0 /\ events' = events - 1
          /\ UNCHANGED <<up, pc, planned, begin, live, wst, status, db, touched, exists>>
      BY <1>14 DEF HandleComplete, start, pool, disk, queue, past
    <3>2. planned /\ pc = "idle"
      BY <3>1
    <3> QED BY <3>1, <3>2
  <2>2. verdict' # "none" => \A w \in Workers : wst[w] = "Completed"
    BY <1>14, <2>1 DEF HandleComplete
  <2> QED BY <2>1, <2>2
<1>15. CASE Persist
  BY <1>15 DEF Persist, Saved, task, pool, start, disk, env, queue, past
<1>16. CASE Pause
  BY <1>16 DEF Pause, Happens, Saved, task, pool, start, disk, env, queue, past
<1>17. CASE Cancel
  BY <1>17 DEF Cancel, CancelWorkers, Happens, Saved, task, pool, start, disk, env, queue, past
<1>18. CASE Crash
  BY <1>18 DEF Crash, NoWorkers, Happens, Saved, task, pool, start, disk, env, queue, past
<1>19. CASE Restore
  BY <1>19 DEF Restore, Saved, task, pool, start, disk, env, queue, past
<1>20. CASE OriginChanges
  BY <1>20 DEF OriginChanges, Saved, task, pool, start, disk, env, queue, past
<1>21. CASE Meddle
  BY <1>21 DEF Meddle, Happens, Saved, task, pool, start, disk, env, queue, past
<1>22. CASE UNCHANGED vars
  BY <1>22 DEF vars, Saved, task, pool, start, disk, env, queue, past
<1>23. ASSUME NEW w \in Workers, WorkerStep(w) PROVE Calm'
  <2>1. CASE Begin(w)
    BY <2>1 DEF Begin, Saved, task, pool, start, disk, env, queue, past
  <2>2. CASE Request(w)
    BY <2>2 DEF Request, Saved, task, pool, start, disk, env, queue, past
  <2>3. CASE Write(w)
    BY <2>3 DEF Write, Touches, Saved, task, pool, start, disk, env, queue, past
  <2>4. CASE Break(w)
    BY <2>4 DEF Break, Saved, task, pool, start, disk, env, queue, past
  <2>5. CASE Fail(w)
    BY <2>5 DEF Fail, StopAndFail, CancelWorkers, Happens, Saved, task, pool, start, disk, env,
       queue, past
  <2>6. CASE Complete(w)
    BY <2>6 DEF Complete, Saved, task, pool, start, disk, env, queue, past
  <2>7. CASE SaveRow(w)
    BY <2>7 DEF SaveRow, Saved, task, pool, start, disk, env, queue, past
  <2> QED BY <1>23, <2>1, <2>2, <2>3, <2>4, <2>5, <2>6, <2>7 DEF WorkerStep
<1> QED BY <1>3, <1>4, <1>5, <1>6, <1>7, <1>8, <1>9, <1>10, <1>11, <1>12, <1>13, <1>14,
       <1>15, <1>16, <1>17, <1>18, <1>19, <1>20, <1>21, <1>22, <1>23, <1>24,
       <1>25 DEF Next

\* What becomes Completed does so in one of three ways.
LEMMA WaysToComplete ==
    ASSUME TypeOK, Next, Completes
    PROVE  /\ UNCHANGED disk
           /\ \/ Finish /\ pc = "finish"
              \/ Finalize /\ verdict = "good"
              \/ Restore /\ db.status = "Completed" /\ Usable
<1> USE DEF Completes
<1>1. CASE Resume \/ Start \/ Preparing \/ Probe \/ Existing \/ Reset \/ Open \/ SetLen \/ Launch
             \/ EnsureWorkers
  BY <1>1 DEF Resume, Start, Preparing, Probe, Existing, Reset, Open, SetLen, Launch,
     EnsureWorkers, task, queue, past
<1>2. CASE Finish
  BY <1>2 DEF Finish
<1>3. CASE \E w \in Workers : WorkerStep(w)
  BY <1>3 DEF WorkerStep, Begin, Request, Write, Break, Fail, StopAndFail, Complete, SaveRow,
     task, queue, past
<1>4. CASE Progress \/ HandleComplete \/ Persist \/ Pause \/ Cancel \/ Crash \/ OriginChanges
           \/ Meddle
  BY <1>4 DEF Progress, HandleComplete, Persist, Pause, Cancel, Crash, OriginChanges, Meddle,
     task, queue, past
<1>5. CASE Finalize
  BY <1>5 DEF Finalize, FinishJob
<1>6. CASE Restore
  BY <1>6 DEF Restore
<1> QED BY <1>1, <1>2, <1>3, <1>4, <1>5, <1>6 DEF Next

\* A file that was checked and not touched since has the bytes of the checksum.
CheckInv ==
    Checked /\ ~touched /\ (verdict = "good" \/ pc = "finish") => exists /\ data = Expected

\* At the beginning nothing was checked.
LEMMA CheckInit == Init => CheckInv
  BY DEF Init, CheckInv

\* Every step keeps CheckInv: a check sees the file as it is, and who changes the file
\* afterwards leaves a trace.
LEMMA CheckStep == TypeOK /\ Phases /\ CheckInv /\ [Next]_vars => CheckInv'
<1> SUFFICES ASSUME TypeOK, Phases, CheckInv, [Next]_vars, Checked PROVE CheckInv'
  BY Static DEF CheckInv
<1>1. Expected' = Expected /\ Checked' = Checked
  BY Static DEF Expected
<1>2. verdict \in {"none", "good", "bad"} /\ touched \in BOOLEAN
  BY DEF TypeOK
<1>3. ASSUME UNCHANGED disk, verdict' = "good" => verdict = "good" /\ (touched => touched'),
             pc' = "finish" => pc = "finish" /\ (touched => touched')
      PROVE  CheckInv'
  BY <1>1, <1>2, <1>3 DEF CheckInv, disk
<1>4. ASSUME Touches, UNCHANGED verdict, pc' = "finish" => pc = "finish"
      PROVE  CheckInv'
  <2>1. CASE disk' = disk
    BY <1>1, <1>2, <1>4, <2>1 DEF CheckInv, Touches, disk
  <2>2. CASE disk' # disk
    BY <1>1, <1>2, <1>4, <2>2 DEF CheckInv, Touches
  <2> QED BY <2>1, <2>2
<1>5. CASE Resume \/ Preparing \/ Probe \/ Reset \/ Launch \/ EnsureWorkers
  BY <1>3, <1>5 DEF Resume, Preparing, Probe, Reset, Launch, EnsureWorkers, queue, past
<1>6. CASE Start
  BY <1>3, <1>4, <1>6 DEF Start, queue, past
<1>7. CASE Existing
  <2>1. CASE Decision = "finish"
    <3>1. exists /\ data = Expected
      BY <2>1 DEF Decision, ExistingIsValid
    <3> QED BY <1>1, <1>7, <2>1, <3>1 DEF Existing, CheckInv, disk, queue, past
  <2>2. CASE Decision # "finish"
    BY <1>3, <1>4, <1>7, <2>2 DEF Existing, queue
  <2> QED BY <2>1, <2>2
<1>8. CASE Finish
  BY <1>2, <1>3, <1>8 DEF Finish, queue
<1>9. CASE Open \/ SetLen
  BY <1>4, <1>9 DEF Open, SetLen, queue
<1>10. CASE Finalize
  BY <1>2, <1>3, <1>10 DEF Finalize, start, queue, past
<1>11. CASE HandleComplete
  <2>1. UNCHANGED <<exists, data, pc, touched>> /\ (verdict' = "good" => Verified)
    BY <1>11 DEF HandleComplete, disk, start, past, queue
  <2> QED BY <1>1, <2>1 DEF CheckInv, Verified
<1>12. CASE Progress \/ Persist \/ Pause \/ Cancel \/ Restore \/ OriginChanges
  BY <1>3, <1>12 DEF Progress, Persist, Pause, Cancel, Restore, OriginChanges, queue, start, past
<1>13. CASE Crash
  BY <1>13 DEF Crash, CheckInv
<1>14. CASE Meddle
  <2>1. verdict = "none" /\ pc = "idle" /\ UNCHANGED <<verdict, pc>>
    BY <1>14 DEF Meddle, Quiet, AtRest, Phases, queue, start, past
  <2> QED BY <2>1 DEF CheckInv
<1>15. CASE \E w \in Workers : WorkerStep(w)
  <2>1. PICK w \in Workers : WorkerStep(w)
    BY <1>15
  <2>2. CASE Write(w)
    BY <1>4, <2>2 DEF Write, queue, start, past
  <2>3. CASE Request(w)
    BY <1>3, <2>3 DEF Request, queue, start, past
  <2>4. CASE Begin(w) \/ Break(w) \/ Fail(w) \/ Complete(w) \/ SaveRow(w)
    BY <1>3, <2>4 DEF Begin, Break, Fail, Complete, SaveRow, queue, start, past
  <2> QED BY <2>1, <2>2, <2>3, <2>4 DEF WorkerStep
<1>16. CASE UNCHANGED vars
  BY <1>3, <1>16 DEF vars, queue, start, past
<1> QED BY <1>5, <1>6, <1>7, <1>8, <1>9, <1>10, <1>11, <1>12, <1>13, <1>14, <1>15, <1>16 DEF Next

\* A prefix of the bytes the checksum is of.
Ones(s) == Len(s) <= Size /\ \A i \in 1..Len(s) : s[i] = 1

\* Whoever is Completed, or would be restored as such, has no other bytes in its file.
Settled ==
    ~Overlap /\ Checked /\ exists /\ ((up /\ status = "Completed") \/ db.status = "Completed")
        => Ones(data)

\* At the beginning nothing is Completed.
LEMMA SettledInit == Init => Settled
  BY DEF Init, Settled

\* The bytes the checksum is of.
LEMMA ExpectedIsOnes ==
    ASSUME TypeOK
    PROVE  /\ Expected \in Seq(Nat) /\ Len(Expected) = Size /\ Ones(Expected)
           /\ \A s \in Seq(Nat) : Ones(s) /\ Len(s) = Size => s = Expected
<1>1. Size \in Nat
  BY ScenarioTypes
<1>2. Expected \in [1..Size -> Nat]
  BY <1>1 DEF Expected, Blocks
<1>3. Expected \in Seq(Nat) /\ Len(Expected) = Size
  BY <1>1, <1>2, FunctionIsFile
<1>4. \A i \in 1..Size : Expected[i] = 1
  BY DEF Expected, Blocks
<1>5. Ones(Expected)
  BY <1>1, <1>3, <1>4 DEF Ones
<1>6. ASSUME NEW s \in Seq(Nat), Ones(s), Len(s) = Size
      PROVE  s = Expected
  <2>1. \A i \in 1..Len(s) : s[i] = Expected[i]
    BY <1>4, <1>6 DEF Ones
  <2> QED BY <1>3, <1>6, <2>1, SeqEqual
<1> QED BY <1>3, <1>5, <1>6

\* Every step keeps Settled: nobody writes to the file of a completed task.
LEMMA SettledStep == TypeOK /\ Phases /\ Calm /\ CheckInv /\ Settled /\ [Next]_vars => Settled'
<1> SUFFICES ASSUME TypeOK, Phases, Calm, CheckInv, Settled, [Next]_vars, ~Overlap, Checked,
                    exists', (up' /\ status' = "Completed") \/ db'.status = "Completed"
             PROVE  Ones(data)'
  BY Static DEF Settled
<1>1. Size' = Size /\ Workers' = Workers /\ Size \in Nat /\ data \in Seq(Nat)
  <2>1. data \in Seq(0..MaxVersion) /\ MaxVersion \in Nat
    BY ResumeAssumption DEF TypeOK
  <2>2. data \in Seq(Nat)
    BY <2>1
  <2> QED BY <2>2, Static, ScenarioTypes
<1>2. ASSUME UNCHANGED data, Ones(data)
      PROVE  Ones(data)'
  BY <1>1, <1>2 DEF Ones
<1>3. ASSUME UNCHANGED <<exists, data>>, (up /\ status = "Completed") \/ db.status = "Completed"
      PROVE  Ones(data)'
  BY <1>2, <1>3 DEF Settled
<1>4. ASSUME up, pc \notin {"idle", "preparing"}
      PROVE  status # "Completed" /\ db.status # "Completed"
  BY <1>4 DEF Calm
<1>26. db \in Records
  BY DEF TypeOK, Records
<1> USE <1>26 DEF Records
<1>5. CASE Resume
  BY <1>5, <1>3 DEF Resume, Saved, task, pool, start, disk, env, queue, past
<1>6. CASE Start
  BY <1>6, <1>3 DEF Start, NoWorkers, Saved, task, pool, start, disk, env, queue, past
<1>7. CASE Preparing
  BY <1>7, <1>3 DEF Preparing, Saved, task, pool, start, disk, env, queue, past
<1>8. CASE Probe
  BY <1>8, <1>3 DEF Probe, Happens, Saved, task, pool, start, disk, env, queue, past
<1>9. CASE Existing
  <2>1. up /\ pc = "existing" /\ UNCHANGED <<up, status, db>>
    BY <1>9 DEF Existing, task, queue, past
  <2> QED BY <1>4, <2>1
<1>27. ASSUME NEW s \in BOOLEAN, FinishJob(s), UNCHANGED disk, s => exists /\ data = Expected
       PROVE  Ones(data)'
  <2>1. db'.status = status' /\ status' = IF s THEN "Completed" ELSE "Failed"
    BY <1>27 DEF FinishJob, Saved
  <2>2. s
    BY <2>1
  <2> QED BY <1>2, <1>27, <2>2, ExpectedIsOnes DEF disk
<1>28. CASE Finish
  <2>1. pc = "finish" /\ ~touched
    BY <1>28 DEF Finish, Calm
  <2>2. exists /\ data = Expected
    BY <2>1 DEF CheckInv
  <2>3. FinishJob(TRUE) /\ UNCHANGED disk
    BY <1>28 DEF Finish
  <2> QED BY <1>27, <2>2, <2>3
<1>29. CASE Finalize
  <2>1. ~touched /\ FinishJob(verdict = "good") /\ UNCHANGED disk
    BY <1>29 DEF Finalize, Calm
  <2>2. verdict = "good" => exists /\ data = Expected
    BY <2>1 DEF CheckInv
  <2> QED BY <1>27, <2>1, <2>2
<1>10. CASE Reset
  BY <1>10, <1>4 DEF Reset
<1>11. CASE Open
  BY <1>11, <1>4 DEF Open
<1>12. CASE SetLen
  BY <1>12, <1>4 DEF SetLen, task, queue, past
<1>13. CASE Launch
  BY <1>13, <1>3 DEF Launch, Saved, task, pool, start, disk, env, queue, past
<1>14. CASE EnsureWorkers
  BY <1>14, <1>3 DEF EnsureWorkers, Saved, task, pool, start, disk, env, queue, past
<1>15. CASE Progress
  BY <1>15, <1>3 DEF Progress, Sync, Saved, task, pool, start, disk, env, queue, past
<1>16. CASE HandleComplete
  BY <1>16, <1>3 DEF HandleComplete, disk, queue, past
<1>17. CASE Persist
  BY <1>17, <1>3 DEF Persist, Saved, task, pool, start, disk, env, queue, past
<1>18. CASE Pause
  BY <1>18, <1>3 DEF Pause, Happens, Saved, task, pool, start, disk, env, queue, past
<1>19. CASE Cancel
  BY <1>19, <1>3 DEF Cancel, CancelWorkers, Happens, Saved, task, pool, start, disk, env, queue,
     past
<1>20. CASE Crash
  BY <1>20, <1>3 DEF Crash, disk, queue, past
<1>21. CASE Restore
  BY <1>21, <1>3 DEF Restore, Saved, task, pool, start, disk, env, queue, past
<1>22. CASE OriginChanges
  BY <1>22, <1>3 DEF OriginChanges, Saved, task, pool, start, disk, env, queue, past
<1>23. CASE Meddle
  <2>1. UNCHANGED <<up, status, db>> /\ exists
    BY <1>23 DEF Meddle, task, queue, past
  <2>2. Ones(data)
    BY <2>1 DEF Settled
  <2>3. PICK n \in 0..(Len(data) - 1) : data' = SubSeq(data, 1, n)
    BY <1>23, Zenon DEF Meddle
  <2>4. n \in Nat /\ Len(data') = n /\ \A i \in 1..n : data'[i] = data[i]
    BY <1>1, <2>3
  <2> QED BY <1>1, <2>2, <2>3, <2>4 DEF Ones
<1>24. CASE UNCHANGED vars
  BY <1>24, <1>3 DEF vars, Saved, task, pool, start, disk, env, queue, past
<1>25. ASSUME NEW w \in Workers, WorkerStep(w) PROVE Ones(data)'
  <2>1. CASE Begin(w)
    BY <2>1, <1>3 DEF Begin, Saved, task, pool, start, disk, env, queue, past
  <2>2. CASE Request(w)
    BY <2>2, <1>3 DEF Request, Saved, task, pool, start, disk, env, queue, past
  <2>3. CASE Write(w)
    <3>1. Active(w) /\ UNCHANGED <<up, status, db>>
      BY <2>3 DEF Write, task, queue, past
    <3>2. up /\ status # "Completed" /\ db.status # "Completed"
      <4>1. up /\ ~Ended /\ pc = "idle"
        BY <3>1 DEF Calm, Ended, AtRest, Active
      <4> QED BY <4>1 DEF Calm
    <3> QED BY <3>1, <3>2
  <2>4. CASE Break(w)
    BY <2>4, <1>3 DEF Break, Saved, task, pool, start, disk, env, queue, past
  <2>5. CASE Fail(w)
    BY <2>5, <1>3 DEF Fail, StopAndFail, CancelWorkers, Happens, Saved, task, pool, start,
       disk, env, queue, past
  <2>6. CASE Complete(w)
    BY <2>6, <1>3 DEF Complete, Saved, task, pool, start, disk, env, queue, past
  <2>7. CASE SaveRow(w)
    BY <2>7, <1>3 DEF SaveRow, Saved, task, pool, start, disk, env, queue, past
  <2> QED BY <1>25, <2>1, <2>2, <2>3, <2>4, <2>5, <2>6, <2>7 DEF WorkerStep
<1> QED BY <1>5, <1>6, <1>7, <1>8, <1>9, <1>10, <1>11, <1>12, <1>13, <1>14, <1>15, <1>16,
       <1>17, <1>18, <1>19, <1>20, <1>21, <1>22, <1>23, <1>24, <1>25, <1>28, <1>29 DEF Next

\* Runs that overlap are looked at without crashes.
CrashesAlone == \A s \in Scenarios : s.overlap => "crash" \notin s.troubles

\* A step that completes a task with a checksum finds the bytes it is of.
LEMMA AsExpectedStep ==
    ASSUME TypeOK, Phases, Calm, CheckInv, Settled, CrashesAlone, Next, Completes, Checked, Undisturbed
    PROVE  exists' /\ data' = Expected
<1>0. Overlap \in BOOLEAN
  BY ScenarioTypes
<1>1. ~touched
  <2>1. CASE Overlap
    BY <2>1 DEF Undisturbed
  <2>2. CASE ~Overlap
    BY <2>2 DEF Calm
  <2> QED BY <1>0, <2>1, <2>2
<1>2. CASE pc = "finish" \/ verdict = "good"
  BY <1>1, <1>2, WaysToComplete DEF CheckInv, disk
<1>3. CASE Restore /\ db.status = "Completed" /\ Usable
  <2>1. ~up
    BY <1>3 DEF Restore
  <2>2. ~Overlap
    BY <2>1 DEF Phases, CrashFree, CrashesAlone, Overlap, TypeOK
  <2>3. exists /\ Len(data) = Size /\ Ones(data)
    BY <1>3, <2>1, <2>2 DEF Settled, Usable
  <2>4. data \in Seq(0..MaxVersion) /\ MaxVersion \in Nat
    BY ResumeAssumption DEF TypeOK
  <2>5. data \in Seq(Nat)
    BY <2>4
  <2>6. data = Expected
    BY <2>3, <2>5, ExpectedIsOnes
  <2> QED BY <2>3, <2>6, WaysToComplete DEF disk
<1> QED BY <1>2, <1>3, WaysToComplete

\* A task with a checksum becomes Completed only with the bytes the checksum is of,
\* whatever was paused, lost, changed or restored before: always, if its runs do not
\* overlap, and else (without crashes) unless another run has replaced the file between
\* the check and Completed.
THEOREM AsExpectedCorrect == CrashesAlone => (Spec => CompletesAsExpected)
<1> DEFINE Inv == TypeOK /\ Phases /\ Calm /\ CheckInv /\ Settled
<1> SUFFICES ASSUME CrashesAlone PROVE Spec => CompletesAsExpected
  OBVIOUS
<1>1. Init => Inv
  BY TypeInit, PhasesInit, CalmInit, CheckInit, SettledInit
<1>2. Inv /\ [Next]_vars => Inv'
  BY TypeStep, PhasesStep, CalmStep, CheckStep, SettledStep
<1>3. Inv /\ [Next]_vars => [Completes /\ Checked /\ Undisturbed => exists' /\ data' = Expected]_vars
  BY AsExpectedStep
<1> QED BY <1>1, <1>2, <1>3, PTL DEF Spec, CompletesAsExpected

(***************************************************************************)
(* Tasks without a checksum, whose runs neither overlap nor crash.         *)
(***************************************************************************)
Tame == ~Checked /\ ~Overlap /\ CrashFree

Zero == \A i \in 1..Len(data) : data[i] = 0

\* Blocks are claimed only while there are workers, or when all is done; what a start
\* without workers finds, or leaves, in the file before they write, are holes.
Prepared ==
    Tame =>
      /\ blocks # {} => planned \/ status = "Completed"
      /\ ~exists => data = <<>>
      /\ pc \in {"set_len", "launch", "workers"} => exists
      /\ pc \in {"launch", "workers"} => Len(data) = Size
      /\ pc = "reset" => Zero
      /\ pc \in {"open", "set_len", "launch", "workers"} /\ ~planned => Zero
      /\ planned /\ (\A w \in Workers : got[w] = 0) => Zero

\* At the beginning nothing is claimed.
LEMMA PreparedInit == Init => Prepared
  BY DEF Init, Prepared

\* Every step keeps Prepared.
LEMMA PreparedStep == TypeOK /\ Phases /\ Calm /\ Prepared /\ [Next]_vars => Prepared'
<1> SUFFICES ASSUME TypeOK, Phases, Calm, Prepared, [Next]_vars, Tame
             PROVE  Prepared'
  BY Static DEF Prepared, Tame, CrashFree
<1>1. /\ Workers' = Workers /\ Blocks' = Blocks /\ Size' = Size /\ Size \in Nat /\ LaneLen \in Nat
      /\ scenario' = scenario /\ Tame' = Tame
  BY Static, ScenarioTypes DEF Tame, CrashFree
<1>2. /\ up /\ ~Overlap /\ ~Checked
      /\ events \in Nat /\ planned \in BOOLEAN
      /\ got \in [Workers -> 0..LaneLen] /\ data \in Seq(0..MaxVersion)
  BY DEF TypeOK, Phases, Tame
<1> USE <1>1, <1>2 DEF Prepared, Zero
<1>3. CASE Resume
  BY <1>3 DEF Resume, Covered, task, pool, start, disk, env, queue, past
<1>4. CASE Start
  BY <1>4 DEF Start, NoWorkers, Covered, task, pool, start, disk, env, queue, past
<1>5. CASE Preparing
  BY <1>5 DEF Preparing, Calm, pool, disk, queue, past
<1>6. CASE Probe
  BY <1>6 DEF Probe, Happens, Covered, task, pool, start, disk, env, queue, past
<1>7. CASE Existing
  <2>1. pc = "existing" /\ status # "Completed" /\ UNCHANGED <<pool, status, blocks>>
    BY <1>7 DEF Existing, Calm, task, queue, past
  <2>2. CASE Decision = "finish"
    <3>1. pc' = "finish" /\ UNCHANGED <<exists, data>>
      BY <1>7, <2>2 DEF Existing, disk, queue, past
    <3> QED BY <2>1, <3>1 DEF pool
  <2>3. CASE Decision = "discard"
    <3>1. exists' = FALSE /\ data' = <<>> /\ pc' = "reset" /\ UNCHANGED <<status, blocks>>
      BY <1>7, <2>3 DEF Existing, task, queue, past
    <3>2. Zero'
      BY <3>1
    <3> QED BY <2>1, <3>1, <3>2 DEF pool
  <2>4. CASE Decision \in {"reset", "keep"}
    <3>1. /\ UNCHANGED <<status, blocks, exists, data>>
          /\ pc' = IF Decision = "reset" THEN "reset" ELSE "open"
      BY <1>7, <2>4 DEF Existing, task, disk, queue, past
    <3>2. Decision = "reset" \/ ~planned => ~exists
      BY <2>4 DEF Decision, CanResume
    <3>3. ~exists => Zero
      OBVIOUS
    <3> QED BY <2>1, <2>4, <3>1, <3>2, <3>3 DEF pool
  <2> QED BY <1>7, <2>2, <2>3, <2>4 DEF Existing
<1>24. CASE Finish
  <2>1. status' = "Completed" /\ pc' = "idle" /\ UNCHANGED <<exists, data, planned, got>>
    BY <1>24 DEF Finish, FinishJob, disk, pool, queue, past
  <2> QED BY <2>1
<1>25. CASE Finalize
  <2>1. verdict # "none" /\ UNCHANGED <<exists, data, planned, got, pc>>
    BY <1>25 DEF Finalize, FinishJob, disk, pool, start, queue, past
  <2>2. planned
    BY <2>1 DEF Calm
  <2> QED BY <2>1, <2>2
<1>8. CASE Reset
  BY <1>8 DEF Reset, NoWorkers, Covered, task, pool, start, disk, env, queue, past
<1>9. CASE Open
  BY <1>9 DEF Open, Sync, Covered, task, pool, start, disk, env, queue, past
<1>10. CASE SetLen
  <2>1. /\ pc = "set_len" /\ pc' = "launch" /\ UNCHANGED <<status, blocks, exists, planned, got>>
        /\ data' = [b \in Blocks |-> IF b <= Len(data) THEN data[b] ELSE 0]
    BY <1>10 DEF SetLen, task, pool, queue, past
  <2>2. Len(data') = Size
    BY <2>1, SetLenTypes
  <2>3. Zero => Zero'
    <3>1. \A i \in 1..Size : i \in Blocks /\ i \in Nat
      BY DEF Blocks
    <3> QED BY <2>1, <2>2, <3>1
  <2> QED BY <2>1, <2>2, <2>3
<1>11. CASE Launch
  BY <1>11 DEF Launch, Calm, pool, disk, queue, past
<1>12. CASE EnsureWorkers
  BY <1>12 DEF EnsureWorkers, Covered, task, pool, start, disk, env, queue, past
<1>13. CASE Progress
  BY <1>13 DEF Progress, Sync, Covered, task, pool, start, disk, env, queue, past
<1>14. CASE HandleComplete
  <2>1. /\ events > 0 /\ UNCHANGED <<exists, data, planned, got, pc>>
    BY <1>14 DEF HandleComplete, pool, disk, start, queue, past
  <2>2. planned
    BY <2>1 DEF Calm
  <2> QED BY <2>1, <2>2
<1>15. CASE Persist
  BY <1>15 DEF Persist, Covered, task, pool, start, disk, env, queue, past
<1>16. CASE Pause
  BY <1>16 DEF Pause, Happens, Covered, task, pool, start, disk, env, queue, past
<1>17. CASE Cancel
  BY <1>17 DEF Cancel, CancelWorkers, Happens, Covered, task, pool, start, disk, env, queue, past
<1>18. CASE Crash
  BY <1>18 DEF Crash, NoWorkers, Happens, Covered, task, pool, start, disk, env, queue, past
<1>19. CASE Restore
  BY <1>19 DEF Restore, Covered, task, pool, start, disk, env, queue, past
<1>20. CASE OriginChanges
  BY <1>20 DEF OriginChanges, Covered, task, pool, start, disk, env, queue, past
<1>21. CASE Meddle
  <2>1. pc = "idle" /\ exists /\ UNCHANGED <<status, blocks, planned, got, pc>>
    BY <1>21 DEF Meddle, Quiet, task, pool, start, queue, past
  <2>2. CASE ~exists' /\ data' = <<>>
    BY <2>1, <2>2
  <2>3. CASE exists' /\ \E n \in 0..(Len(data) - 1) : data' = SubSeq(data, 1, n)
    <3>1. PICK n \in 0..(Len(data) - 1) : data' = SubSeq(data, 1, n)
      BY <2>3
    <3>2. n \in Nat /\ Len(data') = n /\ \A i \in 1..n : data'[i] = data[i] /\ i \in 1..Len(data)
      BY <3>1
    <3>3. Zero => Zero'
      BY <3>2
    <3> QED BY <2>1, <2>3, <3>3
  <2>4. \/ ~exists' /\ data' = <<>>
        \/ exists' /\ \E n \in 0..(Len(data) - 1) : data' = SubSeq(data, 1, n)
    BY <1>21, <2>1, Zenon DEF Meddle
  <2> QED BY <2>2, <2>3, <2>4
<1>22. CASE UNCHANGED vars
  BY <1>22 DEF vars, Covered, task, pool, start, disk, env, queue, past
<1>23. ASSUME NEW w \in Workers, WorkerStep(w) PROVE Prepared'
  <2>1. CASE Begin(w)
    BY <2>1 DEF Begin, Covered, task, pool, start, disk, env, queue, past
  <2>2. CASE Request(w)
    BY <2>2 DEF Request, Covered, task, pool, start, disk, env, queue, past
  <2>3. CASE Write(w)
    <3>1. /\ Active(w) /\ UNCHANGED <<exists, pc, planned, status, blocks>>
          /\ ~exists => data' = data
      BY <2>3 DEF Write, task, start, queue, past
    <3>2. got'[w] # 0
      BY <2>3 DEF Write
    <3>3. pc = "idle" /\ planned
      BY <3>1 DEF Calm, AtRest, Active
    <3> QED BY <3>1, <3>2, <3>3
  <2>4. CASE Break(w)
    BY <2>4 DEF Break, Covered, task, pool, start, disk, env, queue, past
  <2>5. CASE Fail(w)
    BY <2>5 DEF Fail, StopAndFail, CancelWorkers, Active, start, disk, queue, past
  <2>6. CASE Complete(w)
    BY <2>6 DEF Complete, Covered, task, pool, start, disk, env, queue, past
  <2>7. CASE SaveRow(w)
    BY <2>7 DEF SaveRow, Covered, task, pool, start, disk, env, queue, past
  <2> QED BY <1>23, <2>1, <2>2, <2>3, <2>4, <2>5, <2>6, <2>7 DEF WorkerStep
<1> QED BY <1>3, <1>4, <1>5, <1>6, <1>7, <1>8, <1>9, <1>10, <1>11, <1>12, <1>13, <1>14,
       <1>15, <1>16, <1>17, <1>18, <1>19, <1>20, <1>21, <1>22, <1>23, <1>24,
       <1>25 DEF Next

\* Without a validator no start keeps what it finds, so that the workers under way write
\* to a file of the present run: what they have counted they have written.
Written ==
    Tame /\ ~validated =>
      /\ ident = 0 /\ prev = 0
      /\ pc \in {"open", "set_len", "launch", "workers"} => ~planned
      /\ \A w \in Workers : wst[w] = "Completed" \/ verdict # "none" => got[w] = LaneLen
      /\ pc # "finish"
      /\ ~AtRest => /\ planned /\ exists /\ Len(data) = Size
                    /\ \A w \in Workers : \A k \in 1..got[w] : data[Block(w, k)] # 0

\* At the beginning nothing is counted.
LEMMA WrittenInit == Init => Written
  BY DEF Init, Written, AtRest, Active

\* Every step keeps Written: a start without a validator begins anew, a write counts one block.
LEMMA WrittenStep == TypeOK /\ Phases /\ Calm /\ Prepared /\ Written /\ [Next]_vars => Written'
<1> SUFFICES ASSUME TypeOK, Phases, Calm, Prepared, Written, [Next]_vars, Tame, ~validated
             PROVE  Written'
  BY Static DEF Written, Tame, CrashFree
<1>1. /\ Workers' = Workers /\ Blocks' = Blocks /\ Size' = Size /\ Size \in Nat /\ LaneLen \in Nat
      /\ LaneLen' = LaneLen /\ scenario' = scenario /\ Tame' = Tame /\ validated' = validated
      /\ \A w, k : Block(w, k)' = Block(w, k)
  BY Static, ScenarioTypes DEF Tame, CrashFree, Block
<1>2. /\ up /\ ~Overlap /\ ~Checked
      /\ events \in Nat /\ planned \in BOOLEAN
      /\ got \in [Workers -> 0..LaneLen] /\ data \in Seq(0..MaxVersion)
      /\ begin \in [Workers -> BOOLEAN] /\ live \in [Workers -> BOOLEAN]
      /\ wst \in [Workers -> Statuses]
  BY DEF TypeOK, Phases, Tame
<1>3. /\ pc # "idle" => AtRest
      /\ events > 0 => planned
      /\ \A w \in Workers : Active(w) => verdict = "none"
  BY <1>2 DEF Calm, Active
<1> USE <1>1, <1>2 DEF Written, AtRest, Active
<1>4. CASE Resume
  BY <1>4 DEF Resume, task, pool, start, disk, env, queue, past
<1>5. CASE Start
  BY <1>5 DEF Start, NoWorkers, task, pool, start, disk, env, queue, past
<1>6. CASE Preparing
  BY <1>6 DEF Preparing, task, pool, start, disk, env, queue, past
<1>7. CASE Probe
  <2>1. pc = "probe" /\ ident' = 0 /\ prev' = 0 /\ pc' \in {"existing", "idle"}
    BY <1>7 DEF Probe, Validator
  <2>2. UNCHANGED <<up, events, verdict, planned, got, wst, live, begin>>
    BY <1>7 DEF Probe, pool, queue, past
  <2> QED BY <1>3, <2>1, <2>2
<1>8. CASE Existing
  <2>1. pc = "existing" /\ UNCHANGED <<up, events, verdict, planned, got, wst, live, begin, ident, prev>>
    BY <1>8 DEF Existing, task, pool, queue, past
  <2>2. ~Changed(prev, ident) /\ ~CanResume /\ ~ExistingIsValid
    BY DEF Changed, CanResume, ExistingIsValid
  <2>3. Decision = "keep" => ~planned
    BY <2>2 DEF Decision
  <2>4. pc' = "reset" \/ (Decision = "keep" /\ pc' = "open")
    <3>1. Decision # "finish"
      BY <2>2 DEF Decision
    <3> QED BY <1>8, <3>1 DEF Existing
  <2> QED BY <1>3, <2>1, <2>3, <2>4
<1>9. CASE Reset
  <2>1. pc = "reset" /\ pc' = "open" /\ UNCHANGED <<up, events, verdict, ident, prev>>
    BY <1>9 DEF Reset, queue
  <2>2. /\ planned' = FALSE
        /\ \A w \in Workers : wst'[w] = "Pending" /\ begin'[w] = FALSE
    BY <1>9 DEF Reset, NoWorkers
  <2> QED BY <1>3, <2>1, <2>2
<1>10. CASE Open
  BY <1>10 DEF Open, Sync, task, pool, start, disk, env, queue, past
<1>11. CASE SetLen
  BY <1>11 DEF SetLen, task, pool, start, disk, env, queue, past
<1>12. CASE Launch
  BY <1>12 DEF Launch, task, pool, start, disk, env, queue, past
<1>13. CASE EnsureWorkers
  <2>1. /\ pc = "workers" /\ ~planned /\ pc' = "idle" /\ verdict = "none"
        /\ UNCHANGED <<verdict, ident, prev, exists, data>>
    BY <1>3, <1>13 DEF EnsureWorkers, task, disk, queue, past
  <2>2. exists /\ Len(data) = Size /\ blocks = {}
    BY <2>1 DEF Prepared, Calm
  <2>3. \A w \in Workers : Seeded(w) = 0
    <3> SUFFICES ASSUME NEW w \in Workers PROVE Seeded(w) = 0
      OBVIOUS
    <3>1. Seeded(w) \in 0..LaneLen /\ \A k \in 1..Seeded(w) : FALSE
      BY <2>2, SeededCount
    <3>2. ~(1 <= Seeded(w))
      BY <3>1
    <3> QED BY <3>1, <3>2
  <2>4. planned' = TRUE /\ \A w \in Workers : got'[w] = 0 /\ wst'[w] = "Pending"
    BY <1>13, <2>1, <2>3 DEF EnsureWorkers
  <2> QED BY <2>1, <2>2, <2>4
<1>14. CASE Progress
  BY <1>14 DEF Progress, Sync, task, pool, start, disk, env, queue, past
<1>15. CASE HandleComplete
  <2>1. events > 0 /\ planned /\ UNCHANGED <<up, planned, got, wst, live, begin, ident, prev, pc, exists, data>>
    BY <1>3, <1>15 DEF HandleComplete, pool, start, disk, queue, past
  <2>2. verdict' # "none" => \A w \in Workers : wst[w] = "Completed"
    BY <1>15, <2>1 DEF HandleComplete
  <2> QED BY <2>1, <2>2
<1>25. CASE Finish
  BY <1>25 DEF Finish
<1>26. CASE Finalize
  <2>1. /\ verdict # "none" /\ verdict' = "none"
        /\ UNCHANGED <<up, events, planned, got, wst, live, begin, ident, prev, pc, exists, data>>
    BY <1>26 DEF Finalize, FinishJob, pool, start, disk, queue, past
  <2> QED BY <2>1
<1>16. CASE Persist
  BY <1>16 DEF Persist, task, pool, start, disk, env, queue, past
<1>17. CASE Pause
  BY <1>17 DEF Pause, Happens, task, pool, start, disk, env, queue, past
<1>18. CASE Cancel
  BY <1>18 DEF Cancel, CancelWorkers, Happens, task, pool, start, disk, env, queue, past
<1>19. CASE Crash
  BY <1>19 DEF Crash, NoWorkers, Happens, task, pool, start, disk, env, queue, past
<1>20. CASE Restore
  BY <1>20 DEF Restore, task, pool, start, disk, env, queue, past
<1>21. CASE OriginChanges
  BY <1>21 DEF OriginChanges, task, pool, start, disk, env, queue, past
<1>22. CASE Meddle
  <2>1. AtRest /\ pc = "idle" /\ UNCHANGED <<up, events, verdict, planned, got, wst, live, begin, ident, prev, pc>>
    BY <1>22 DEF Meddle, Quiet, task, pool, start, queue, past
  <2> QED BY <2>1
<1>23. CASE UNCHANGED vars
  BY <1>23 DEF vars, task, pool, start, disk, env, queue, past
<1>24. ASSUME NEW w \in Workers, WorkerStep(w) PROVE Written'
  <2>1. CASE Begin(w)
    <3>1. UNCHANGED <<up, events, verdict, planned, got, ident, prev, pc, exists, data, scenario, validated>>
      BY <2>1 DEF Begin, queue, start, disk, env
    <3>2. begin[w] /\ \A v \in Workers : wst'[v] = "Completed" => wst[v] = "Completed"
      BY <2>1 DEF Begin, TypeOK
    <3> QED BY <1>3, <3>1, <3>2
  <2>2. CASE Request(w)
    BY <2>2 DEF Request, task, pool, start, disk, env, queue, past
  <2>3. CASE Write(w)
    <3>1. /\ Active(w) /\ got[w] < LaneLen /\ body[w] # 0
          /\ got' = [got EXCEPT ![w] = got[w] + 1]
          /\ UNCHANGED <<up, planned, wst, live, begin, events, verdict, exists, ident, prev, pc>>
      <4>1. /\ Active(w) /\ got[w] < LaneLen /\ body[w] # 0
            /\ got' = [got EXCEPT ![w] = got[w] + 1]
        BY <2>3 DEF Write
      <4>2. UNCHANGED <<up, planned, wst, live, begin, events, verdict, exists, ident, prev, pc>>
        BY <2>3 DEF Write, task, start, queue, past
      <4> QED BY <4>1, <4>2
    <3>2. planned /\ exists /\ Len(data) = Size /\ pc = "idle" /\ verdict = "none"
      BY <1>3, <3>1
    <3>3. body[w] \in 0..MaxVersion /\ got[w] + 1 \in 1..LaneLen /\ got[w] \in Nat
      BY <3>1 DEF TypeOK
    <3> DEFINE b == Block(w, got[w] + 1)
    <3>4. b \in Blocks /\ b \in 1..Size
      BY <3>3, BlockInFile DEF Blocks
    <3>5. data' = WriteAt(b, body[w])
      BY <2>3, <3>2 DEF Write
    <3>6. Len(data') = Size
      BY <3>2, <3>3, <3>4, <3>5, WriteAtTypes
    <3>7. \A i \in 1..Size : data'[i] = IF i = b THEN body[w] ELSE data[i]
      BY <3>2, <3>4, <3>5 DEF WriteAt
    <3>8. ASSUME NEW v \in Workers, NEW k \in 1..got'[v]
          PROVE  data'[Block(v, k)] # 0
      <4>0. /\ got[v] \in 0..LaneLen
            /\ got'[v] = IF v = w THEN got[w] + 1 ELSE got[v]
        BY <3>1
      <4>1. k \in 1..LaneLen
        BY <3>3, <4>0
      <4>2. Block(v, k) \in 1..Size
        BY <4>1, BlockInFile DEF Blocks
      <4>3. CASE Block(v, k) = b
        BY <3>1, <3>7, <4>2, <4>3
      <4>4. CASE Block(v, k) # b
        <5>1. k \in 1..got[v]
          <6>1. CASE v = w
            <7>1. k # got[w] + 1
              BY <4>4, <6>1
            <7> QED BY <3>3, <4>0, <6>1, <7>1
          <6>2. CASE v # w
            BY <4>0, <6>2
          <6> QED BY <6>1, <6>2
        <5>2. data[Block(v, k)] # 0
          BY <3>1, <5>1
        <5> HIDE DEF b
        <5> QED BY <3>7, <4>2, <4>4, <5>2
      <4> QED BY <4>3, <4>4
    <3>9. \A v \in Workers : wst'[v] = "Completed" => got'[v] = LaneLen
      BY <3>1
    <3> HIDE DEF b
    <3> QED BY <3>1, <3>2, <3>6, <3>8, <3>9
  <2>4. CASE Break(w)
    BY <2>4 DEF Break, task, pool, start, disk, env, queue, past
  <2>5. CASE Fail(w)
    BY <1>3, <2>5 DEF Fail, StopAndFail, CancelWorkers, Happens, task, pool, start, disk, env,
       queue, past
  <2>6. CASE Complete(w)
    BY <1>3, <2>6 DEF Complete, task, pool, start, disk, env, queue, past
  <2>7. CASE SaveRow(w)
    BY <2>7 DEF SaveRow, task, pool, start, disk, env, queue, past
  <2> QED BY <1>24, <2>1, <2>2, <2>3, <2>4, <2>5, <2>6, <2>7 DEF WorkerStep
<1> QED BY <1>4, <1>5, <1>6, <1>7, <1>8, <1>9, <1>10, <1>11, <1>12, <1>13, <1>14, <1>15,
       <1>16, <1>17, <1>18, <1>19, <1>20, <1>21, <1>22, <1>23, <1>24, <1>25, <1>26 DEF Next

\* Of the tasks whose origin may send no validator, those without a checksum neither
\* overlap nor crash.
UnvalidatedTasks ==
    \A s \in Scenarios : FALSE \in s.validations /\ ~s.checked => ~s.overlap /\ "crash" \notin s.troubles

\* A step that completes a task without a validator finds every block written.
LEMMA DownloadedStep ==
    ASSUME TypeOK, Phases, Calm, CheckInv, Settled, Prepared, Written, CrashesAlone, UnvalidatedTasks,
           Next, Completes, ~validated, Undisturbed
    PROVE  WholeFile
<1>1. Size \in Nat /\ LaneLen \in Nat \ {0} /\ Checked \in BOOLEAN
  BY ScenarioTypes
<1>2. CASE Checked
  <2>1. exists' /\ data' = Expected
    BY <1>2, AsExpectedStep
  <2>2. Len(Expected) = Size /\ \A b \in Blocks : Expected[b] # 0
    BY ExpectedIsOnes DEF Expected
  <2> QED BY <2>1, <2>2 DEF WholeFile
<1>3. CASE ~Checked
  <2>1. Tame
    BY <1>3 DEF Tame, UnvalidatedTasks, Phases, Checked, Overlap, CrashFree, TypeOK
  <2>2. up
    BY <2>1 DEF Tame, Phases
  <2>3. ~Restore
    BY <2>2 DEF Restore
  <2>4. pc # "finish"
    BY <1>3, <2>1 DEF Written
  <2>5. Finalize /\ verdict = "good" /\ UNCHANGED disk
    BY <2>3, <2>4, WaysToComplete
  <2>6. ~AtRest
    BY <2>5 DEF AtRest
  <2>7. /\ exists /\ Len(data) = Size
        /\ \A w \in Workers : got[w] = LaneLen
        /\ \A w \in Workers : \A k \in 1..got[w] : data[Block(w, k)] # 0
    BY <2>1, <2>5, <2>6 DEF Written
  <2>8. \A b \in Blocks : data[b] # 0
    BY <2>7, BlockOfWorker
  <2> QED BY <2>5, <2>7, <2>8 DEF WholeFile, disk
<1> QED BY <1>1, <1>2, <1>3

\* A task whose origin sends no validator becomes Completed only with every byte from the
\* origin: its file is never trusted for its size.  With a checksum it may crash or its
\* runs may overlap, and then the file that is replaced after the check is exempt.
THEOREM DownloadedCorrect ==
    CrashesAlone /\ UnvalidatedTasks => (Spec => UnvalidatedIsDownloaded)
<1> DEFINE Inv == TypeOK /\ Phases /\ Calm /\ CheckInv /\ Settled /\ Prepared /\ Written
<1> SUFFICES ASSUME CrashesAlone, UnvalidatedTasks PROVE Spec => UnvalidatedIsDownloaded
  OBVIOUS
<1>1. Init => Inv
  BY TypeInit, PhasesInit, CalmInit, CheckInit, SettledInit, PreparedInit, WrittenInit
<1>2. Inv /\ [Next]_vars => Inv'
  BY TypeStep, PhasesStep, CalmStep, CheckStep, SettledStep, PreparedStep, WrittenStep
<1>3. Inv /\ [Next]_vars => [Completes /\ ~validated /\ Undisturbed => WholeFile]_vars
  BY DownloadedStep
<1> QED BY <1>1, <1>2, <1>3, PTL DEF Spec, UnvalidatedIsDownloaded

\* The validator that the workers there are ask with.
Asked == IF pc \in {"existing", "reset"} THEN prev ELSE ident

\* All that is in the file, or will come from an open body, is of one version.
AllOf(v) ==
    /\ \A i \in 1..Len(data) : data[i] \in {0, v}
    /\ \A w \in Workers : body[w] \in {0, v}

AfterProbe == {"existing", "reset", "open", "set_len", "launch", "workers"}

\* With a validator: what is in the file, or will come from an open body, is no older than
\* the version asked for, so that an origin that still answers with this version has sent
\* nothing newer; and unless a first request has mixed them all is of one version.
OneVersion ==
    Tame /\ validated =>
      /\ planned => Asked # 0
      /\ pc \in AfterProbe => ident # 0
      /\ ident <= origin /\ prev <= origin
      /\ \A i \in 1..Len(data) : data[i] # 0 => Asked <= data[i] /\ data[i] <= origin
      /\ \A w \in Workers : body[w] # 0 => planned /\ Asked <= body[w] /\ body[w] <= origin
      /\ ~mixed => \E v \in 1..MaxVersion : AllOf(v)

\* A file that is there at the beginning is of one version.
LEMMA OneVersionInit == Init => OneVersion
<1> SUFFICES ASSUME Init PROVE OneVersion
  OBVIOUS
<1>1. TypeOK
  BY TypeInit
<1>2. Size \in Nat /\ 1 \in 1..MaxVersion
  BY <1>1, ScenarioTypes, ResumeAssumption
<1>3. \A i \in 1..Len(data) : data[i] \in {0, 1}
  <2>1. \/ data = <<>> \/ data = Expected
        \/ \E n \in {0, Size, Size + 1} : data = [b \in 1..n |-> 0]
    BY DEF Init
  <2>2. CASE \E n \in {0, Size, Size + 1} : data = [b \in 1..n |-> 0]
    <3>1. PICK n \in {0, Size, Size + 1} : data = [b \in 1..n |-> 0]
      BY <2>2
    <3>2. n \in Nat
      BY <1>2
    <3> QED BY <3>1, <3>2
  <2>3. CASE data = Expected
    BY <1>1, <2>3, ExpectedIsOnes DEF Ones
  <2> QED BY <2>1, <2>2, <2>3
<1>4. \A w \in Workers : body[w] = 0
  BY DEF Init, Fresh
<1>5. AllOf(1)
  BY <1>3, <1>4 DEF AllOf
<1> QED BY <1>2, <1>3, <1>4, <1>5 DEF OneVersion, Init, Asked, AfterProbe

\* Every step keeps OneVersion: a request behind the start is answered only by the version
\* asked for.
LEMMA OneVersionStep == TypeOK /\ Phases /\ Calm /\ Prepared /\ OneVersion /\ [Next]_vars => OneVersion'
<1> SUFFICES ASSUME TypeOK, Phases, Calm, Prepared, OneVersion, [Next]_vars, Tame, validated
             PROVE  OneVersion'
  BY Static DEF OneVersion, Tame, CrashFree
<1>1. /\ Workers' = Workers /\ Size' = Size /\ Size \in Nat /\ LaneLen \in Nat
      /\ scenario' = scenario /\ Tame' = Tame /\ validated' = validated
  BY Static, ScenarioTypes DEF Tame, CrashFree
<1>2. /\ up /\ ~Overlap /\ ~Checked
      /\ planned \in BOOLEAN /\ data \in Seq(0..MaxVersion) /\ MaxVersion \in Nat \ {0}
      /\ got \in [Workers -> 0..LaneLen] /\ body \in [Workers -> 0..MaxVersion]
      /\ origin \in 1..MaxVersion /\ ident \in 0..MaxVersion /\ prev \in 0..MaxVersion
      /\ mixed \in BOOLEAN
  BY ResumeAssumption DEF TypeOK, Phases, Tame
<1>3. \A i \in 1..Len(data) : data[i] \in 0..MaxVersion
  BY <1>2
<1>4. \A w \in Workers : body[w] \in 0..MaxVersion
  BY <1>2
<1> USE <1>1, <1>2
<1>5. ASSUME UNCHANGED <<planned, ident, prev, origin, mixed>>, Asked' = Asked,
             \A w \in Workers : body'[w] \in {0, body[w]},
             pc' \in AfterProbe => pc \in AfterProbe,
             \A i \in 1..Len(data') : data'[i] = 0 \/ (i \in 1..Len(data) /\ data'[i] = data[i])
      PROVE  OneVersion'
  <2>1. \A v : AllOf(v) => AllOf(v)'
    BY <1>5 DEF AllOf
  <2>2. ~mixed' => \E v \in 1..MaxVersion : AllOf(v)'
    BY <1>5, <2>1 DEF OneVersion
  <2>3. \A i \in 1..Len(data') : data'[i] # 0 => Asked' <= data'[i] /\ data'[i] <= origin'
    BY <1>5 DEF OneVersion
  <2>4. \A w \in Workers : body'[w] # 0 => planned' /\ Asked' <= body'[w] /\ body'[w] <= origin'
    BY <1>5 DEF OneVersion
  <2>5. /\ planned' => Asked' # 0
        /\ pc' \in AfterProbe => ident' # 0
        /\ ident' <= origin' /\ prev' <= origin'
    BY <1>5 DEF OneVersion
  <2> HIDE DEF AllOf, Asked
  <2> QED BY <2>2, <2>3, <2>4, <2>5 DEF OneVersion
<1>6. ASSUME UNCHANGED <<planned, ident, prev, origin, body, data, mixed>>,
             pc' \in {"existing", "reset"} <=> pc \in {"existing", "reset"},
             pc' \in AfterProbe => pc \in AfterProbe
      PROVE  OneVersion'
  <2>1. Asked' = Asked
    BY <1>6 DEF Asked
  <2> QED BY <1>5, <1>6, <2>1
<1>7. ASSUME \A w \in Workers : body'[w] = 0, Zero', UNCHANGED <<ident, prev, origin>>,
             pc' \in AfterProbe => ident # 0, planned' => Asked' # 0
      PROVE  OneVersion'
  <2>1. AllOf(1)'
    BY <1>7 DEF AllOf, Zero
  <2>2. ident' <= origin' /\ prev' <= origin'
    BY <1>7 DEF OneVersion
  <2> HIDE DEF AllOf, Asked
  <2>3. \A i \in 1..Len(data') : data'[i] = 0
    BY <1>7 DEF Zero
  <2>4. 1 \in 1..MaxVersion
    OBVIOUS
  <2> QED BY <1>7, <2>1, <2>2, <2>3, <2>4 DEF OneVersion
<1>8. CASE Resume
  BY <1>6, <1>8 DEF Resume, pool, disk, env, past, AfterProbe
<1>9. CASE Start
  <2>1. CASE status \notin {"Canceled", "Failed"}
    BY <1>6, <1>9, <2>1 DEF Start, task, pool, disk, env, past, AfterProbe
  <2>2. CASE status \in {"Canceled", "Failed"}
    <3>1. /\ planned' = FALSE /\ body' = Fresh /\ data' = <<>> /\ pc' = "preparing"
          /\ UNCHANGED <<ident, prev, origin>>
      BY <1>9, <2>2 DEF Start, NoWorkers, env
    <3>2. (\A w \in Workers : body'[w] = 0) /\ Zero'
      BY <3>1 DEF Fresh, Zero
    <3> QED BY <1>7, <3>1, <3>2 DEF AfterProbe
  <2> QED BY <2>1, <2>2
<1>10. CASE Preparing
  BY <1>6, <1>10 DEF Preparing, pool, disk, env, past, AfterProbe
<1>11. CASE Probe
  <2>1. /\ pc = "probe" /\ UNCHANGED <<planned, origin, body, data, mixed>>
    BY <1>11 DEF Probe, pool, disk, env, past
  <2>2. CASE prev' = ident /\ ident' = Validator(origin) /\ pc' = "existing"
    <3>1. ident' = origin /\ Asked' = Asked
      BY <2>1, <2>2 DEF Validator, Asked
    <3>2. \A v : AllOf(v)' = AllOf(v)
      BY <2>1 DEF AllOf
    <3> HIDE DEF AllOf, Asked
    <3> QED BY <2>1, <2>2, <3>1, <3>2 DEF OneVersion
  <2>3. CASE pc' = "idle" /\ UNCHANGED <<prev, ident>>
    BY <1>6, <2>1, <2>3 DEF AfterProbe
  <2> QED BY <1>11, <2>2, <2>3 DEF Probe
<1>12. CASE Existing
  <2>1. /\ pc = "existing" /\ ident # 0
        /\ UNCHANGED <<planned, ident, prev, origin, got, body, mixed>>
    BY <1>12 DEF Existing, task, pool, env, OneVersion, AfterProbe
  <2>2. Asked = prev /\ pc \in AfterProbe /\ \A w \in Workers : body'[w] \in {0, body[w]}
    BY <2>1 DEF Asked, AfterProbe
  <2>3. CASE Decision = "finish"
    <3>1. ident = prev
      BY <2>3 DEF Decision, ExistingIsValid, Changed
    <3>2. pc' = "finish" /\ data' = data
      BY <1>12, <2>3 DEF Existing, disk
    <3>3. Asked' = Asked
      BY <2>1, <2>2, <3>1, <3>2 DEF Asked
    <3> QED BY <1>5, <2>1, <2>2, <3>2, <3>3
  <2>4. CASE Decision = "discard"
    <3>1. pc' = "reset" /\ data' = <<>>
      BY <1>12, <2>4 DEF Existing
    <3>2. Asked' = Asked /\ Len(data') = 0
      BY <2>1, <2>2, <3>1 DEF Asked
    <3> QED BY <1>5, <2>1, <2>2, <3>1, <3>2
  <2>5. CASE Decision = "reset"
    <3>1. pc' = "reset" /\ data' = data
      BY <1>12, <2>5 DEF Existing, disk
    <3> QED BY <1>6, <2>1, <2>2, <3>1
  <2>6. CASE Decision = "keep"
    <3>1. pc' = "open" /\ data' = data
      BY <1>12, <2>6 DEF Existing, disk
    <3>2. CASE ident = prev
      <4>1. Asked' = Asked
        BY <2>1, <2>2, <3>1, <3>2 DEF Asked
      <4> QED BY <1>5, <2>1, <2>2, <3>1, <4>1
    <3>3. CASE ident # prev
      <4>1. ~exists /\ ~planned
        BY <2>6, <3>3 DEF Decision, CanResume, Changed
      <4>2. data = <<>> /\ \A w \in Workers : body[w] = 0
        BY <4>1 DEF Prepared, OneVersion
      <4>3. Zero' /\ ~planned' /\ \A w \in Workers : body'[w] = 0
        BY <2>1, <3>1, <4>1, <4>2 DEF Zero
      <4> QED BY <1>7, <2>1, <4>3
    <3> QED BY <3>2, <3>3
  <2> QED BY <1>12, <2>3, <2>4, <2>5, <2>6 DEF Existing
<1>13. CASE Finish
  BY <1>6, <1>13 DEF Finish, FinishJob, pool, disk, env, AfterProbe
<1>14. CASE Reset
  <2>1. /\ pc = "reset" /\ planned' = FALSE /\ body' = Fresh /\ UNCHANGED <<ident, prev, origin, data>>
    BY <1>14 DEF Reset, NoWorkers, disk, env
  <2>2. ident # 0 /\ \A w \in Workers : body'[w] = 0
    BY <2>1 DEF Fresh, OneVersion, AfterProbe
  <2>3. Zero'
    BY <2>1 DEF Prepared, Zero
  <2> QED BY <1>7, <2>1, <2>2, <2>3
<1>15. CASE Open
  BY <1>6, <1>15 DEF Open, pool, env, AfterProbe
<1>16. CASE SetLen
  <2>1. /\ pc = "set_len" /\ pc' = "launch"
        /\ UNCHANGED <<planned, ident, prev, origin, body, mixed>>
        /\ data' = [b \in Blocks |-> IF b <= Len(data) THEN data[b] ELSE 0]
    BY <1>16 DEF SetLen, task, pool, env
  <2>2. Len(data') = Size
    BY <2>1, SetLenTypes
  <2>3. \A i \in 1..Len(data') : data'[i] = 0 \/ (i \in 1..Len(data) /\ data'[i] = data[i])
    <3>1. \A i \in 1..Size : i \in Blocks /\ i \in Nat
      BY DEF Blocks
    <3> QED BY <2>1, <2>2, <3>1
  <2>4. Asked' = Asked /\ pc \in AfterProbe
    BY <2>1 DEF Asked, AfterProbe
  <2>5. \A w \in Workers : body'[w] \in {0, body[w]}
    BY <2>1
  <2> QED BY <1>5, <2>1, <2>3, <2>4, <2>5
<1>17. CASE Launch
  BY <1>6, <1>17 DEF Launch, pool, disk, env, past, AfterProbe
<1>18. CASE EnsureWorkers
  <2>1. pc = "workers" /\ pc' = "idle" /\ UNCHANGED <<ident, prev, origin, data, mixed>>
    BY <1>18 DEF EnsureWorkers, task, disk, env, past
  <2>2. CASE planned
    BY <1>6, <1>18, <2>1, <2>2 DEF EnsureWorkers, AfterProbe
  <2>3. CASE ~planned
    <3>1. \A w \in Workers : body'[w] = 0
      BY <1>18, <2>3 DEF EnsureWorkers, Fresh
    <3>2. Zero' /\ ident # 0
      BY <2>1, <2>3 DEF Prepared, OneVersion, Zero, AfterProbe
    <3>3. Asked' = ident
      BY <2>1 DEF Asked
    <3> QED BY <1>7, <2>1, <3>1, <3>2, <3>3
  <2> QED BY <2>2, <2>3
<1>19. CASE Progress \/ HandleComplete \/ Persist
  BY <1>6, <1>19 DEF Progress, HandleComplete, Persist, task, pool, start, disk, env, past
<1>20. CASE Finalize
  BY <1>6, <1>20 DEF Finalize, FinishJob, pool, start, disk, env
<1>21. CASE Pause
  BY <1>6, <1>21 DEF Pause, start, disk, env, past
<1>22. CASE Cancel
  <2>1. /\ UNCHANGED <<planned, ident, prev, origin, data, pc, mixed>>
        /\ \A w \in Workers : body'[w] = 0
    BY <1>22 DEF Cancel, CancelWorkers, Fresh, start, disk, env, past
  <2>2. Asked' = Asked
    BY <2>1 DEF Asked
  <2> QED BY <1>5, <2>1, <2>2
<1>23. CASE Crash
  BY <1>23 DEF Crash, Happens, Tame, CrashFree
<1>24. CASE Restore
  BY <1>24 DEF Restore
<1>25. CASE OriginChanges
  <2>1. /\ UNCHANGED <<planned, ident, prev, body, data, pc, mixed>> /\ origin' = origin + 1
    BY <1>25 DEF OriginChanges, task, pool, start, disk, past
  <2>2. Asked' = Asked /\ \A v : AllOf(v)' = AllOf(v)
    BY <2>1 DEF Asked, AllOf
  <2>3. /\ \A i \in 1..Len(data) : data[i] # 0 => Asked <= data[i] /\ data[i] <= origin'
        /\ \A w \in Workers : body[w] # 0 => planned /\ Asked <= body[w] /\ body[w] <= origin'
        /\ ident <= origin' /\ prev <= origin'
    BY <1>3, <1>4, <2>1 DEF OneVersion
  <2> HIDE DEF AllOf, Asked
  <2> QED BY <2>1, <2>2, <2>3 DEF OneVersion
<1>26. CASE Meddle
  <2>1. UNCHANGED <<planned, ident, prev, origin, body, pc, mixed>>
    BY <1>26 DEF Meddle, task, pool, start, env, past
  <2>2. \A i \in 1..Len(data') : i \in 1..Len(data) /\ data'[i] = data[i]
    <3>1. CASE data' = <<>>
      BY <3>1
    <3>2. CASE \E n \in 0..(Len(data) - 1) : data' = SubSeq(data, 1, n)
      <4>1. PICK n \in 0..(Len(data) - 1) : data' = SubSeq(data, 1, n)
        BY <3>2
      <4> QED BY <4>1
    <3> QED BY <1>26, <3>1, <3>2 DEF Meddle
  <2>3. Asked' = Asked /\ \A w \in Workers : body'[w] \in {0, body[w]}
    BY <2>1 DEF Asked
  <2> QED BY <1>5, <2>1, <2>2, <2>3
<1>27. CASE UNCHANGED vars
  BY <1>6, <1>27 DEF vars, task, pool, start, disk, env, past
<1>28. ASSUME NEW w \in Workers, WorkerStep(w) PROVE OneVersion'
  <2>1. CASE Begin(w) \/ Break(w) \/ Fail(w) \/ Complete(w)
    <3>1. UNCHANGED <<planned, ident, prev, origin, data, pc, mixed>>
      BY <2>1 DEF Begin, Break, Fail, StopAndFail, CancelWorkers, Complete, task, start, disk, env, past
    <3>2. \A v \in Workers : body'[v] \in {0, body[v]}
      <4>1. body' = body \/ body' = Fresh \/ body' = [body EXCEPT ![w] = 0]
        BY <2>1, Zenon DEF Begin, Break, Fail, StopAndFail, CancelWorkers, Complete
      <4> QED BY <4>1 DEF Fresh
    <3>3. Asked' = Asked
      BY <3>1 DEF Asked
    <3> QED BY <1>5, <3>1, <3>2, <3>3
  <2>2. CASE Request(w)
    <3>1. /\ Active(w) /\ body' = [body EXCEPT ![w] = origin] /\ Answered(w)
          /\ mixed' = (mixed \/ (got[w] = 0 /\ Others(w, origin)))
          /\ UNCHANGED <<planned, ident, prev, origin, got, data, pc>>
      BY <2>2 DEF Request, task, start, disk, env
    <3>2. pc = "idle" /\ planned
      BY <3>1 DEF Calm, AtRest, Active
    <3>3. Asked = ident /\ Asked' = ident /\ ident # 0
      BY <3>1, <3>2 DEF Asked, OneVersion
    <3>4. \A v \in Workers : body'[v] = IF v = w THEN origin ELSE body[v]
      BY <3>1
    <3>5. ASSUME ~mixed' PROVE AllOf(origin)'
      <4>1. CASE got[w] = 0
        <5>1. ~Others(w, origin)
          BY <3>1, <3>5, <4>1
        <5> QED BY <3>1, <3>4, <5>1 DEF Others, AllOf
      <4>2. CASE got[w] # 0
        <5>1. ident = origin
          BY <3>1, <3>3, <4>2 DEF Answered, Changed, Validator
        <5>2. \A i \in 1..Len(data) : data[i] \in {0, origin}
          BY <1>3, <3>3, <5>1 DEF OneVersion
        <5>3. \A v \in Workers : body[v] \in {0, origin}
          BY <1>4, <3>3, <5>1 DEF OneVersion
        <5> QED BY <3>1, <3>4, <5>2, <5>3 DEF AllOf
      <4> QED BY <4>1, <4>2
    <3>6. \A v \in Workers : body'[v] # 0 => planned' /\ Asked' <= body'[v] /\ body'[v] <= origin'
      BY <3>1, <3>2, <3>3, <3>4 DEF OneVersion
    <3>7. \A i \in 1..Len(data') : data'[i] # 0 => Asked' <= data'[i] /\ data'[i] <= origin'
      BY <3>1, <3>3 DEF OneVersion
    <3>8. pc' \notin AfterProbe /\ ident' <= origin' /\ prev' <= origin' /\ origin' \in 1..MaxVersion
      BY <3>1, <3>2 DEF OneVersion, AfterProbe
    <3> HIDE DEF AllOf, Asked
    <3> QED BY <3>1, <3>3, <3>5, <3>6, <3>7, <3>8 DEF OneVersion
  <2>3. CASE Write(w)
    <3>1. /\ Active(w) /\ body[w] # 0 /\ got[w] < LaneLen
          /\ data' = IF exists THEN WriteAt(Block(w, got[w] + 1), body[w]) ELSE data
      BY <2>3 DEF Write
    <3>2. UNCHANGED <<planned, ident, prev, origin, body, pc, mixed>>
      BY <2>3 DEF Write, task, start, env
    <3>3. pc = "idle" /\ planned
      BY <3>1 DEF Calm, AtRest, Active
    <3>4. Asked = ident /\ Asked' = ident
      BY <3>2, <3>3 DEF Asked
    <3>5. \A i \in 1..Len(data') :
              data'[i] \in {0, body[w]} \/ (i \in 1..Len(data) /\ data'[i] = data[i])
      <4>1. CASE ~exists
        BY <3>1, <4>1
      <4>2. CASE exists
        <5>1. got[w] + 1 \in 1..LaneLen /\ body[w] \in 0..MaxVersion
          BY <3>1
        <5>2. PICK b \in Blocks : b = Block(w, got[w] + 1)
          BY <5>1, BlockInFile
        <5>3. data' = WriteAt(b, body[w]) /\ b \in Nat
          BY <3>1, <4>2, <5>2 DEF Blocks
        <5>4. Len(data') = IF b > Len(data) THEN b ELSE Len(data)
          BY <5>1, <5>3, WriteAtTypes
        <5> QED BY <5>3, <5>4 DEF WriteAt
      <4> QED BY <4>1, <4>2
    <3>6. ident <= body[w] /\ body[w] <= origin
      BY <3>1, <3>4 DEF OneVersion
    <3>7. \A i \in 1..Len(data') : data'[i] # 0 => Asked' <= data'[i] /\ data'[i] <= origin'
      BY <3>2, <3>4, <3>5, <3>6 DEF OneVersion
    <3>8. \A v \in Workers : body'[v] # 0 => planned' /\ Asked' <= body'[v] /\ body'[v] <= origin'
      BY <3>2, <3>4 DEF OneVersion
    <3>9. ASSUME NEW v \in 1..MaxVersion, AllOf(v) PROVE AllOf(v)'
      <4>1. body[w] = v
        BY <3>1, <3>9 DEF AllOf
      <4> QED BY <3>2, <3>5, <3>9, <4>1 DEF AllOf
    <3>10. ~mixed' => \E v \in 1..MaxVersion : AllOf(v)'
      BY <3>2, <3>9 DEF OneVersion
    <3>11. /\ planned' => Asked' # 0
           /\ pc' \in AfterProbe => ident' # 0
           /\ ident' <= origin' /\ prev' <= origin'
      BY <3>2, <3>4 DEF OneVersion
    <3> HIDE DEF AllOf, Asked
    <3> QED BY <3>7, <3>8, <3>10, <3>11 DEF OneVersion
  <2>4. CASE SaveRow(w)
    BY <1>6, <2>4 DEF SaveRow, task, pool, start, disk, env, past
  <2> QED BY <1>28, <2>1, <2>2, <2>3, <2>4 DEF WorkerStep
<1> QED BY <1>8, <1>9, <1>10, <1>11, <1>12, <1>13, <1>14, <1>15, <1>16, <1>17, <1>18, <1>19,
       <1>20, <1>21, <1>22, <1>23, <1>24, <1>25, <1>26, <1>27, <1>28 DEF Next

\* Of the tasks whose origin sends a validator, those without a checksum neither overlap
\* nor crash.
ValidatedTasks ==
    \A s \in Scenarios : TRUE \in s.validations /\ ~s.checked => ~s.overlap /\ "crash" \notin s.troubles

\* A step that completes a task with a validator finds a file of one version.
LEMMA OneVersionCompletes ==
    ASSUME TypeOK, Phases, Calm, CheckInv, Settled, OneVersion, CrashesAlone, ValidatedTasks,
           Next, Completes, validated, ~mixed, Undisturbed
    PROVE  SingleVersion
<1>1. CASE Checked
  <2>1. data' = Expected
    BY <1>1, AsExpectedStep
  <2> QED BY <2>1, ExpectedIsOnes DEF Ones, SingleVersion
<1>2. CASE ~Checked
  <2>1. Tame
    BY <1>2 DEF Tame, ValidatedTasks, Phases, Checked, Overlap, CrashFree, TypeOK
  <2>2. PICK v \in 1..MaxVersion : AllOf(v)
    BY <2>1 DEF OneVersion
  <2>3. data' = data
    BY WaysToComplete DEF disk
  <2> QED BY <2>2, <2>3 DEF AllOf, SingleVersion
<1> QED BY <1>1, <1>2

\* With a validator a Completed file is of one version of the origin, for any number of
\* workers and whenever the origin changed, unless a first request, which carries no
\* If-Range, has mixed them; without a checksum, for runs that neither overlap nor crash.
THEOREM OneVersionCorrect ==
    CrashesAlone /\ ValidatedTasks => (Spec => ContinuesInOneVersion)
<1> DEFINE Inv == TypeOK /\ Phases /\ Calm /\ CheckInv /\ Settled /\ Prepared /\ OneVersion
<1> SUFFICES ASSUME CrashesAlone, ValidatedTasks PROVE Spec => ContinuesInOneVersion
  OBVIOUS
<1>1. Init => Inv
  BY TypeInit, PhasesInit, CalmInit, CheckInit, SettledInit, PreparedInit, OneVersionInit
<1>2. Inv /\ [Next]_vars => Inv'
  BY TypeStep, PhasesStep, CalmStep, CheckStep, SettledStep, PreparedStep, OneVersionStep
<1>3. Inv /\ [Next]_vars => [Completes /\ validated /\ ~mixed /\ Undisturbed => SingleVersion]_vars
  BY OneVersionCompletes
<1> QED BY <1>1, <1>2, <1>3, PTL DEF Spec, ContinuesInOneVersion

=============================================================================
