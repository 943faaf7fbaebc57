---------------------------- MODULE WorkerProofs ----------------------------
(***************************************************************************)
(* Theorems about Worker: its type invariant, that one loop runs at a      *)
(* time, that with range requests the progress counts what is written and  *)
(* a Complete event means a whole range, and that at most one slice is     *)
(* written after a stop, for every length, number of callers, sources and  *)
(* retries.                                                                *)
(***************************************************************************)
EXTENDS Worker, TLAPS

Labels == LoopSteps \cup {"idle", "start", "resume", "pause", "cancel", "delete"}

\* A step to a label keeps the type of pc.
LEMMA GotoType ==
    ASSUME TypeOK, NEW c \in Callers, NEW l \in Labels, Goto(c, l)
    PROVE  pc' \in [Callers -> Labels]
BY DEF TypeOK, Goto, Labels

\* The initial states are well typed.
LEMMA TypeInit == Init => TypeOK
<1> SUFFICES ASSUME Init PROVE TypeOK
    OBVIOUS
<1>1. downloaded \in 0..Length
    BY WorkerAssumption DEF Init, UseRanges
<1>2. file \subseteq 1..Length
    BY <1>1, WorkerAssumption DEF Init
<1>3. pc \in [Callers -> Labels]
    BY DEF Init, Labels
<1>4. status \in {"Pending", "Running", "Paused"} \cup Final /\ paused \in BOOLEAN
    BY DEF Init
<1>5. {downloaded, total, calls, afterStop} \subseteq Nat
    BY <1>1, WorkerAssumption DEF Init
<1>6. {paused, canceled, deleted, isRunning} \subseteq BOOLEAN
    BY <1>4 DEF Init
<1>7. sent \subseteq {"Complete", "Error", "Pause", "Cancel", "Delete"} /\ source \in Sources
    BY DEF Init
<1>8. /\ failures \in [Sources -> Nat] /\ got \in [Callers -> Nat]
      /\ offset \in [Callers -> Nat] /\ retries \in [Callers -> Nat]
    BY DEF Init
<1> QED
    BY <1>2, <1>3, <1>4, <1>5, <1>6, <1>7, <1>8 DEF TypeOK, Labels, Init

\* Every step of a loop or a call keeps the types.
LEMMA TypeStep ==
    ASSUME TypeOK, NEW c \in Callers, Step(c)
    PROVE  TypeOK'
<1> USE WorkerAssumption DEF TypeOK, flags, locals, target
<1>r. ranges' \in RangeSupport
    BY DEF Step
<1>0. pc' \in [Callers -> Labels]
  <2>1. CASE Start(c)
    BY <2>1, GotoType DEF Start, Labels, LoopSteps
  <2>2. CASE Prepare(c)
    BY <2>2, GotoType DEF Prepare, Labels, LoopSteps
  <2>3. CASE Running(c)
    BY <2>3, GotoType DEF Running, Labels, LoopSteps
  <2>4. CASE Top(c)
    BY <2>4, GotoType DEF Top, Labels, LoopSteps
  <2>5. CASE Wait(c)
    BY <2>5, GotoType DEF Wait, AfterWait, Labels, LoopSteps
  <2>6. CASE Request(c)
    BY <2>6, GotoType DEF Request, Labels, LoopSteps
  <2>7. CASE Stream(c)
    BY <2>7, GotoType DEF Stream, Labels, LoopSteps
  <2>8. CASE Write(c)
    BY <2>8, GotoType DEF Write, Labels, LoopSteps
  <2>9. CASE Ended(c)
    BY <2>9, GotoType DEF Ended, Labels, LoopSteps
  <2>10. CASE Finish(c)
    BY <2>10, GotoType DEF Finish, Labels, LoopSteps
  <2>11. CASE Retry(c)
    BY <2>11, GotoType DEF Retry, Labels, LoopSteps
  <2>12. CASE Failed(c)
    BY <2>12, GotoType DEF Failed, Labels, LoopSteps
  <2>13. CASE Exit(c)
    BY <2>13, GotoType DEF Exit, Labels, LoopSteps
  <2>14. CASE SetStatus(c)
    BY <2>14, GotoType DEF SetStatus, Labels, LoopSteps
  <2>15. CASE Resume(c)
    BY <2>15, GotoType DEF Resume, Labels, LoopSteps
  <2> QED
    BY <2>1, <2>2, <2>3, <2>4, <2>5, <2>6, <2>7, <2>8, <2>9, <2>10, <2>11, <2>12, <2>13,
       <2>14, <2>15 DEF Step
<1>1. CASE Start(c)
    BY <1>r, <1>1, <1>0 DEF Start, Labels
<1>2. CASE Prepare(c)
    BY <1>r, <1>2, <1>0 DEF Prepare, Labels
<1>3. CASE Running(c)
    BY <1>r, <1>3, <1>0 DEF Running, Labels
<1>4. CASE Top(c)
    BY <1>r, <1>4, <1>0 DEF Top, Labels
<1>5. CASE Wait(c)
    BY <1>r, <1>5, <1>0 DEF Wait, Labels
<1>6. CASE Request(c)
    BY <1>r, <1>6, <1>0 DEF Request, Labels
<1>7. CASE Stream(c)
    BY <1>r, <1>7, <1>0 DEF Stream, Labels
<1>8. CASE Write(c)
  <2>1. file' \subseteq 1..Length
    <3>1. offset[c] \in Nat
      OBVIOUS
    <3>2. offset[c] < Length => offset[c] + 1 \in 1..Length
      BY <3>1
    <3> QED
      BY <1>8, <3>2 DEF Write
  <2>2. {downloaded, total, calls, afterStop}' \subseteq Nat
    BY <1>8 DEF Write
  <2>3. got' \in [Callers -> Nat] /\ offset' \in [Callers -> Nat]
    BY <1>8 DEF Write
  <2> QED
    BY <1>r, <1>8, <1>0, <2>1, <2>2, <2>3 DEF Write, Labels
<1>9. CASE Ended(c)
    BY <1>r, <1>9, <1>0 DEF Ended, Labels
<1>10. CASE Finish(c)
    BY <1>r, <1>10, <1>0 DEF Finish, Send, Final, Labels
<1>11. CASE Retry(c)
    BY <1>r, <1>11, <1>0 DEF Retry, Labels
<1>12. CASE Failed(c)
    BY <1>r, <1>12, <1>0 DEF Failed, Send, Final, Labels
<1>13. CASE Exit(c)
    BY <1>r, <1>13, <1>0 DEF Exit, Labels
<1>14. CASE SetStatus(c)
    BY <1>r, <1>14, <1>0 DEF SetStatus, Send, Final, Labels
<1>15. CASE Resume(c)
    BY <1>r, <1>15, <1>0 DEF Resume, Labels
<1> QED
    BY <1>1, <1>2, <1>3, <1>4, <1>5, <1>6, <1>7, <1>8, <1>9, <1>10, <1>11, <1>12, <1>13,
       <1>14, <1>15 DEF Step

\* Every call keeps the types.
LEMMA TypeCall ==
    ASSUME TypeOK, NEW c \in Callers, NEW op \in Operations, Call(c, op), UNCHANGED ranges
    PROVE  TypeOK'
<1>1. \E l \in Labels : Goto(c, l)
    BY DEF Call, Operations, Labels
<1>2. pc' \in [Callers -> Labels]
    BY <1>1, GotoType
<1>3. {paused, canceled, deleted}' \subseteq BOOLEAN
    BY DEF Call
<1>4. calls' \in Nat
    BY DEF Call, TypeOK
<1> QED
    BY <1>2, <1>3, <1>4 DEF Call, TypeOK, Labels, target, locals

\* The range of every variable is kept by every step.
LEMMA TypeNext == TypeOK /\ [Next]_vars => TypeOK'
<1> SUFFICES ASSUME TypeOK, [Next]_vars PROVE TypeOK'
    OBVIOUS
<1>1. CASE Next
    BY <1>1, TypeStep, TypeCall DEF Next, Calls
<1>2. CASE UNCHANGED vars
    BY <1>2 DEF vars, TypeOK, flags, locals, target
<1> QED
    BY <1>1, <1>2

\* Every variable of the worker keeps its range (struct Worker and the locals of
\* run_download_loop).
THEOREM TypeCorrect == Spec => []TypeOK
<1> QED
    BY TypeInit, TypeNext, PTL DEF Spec

(***************************************************************************)
(* One loop at a time.  OneLoop is not inductive by itself: a caller may   *)
(* enter only because is_running is set by the one that is inside.         *)
(***************************************************************************)
InsideMeansRunning == \A c \in Callers : pc[c] \in LoopSteps => isRunning
LoopInv == OneLoop /\ InsideMeansRunning

\* Every step keeps one loop, and is_running set while it is inside.
LEMMA LoopNext == TypeOK /\ LoopInv /\ [Next]_vars => LoopInv'
<1> SUFFICES ASSUME TypeOK, LoopInv, [Next]_vars PROVE LoopInv'
    OBVIOUS
<1> USE DEF LoopInv, OneLoop, InsideMeansRunning
<1>1. ASSUME NEW c \in Callers, Step(c) PROVE LoopInv'
  <2>0. pc \in [Callers -> Labels]
    BY DEF TypeOK, Labels
  <2>1. CASE Start(c)
    <3>1. \A d \in Callers \ {c} : pc'[d] = pc[d]
      BY <2>0, <2>1 DEF Start, Goto
    <3>2. CASE isRunning
      BY <2>0, <2>1, <3>1, <3>2 DEF Start, Goto, LoopSteps
    <3>3. CASE ~isRunning
      BY <2>0, <2>1, <3>1, <3>3 DEF Start, Goto
    <3> QED
      BY <3>2, <3>3
  <2>2. CASE Exit(c)
    <3>1. pc[c] \in LoopSteps
      BY <2>2 DEF Exit, At, LoopSteps
    <3>2. \A d \in Callers : pc'[d] \notin LoopSteps
      BY <2>0, <2>2, <3>1 DEF Exit, Goto, LoopSteps
    <3> QED
      BY <3>2
  <2>3. CASE SetStatus(c) \/ Resume(c)
    <3>1. isRunning' = isRunning
      BY <2>3 DEF SetStatus, Resume
    <3>2. \A d \in Callers : pc'[d] \in LoopSteps => pc[d] \in LoopSteps
      BY <2>0, <2>3 DEF SetStatus, Resume, Goto, LoopSteps
    <3> QED
      BY <3>1, <3>2
  <2>4. CASE \/ Prepare(c) \/ Running(c) \/ Top(c) \/ Wait(c) \/ Request(c) \/ Stream(c)
             \/ Write(c) \/ Ended(c) \/ Finish(c) \/ Retry(c) \/ Failed(c)
    <3>1. isRunning' = isRunning
      BY <2>4 DEF Prepare, Running, Top, Wait, Request, Stream, Write, Ended, Finish, Retry, Failed
    <3>2. pc[c] \in LoopSteps
      BY <2>4 DEF Prepare, Running, Top, Wait, Request, Stream, Write, Ended, Finish, Retry,
                  Failed, At, LoopSteps
    <3>3. \E l : Goto(c, l)
      BY <2>4 DEF Prepare, Running, Top, Wait, Request, Stream, Write, Ended, Finish, Retry, Failed
    <3>4. \A d \in Callers : pc'[d] \in LoopSteps => pc[d] \in LoopSteps
      BY <2>0, <3>2, <3>3 DEF Goto
    <3> QED
      BY <3>1, <3>4
  <2> QED
    BY <1>1, <2>1, <2>2, <2>3, <2>4 DEF Step
<1>2. ASSUME NEW c \in Callers, NEW op \in Operations, Call(c, op) PROVE LoopInv'
  <2>1. isRunning' = isRunning
    BY <1>2 DEF Call
  <2>2. \E l \in {"start", "resume", "pause", "cancel", "delete"} : Goto(c, l)
    BY <1>2 DEF Call, Operations
  <2>3. \A d \in Callers : pc'[d] \in LoopSteps => pc[d] \in LoopSteps
    BY <2>2 DEF Goto, LoopSteps, TypeOK
  <2> QED
    BY <2>1, <2>3
<1>3. CASE UNCHANGED vars
    BY <1>3 DEF vars
<1> QED
    BY <1>1, <1>2, <1>3 DEF Next, Calls

\* At most one download loop runs on a worker at a time, for any number of futures
\* that start and resume it.
THEOREM OneLoopCorrect == Spec => []OneLoop
<1>1. Init => LoopInv
    BY DEF Init, LoopInv, OneLoop, InsideMeansRunning, LoopSteps
<1> QED
    BY <1>1, LoopNext, TypeCorrect, PTL DEF Spec, LoopInv

(***************************************************************************)
(* What is written.  The loop's own count is the shared progress, and its  *)
(* offset is the count, because nobody else runs a loop; so the slice that *)
(* is written is the next one, and a run ends well only behind the last.   *)
(***************************************************************************)
Counting == LoopSteps \ {"prepare", "running", "failed", "exit"}
Placed == {"stream", "waitSlice", "waitError", "write"}

WrittenInv ==
    UseRanges =>
        /\ 1..downloaded \subseteq file
        /\ \A c \in Callers : pc[c] \in Counting => got[c] = downloaded
        /\ \A c \in Callers : pc[c] \in Placed => offset[c] = got[c]
        /\ \A c \in Callers : pc[c] = "finish" => downloaded = Length
        /\ "Complete" \in sent => file = 1..Length

\* Progress within the file is progress within the range.
LEMMA ProgressBound ==
    ASSUME TypeOK, 1..downloaded \subseteq file PROVE downloaded <= Length
<1>1. downloaded \in Nat /\ Length \in Nat /\ file \subseteq 1..Length
    BY WorkerAssumption DEF TypeOK
<1>2. CASE downloaded = 0
    BY <1>1, <1>2
<1>3. CASE downloaded # 0
  <2>1. downloaded \in 1..downloaded
    BY <1>1, <1>3
  <2> QED
    BY <1>1, <2>1
<1> QED
    BY <1>2, <1>3

\* A step that leaves the file, the progress, the counts and the Complete event
\* alone and enters none of the places that promise more keeps the invariant.
LEMMA WrittenKept ==
    ASSUME TypeOK, WrittenInv, NEW c \in Callers,
           UNCHANGED <<ranges, file, downloaded, got, offset>>,
           "Complete" \in sent' => "Complete" \in sent,
           NEW l, Goto(c, l),
           l \in Counting => pc[c] \in Counting,
           l \in Placed => pc[c] \in Placed,
           l # "finish"
    PROVE  WrittenInv'
<1>1. pc \in [Callers -> Labels]
    BY DEF TypeOK, Labels
<1>2. \A d \in Callers : d # c => pc'[d] = pc[d]
    BY <1>1 DEF Goto
<1>3. pc'[c] = l
    BY <1>1 DEF Goto
<1> QED
    BY <1>2, <1>3 DEF WrittenInv, UseRanges

\* Every step keeps the invariant.
LEMMA WrittenNext == TypeOK /\ LoopInv /\ WrittenInv /\ [Next]_vars => WrittenInv'
<1> SUFFICES ASSUME TypeOK, LoopInv, WrittenInv, [Next]_vars PROVE WrittenInv'
    OBVIOUS
<1> USE DEF flags, locals, target
<1>0. pc \in [Callers -> Labels] /\ downloaded \in Nat /\ Length \in Nat /\ file \subseteq 1..Length
    BY WorkerAssumption DEF TypeOK, Labels
<1>1. ASSUME NEW c \in Callers, Step(c) PROVE WrittenInv'
  <2>0. ranges' = ranges /\ UseRanges' = UseRanges
    BY <1>1 DEF Step, UseRanges
  <2>1. CASE Start(c)
    <3>1. \E l \in {"idle", "prepare"} : Goto(c, l)
      BY <2>1 DEF Start
    <3> QED
      BY <2>0, <2>1, <3>1, WrittenKept DEF Start, Counting, Placed, LoopSteps
  <2>2. CASE Prepare(c)
    <3>1. \E l \in {"failed", "exit", "running"} : Goto(c, l)
      BY <2>2 DEF Prepare
    <3> QED
      BY <2>0, <2>2, <3>1, WrittenKept DEF Prepare, Counting, Placed, LoopSteps
  <2>3. CASE Running(c)
    <3>1. \A d \in Callers : d # c => pc'[d] = pc[d] /\ got'[d] = got[d]
      BY <1>0, <2>3 DEF Running, Goto, TypeOK
    <3>2. got'[c] = downloaded /\ UNCHANGED <<downloaded, file, sent, offset>>
      BY <2>3 DEF Running, TypeOK
    <3>3. pc'[c] \in {"top", "finish"} /\ (pc'[c] = "finish" => downloaded >= Length)
      BY <1>0, <2>3 DEF Running, Goto
    <3>4. SUFFICES ASSUME UseRanges PROVE WrittenInv'
      BY <2>0 DEF WrittenInv
    <3>5. pc'[c] = "finish" => downloaded = Length
      BY <1>0, <3>3, <3>4, ProgressBound DEF WrittenInv
    <3> QED
      BY <2>0, <3>1, <3>2, <3>3, <3>4, <3>5 DEF WrittenInv, Placed, UseRanges
  <2>4. CASE Top(c)
    <3>1. \E l \in {"exit", "wait", "request"} : Goto(c, l)
      BY <2>4 DEF Top
    <3> QED
      BY <2>0, <2>4, <3>1, WrittenKept DEF Top, At, Counting, Placed, LoopSteps
  <2>5. CASE Wait(c)
    <3>1. CASE pc[c] = "wait"
      <4>1. \E l \in {"request", "exit"} : Goto(c, l)
        BY <2>5, <3>1 DEF Wait, AfterWait, At
      <4> QED
        BY <2>0, <2>5, <3>1, <4>1, WrittenKept DEF Wait, Counting, Placed, LoopSteps
    <3>2. CASE pc[c] \in {"waitSlice", "waitError"}
      <4>1. \E l \in {"write", "retry", "ended"} : Goto(c, l)
        BY <2>5, <3>2 DEF Wait, AfterWait, At
      <4> QED
        BY <2>0, <2>5, <3>2, <4>1, WrittenKept DEF Wait, Counting, Placed, LoopSteps
    <3> QED
      BY <2>5, <3>1, <3>2 DEF Wait
  <2>6. CASE Request(c)
    <3>1. CASE Goto(c, "failed") \/ Goto(c, "retry")
      <4>1. \E l \in {"failed", "retry"} : Goto(c, l) /\ offset' = offset
        BY <2>6, <3>1, <1>0 DEF Request, Goto
      <4> QED
        BY <2>0, <2>6, <4>1, WrittenKept DEF Request, At, Counting, Placed, LoopSteps
    <3>2. CASE Goto(c, "stream") /\ offset' = [offset EXCEPT ![c] = IF UseRanges THEN got[c] ELSE 0]
      <4>1. \A d \in Callers : d # c => pc'[d] = pc[d] /\ offset'[d] = offset[d]
        BY <1>0, <3>2 DEF Goto, TypeOK
      <4>2. pc'[c] = "stream" /\ (UseRanges => offset'[c] = got[c])
        BY <1>0, <3>2 DEF Goto, TypeOK
      <4>3. pc[c] \in Counting /\ UNCHANGED <<downloaded, file, sent, got>>
        BY <2>6 DEF Request, At, Counting, LoopSteps
      <4> QED
        BY <2>0, <4>1, <4>2, <4>3 DEF WrittenInv, UseRanges
    <3> QED
      BY <2>6, <3>1, <3>2 DEF Request
  <2>7. CASE Stream(c)
    <3>1. \E l \in {"ended", "waitSlice", "write", "waitError", "retry"} : Goto(c, l)
      BY <2>7 DEF Stream
    <3> QED
      BY <2>0, <2>7, <3>1, WrittenKept DEF Stream, At, Counting, Placed, LoopSteps
  <2>8. CASE Write(c)
    <3>1. CASE Goto(c, "retry") /\ UNCHANGED <<file, offset, got, downloaded>>
      BY <2>0, <2>8, <3>1, WrittenKept DEF Write, At, Counting, Placed, LoopSteps
    <3>2. CASE /\ offset[c] < Length
               /\ file' = file \cup {offset[c] + 1}
               /\ offset' = [offset EXCEPT ![c] = @ + 1]
               /\ got' = [got EXCEPT ![c] = @ + 1]
               /\ downloaded' = got[c] + 1
               /\ Goto(c, "stream")
      <4>1. SUFFICES ASSUME UseRanges PROVE WrittenInv'
        BY <2>0 DEF WrittenInv
      <4>2. pc[c] = "write" /\ pc[c] \in LoopSteps
        BY <2>8 DEF Write, At, LoopSteps
      <4>3. got[c] = downloaded /\ offset[c] = downloaded
        BY <2>0, <4>1, <4>2 DEF WrittenInv, Counting, Placed, LoopSteps
      <4>4. 1..downloaded' \subseteq file'
        BY <1>0, <3>2, <4>1, <4>3 DEF WrittenInv
      <4>5. \A d \in Callers : d # c => pc'[d] \notin LoopSteps
        BY <1>0, <3>2, <4>2 DEF Goto, LoopInv, OneLoop
      <4>6. pc'[c] = "stream" /\ got'[c] = downloaded' /\ offset'[c] = got'[c]
        BY <1>0, <3>2, <4>3 DEF Goto, TypeOK
      <4>7. "Complete" \in sent' => file' = 1..Length
        BY <1>0, <2>8, <3>2, <4>1, <4>3 DEF Write, WrittenInv
      <4> QED
        BY <2>0, <4>4, <4>5, <4>6, <4>7 DEF WrittenInv, Counting, Placed, LoopSteps
    <3> QED
      BY <2>8, <3>1, <3>2 DEF Write
  <2>9. CASE Ended(c)
    <3>1. CASE Goto(c, "exit") \/ Goto(c, "failed")
      BY <2>0, <2>9, <3>1, WrittenKept DEF Ended, Counting, Placed, LoopSteps
    <3>2. CASE Goto(c, "finish")
      <4>1. SUFFICES ASSUME UseRanges PROVE WrittenInv'
        BY <2>0 DEF WrittenInv
      <4>2. pc[c] = "ended" /\ UNCHANGED <<downloaded, file, sent, got, offset>>
        BY <2>9 DEF Ended, At
      <4>3. got[c] = Length
        BY <1>0, <2>9, <3>2, <4>1, <4>2 DEF Ended, Goto, UseRanges
      <4>4. got[c] = downloaded
        BY <2>0, <4>1, <4>2 DEF WrittenInv, Counting, LoopSteps
      <4>5. pc'[c] = "finish" /\ \A d \in Callers : d # c => pc'[d] = pc[d]
        BY <1>0, <3>2 DEF Goto
      <4> QED
        BY <2>0, <4>1, <4>2, <4>3, <4>4, <4>5 DEF WrittenInv, UseRanges, Placed
    <3> QED
      BY <2>9, <3>1, <3>2 DEF Ended
  <2>10. CASE Finish(c)
    <3>1. SUFFICES ASSUME UseRanges PROVE WrittenInv'
      BY <2>0 DEF WrittenInv
    <3>2. downloaded = Length
      BY <2>10, <3>1 DEF Finish, At, WrittenInv
    <3>3. file = 1..Length
      BY <1>0, <3>1, <3>2 DEF WrittenInv
    <3>4. pc'[c] = "exit" /\ \A d \in Callers : d # c => pc'[d] = pc[d]
      BY <1>0, <2>10 DEF Finish, Goto
    <3>5. UNCHANGED <<downloaded, file, got, offset>>
      BY <2>10 DEF Finish
    <3> QED
      BY <2>0, <3>1, <3>3, <3>4, <3>5 DEF WrittenInv, UseRanges, Counting, Placed
  <2>11. CASE Retry(c)
    <3>1. \E l \in {"top", "failed"} : Goto(c, l)
      BY <2>11 DEF Retry
    <3> QED
      BY <2>0, <2>11, <3>1, WrittenKept DEF Retry, At, Counting, Placed, LoopSteps
  <2>12. CASE Failed(c)
    BY <2>0, <2>12, WrittenKept DEF Failed, Send, Counting, Placed, LoopSteps
  <2>13. CASE Exit(c)
    BY <2>0, <2>13, WrittenKept DEF Exit, Counting, Placed, LoopSteps
  <2>14. CASE SetStatus(c)
    <3>1. "Complete" \in sent' => "Complete" \in sent
      BY <2>14 DEF SetStatus, Send
    <3> QED
      BY <2>0, <2>14, <3>1, WrittenKept DEF SetStatus, Counting, Placed, LoopSteps
  <2>15. CASE Resume(c)
    <3>1. \E l \in {"idle", "start"} : Goto(c, l)
      BY <2>15 DEF Resume
    <3> QED
      BY <2>0, <2>15, <3>1, WrittenKept DEF Resume, Counting, Placed, LoopSteps
  <2> QED
    BY <1>1, <2>1, <2>2, <2>3, <2>4, <2>5, <2>6, <2>7, <2>8, <2>9, <2>10, <2>11, <2>12, <2>13,
       <2>14, <2>15 DEF Step
<1>2. ASSUME NEW c \in Callers, NEW op \in Operations, Call(c, op), UNCHANGED ranges PROVE WrittenInv'
  <2>1. \E l \in {"start", "resume", "pause", "cancel", "delete"} : Goto(c, l)
    BY <1>2 DEF Call, Operations
  <2> QED
    BY <1>2, <2>1, WrittenKept DEF Call, Counting, Placed, LoopSteps
<1>3. CASE UNCHANGED vars
    BY <1>3 DEF vars, WrittenInv, UseRanges
<1> QED
    BY <1>1, <1>2, <1>3 DEF Next, Calls

\* The invariant holds from the start: the seed of a worker is written.
LEMMA WrittenAlways == Spec => [](TypeOK /\ LoopInv /\ WrittenInv)
<1>1. Init => WrittenInv
    BY DEF Init, WrittenInv, Counting, Placed, LoopSteps
<1>2. Init => LoopInv
    BY DEF Init, LoopInv, OneLoop, InsideMeansRunning, LoopSteps
<1> QED
    BY <1>1, <1>2, TypeInit, TypeNext, LoopNext, WrittenNext, PTL DEF Spec

\* With range requests the progress never runs ahead of the file, whatever is
\* retried, canceled and restarted, for every length and any number of callers.
THEOREM ProgressCorrect == Spec => []ProgressIsWritten
<1>1. WrittenInv => ProgressIsWritten
    BY DEF WrittenInv, ProgressIsWritten
<1> QED
    BY <1>1, WrittenAlways, PTL

\* With range requests a Complete event is sent only for a range without holes.
THEOREM CompleteCorrect == Spec => []CompleteMeansWhole
<1>1. WrittenInv => CompleteMeansWhole
    BY DEF WrittenInv, CompleteMeansWhole
<1> QED
    BY <1>1, WrittenAlways, PTL

(***************************************************************************)
(* What is written after the worker was told to stop.  The flags are never *)
(* taken back, and the loop goes from the body to a slice only while none  *)
(* is set: a slice is written after that only by a loop that had it in     *)
(* hand, and then no other loop has one.                                   *)
(***************************************************************************)
HasSlice == {"waitSlice", "write"}

StopInv ==
    /\ afterStop \in {0, 1}
    /\ afterStop = 1 => Stopping /\ \A c \in Callers : pc[c] \notin HasSlice

\* A step that writes nothing, keeps the flags that are set and takes no slice
\* keeps the invariant.
LEMMA StopKept ==
    ASSUME TypeOK, StopInv, NEW c \in Callers, NEW l, Goto(c, l),
           afterStop' = afterStop, Stopping => Stopping',
           l \in HasSlice => ~Stopping \/ pc[c] \in HasSlice
    PROVE  StopInv'
<1>1. pc \in [Callers -> Labels]
    BY DEF TypeOK, Labels
<1>2. \A d \in Callers : d # c => pc'[d] = pc[d]
    BY <1>1 DEF Goto
<1>3. pc'[c] = l
    BY <1>1 DEF Goto
<1> QED
    BY <1>2, <1>3 DEF StopInv

\* Every step keeps the invariant.
LEMMA StopNext == TypeOK /\ LoopInv /\ StopInv /\ [Next]_vars => StopInv'
<1> SUFFICES ASSUME TypeOK, LoopInv, StopInv, [Next]_vars PROVE StopInv'
    OBVIOUS
<1>0. pc \in [Callers -> Labels]
    BY DEF TypeOK, Labels
<1>1. ASSUME NEW c \in Callers, Step(c) PROVE StopInv'
  <2>0. Stopping' = Stopping
    <3>1. CASE Start(c) \/ Running(c) \/ Top(c) \/ Wait(c)
      BY <3>1 DEF Start, Running, Top, Wait, flags, Stopping
    <3>2. CASE Request(c) \/ Stream(c) \/ Write(c) \/ Ended(c) \/ Finish(c)
      BY <3>2 DEF Request, Stream, Write, Ended, Finish, flags, Stopping
    <3>3. CASE Retry(c) \/ Failed(c) \/ Exit(c) \/ SetStatus(c) \/ Resume(c)
      BY <3>3 DEF Retry, Failed, Exit, SetStatus, Resume, flags, Stopping
    <3>4. CASE Prepare(c)
      BY <3>4 DEF Prepare, Stopping
    <3> QED
      BY <1>1, <3>1, <3>2, <3>3, <3>4 DEF Step
  <2>1. CASE Stream(c)
    <3>1. \E l : Goto(c, l) /\ (l \in HasSlice => ~Stopping)
      BY <2>1 DEF Stream, HasSlice
    <3> QED
      BY <2>0, <2>1, <3>1, StopKept DEF Stream
  <2>2. CASE Wait(c)
    <3>1. CASE pc[c] = "waitSlice"
      <4>1. \E l : Goto(c, l)
        BY <2>2 DEF Wait
      <4> QED
        BY <2>0, <2>2, <3>1, <4>1, StopKept DEF Wait, HasSlice
    <3>2. CASE pc[c] \in {"wait", "waitError"}
      <4>1. \E l \in {"request", "retry", "exit", "ended"} : Goto(c, l)
        BY <2>2, <3>2 DEF Wait, AfterWait
      <4> QED
        BY <2>0, <2>2, <4>1, StopKept DEF Wait, HasSlice
    <3> QED
      BY <2>2, <3>1, <3>2 DEF Wait
  <2>3. CASE Write(c)
    <3>1. CASE afterStop' = afterStop
      <4>1. \E l \in {"stream", "retry"} : Goto(c, l)
        BY <2>3 DEF Write
      <4> QED
        BY <2>0, <3>1, <4>1, StopKept DEF HasSlice
    <3>2. CASE afterStop' # afterStop
      <4>1. Stopping /\ afterStop' = afterStop + 1 /\ Goto(c, "stream") /\ pc[c] = "write"
        BY <2>3, <3>2 DEF Write, At
      <4>2. afterStop = 0
        BY <4>1 DEF StopInv, HasSlice
      <4>3. \A d \in Callers : d # c => pc[d] \notin HasSlice
        BY <4>1 DEF LoopInv, OneLoop, LoopSteps, HasSlice
      <4>4. \A d \in Callers : pc'[d] \notin HasSlice
        BY <1>0, <4>1, <4>3 DEF Goto, HasSlice
      <4> QED
        BY <2>0, <4>1, <4>2, <4>4 DEF StopInv
    <3> QED
      BY <3>1, <3>2
  <2>4. CASE \/ Start(c) \/ Prepare(c) \/ Running(c) \/ Top(c) \/ Request(c) \/ Ended(c) \/ Finish(c)
             \/ Retry(c) \/ Failed(c) \/ Exit(c) \/ SetStatus(c) \/ Resume(c)
    <3>1. afterStop' = afterStop
      BY <2>4 DEF Start, Prepare, Running, Top, Request, Ended, Finish, Retry, Failed, Exit,
                  SetStatus, Resume
    <3>2. \E l \in Labels \ HasSlice : Goto(c, l)
      BY <2>4 DEF Start, Prepare, Running, Top, Request, Ended, Finish, Retry, Failed, Exit,
                  SetStatus, Resume, Labels, LoopSteps, HasSlice
    <3> QED
      BY <2>0, <3>1, <3>2, StopKept
  <2> QED
    BY <1>1, <2>1, <2>2, <2>3, <2>4 DEF Step
<1>2. ASSUME NEW c \in Callers, NEW op \in Operations, Call(c, op) PROVE StopInv'
  <2>1. \E l \in {"start", "resume", "pause", "cancel", "delete"} : Goto(c, l)
    BY <1>2 DEF Call, Operations
  <2>2. afterStop' = afterStop /\ (Stopping => Stopping')
    BY <1>2 DEF Call, Stopping
  <2> QED
    BY <2>1, <2>2, StopKept DEF HasSlice
<1>3. CASE UNCHANGED vars
    BY <1>3 DEF vars, flags, StopInv, Stopping
<1> QED
    BY <1>1, <1>2, <1>3 DEF Next, Calls

\* Once the worker is canceled or deleted, at most the slice that waits for the rate
\* limiter is still written, whoever starts or resumes the worker meanwhile.
THEOREM StopCorrect == Spec => []AtMostOneSliceAfterStop
<1>1. Init => LoopInv
    BY DEF Init, LoopInv, OneLoop, InsideMeansRunning, LoopSteps
<1>2. Init => StopInv
    BY DEF Init, StopInv
<1>3. StopInv => AtMostOneSliceAfterStop
    BY DEF StopInv, AtMostOneSliceAfterStop
<1> QED
    BY <1>1, <1>2, <1>3, LoopNext, StopNext, TypeCorrect, PTL DEF Spec
=============================================================================
