------------------------- MODULE CoordinatorProofs -------------------------
(***************************************************************************)
(* Proofs about Coordinator, for every set of tasks, callers and permits:  *)
(* type correctness, that every permit is always in exactly one place,     *)
(* that the queue holds no entry twice, that no more                       *)
(* operations are in progress than there are permits and, where each task  *)
(* is started once, that no more tasks transfer data than there are.       *)
(***************************************************************************)
EXTENDS Coordinator, FiniteSetTheorems, SequenceTheorems, TLAPS

(***************************************************************************)
(* Type correctness.                                                       *)
(***************************************************************************)

\* Sending an event keeps the channel a sequence of events, also at capacity.
LEMMA EmitType ==
    ASSUME TypeOK, NEW kind \in EventKinds, NEW t \in Tasks, Emit(kind, t)
    PROVE  events' \in Seq(Events)
<1>1. events \in Seq(Events) /\ <<kind, t>> \in Events
  BY DEF TypeOK, Events
<1>2. CASE Len(events) < Capacity
  BY <1>1, <1>2, AppendProperties DEF Emit
<1>3. CASE ~(Len(events) < Capacity)
  <2>1. events # <<>>
    BY <1>1, <1>3, EmptySeq, ConstantsAssumption
  <2>2. Tail(events) \in Seq(Events)
    BY <1>1, <2>1, HeadTailProperties
  <2> QED BY <1>1, <1>3, <2>2, AppendProperties DEF Emit
<1> QED BY <1>2, <1>3

\* The helpers on the sequences of the model stay within their type.
LEMMA SeqTypes ==
    ASSUME NEW S, NEW s \in Seq(S)
    PROVE  /\ Front(s) \in Seq(S)
           /\ s # <<>> => Head(s) \in S /\ Tail(s) \in Seq(S)
           /\ \A e \in S : Append(s, e) \in Seq(S)
           /\ \A i \in DOMAIN s : RemoveAt(s, i) \in Seq(S)
<1>1. Len(s) \in Nat /\ DOMAIN s = 1 .. Len(s) /\ \A i \in 1 .. Len(s) : s[i] \in S
  BY LenProperties, ElementOfSeq
<1>2. \A m, n \in Int : m >= 1 /\ n <= Len(s) => SubSeq(s, m, n) \in Seq(S)
  <2> TAKE m, n \in Int
  <2> HAVE m >= 1 /\ n <= Len(s)
  <2>1. \A i \in m .. n : s[i] \in S
    BY <1>1
  <2> QED BY <2>1, SubSeqProperties
<1>3. Front(s) \in Seq(S)
  BY <1>1, <1>2 DEF Front
<1>4. \A i \in DOMAIN s : RemoveAt(s, i) \in Seq(S)
  <2> TAKE i \in DOMAIN s
  <2>1. SubSeq(s, 1, i - 1) \in Seq(S) /\ SubSeq(s, i + 1, Len(s)) \in Seq(S)
    BY <1>1, <1>2
  <2> QED BY <2>1, ConcatProperties DEF RemoveAt
<1> QED BY <1>3, <1>4, HeadTailProperties, AppendProperties

\* What a process that asks for a permit asks it for: an action the queue takes.
AsksForAction == \A p \in Procs : pc[p] \in {"acquire", "enqueue"} => cur[p][2] \in Actions

TypeInv == TypeOK /\ AsksForAction

LEMMA TypeInit == Init => TypeInv
<1> SUFFICES ASSUME Init PROVE TypeInv
  OBVIOUS
<1>1. TypeOK
  BY EmptySeq, ConstantsAssumption DEF Init, TypeOK, Statuses, Steps, Modes, Procs, Events
<1>2. AsksForAction
  BY DEF Init, AsksForAction
<1> QED BY <1>1, <1>2 DEF TypeInv

\* Moving a process to a step that asks for no permit.
LEMMA GotoType ==
    ASSUME TypeInv, NEW p \in Procs, NEW label \in Steps \ {"acquire", "enqueue"},
           Goto(p, label), UNCHANGED cur
    PROVE  pc' \in [Procs -> Steps] /\ AsksForAction'
  BY DEF TypeInv, TypeOK, AsksForAction, Goto

LEMMA StatusType ==
    ASSUME TypeOK, NEW t \in Tasks, NEW st \in Statuses, status' = [status EXCEPT ![t] = st]
    PROVE  status' \in [Tasks -> Statuses]
  BY DEF TypeOK

\* Stopping the workers of a task.
LEMMA StopWorkersType ==
    ASSUME TypeOK, NEW t \in Tasks, NEW kinds \in SUBSET LateKinds, StopWorkers(t, kinds)
    PROVE  /\ live' \in [Tasks -> {"none", "running", "stopped"}]
           /\ late' \subseteq LateKinds \X Tasks
  BY DEF TypeOK, StopWorkers

LEMMA ForgetWorkersType ==
    ASSUME TypeOK, NEW t \in Tasks, ForgetWorkers(t) \/ UNCHANGED <<live, late>>
    PROVE  /\ live' \in [Tasks -> {"none", "running", "stopped"}]
           /\ late' \subseteq LateKinds \X Tasks
  BY DEF TypeOK, ForgetWorkers, LateKinds

LEMMA LiveType ==
    ASSUME TypeOK, NEW t \in Tasks, live' = [live EXCEPT ![t] = "running"], UNCHANGED late
    PROVE  /\ live' \in [Tasks -> {"none", "running", "stopped"}]
           /\ late' \subseteq LateKinds \X Tasks
  BY DEF TypeOK

\* A process that gives back what it holds.
LEMMA HandType ==
    ASSUME TypeOK, NEW p \in Procs, inHand' = [inHand EXCEPT ![p] = NoPermit]
    PROVE  inHand' \in [Procs -> Permits \cup {NoPermit}]
  BY DEF TypeOK

LEMMA ReturnedType ==
    ASSUME TypeOK, NEW x \in Permits \cup {NoPermit}, free' = free \cup Returned(x)
    PROVE  free' \subseteq Permits
  BY DEF TypeOK, Returned

LEMMA TypeTransition ==
    ASSUME TypeInv, NEW p \in Procs, Transition(p)
    PROVE  TypeInv'
<1> USE ConstantsAssumption DEF TypeInv, TypeOK, AsksForAction, Statuses, Steps,
        TransitionSteps, Modes, At, Goto, taskVars, permitVars, procVars, Returned,
        Terminal, Actions
<1>0. /\ cur[p][1] \in Tasks
      /\ cur[p][2] \in {"Start", "Resume", "Pause", "Cancel", "Delete"}
      /\ cur[p] = <<cur[p][1], cur[p][2]>>
  OBVIOUS
<1>1. CASE Acquire(p)
  <2>1. CASE free = {} /\ Goto(p, "enqueue") /\ UNCHANGED <<free, inHand>>
    BY <1>0, <1>1, <2>1 DEF Acquire
  <2>2. CASE \E x \in free : /\ free' = free \ {x}
                             /\ inHand' = [inHand EXCEPT ![p] = x]
                             /\ Goto(p, "lookup")
    BY <1>0, <1>1, <2>2 DEF Acquire
  <2> QED BY <1>1, <2>1, <2>2 DEF Acquire
<1>2. CASE Enqueue(p)
  BY <1>0, <1>2, SeqTypes DEF Enqueue
<1>3. CASE Lookup(p)
  <2>1. free' \subseteq Permits /\ inHand' \in [Procs -> Permits \cup {NoPermit}]
    <3>1. CASE UNCHANGED <<free, inHand>>
      BY <3>1
    <3>2. CASE /\ free' = free \cup Returned(inHand[p])
               /\ inHand' = [inHand EXCEPT ![p] = NoPermit]
      BY <3>2
    <3> QED BY <1>3, <3>1, <3>2 DEF Lookup
  <2>2. \E label \in {"resume", "start", "failed", "unwind"} : Goto(p, label)
    BY <1>3 DEF Lookup
  <2>3. pc' \in [Procs -> Steps] /\ AsksForAction'
    BY <1>3, <2>2, GotoType DEF Lookup
  <2> QED BY <1>3, <2>1, <2>3 DEF Lookup
<1>4. CASE ResumeOp(p)
  <2>1. status' = status \/ status' = [status EXCEPT ![cur[p][1]] = "Pending"]
    BY <1>4 DEF ResumeOp
  <2>2. status' \in [Tasks -> Statuses]
    BY <1>0, <2>1, StatusType
  <2>3. \E label \in {"start", "fail"} : Goto(p, label)
    BY <1>4 DEF ResumeOp
  <2>4. pc' \in [Procs -> Steps] /\ AsksForAction'
    BY <1>4, <2>3, GotoType DEF ResumeOp
  <2> QED BY <1>4, <2>2, <2>4 DEF ResumeOp
<1>5. CASE CheckStart(p)
  <2>1. ForgetWorkers(cur[p][1]) \/ UNCHANGED <<live, late>>
    BY <1>5 DEF CheckStart
  <2>2. live' \in [Tasks -> {"none", "running", "stopped"}] /\ late' \subseteq LateKinds \X Tasks
    BY <1>0, <2>1, ForgetWorkersType
  <2>3. \E label \in {"preparing", "fail"} : Goto(p, label)
    BY <1>5 DEF CheckStart
  <2>4. pc' \in [Procs -> Steps] /\ AsksForAction'
    BY <1>5, <2>3, GotoType DEF CheckStart
  <2> QED BY <1>5, <2>2, <2>4 DEF CheckStart
<1>6. CASE Preparing(p)
  <2>1. status' = [status EXCEPT ![cur[p][1]] = "Preparing"]
    BY <1>6 DEF Preparing
  <2>2. status' \in [Tasks -> Statuses]
    BY <1>0, <2>1, StatusType
  <2>3. \E label \in {"probe", "fail"} : Goto(p, label)
    BY <1>6 DEF Preparing
  <2>4. pc' \in [Procs -> Steps] /\ AsksForAction'
    BY <1>6, <2>3, GotoType DEF Preparing
  <2> QED BY <1>6, <2>2, <2>4 DEF Preparing
<1>7. CASE Probe(p)
  <2>1. \/ status' = status
        \/ \E st \in {"Completed", "Failed", "Running"} : status' = [status EXCEPT ![cur[p][1]] = st]
    BY <1>7 DEF Probe
  <2>2. status' \in [Tasks -> Statuses]
    BY <1>0, <2>1, StatusType
  <2>3. events' = events \/ \E kind \in {"Complete", "Error"} : Emit(kind, cur[p][1])
    BY <1>7 DEF Probe
  <2>4. events' \in Seq(Events)
    BY <1>0, <2>3, EmitType DEF EventKinds
  <2>5. \E label \in {"spawn", "store", "fail"} : Goto(p, label)
    BY <1>7 DEF Probe
  <2>6. pc' \in [Procs -> Steps] /\ AsksForAction'
    BY <1>7, <2>5, GotoType DEF Probe
  <2>7. live' \in [Tasks -> {"none", "running", "stopped"}] /\ late' \subseteq LateKinds \X Tasks
    BY <1>0, <1>7, ForgetWorkersType DEF Probe
  <2> QED BY <1>7, <2>2, <2>4, <2>6, <2>7 DEF Probe
<1>8. CASE Spawn(p)
  <2>1. \/ ForgetWorkers(cur[p][1]) \/ UNCHANGED <<live, late>>
        \/ live' = [live EXCEPT ![cur[p][1]] = "running"] /\ UNCHANGED late
    BY <1>8 DEF Spawn
  <2>2. live' \in [Tasks -> {"none", "running", "stopped"}] /\ late' \subseteq LateKinds \X Tasks
    <3>1. CASE ForgetWorkers(cur[p][1]) \/ UNCHANGED <<live, late>>
      BY <1>0, <3>1, ForgetWorkersType
    <3>2. CASE live' = [live EXCEPT ![cur[p][1]] = "running"] /\ UNCHANGED late
      BY <1>0, <3>2, LiveType
    <3> QED BY <2>1, <3>1, <3>2
  <2>3. \E label \in {"store", "fail"} : Goto(p, label)
    BY <1>8 DEF Spawn
  <2>4. pc' \in [Procs -> Steps] /\ AsksForAction'
    <3>1. UNCHANGED cur
      BY <1>8 DEF Spawn
    <3> QED BY <2>3, <3>1, GotoType
  <2> QED BY <1>8, <2>2, <2>4 DEF Spawn
<1>9. CASE Store(p)
  <2>1. free' \subseteq Permits /\ inHand' \in [Procs -> Permits \cup {NoPermit}]
    <3>1. slot[cur[p][1]] \in Permits \cup {NoPermit}
      BY <1>0
    <3> QED BY <1>9, <3>1, HandType, ReturnedType DEF Store
  <2>2. slot' \in [Tasks -> Permits \cup {NoPermit}]
    BY <1>0, <1>9 DEF Store
  <2>3. \E label \in {"done", "unwind"} : Goto(p, label)
    BY <1>9 DEF Store
  <2>4. pc' \in [Procs -> Steps] /\ AsksForAction'
    BY <1>9, <2>3, GotoType DEF Store
  <2> QED BY <1>9, <2>1, <2>2, <2>4 DEF Store
<1>10. CASE Fail(p)
  <2>1. free' \subseteq Permits /\ inHand' \in [Procs -> Permits \cup {NoPermit}]
    <3>1. inHand[p] \in Permits \cup {NoPermit}
      OBVIOUS
    <3> QED BY <1>10, <3>1, HandType, ReturnedType DEF Fail
  <2>2. Goto(p, "clear")
    BY <1>10 DEF Fail
  <2>3. pc' \in [Procs -> Steps] /\ AsksForAction'
    BY <1>10, <2>2, GotoType DEF Fail
  <2> QED BY <1>10, <2>1, <2>3 DEF Fail
<1>11. CASE Clear(p)
  BY <1>0, <1>11, SeqTypes DEF Clear
<1>12. CASE SpawnNext(p)
  <2>1. CASE queue = <<>>
    <3>1. \E label \in {"done", "unwind"} : Goto(p, label)
      BY <1>12, <2>1 DEF SpawnNext
    <3>2. pc' \in [Procs -> Steps] /\ AsksForAction'
      BY <1>12, <2>1, <3>1, GotoType DEF SpawnNext
    <3> QED BY <1>12, <2>1, <3>2 DEF SpawnNext
  <2>2. CASE queue # <<>>
    <3>1. Head(queue) \in Tasks \X Actions /\ Tail(queue) \in Seq(Tasks \X Actions)
      BY <2>2, SeqTypes
    <3>2. /\ cur' = [cur EXCEPT ![p] = Head(queue)]
          /\ queue' = Tail(queue)
          /\ pc' = [pc EXCEPT ![p] = "acquire"]
      BY <1>12, <2>2 DEF SpawnNext
    <3>3. pc' \in [Procs -> Steps] /\ AsksForAction'
      <4>1. pc' \in [Procs -> Steps]
        BY <3>2
      <4>2. Head(queue)[2] \in Actions
        BY <3>1
      <4>3. \A q \in Procs : cur'[q] = IF q = p THEN Head(queue) ELSE cur[q]
        BY <3>2
      <4>4. \A q \in Procs : q # p => pc'[q] = pc[q]
        BY <3>2
      <4> QED BY <4>1, <4>2, <4>3, <4>4
    <3>4. cur' \in [Procs -> Tasks \X {"Start", "Resume", "Pause", "Cancel", "Delete"}]
      BY <3>1, <3>2
    <3> QED BY <1>12, <3>1, <3>2, <3>3, <3>4 DEF SpawnNext
  <2> QED BY <2>1, <2>2
<1>13. CASE Unwind(p)
  BY <1>0, <1>13, SeqTypes DEF Unwind
<1>14. CASE Return(p)
  <2>1. mode' \in [Procs -> Modes]
    BY <1>14 DEF Return
  <2>2. \E label \in {"next", "sweep", "idle"} : Goto(p, label)
    BY <1>14 DEF Return
  <2>3. pc' \in [Procs -> Steps] /\ AsksForAction'
    BY <1>14, <2>2, GotoType DEF Return
  <2> QED BY <1>14, <2>1, <2>3 DEF Return
<1> QED BY <1>1, <1>2, <1>3, <1>4, <1>5, <1>6, <1>7, <1>8, <1>9, <1>10, <1>11, <1>12, <1>13, <1>14 DEF Transition

LEMMA TypeUserCall ==
    ASSUME TypeInv, NEW c \in Clients, UserCall(c)
    PROVE  TypeInv'
<1> USE ConstantsAssumption DEF TypeInv, TypeOK, AsksForAction, Modes, At, Goto, taskVars,
        permitVars, Actions
<1>0. c \in Procs
  BY DEF Procs
<1>1. ASSUME NEW op \in AllOps, NEW t \in Tasks, Call(c, op, t)
      PROVE  TypeInv'
  <2>1. op \in {"Start", "Resume", "Pause", "Cancel", "Delete"}
    BY <1>1 DEF Call
  <2>2. calls' \in [Tasks -> Nat]
    BY <1>1 DEF Call
  <2>3. cur' \in [Procs -> Tasks \X {"Start", "Resume", "Pause", "Cancel", "Delete"}]
    BY <1>0, <1>1, <2>1 DEF Call
  <2>4. /\ FirstStep(op) \in {"acquire", "pause", "cancel", "delete"}
        /\ FirstStep(op) = "acquire" => op \in Actions
    BY <2>1 DEF FirstStep
  <2>5. pc' \in [Procs -> Steps] /\ AsksForAction'
    BY <1>0, <1>1, <2>4 DEF Call, Steps
  <2> QED BY <1>1, <2>2, <2>3, <2>5 DEF Call
<1>2. ASSUME NEW t \in Tasks, CallResumeAll(c, t)
      PROVE  TypeInv'
  <2>1. calls' \in [Tasks -> Nat]
    BY <1>2 DEF CallResumeAll
  <2>2. pc' \in [Procs -> Steps] /\ AsksForAction'
    BY <1>0, <1>2 DEF CallResumeAll, Steps
  <2> QED BY <1>0, <1>2, <2>1, <2>2 DEF CallResumeAll
<1>3. ASSUME NEW op \in AllOps, CallAll(c, op)
      PROVE  TypeInv'
  <2>1. calls' \in [Tasks -> Nat]
    BY <1>3 DEF CallAll
  <2>2. pc' \in [Procs -> Steps] /\ AsksForAction'
    BY <1>0, <1>3 DEF CallAll, Steps
  <2>3. cur' \in [Procs -> Tasks \X {"Start", "Resume", "Pause", "Cancel", "Delete"}]
    BY <1>0, <1>3 DEF CallAll
  <2>4. queue' \in Seq(Tasks \X Actions)
    BY <1>3, EmptySeq DEF CallAll
  <2> QED BY <1>0, <1>3, <2>1, <2>2, <2>3, <2>4 DEF CallAll
<1> QED BY <1>1, <1>2, <1>3 DEF UserCall

LEMMA TypeClientStep ==
    ASSUME TypeInv, NEW p \in Procs, ClientStep(p)
    PROVE  TypeInv'
<1> USE ConstantsAssumption DEF TypeInv, TypeOK, Modes, At, taskVars, permitVars, procVars,
        Returned
<1>0. /\ cur[p][1] \in Tasks
      /\ cur[p][2] \in {"Start", "Resume", "Pause", "Cancel", "Delete"}
      /\ {"sweep", "idle", "done", "pausing", "canceling", "deleted", "undeleted", "gone",
         "broken", "remove"} \subseteq Steps \ {"acquire", "enqueue"}
  BY DEF Steps
<1>1. CASE Sweep(p)
  <2>1. CASE sweep[p] = {}
    <3>1. Goto(p, "idle") /\ UNCHANGED cur
      BY <1>1, <2>1 DEF Sweep
    <3>2. pc' \in [Procs -> Steps] /\ AsksForAction'
      BY <1>0, <3>1, GotoType
    <3> QED BY <1>1, <2>1, <3>2 DEF Sweep
  <2>2. CASE sweep[p] # {}
    <3>1. PICK t \in sweep[p] :
            /\ sweep' = [sweep EXCEPT ![p] = @ \ {t}]
            /\ cur' = [cur EXCEPT ![p] = <<t, @[2]>>]
            /\ Goto(p, FirstStep(cur[p][2]))
            /\ UNCHANGED <<known, mode>>
      BY <1>1, <2>2 DEF Sweep
    <3>2. t \in Tasks
      BY <3>1
    <3>3. /\ FirstStep(cur[p][2]) \in {"acquire", "pause", "cancel", "delete"}
          /\ FirstStep(cur[p][2]) = "acquire" => cur[p][2] \in Actions
      BY <1>0 DEF FirstStep, Actions
    <3>4. pc' \in [Procs -> Steps] /\ AsksForAction'
      BY <3>1, <3>3 DEF Goto, Steps, AsksForAction
    <3>5. cur' \in [Procs -> Tasks \X {"Start", "Resume", "Pause", "Cancel", "Delete"}]
      BY <1>0, <3>1, <3>2
    <3> QED BY <1>1, <3>1, <3>4, <3>5 DEF Sweep
  <2> QED BY <2>1, <2>2
<1>2. CASE Pause(p)
  <2>1. status' = status \/ status' = [status EXCEPT ![cur[p][1]] = "Paused"]
    BY <1>2 DEF Pause
  <2>2. status' \in [Tasks -> Statuses]
    BY <1>0, <2>1, StatusType DEF Statuses
  <2>3. \E label \in {"pausing", "done"} : Goto(p, label)
    BY <1>2 DEF Pause
  <2>4. pc' \in [Procs -> Steps] /\ AsksForAction'
    BY <1>0, <1>2, <2>3, GotoType DEF Pause
  <2> QED BY <1>2, <2>2, <2>4 DEF Pause
<1>3. CASE Pausing(p)
  <2>1. events' \in Seq(Events)
    BY <1>0, <1>3, EmitType DEF Pausing, EventKinds
  <2>2. pc' \in [Procs -> Steps] /\ AsksForAction'
    BY <1>0, <1>3, GotoType DEF Pausing
  <2> QED BY <1>3, <2>1, <2>2 DEF Pausing
<1>4. CASE Cancel(p)
  <2>1. status' = status \/ status' = [status EXCEPT ![cur[p][1]] = "Canceled"]
    BY <1>4 DEF Cancel
  <2>2. status' \in [Tasks -> Statuses]
    BY <1>0, <2>1, StatusType DEF Statuses
  <2>3. \E label \in {"canceling", "done"} : Goto(p, label)
    BY <1>4 DEF Cancel
  <2>4. pc' \in [Procs -> Steps] /\ AsksForAction'
    BY <1>0, <1>4, <2>3, GotoType DEF Cancel
  <2> QED BY <1>4, <2>2, <2>4 DEF Cancel
<1>5. CASE Canceling(p)
  <2>1. events' \in Seq(Events)
    BY <1>0, <1>5, EmitType DEF Canceling, EventKinds
  <2>2. pc' \in [Procs -> Steps] /\ AsksForAction'
    BY <1>0, <1>5, GotoType DEF Canceling
  <2>3. /\ live' \in [Tasks -> {"none", "running", "stopped"}]
        /\ late' \subseteq LateKinds \X Tasks
    BY <1>0, <1>5, StopWorkersType DEF Canceling
  <2> QED BY <1>5, <2>1, <2>2, <2>3 DEF Canceling
<1>6. CASE Delete(p)
  <2>1. \E label \in {"deleted", "undeleted"} : Goto(p, label)
    BY <1>6 DEF Delete
  <2>2. pc' \in [Procs -> Steps] /\ AsksForAction'
    BY <1>0, <1>6, <2>1, GotoType DEF Delete
  <2>3. /\ live' \in [Tasks -> {"none", "running", "stopped"}]
        /\ late' \subseteq LateKinds \X Tasks
    BY <1>0, <1>6, StopWorkersType DEF Delete, LateKinds
  <2> QED BY <1>6, <2>2, <2>3 DEF Delete
<1>7. CASE Deleted(p)
  <2>1. \E label \in {"gone", "broken"} : Goto(p, label)
    BY <1>7 DEF Deleted
  <2>2. pc' \in [Procs -> Steps] /\ AsksForAction'
    BY <1>0, <1>7, <2>1, GotoType DEF Deleted
  <2> QED BY <1>0, <1>7, <2>2 DEF Deleted
<1>8. CASE Gone(p)
  <2>1. \E st \in {"Deleted", "Failed"} : status' = [status EXCEPT ![cur[p][1]] = st]
    BY <1>8 DEF Gone
  <2>2. status' \in [Tasks -> Statuses]
    BY <1>0, <2>1, StatusType DEF Statuses
  <2>3. \E kind \in {"Delete", "Error"} : Emit(kind, cur[p][1])
    BY <1>8 DEF Gone
  <2>4. events' \in Seq(Events)
    BY <1>0, <2>3, EmitType DEF EventKinds
  <2>5. \E label \in {"remove", "done"} : Goto(p, label)
    BY <1>8 DEF Gone
  <2>6. pc' \in [Procs -> Steps] /\ AsksForAction'
    BY <1>0, <1>8, <2>5, GotoType DEF Gone
  <2>7. live' \in [Tasks -> {"none", "running", "stopped"}]
    BY <1>0, <1>8 DEF Gone
  <2> QED BY <1>8, <2>2, <2>4, <2>6, <2>7 DEF Gone
<1>9. CASE RemoveTask(p)
  <2>1. pc' \in [Procs -> Steps] /\ AsksForAction'
    BY <1>0, <1>9, GotoType DEF RemoveTask
  <2> QED BY <1>9, <2>1 DEF RemoveTask
<1> QED BY <1>1, <1>2, <1>3, <1>4, <1>5, <1>6, <1>7, <1>8, <1>9 DEF ClientStep

LEMMA TypeLoopStep ==
    ASSUME TypeInv, LoopStep
    PROVE  TypeInv'
<1> USE ConstantsAssumption DEF TypeInv, TypeOK, At, taskVars, permitVars, procVars, Returned
<1>0. /\ Loop \in Procs
      /\ cur[Loop][1] \in Tasks
      /\ {"done", "dequeue", "dequeueDeleted", "release", "next"} \subseteq Steps \ {"acquire", "enqueue"}
  BY DEF Steps, Procs
<1>1. CASE Receive
  <2>1. events # <<>> /\ Head(events) \in Events /\ Tail(events) \in Seq(Events)
    BY <1>1, SeqTypes DEF Receive
  <2>2. /\ cur' = [cur EXCEPT ![Loop] = <<Head(events)[2], @[2]>>]
        /\ \E label \in {"persistDeleted", "persist"} : pc' = [pc EXCEPT ![Loop] = label]
    BY <1>1 DEF Receive, Goto
  <2>3. pc' \in [Procs -> Steps] /\ AsksForAction'
    BY <1>0, <2>2 DEF Steps, AsksForAction
  <2>4. cur' \in [Procs -> Tasks \X {"Start", "Resume", "Pause", "Cancel", "Delete"}]
    BY <1>0, <2>1, <2>2 DEF Events
  <2> QED BY <1>1, <2>1, <2>3, <2>4 DEF Receive
<1>2. CASE Persist
  <2>1. \E label \in {"dequeue", "dequeueDeleted", "done"} : Goto(Loop, label)
    BY <1>2 DEF Persist
  <2>2. pc' \in [Procs -> Steps] /\ AsksForAction'
    BY <1>0, <1>2, <2>1, GotoType DEF Persist
  <2> QED BY <1>2, <2>2 DEF Persist
<1>3. CASE Dequeue
  <2>1. \E label \in {"release", "next"} : Goto(Loop, label)
    BY <1>3 DEF Dequeue
  <2>2. pc' \in [Procs -> Steps] /\ AsksForAction'
    BY <1>0, <1>3, <2>1, GotoType DEF Dequeue
  <2>3. queue' = queue \/ \E i \in DOMAIN queue : queue' = RemoveAt(queue, i)
    BY <1>3 DEF Dequeue
  <2>4. queue' \in Seq(Tasks \X Actions)
    BY <2>3, SeqTypes
  <2> QED BY <1>3, <2>2, <2>4 DEF Dequeue
<1>4. CASE Release
  <2>1. pc' \in [Procs -> Steps] /\ AsksForAction'
    BY <1>0, <1>4, GotoType DEF Release
  <2> QED BY <1>0, <1>4, <2>1 DEF Release
<1> QED BY <1>1, <1>2, <1>3, <1>4 DEF LoopStep

\* What finalize_download leaves behind.
LEMMA FinalizeType ==
    ASSUME TypeOK, NEW t \in Tasks, Finalize(t)
    PROVE  status' \in [Tasks -> Statuses] /\ events' \in Seq(Events)
<1>1. PICK end \in {<<"Completed", "Complete">>, <<"Failed", "Error">>}
                     \cup ({"Completed", "Failed", status[t]} \X {"Error"}) :
        status' = [status EXCEPT ![t] = end[1]] /\ Emit(end[2], t)
  BY DEF Finalize
<1>2. end[1] \in {"Completed", "Failed", status[t]} /\ end[2] \in {"Complete", "Error"}
  BY <1>1
<1>3. {"Completed", "Failed", status[t]} \subseteq Statuses
  BY DEF TypeOK, Statuses
<1> QED BY <1>1, <1>2, <1>3, StatusType, EmitType DEF EventKinds

LEMMA TypeWorkers ==
    ASSUME TypeInv, NEW t \in Tasks, Workers(t)
    PROVE  TypeInv'
<1> USE DEF TypeInv, TypeOK, permitVars, procVars
<1>1. UNCHANGED <<known, permitVars, queue, pc, procVars, calls>>
  BY DEF Workers, RunFinishes, RunFails, LateError, LateCancel, LateComplete, LateNothing
<1>2. AsksForAction'
  BY <1>1 DEF AsksForAction
<1>3. CASE RunFinishes(t)
  BY <1>1, <1>2, <1>3, FinalizeType DEF RunFinishes
<1>4. CASE RunFails(t)
  <2>1. status' \in [Tasks -> Statuses] /\ events' \in Seq(Events)
    BY <1>4, StatusType, EmitType DEF RunFails, Statuses, EventKinds
  <2> QED BY <1>1, <1>2, <1>4, <2>1, StopWorkersType DEF RunFails
<1>5. CASE LateError(t)
  <2>1. status' \in [Tasks -> Statuses] /\ events' \in Seq(Events)
    BY <1>5, StatusType, EmitType DEF LateError, Statuses, EventKinds
  <2> QED BY <1>1, <1>2, <1>5, <2>1 DEF LateError
<1>6. CASE LateCancel(t)
  <2>1. status' \in [Tasks -> Statuses] /\ events' \in Seq(Events)
    BY <1>6, StatusType, EmitType DEF LateCancel, Statuses, EventKinds
  <2> QED BY <1>1, <1>2, <1>6, <2>1 DEF LateCancel
<1>7. CASE LateComplete(t)
  BY <1>1, <1>2, <1>7, FinalizeType DEF LateComplete
<1>8. CASE LateNothing(t)
  BY <1>1, <1>2, <1>8 DEF LateNothing
<1> QED BY <1>3, <1>4, <1>5, <1>6, <1>7, <1>8 DEF Workers

LEMMA TypeNext == TypeInv /\ [Next]_vars => TypeInv'
<1> SUFFICES ASSUME TypeInv, [Next]_vars PROVE TypeInv'
  OBVIOUS
<1>1. CASE UNCHANGED vars
  BY <1>1 DEF vars, taskVars, permitVars, procVars, TypeInv, TypeOK, AsksForAction
<1>2. CASE Next
  <2>1. Clients \subseteq Procs
    BY DEF Procs
  <2> QED BY <1>2, <2>1, TypeTransition, TypeUserCall, TypeClientStep, TypeLoopStep,
             TypeWorkers DEF Next
<1> QED BY <1>1, <1>2

\* Every variable keeps its type, whatever the callers, the loop and the workers
\* do; the calls never use more than the bound.
THEOREM TypeCorrect == Spec => []TypeOK
<1>1. Spec => []TypeInv
  BY TypeInit, TypeNext, PTL DEF Spec
<1>2. TypeInv => TypeOK
  BY DEF TypeInv
<1> QED BY <1>1, <1>2, PTL

(***************************************************************************)
(* Where the permits are.                                                  *)
(***************************************************************************)

\* The steps of run_task_transition at which it owns a permit.
PermitSteps == {"lookup"} \cup (TransitionSteps \ {"clear"})

\* A transition owns a permit exactly while it is at one of those steps.
HandMatchesStep == \A p \in Procs : inHand[p] \in Permits <=> pc[p] \in PermitSteps

PermitInv == TypeInv /\ HandMatchesStep /\ PermitsAccountedFor

\* The ways a step can move permits: none; one is taken out of the semaphore; a
\* local one is dropped; a stored one is dropped; a local one is stored and the
\* one it replaces is dropped.
NoneMoves == UNCHANGED <<free, slot, inHand>>
TakesFree(p) == \E x \in free : /\ free' = free \ {x}
                                /\ inHand' = [inHand EXCEPT ![p] = x]
                                /\ slot' = slot
DropsHand(p) == /\ free' = free \cup Returned(inHand[p])
                /\ inHand' = [inHand EXCEPT ![p] = NoPermit]
                /\ slot' = slot
DropsSlot(t) == /\ free' = free \cup Returned(slot[t])
                /\ slot' = [slot EXCEPT ![t] = NoPermit]
                /\ inHand' = inHand
StoresHand(p, t) == /\ free' = free \cup Returned(slot[t])
                    /\ slot' = [slot EXCEPT ![t] = inHand[p]]
                    /\ inHand' = [inHand EXCEPT ![p] = NoPermit]

\* Each of them keeps every permit in exactly one place.
LEMMA MovesKeepPermits ==
    ASSUME TypeOK, PermitsAccountedFor,
           NEW p \in Procs, NEW t \in Tasks,
           \/ NoneMoves
           \/ TakesFree(p) /\ inHand[p] = NoPermit
           \/ DropsHand(p)
           \/ DropsSlot(t)
           \/ StoresHand(p, t)
    PROVE  PermitsAccountedFor'
<1> USE ConstantsAssumption DEF TypeOK, Returned
<1> SUFFICES ASSUME NEW y \in Permits PROVE InOnePlace(y)'
  BY DEF PermitsAccountedFor
<1>0. InOnePlace(y) /\ y # NoPermit
  BY DEF PermitsAccountedFor
<1>1. CASE NoneMoves
  BY <1>0, <1>1 DEF NoneMoves, InOnePlace
<1>2. CASE TakesFree(p) /\ inHand[p] = NoPermit
  <2>1. PICK x \in free : /\ free' = free \ {x}
                          /\ inHand' = [inHand EXCEPT ![p] = x]
                          /\ slot' = slot
    BY <1>2 DEF TakesFree
  <2>2. CASE x = y
    BY <1>0, <2>1, <2>2 DEF InOnePlace
  <2>3. CASE x # y
    <3>1. \A q \in Procs : inHand'[q] = y <=> inHand[q] = y
      BY <1>0, <1>2, <2>1, <2>3
    <3> QED BY <1>0, <2>1, <2>3, <3>1 DEF InOnePlace
  <2> QED BY <2>2, <2>3
<1>3. CASE DropsHand(p)
  BY <1>0, <1>3 DEF DropsHand, InOnePlace
<1>4. CASE DropsSlot(t)
  BY <1>0, <1>4 DEF DropsSlot, InOnePlace
<1>5. CASE StoresHand(p, t)
  <2>1. /\ \A q \in Procs : inHand'[q] = y <=> q # p /\ inHand[q] = y
        /\ \A u \in Tasks : slot'[u] = y <=> IF u = t THEN inHand[p] = y ELSE slot[u] = y
        /\ y \in free' <=> y \in free \/ slot[t] = y
    BY <1>0, <1>5 DEF StoresHand
  <2>2. CASE inHand[p] = y
    BY <1>0, <2>1, <2>2 DEF InOnePlace
  <2>3. CASE inHand[p] # y
    BY <1>0, <2>1, <2>3 DEF InOnePlace
  <2> QED BY <2>2, <2>3
<1> QED BY <1>1, <1>2, <1>3, <1>4, <1>5

\* A move between two steps that agree on owning a permit.
LEMMA GotoKeepsHand ==
    ASSUME TypeOK, HandMatchesStep, NEW p \in Procs, NEW label, Goto(p, label),
           pc[p] \in PermitSteps <=> label \in PermitSteps, inHand' = inHand
    PROVE  HandMatchesStep'
  BY DEF TypeOK, HandMatchesStep, Goto

LEMMA PermitInit == Init => PermitInv
<1> SUFFICES ASSUME Init PROVE PermitInv
  OBVIOUS
<1>1. HandMatchesStep
  BY ConstantsAssumption DEF Init, HandMatchesStep, PermitSteps, TransitionSteps
<1>2. PermitsAccountedFor
  BY ConstantsAssumption DEF Init, PermitsAccountedFor, InOnePlace
<1> QED BY <1>1, <1>2, TypeInit DEF PermitInv

LEMMA PermitTransition ==
    ASSUME PermitInv, NEW p \in Procs, Transition(p)
    PROVE  HandMatchesStep' /\ PermitsAccountedFor'
<1> USE ConstantsAssumption DEF At
<1>0. TypeOK /\ TypeInv /\ HandMatchesStep /\ PermitsAccountedFor /\ cur[p][1] \in Tasks
  BY DEF PermitInv, TypeInv, TypeOK
<1>1. CASE Acquire(p)
  <2>1. inHand[p] = NoPermit
    BY <1>0, <1>1 DEF Acquire, HandMatchesStep, PermitSteps, TransitionSteps, TypeOK
  <2>2. CASE TakesFree(p) /\ Goto(p, "lookup")
    <3>1. HandMatchesStep'
      BY <1>0, <2>2 DEF TakesFree, Goto, HandMatchesStep, PermitSteps, TypeOK
    <3> QED BY <1>0, <2>1, <2>2, <3>1, MovesKeepPermits
  <2>3. CASE NoneMoves /\ Goto(p, "enqueue")
    <3>1. HandMatchesStep'
      BY <1>0, <1>1, <2>3, GotoKeepsHand DEF Acquire, NoneMoves, PermitSteps, TransitionSteps
    <3> QED BY <1>0, <2>3, <3>1, MovesKeepPermits
  <2> QED BY <1>1, <2>2, <2>3 DEF Acquire, TakesFree, NoneMoves
<1>2. CASE Enqueue(p)
  <2>1. NoneMoves /\ \E label \in {"done", "unwind"} : Goto(p, label)
    BY <1>2 DEF Enqueue, NoneMoves, permitVars
  <2> QED BY <1>0, <1>2, <2>1, GotoKeepsHand, MovesKeepPermits
          DEF Enqueue, NoneMoves, PermitSteps, TransitionSteps
<1>3. CASE Lookup(p)
  <2>1. CASE NoneMoves /\ \E label \in {"resume", "start"} : Goto(p, label)
    BY <1>0, <1>3, <2>1, GotoKeepsHand, MovesKeepPermits
       DEF Lookup, NoneMoves, PermitSteps, TransitionSteps
  <2>2. CASE DropsHand(p) /\ \E label \in {"failed", "unwind"} : Goto(p, label)
    <3>1. HandMatchesStep'
      BY <1>0, <2>2 DEF DropsHand, Goto, HandMatchesStep, PermitSteps, TransitionSteps, TypeOK
    <3> QED BY <1>0, <2>2, <3>1, MovesKeepPermits
  <2> QED BY <1>3, <2>1, <2>2 DEF Lookup, NoneMoves, DropsHand
<1>4. CASE ResumeOp(p)
  <2>1. NoneMoves /\ \E label \in {"start", "fail"} : Goto(p, label)
    BY <1>4 DEF ResumeOp, NoneMoves, permitVars
  <2> QED BY <1>0, <1>4, <2>1, GotoKeepsHand, MovesKeepPermits
          DEF ResumeOp, NoneMoves, PermitSteps, TransitionSteps
<1>5. CASE CheckStart(p)
  <2>1. NoneMoves /\ \E label \in {"preparing", "fail"} : Goto(p, label)
    BY <1>5 DEF CheckStart, NoneMoves, permitVars
  <2> QED BY <1>0, <1>5, <2>1, GotoKeepsHand, MovesKeepPermits
          DEF CheckStart, NoneMoves, PermitSteps, TransitionSteps
<1>6. CASE Preparing(p)
  <2>1. NoneMoves /\ \E label \in {"probe", "fail"} : Goto(p, label)
    BY <1>6 DEF Preparing, NoneMoves, permitVars
  <2> QED BY <1>0, <1>6, <2>1, GotoKeepsHand, MovesKeepPermits
          DEF Preparing, NoneMoves, PermitSteps, TransitionSteps
<1>7. CASE Probe(p)
  <2>1. NoneMoves /\ \E label \in {"spawn", "store", "fail"} : Goto(p, label)
    BY <1>7 DEF Probe, NoneMoves, permitVars
  <2> QED BY <1>0, <1>7, <2>1, GotoKeepsHand, MovesKeepPermits
          DEF Probe, NoneMoves, PermitSteps, TransitionSteps
<1>8. CASE Spawn(p)
  <2>1. NoneMoves /\ \E label \in {"store", "fail"} : Goto(p, label)
    BY <1>8 DEF Spawn, NoneMoves, permitVars
  <2> QED BY <1>0, <1>8, <2>1, GotoKeepsHand, MovesKeepPermits
          DEF Spawn, NoneMoves, PermitSteps, TransitionSteps
<1>9. CASE Store(p)
  <2>1. StoresHand(p, cur[p][1]) /\ \E label \in {"done", "unwind"} : Goto(p, label)
    BY <1>9 DEF Store, StoresHand
  <2>2. HandMatchesStep'
    BY <1>0, <2>1 DEF StoresHand, Goto, HandMatchesStep, PermitSteps, TransitionSteps, TypeOK
  <2> QED BY <1>0, <2>1, <2>2, MovesKeepPermits
<1>10. CASE Fail(p)
  <2>1. DropsHand(p) /\ Goto(p, "clear")
    BY <1>10 DEF Fail, DropsHand
  <2>2. HandMatchesStep'
    BY <1>0, <2>1 DEF DropsHand, Goto, HandMatchesStep, PermitSteps, TransitionSteps, TypeOK
  <2> QED BY <1>0, <2>1, <2>2, MovesKeepPermits
<1>11. CASE Clear(p)
  <2>1. DropsSlot(cur[p][1]) /\ Goto(p, "next")
    BY <1>11 DEF Clear, DropsSlot
  <2> QED BY <1>0, <1>11, <2>1, GotoKeepsHand, MovesKeepPermits
          DEF Clear, DropsSlot, PermitSteps, TransitionSteps
<1>12. CASE SpawnNext(p)
  <2>1. NoneMoves /\ \E label \in {"acquire", "done", "unwind"} : Goto(p, label)
    BY <1>12 DEF SpawnNext, NoneMoves, permitVars
  <2> QED BY <1>0, <1>12, <2>1, GotoKeepsHand, MovesKeepPermits
          DEF SpawnNext, NoneMoves, PermitSteps, TransitionSteps
<1>13. CASE Unwind(p)
  <2>1. NoneMoves /\ \E label \in {"failed", "unwind"} : Goto(p, label)
    BY <1>13 DEF Unwind, NoneMoves, permitVars
  <2> QED BY <1>0, <1>13, <2>1, GotoKeepsHand, MovesKeepPermits
          DEF Unwind, NoneMoves, PermitSteps, TransitionSteps
<1>14. CASE Return(p)
  <2>1. NoneMoves /\ \E label \in {"next", "sweep", "idle"} : Goto(p, label)
    BY <1>14 DEF Return, NoneMoves, permitVars
  <2> QED BY <1>0, <1>14, <2>1, GotoKeepsHand, MovesKeepPermits
          DEF Return, NoneMoves, PermitSteps, TransitionSteps
<1> QED BY <1>1, <1>2, <1>3, <1>4, <1>5, <1>6, <1>7, <1>8, <1>9, <1>10, <1>11, <1>12,
           <1>13, <1>14 DEF Transition

LEMMA PermitClient ==
    ASSUME PermitInv, NEW c \in Clients, UserCall(c) \/ ClientStep(c)
    PROVE  HandMatchesStep' /\ PermitsAccountedFor'
<1> USE ConstantsAssumption DEF At
<1>0. /\ TypeOK /\ TypeInv /\ HandMatchesStep /\ PermitsAccountedFor
      /\ c \in Procs /\ cur[c][1] \in Tasks
      /\ cur[c][2] \in {"Start", "Resume", "Pause", "Cancel", "Delete"}
      /\ \A op \in {"Start", "Resume", "Pause", "Cancel", "Delete"} :
           FirstStep(op) \in {"acquire", "pause", "cancel", "delete"}
  <2>1. TypeOK /\ TypeInv /\ HandMatchesStep /\ PermitsAccountedFor /\ c \in Procs
    BY DEF PermitInv, TypeInv, Procs
  <2>2. cur[c] \in Tasks \X {"Start", "Resume", "Pause", "Cancel", "Delete"}
    BY <2>1 DEF TypeOK
  <2>3. \A op \in {"Start", "Resume", "Pause", "Cancel", "Delete"} :
          FirstStep(op) \in {"acquire", "pause", "cancel", "delete"}
    BY DEF FirstStep
  <2> QED BY <2>1, <2>2, <2>3
<1>1. CASE \/ DropsSlot(cur[c][1]) /\ Deleted(c)
           \/ NoneMoves /\ ~Deleted(c)
  <2>1. inHand' = inHand /\ PermitsAccountedFor'
    BY <1>0, <1>1, MovesKeepPermits DEF DropsSlot, NoneMoves
  <2>2. pc[c] \notin PermitSteps
    BY DEF UserCall, Call, CallResumeAll, CallAll, ClientStep, Sweep, Pause, Pausing, Cancel,
           Canceling, Delete, Deleted, Gone, RemoveTask, PermitSteps, TransitionSteps
  <2>3. \E label \in {"acquire", "sweep", "idle", "pause", "pausing", "cancel", "canceling",
                      "delete", "deleted", "undeleted", "gone", "broken", "remove", "done"} :
          Goto(c, label)
    BY <1>0 DEF UserCall, Call, CallResumeAll, CallAll, ClientStep, Sweep, Pause, Pausing,
           Cancel, Canceling, Delete, Deleted, Gone, RemoveTask
  <2> QED BY <1>0, <2>1, <2>2, <2>3, GotoKeepsHand DEF PermitSteps, TransitionSteps
<1>2. Deleted(c) => DropsSlot(cur[c][1])
  BY DEF Deleted, DropsSlot
<1>3. Deleted(c) \/ NoneMoves
  BY DEF UserCall, Call, CallResumeAll, CallAll, ClientStep, Sweep, Pause, Pausing, Cancel,
         Canceling, Delete, Gone, RemoveTask, NoneMoves, permitVars
<1> QED BY <1>1, <1>2, <1>3

LEMMA PermitLoop ==
    ASSUME PermitInv, LoopStep
    PROVE  HandMatchesStep' /\ PermitsAccountedFor'
<1> USE ConstantsAssumption DEF At
<1>0. /\ TypeOK /\ TypeInv /\ HandMatchesStep /\ PermitsAccountedFor
      /\ Loop \in Procs /\ cur[Loop][1] \in Tasks
  BY DEF PermitInv, TypeInv, TypeOK, Procs
<1>1. /\ pc[Loop] \notin PermitSteps
      /\ \E label \in {"persistDeleted", "persist", "dequeueDeleted", "dequeue", "done",
                       "release", "next"} :
           Goto(Loop, label)
  BY DEF LoopStep, Receive, Persist, Dequeue, Release, PermitSteps, TransitionSteps
<1>2. NoneMoves \/ DropsSlot(cur[Loop][1])
  BY DEF LoopStep, Receive, Persist, Dequeue, Release, NoneMoves, DropsSlot, permitVars
<1>3. inHand' = inHand /\ PermitsAccountedFor'
  BY <1>0, <1>2, MovesKeepPermits DEF DropsSlot, NoneMoves
<1> QED BY <1>0, <1>1, <1>3, GotoKeepsHand DEF PermitSteps, TransitionSteps

LEMMA PermitNext == PermitInv /\ [Next]_vars => PermitInv'
<1> SUFFICES ASSUME PermitInv, [Next]_vars PROVE PermitInv'
  OBVIOUS
<1>1. TypeInv'
  BY TypeNext DEF PermitInv
<1>2. HandMatchesStep' /\ PermitsAccountedFor'
  <2>1. CASE UNCHANGED vars \/ \E t \in Tasks : Workers(t)
    <3>1. UNCHANGED <<free, slot, inHand, pc>>
      BY <2>1 DEF vars, permitVars, Workers, RunFinishes, RunFails, LateError, LateCancel, LateComplete, LateNothing
    <3> QED BY <3>1 DEF PermitInv, HandMatchesStep, PermitsAccountedFor, InOnePlace
  <2> QED BY <2>1, PermitTransition, PermitClient, PermitLoop DEF Next
<1> QED BY <1>1, <1>2 DEF PermitInv

LEMMA PermitInvariant == Spec => []PermitInv
  BY PermitInit, PermitNext, PTL DEF Spec

\* No interleaving of transitions, releases, deletions and failures duplicates a
\* permit of the semaphore or loses track of one.
THEOREM PermitsCorrect == Spec => []PermitsAccountedFor
<1>1. PermitInv => PermitsAccountedFor
  BY DEF PermitInv
<1> QED BY <1>1, PermitInvariant, PTL

\* However many callers there are, at most as many starts and resumes are in
\* progress as the semaphore has permits: the operations inject into the permits
\* they hold.
THEOREM OperationsCorrect == Spec => []OperationsWithinLimit
<1>1. PermitInv => OperationsWithinLimit
  <2> SUFFICES ASSUME PermitInv PROVE OperationsWithinLimit
    OBVIOUS
  <2> DEFINE f == [p \in Operating |-> inHand[p]]
  <2>1. \A p \in Operating : p \in Procs /\ inHand[p] \in Permits
    BY DEF PermitInv, HandMatchesStep, PermitSteps, Operating
  <2>2. \A p, q \in Operating : inHand[p] = inHand[q] => p = q
    BY <2>1 DEF PermitInv, PermitsAccountedFor, InOnePlace
  <2>3. f \in Injection(Operating, Permits)
    BY <2>1, <2>2 DEF Injection, IsInjective
  <2> HIDE DEF f
  <2>4. Cardinality(Operating) <= Cardinality(Permits)
    BY <2>3, FS_Injection, ConstantsAssumption
  <2> QED BY <2>4 DEF OperationsWithinLimit
<1> QED BY <1>1, PermitInvariant, PTL

(***************************************************************************)
(* The pending queue.                                                      *)
(***************************************************************************)

\* What is left of a sequence without its k-th entry.
LEMMA RemovedAt ==
    ASSUME NEW S, NEW s \in Seq(S), NEW k \in 1 .. Len(s)
    PROVE  /\ RemoveAt(s, k) \in Seq(S) /\ Len(RemoveAt(s, k)) = Len(s) - 1
           /\ \A i \in 1 .. Len(s) - 1 : RemoveAt(s, k)[i] = s[IF i <= k - 1 THEN i ELSE i + 1]
<1>1. Len(s) \in Nat /\ DOMAIN s = 1 .. Len(s) /\ \A i \in 1 .. Len(s) : s[i] \in S
  BY LenProperties, ElementOfSeq
<1> DEFINE a == SubSeq(s, 1, k - 1)
           b == SubSeq(s, k + 1, Len(s))
           m == RemoveAt(s, k)
<1>2. k \in 1 .. Len(s) /\ \A i \in 1 .. k - 1 : s[i] \in S
  BY <1>1
<1>3. a \in Seq(S) /\ Len(a) = k - 1 /\ \A i \in 1 .. k - 1 : a[i] = s[i]
  BY <1>1, <1>2, SubSeqProperties
<1>4. \A i \in k + 1 .. Len(s) : s[i] \in S
  BY <1>1
<1>5. b \in Seq(S) /\ Len(b) = Len(s) - k /\ \A i \in 1 .. Len(s) - k : b[i] = s[k + i]
  <2>1. k + 1 \in Int /\ Len(s) \in Int
    BY <1>1
  <2>2. /\ b \in Seq(S)
        /\ Len(b) = IF k + 1 <= Len(s) THEN Len(s) - (k + 1) + 1 ELSE 0
        /\ \A i \in 1 .. Len(s) - (k + 1) + 1 : b[i] = s[(k + 1) + i - 1]
    BY <1>4, <2>1, SubSeqProperties
  <2> HIDE DEF b
  <2>3. Len(b) = Len(s) - k
    <3>1. PICK n \in Nat : n = Len(s)
      BY <1>1
    <3>2. k \in Nat /\ k <= n
      BY <3>1
    <3> QED BY <2>2, <3>1, <3>2
  <2>4. ASSUME NEW i \in 1 .. Len(s) - k PROVE b[i] = s[k + i]
    <3>1. i \in 1 .. Len(s) - (k + 1) + 1 /\ (k + 1) + i - 1 = k + i
      BY <1>1
    <3> QED BY <2>2, <3>1
  <2> QED BY <2>2, <2>3, <2>4
<1>6. m = a \o b
  BY DEF RemoveAt
<1> HIDE DEF a, b, m
<1>7. /\ m \in Seq(S)
      /\ Len(m) = Len(s) - 1
      /\ \A i \in 1 .. Len(s) - 1 : m[i] = IF i <= k - 1 THEN a[i] ELSE b[i - (k - 1)]
  <2>1. /\ a \o b \in Seq(S)
        /\ Len(a \o b) = Len(a) + Len(b)
        /\ \A i \in 1 .. Len(a) + Len(b) :
             (a \o b)[i] = IF i <= Len(a) THEN a[i] ELSE b[i - Len(a)]
    BY <1>3, <1>5, ConcatProperties
  <2>2. Len(a) + Len(b) = Len(s) - 1
    BY <1>1, <1>2, <1>3, <1>5
  <2> QED BY <1>3, <1>6, <2>1, <2>2
<1>9. \A i \in 1 .. Len(s) - 1 : m[i] = s[IF i <= k - 1 THEN i ELSE i + 1]
  <2> TAKE i \in 1 .. Len(s) - 1
  <2>1. CASE i <= k - 1
    BY <1>1, <1>2, <1>3, <1>7, <2>1
  <2>2. CASE ~(i <= k - 1)
    <3>1. i - (k - 1) \in 1 .. Len(s) - k /\ k + (i - (k - 1)) = i + 1
      BY <1>1, <1>2, <2>2
    <3> QED BY <1>5, <1>7, <2>2, <3>1
  <2> QED BY <2>1, <2>2
<1> QED BY <1>7, <1>9 DEF m

\* What the code does to the queue keeps its entries distinct.
LEMMA DistinctKept ==
    ASSUME NEW S, NEW s \in Seq(S), IsInjective(s)
    PROVE  /\ IsInjective(<<>>)
           /\ \A e \in S : e \notin Range(s) => IsInjective(Append(s, e))
           /\ s # <<>> => IsInjective(Tail(s))
           /\ \A k \in DOMAIN s : IsInjective(RemoveAt(s, k))
<1>1. Len(s) \in Nat /\ DOMAIN s = 1 .. Len(s) /\ \A i \in 1 .. Len(s) : s[i] \in S
  BY LenProperties, ElementOfSeq
<1>2. IsInjective(<<>>)
  BY DEF IsInjective
<1>3. ASSUME NEW e \in S, e \notin Range(s) PROVE IsInjective(Append(s, e))
  <2>1. /\ Append(s, e) \in Seq(S)
        /\ Len(Append(s, e)) = Len(s) + 1
        /\ \A i \in 1 .. Len(s) : Append(s, e)[i] = s[i]
        /\ Append(s, e)[Len(s) + 1] = e
    BY AppendProperties
  <2>2. DOMAIN Append(s, e) = 1 .. Len(s) + 1
    BY <2>1, LenProperties
  <2>3. \A i \in 1 .. Len(s) : s[i] # e
    BY <1>1, <1>3 DEF Range
  <2>4. \A i \in 1 .. Len(s) + 1 : i = Len(s) + 1 \/ i \in 1 .. Len(s)
    BY <1>1
  <2> QED BY <1>1, <2>1, <2>2, <2>3, <2>4 DEF IsInjective
<1>4. ASSUME s # <<>> PROVE IsInjective(Tail(s))
  <2>1. /\ Tail(s) \in Seq(S)
        /\ Len(Tail(s)) = Len(s) - 1
        /\ \A i \in 1 .. Len(Tail(s)) : Tail(s)[i] = s[i + 1]
    BY <1>4, HeadTailProperties
  <2>2. DOMAIN Tail(s) = 1 .. Len(s) - 1
    BY <2>1, LenProperties
  <2>3. \A i \in 1 .. Len(s) - 1 : i + 1 \in DOMAIN s /\ i \in Int
    BY <1>1
  <2>4. ASSUME NEW i \in DOMAIN Tail(s), NEW j \in DOMAIN Tail(s), Tail(s)[i] = Tail(s)[j]
        PROVE  i = j
    <3>1. s[i + 1] = s[j + 1] /\ i + 1 \in DOMAIN s /\ j + 1 \in DOMAIN s
      BY <2>1, <2>2, <2>3, <2>4
    <3>2. i + 1 = j + 1
      BY <3>1 DEF IsInjective
    <3> QED BY <2>2, <2>3, <3>2
  <2> QED BY <2>4 DEF IsInjective
<1>5. ASSUME NEW k \in DOMAIN s PROVE IsInjective(RemoveAt(s, k))
  <2> DEFINE m == RemoveAt(s, k)
  <2>1. k \in 1 .. Len(s)
    BY <1>1
  <2>6. m \in Seq(S) /\ Len(m) = Len(s) - 1
    BY <2>1, RemovedAt
  <2>8. \A i \in 1 .. Len(s) - 1 : m[i] = s[IF i <= k - 1 THEN i ELSE i + 1]
    BY <2>1, RemovedAt
  <2> HIDE DEF m
  <2>7. DOMAIN m = 1 .. Len(s) - 1
    BY <2>6, LenProperties
  <2>9. \A i, j \in 1 .. Len(s) - 1 : m[i] = m[j] => i = j
    <3> SUFFICES ASSUME NEW i \in 1 .. Len(s) - 1, NEW j \in 1 .. Len(s) - 1, m[i] = m[j]
                 PROVE  i = j
      OBVIOUS
    <3> DEFINE u == IF i <= k - 1 THEN i ELSE i + 1
               v == IF j <= k - 1 THEN j ELSE j + 1
    <3>1. u \in DOMAIN s /\ v \in DOMAIN s
      BY <1>1, <2>1
    <3>2. s[u] = s[v]
      BY <2>8
    <3>3. u = v
      BY <3>1, <3>2 DEF IsInjective
    <3> QED BY <2>1, <3>3
  <2>10. IsInjective(m)
    BY <2>7, <2>9 DEF IsInjective
  <2> QED BY <2>10 DEF m
<1> QED BY <1>2, <1>3, <1>4, <1>5

LEMMA QueueNext == TypeInv /\ NoDuplicateQueueEntries /\ [Next]_vars => NoDuplicateQueueEntries'
<1> SUFFICES ASSUME TypeInv, NoDuplicateQueueEntries, [Next]_vars
             PROVE  NoDuplicateQueueEntries'
  OBVIOUS
<1> USE DEF NoDuplicateQueueEntries
<1>0. queue \in Seq(Tasks \X Actions)
  BY DEF TypeInv, TypeOK
<1>1. CASE queue' = queue
  BY <1>1
<1>2. ASSUME NEW p \in Procs, Transition(p)
      PROVE  NoDuplicateQueueEntries'
  <2>1. CASE Enqueue(p)
    <3>1. cur[p] \in Tasks \X Actions
      BY <2>1 DEF Enqueue, At, TypeInv, TypeOK, AsksForAction
    <3> QED BY <1>0, <2>1, <3>1, DistinctKept DEF Enqueue
  <2>2. CASE SpawnNext(p)
    BY <1>0, <2>2, DistinctKept DEF SpawnNext
  <2>3. Enqueue(p) \/ SpawnNext(p) \/ queue' = queue
    BY <1>2 DEF Transition, Acquire, Lookup, ResumeOp, CheckStart, Preparing, Probe, Spawn,
                Store, Fail, Clear, Unwind, Return
  <2> QED BY <1>1, <2>1, <2>2, <2>3
<1>3. ASSUME NEW c \in Clients, UserCall(c) \/ ClientStep(c)
      PROVE  NoDuplicateQueueEntries'
  <2>1. queue' = queue \/ queue' = <<>>
    BY <1>3 DEF UserCall, Call, CallResumeAll, CallAll, ClientStep, Sweep, Pause, Pausing,
                Cancel, Canceling, Delete, Deleted, Gone, RemoveTask
  <2> QED BY <1>0, <1>1, <2>1, DistinctKept
<1>4. ASSUME LoopStep
      PROVE  NoDuplicateQueueEntries'
  <2>1. queue' = queue \/ \E k \in DOMAIN queue : queue' = RemoveAt(queue, k)
    BY <1>4 DEF LoopStep, Receive, Persist, Dequeue, Release
  <2> QED BY <1>0, <1>1, <2>1, DistinctKept
<1>5. CASE UNCHANGED vars \/ \E t \in Tasks : Workers(t)
  BY <1>1, <1>5 DEF vars, Workers, RunFinishes, RunFails, LateError, LateCancel, LateComplete, LateNothing
<1> QED BY <1>2, <1>3, <1>4, <1>5 DEF Next

\* The pending queue never holds the same task and action twice, for any number
\* of tasks, callers and events.
THEOREM QueueCorrect == Spec => []NoDuplicateQueueEntries
<1>1. Init => TypeInv /\ NoDuplicateQueueEntries
  BY TypeInit DEF Init, NoDuplicateQueueEntries, IsInjective
<1> QED BY <1>1, TypeNext, QueueNext, PTL DEF Spec

(***************************************************************************)
(* Transfers.  A second start of a task takes the permit away from its     *)
(* transfer (see Clear), so that transfers are bounded by the permits only *)
(* where each task is started once, as start_all does.                     *)
(***************************************************************************)
StartedOnce == Ops \subseteq {"Start"} /\ \A t \in Tasks : MaxCalls[t] <= 1

\* The steps of a transition; those before the operation has ended; those of the
\* handler of an event; the steps that occur where the only call is start_task.
Underway == {"acquire", "enqueue", "lookup"} \cup TransitionSteps
Early == Underway \ {"store", "fail", "clear"}
Handling == {"persist", "persistDeleted", "dequeue", "dequeueDeleted", "release"}
OnceSteps == Underway \cup Handling \cup {"idle", "next", "unwind", "done", "failed"}

\* A process serves the task; an entry of the queue is of the task.
Under(p, t) == pc[p] \in Underway /\ cur[p][1] = t
Queued(t) == \E i \in 1..Len(queue) : queue[i][1] = t

\* Something of the task is still to be handled: a worker event, an event of the
\* task, or the rest of its handler.
Announced(t) ==
    \/ \E kind \in LateKinds : <<kind, t>> \in late
    \/ \E i \in 1..Len(events) : events[i][2] = t
    \/ pc[Loop] \in Handling /\ cur[Loop][1] = t

\* The one start of the task is not over yet.
Fresh(t) == calls[t] = 1 \/ Queued(t) \/ \E p \in Procs : Under(p, t) /\ pc[p] \in Early

\* The one start of a task is still to be called, or in the queue once, or under way in
\* one process; until it is over, there are neither workers nor events; and while the
\* workers run there are no events, so that nothing takes away the permit.
OnceOf(t) ==
    /\ calls[t] \in {0, 1}
    /\ calls[t] = 1 => ~Queued(t) /\ \A p \in Procs : ~Under(p, t)
    /\ Queued(t) => \A p \in Procs : ~Under(p, t)
    /\ \A i, j \in 1..Len(queue) : queue[i][1] = t /\ queue[j][1] = t => i = j
    /\ \A p, q \in Procs : Under(p, t) /\ Under(q, t) => p = q
    /\ Fresh(t) => live[t] = "none" /\ ~Announced(t)
    /\ live[t] = "running" =>
         /\ ~Announced(t)
         /\ \A p \in Procs : Under(p, t) => pc[p] = "store"
         /\ slot[t] \in Permits \/ \E p \in Procs : Under(p, t)

OnceInv ==
    /\ StartedOnce
    /\ \A p \in Procs : pc[p] \in OnceSteps /\ mode[p] = "single"
    /\ \A t \in Tasks : OnceOf(t)

\* A step that takes the start of a task no way back and starts no workers.
LEMMA OnceKept ==
    ASSUME NEW t \in Tasks, OnceOf(t),
           calls'[t] = calls[t],
           Queued(t)' => Queued(t),
           \A i, j \in 1..Len(queue') : queue'[i][1] = t /\ queue'[j][1] = t => i = j,
           \A q \in Procs : Under(q, t)' => Under(q, t) /\ (pc'[q] \in Early => pc[q] \in Early),
           Announced(t)' => Announced(t) \/ (live'[t] # "running" /\ ~Fresh(t)'),
           live[t] = "none" => live'[t] = "none",
           live'[t] = "running" =>
             /\ live[t] = "running"
             /\ \A q \in Procs : Under(q, t)' => pc'[q] = "store"
             /\ slot'[t] \in Permits \/ \E q \in Procs : Under(q, t)'
    PROVE  OnceOf(t)'
<1>1. Fresh(t)' => Fresh(t)
  BY DEF Fresh
<1>2. Fresh(t)' => live'[t] = "none" /\ ~Announced(t)'
  BY <1>1 DEF OnceOf
<1>3. live'[t] = "running" => ~Announced(t)'
  BY DEF OnceOf
<1>4. /\ calls'[t] = 1 => ~Queued(t)' /\ \A p \in Procs : ~Under(p, t)'
      /\ Queued(t)' => \A p \in Procs : ~Under(p, t)'
      /\ \A p, q \in Procs : Under(p, t)' /\ Under(q, t)' => p = q
  BY DEF OnceOf
<1> QED BY <1>2, <1>3, <1>4 DEF OnceOf

\* A step that does nothing to a task.
LEMMA OnceUntouched ==
    ASSUME NEW t \in Tasks, OnceOf(t),
           calls'[t] = calls[t], live'[t] = live[t], slot'[t] = slot[t],
           Queued(t)' => Queued(t),
           \A i, j \in 1..Len(queue') : queue'[i][1] = t /\ queue'[j][1] = t => i = j,
           \A q \in Procs : Under(q, t)' => Under(q, t) /\ pc'[q] = pc[q],
           \A q \in Procs : Under(q, t) => Under(q, t)',
           Announced(t)' => Announced(t)
    PROVE  OnceOf(t)'
<1>1. live'[t] = "running" =>
        /\ \A q \in Procs : Under(q, t)' => pc'[q] = "store"
        /\ slot'[t] \in Permits \/ \E q \in Procs : Under(q, t)'
  BY DEF OnceOf
<1> QED BY <1>1, OnceKept

\* An event that is sent for one task adds none of another.
LEMMA EmitOthers ==
    ASSUME TypeOK, NEW kind \in EventKinds, NEW t \in Tasks, Emit(kind, t), NEW u \in Tasks, u # t,
           NEW i \in 1..Len(events'), events'[i][2] = u
    PROVE  \E j \in 1..Len(events) : events[j][2] = u
<1> DEFINE kept == IF Len(events) < Capacity THEN events ELSE Tail(events)
<1>1. events \in Seq(Events) /\ <<kind, t>> \in Events /\ Len(events) \in Nat
  BY LenProperties DEF TypeOK, Events
<1>2. kept \in Seq(Events) /\ \A k \in 1..Len(kept) : \E j \in 1..Len(events) : kept[k] = events[j]
  <2>1. CASE Len(events) < Capacity
    BY <1>1, <2>1
  <2>2. CASE ~(Len(events) < Capacity)
    <3>1. events # <<>>
      BY <1>1, <2>2, EmptySeq, ConstantsAssumption
    <3>2. /\ Tail(events) \in Seq(Events) /\ Len(Tail(events)) = Len(events) - 1
          /\ \A k \in 1..Len(Tail(events)) : Tail(events)[k] = events[k + 1]
      BY <1>1, <3>1, HeadTailProperties
    <3>3. \A k \in 1..Len(events) - 1 : k + 1 \in 1..Len(events)
      BY <1>1
    <3> QED BY <2>2, <3>2, <3>3
  <2> QED BY <2>1, <2>2
<1>3. events' = Append(kept, <<kind, t>>)
  BY DEF Emit
<1> HIDE DEF kept
<1>4. /\ Len(events') = Len(kept) + 1 /\ events'[Len(kept) + 1] = <<kind, t>> /\ Len(kept) \in Nat
      /\ \A k \in 1..Len(kept) : events'[k] = kept[k]
  BY <1>1, <1>2, <1>3, AppendProperties, LenProperties
<1>5. i \in 1..Len(kept)
  <2>1. i # Len(kept) + 1
    BY <1>4
  <2> QED BY <1>4, <2>1
<1> QED BY <1>2, <1>4, <1>5

\* The same for Announced: late events of the task, or an event of it, come up.
LEMMA AnnouncedOthers ==
    ASSUME TypeOK, NEW kind \in EventKinds, NEW t \in Tasks, NEW u \in Tasks, u # t,
           Emit(kind, t) \/ events' = events,
           \A k \in LateKinds : <<k, u>> \in late' => <<k, u>> \in late,
           pc'[Loop] \in Handling => pc[Loop] \in Handling /\ cur'[Loop] = cur[Loop]
    PROVE  Announced(u)' => Announced(u)
  BY EmitOthers DEF Announced

\* A process takes a step in the service of its task: the other tasks.
LEMMA OnceBeside ==
    ASSUME TypeInv, OnceInv, NEW p \in Procs, NEW t \in Tasks, t # cur[p][1],
           NEW kind \in EventKinds, Emit(kind, cur[p][1]) \/ events' = events,
           cur' = cur, queue' = queue, calls' = calls,
           \A q \in Procs \ {p} : pc'[q] = pc[q],
           pc'[p] \notin Handling,
           live'[t] = live[t], slot'[t] = slot[t],
           \A k \in LateKinds : <<k, t>> \in late' => <<k, t>> \in late
    PROVE  OnceOf(t)'
<1>1. cur[p][1] \in Tasks /\ Loop \in Procs /\ TypeOK
  BY DEF TypeInv, TypeOK, Procs
<1>2. pc'[Loop] \in Handling => pc[Loop] \in Handling /\ cur'[Loop] = cur[Loop]
  BY <1>1
<1>3. Announced(t)' => Announced(t)
  BY <1>1, <1>2, AnnouncedOthers
<1>4. \A q \in Procs : /\ Under(q, t)' => Under(q, t) /\ pc'[q] = pc[q]
                       /\ Under(q, t) => Under(q, t)'
  BY DEF Under
<1>5. OnceOf(t)
  BY DEF OnceInv
<1>6. Queued(t)' => Queued(t)
  BY DEF Queued
<1>7. \A i, j \in 1..Len(queue') : queue'[i][1] = t /\ queue'[j][1] = t => i = j
  BY <1>5 DEF OnceOf
<1> QED BY <1>3, <1>4, <1>5, <1>6, <1>7, OnceUntouched

\* The task itself.
LEMMA OnceServed ==
    ASSUME TypeInv, OnceInv, NEW p \in Procs, NEW t \in Tasks, Under(p, t),
           cur' = cur, queue' = queue, calls' = calls,
           \A q \in Procs \ {p} : pc'[q] = pc[q],
           pc'[p] \in Early => pc[p] \in Early,
           Announced(t)' => Announced(t) \/ (live'[t] # "running" /\ pc'[p] \notin Early),
           live[t] = "none" => live'[t] = "none",
           live'[t] = "running" =>
             /\ live[t] = "running"
             /\ pc'[p] \in Underway => pc'[p] = "store"
             /\ slot'[t] \in Permits \/ pc'[p] \in Underway
    PROVE  OnceOf(t)'
<1>1. OnceOf(t)
  BY DEF OnceInv
<1>2. calls[t] # 1 /\ ~Queued(t) /\ \A q \in Procs : Under(q, t) => q = p
  BY <1>1 DEF OnceOf
<1>3. \A q \in Procs : Under(q, t)' => q = p
  BY <1>2 DEF Under
<1>4. \A q \in Procs : Under(q, t)' => Under(q, t) /\ (pc'[q] \in Early => pc[q] \in Early)
  BY <1>3
<1>5. ~Queued(t)'
  BY <1>2 DEF Queued
<1>6. \A i, j \in 1..Len(queue') : queue'[i][1] = t /\ queue'[j][1] = t => i = j
  BY <1>1 DEF OnceOf
<1>7. pc'[p] \notin Early => ~Fresh(t)'
  BY <1>2, <1>3, <1>5 DEF Fresh
<1>8. pc'[p] \in Underway => Under(p, t)'
  BY DEF Under
<1>9. live'[t] = "running" =>
        /\ \A q \in Procs : Under(q, t)' => pc'[q] = "store"
        /\ slot'[t] \in Permits \/ \E q \in Procs : Under(q, t)'
  <2>1. Under(p, t)' => pc'[p] \in Underway
    BY DEF Under
  <2> QED BY <1>3, <1>8, <2>1
<1> QED BY <1>1, <1>4, <1>5, <1>6, <1>7, <1>9, OnceKept

\* The transitions keep OnceOf.
LEMMA OnceTransition ==
    ASSUME TypeInv, PermitInv, OnceInv, NEW p \in Procs, Transition(p), NEW t \in Tasks
    PROVE  OnceOf(t)'
<1>u. PICK u \in Tasks : u = cur[p][1]
  BY DEF TypeInv, TypeOK
<1> USE <1>u
<1>0. TypeOK /\ u \in Tasks /\ Loop \in Procs /\ OnceOf(t) /\ OnceOf(u) /\ pc[p] \in OnceSteps
      /\ pc \in [Procs -> Steps] /\ live \in [Tasks -> {"none", "running", "stopped"}]
      /\ cur \in [Procs -> Tasks \X {"Start", "Resume", "Pause", "Cancel", "Delete"}]
      /\ slot \in [Tasks -> Permits \cup {NoPermit}] /\ mode[p] = "single"
  BY DEF TypeInv, TypeOK, Procs, OnceInv
<1>1. "Error" \in EventKinds /\ "Complete" \in EventKinds
  BY DEF EventKinds
\* Steps that move neither workers, events nor slots.
<1>3. ASSUME cur' = cur, queue' = queue, calls' = calls, events' = events, late' = late,
             live' = live, slot' = slot,
             NEW label, pc' = [pc EXCEPT ![p] = label], Under(p, u),
             label \in {"done", "failed", "unwind", "clear", "fail"} \/ label \in Early,
             pc[p] \in Early \/ label \notin Early, pc[p] # "store"
      PROVE  OnceOf(t)'
  <2>1. \A q \in Procs : pc'[q] = IF q = p THEN label ELSE pc[q]
    BY <1>0, <1>3
  <2>2. label \notin Handling
    BY <1>3 DEF Early, Underway, Handling, TransitionSteps
  <2>3. CASE t # u
    BY <1>1, <1>3, <2>1, <2>2, <2>3, OnceBeside
  <2>4. CASE t = u
    <3>1. live[u] # "running"
      BY <1>0, <1>3 DEF OnceOf
    <3>2. Announced(u)' => Announced(u)
      BY <1>3, <2>1, <2>2, <1>0 DEF Announced
    <3>3. OnceOf(u)'
      BY <1>0, <1>3, <2>1, <3>1, <3>2, OnceServed
    <3> QED BY <2>4, <3>3
  <2> QED BY <2>3, <2>4
<1>4. CASE Acquire(p) \/ Lookup(p) \/ Fail(p)
  <2>1. /\ cur' = cur /\ queue' = queue /\ calls' = calls /\ events' = events /\ late' = late
        /\ live' = live /\ slot' = slot
    BY <1>4 DEF Acquire, Lookup, Fail, taskVars, procVars
  <2>2. \E label \in {"enqueue", "lookup", "resume", "start", "failed", "unwind", "clear"} :
          pc' = [pc EXCEPT ![p] = label] /\ (label = "clear" \/ pc[p] \in {"acquire", "lookup"})
    BY <1>4 DEF Acquire, Lookup, Fail, Goto, At
  <2>3. pc[p] \in {"acquire", "lookup", "fail"}
    BY <1>4 DEF Acquire, Lookup, Fail, At
  <2>4. Under(p, u)
    BY <2>3 DEF Under, Underway, TransitionSteps
  <2> QED BY <1>3, <2>1, <2>2, <2>3, <2>4 DEF Early, Underway, TransitionSteps
<1>5. CASE ResumeOp(p) \/ Preparing(p) \/ CheckStart(p)
  <2>1. pc[p] \in {"resume", "start", "preparing"}
    BY <1>5 DEF ResumeOp, Preparing, CheckStart, At
  <2>2. Under(p, u) /\ pc[p] \in Early
    BY <2>1 DEF Under, Early, Underway, TransitionSteps
  <2>3. live[u] = "none"
    BY <1>0, <2>2 DEF OnceOf, Fresh
  <2>4. live' = live /\ late' = late
    BY <1>0, <1>5, <2>3 DEF ResumeOp, Preparing, CheckStart, ForgetWorkers
  <2>5. /\ cur' = cur /\ queue' = queue /\ calls' = calls /\ events' = events /\ slot' = slot
    BY <1>5 DEF ResumeOp, Preparing, CheckStart, permitVars, procVars
  <2>6. \E label \in {"start", "preparing", "probe", "fail"} : pc' = [pc EXCEPT ![p] = label]
    BY <1>5 DEF ResumeOp, Preparing, CheckStart, Goto
  <2> QED BY <1>3, <2>1, <2>2, <2>4, <2>5, <2>6 DEF Early, Underway, TransitionSteps
<1>6. CASE Probe(p)
  <2>1. Under(p, u) /\ pc[p] \in Early
    BY <1>6 DEF Probe, At, Under, Early, Underway, TransitionSteps
  <2>2. live[u] = "none"
    BY <1>0, <2>1 DEF OnceOf, Fresh
  <2>3. live' = live /\ late' = late
    BY <1>0, <1>6, <2>2 DEF Probe, ForgetWorkers
  <2>4. /\ cur' = cur /\ queue' = queue /\ calls' = calls /\ slot' = slot
    BY <1>6 DEF Probe, permitVars, procVars
  <2>5. \/ \E label \in {"spawn", "fail"} : pc' = [pc EXCEPT ![p] = label] /\ events' = events
        \/ \E kind \in EventKinds : pc' = [pc EXCEPT ![p] = "store"] /\ Emit(kind, u)
    BY <1>1, <1>6 DEF Probe, Goto
  <2>6. CASE \E label \in {"spawn", "fail"} : pc' = [pc EXCEPT ![p] = label] /\ events' = events
    BY <1>3, <2>1, <2>3, <2>4, <2>6 DEF Early, Underway, TransitionSteps
  <2>7. ASSUME NEW kind \in EventKinds, pc' = [pc EXCEPT ![p] = "store"], Emit(kind, u)
        PROVE  OnceOf(t)'
    <3>1. \A q \in Procs : pc'[q] = IF q = p THEN "store" ELSE pc[q]
      BY <1>0, <2>7
    <3>2. "store" \notin Handling /\ "store" \notin Early
      BY DEF Handling, Early
    <3>3. CASE t # u
      BY <2>3, <2>4, <2>7, <3>1, <3>2, <3>3, OnceBeside
    <3>4. OnceOf(u)'
      BY <1>0, <2>1, <2>2, <2>3, <2>4, <3>1, <3>2, OnceServed
    <3> QED BY <3>3, <3>4
  <2> QED BY <2>5, <2>6, <2>7
<1>7. CASE Spawn(p)
  <2>1. Under(p, u) /\ pc[p] \in Early /\ pc[p] = "spawn"
    BY <1>7 DEF Spawn, At, Under, Early, Underway, TransitionSteps
  <2>2. live[u] = "none" /\ ~Announced(u)
    BY <1>0, <2>1 DEF OnceOf, Fresh
  <2>3. /\ cur' = cur /\ queue' = queue /\ calls' = calls /\ slot' = slot /\ events' = events
    BY <1>7 DEF Spawn, permitVars, procVars
  <2>4. \/ live' = live /\ late' = late /\ pc' = [pc EXCEPT ![p] = "fail"]
        \/ live' = [live EXCEPT ![u] = "running"] /\ late' = late /\ pc' = [pc EXCEPT ![p] = "store"]
    BY <1>0, <1>7, <2>2 DEF Spawn, ForgetWorkers, Goto
  <2>5. CASE live' = live /\ late' = late /\ pc' = [pc EXCEPT ![p] = "fail"]
    BY <1>3, <2>1, <2>3, <2>5 DEF Early, Underway, TransitionSteps
  <2>6. CASE live' = [live EXCEPT ![u] = "running"] /\ late' = late /\ pc' = [pc EXCEPT ![p] = "store"]
    <3>1. \A q \in Procs : pc'[q] = IF q = p THEN "store" ELSE pc[q]
      BY <1>0, <2>6
    <3>2. "store" \notin Handling /\ "store" \notin Early /\ "store" \in Underway
      BY DEF Handling, Early, Underway, TransitionSteps
    <3>3. CASE t # u
      <4>1. live'[t] = live[t]
        BY <1>0, <2>6, <3>3
      <4> QED BY <1>1, <2>3, <2>6, <3>1, <3>2, <3>3, <4>1, OnceBeside
    <3>4. OnceOf(u)'
      <4>1. calls[u] = 0 /\ ~Queued(u) /\ \A q \in Procs : Under(q, u) => q = p
        BY <1>0, <2>1 DEF OnceOf
      <4>2. \A q \in Procs : Under(q, u)' <=> q = p
        BY <2>3, <3>1, <3>2, <4>1 DEF Under
      <4>3. ~Queued(u)'
        BY <2>3, <4>1 DEF Queued
      <4>4. ~Announced(u)'
        BY <1>0, <2>2, <2>3, <2>6, <3>1, <3>2 DEF Announced
      <4>5. ~Fresh(u)'
        BY <2>3, <3>1, <3>2, <4>1, <4>2, <4>3 DEF Fresh
      <4>6. \A i, j \in 1..Len(queue') : queue'[i][1] = u /\ queue'[j][1] = u => i = j
        BY <1>0, <2>3 DEF OnceOf
      <4> QED BY <2>3, <3>1, <4>1, <4>2, <4>3, <4>4, <4>5, <4>6 DEF OnceOf
    <3> QED BY <3>3, <3>4
  <2> QED BY <2>4, <2>5, <2>6
\* The permit moves into the slot.
<1>8. CASE Store(p)
  <2>1. Under(p, u) /\ pc[p] = "store"
    BY <1>8 DEF Store, At, Under, Underway, TransitionSteps
  <2>2. inHand[p] \in Permits
    BY <2>1 DEF PermitInv, HandMatchesStep, PermitSteps, TransitionSteps
  <2>3. /\ cur' = cur /\ queue' = queue /\ calls' = calls /\ events' = events /\ late' = late
        /\ live' = live /\ slot' = [slot EXCEPT ![u] = inHand[p]]
    BY <1>8 DEF Store, taskVars, procVars
  <2>4. PICK label \in {"done", "unwind"} : pc' = [pc EXCEPT ![p] = label]
    BY <1>8 DEF Store, Goto
  <2>5. \A q \in Procs : pc'[q] = IF q = p THEN label ELSE pc[q]
    BY <1>0, <2>4
  <2>6. label \notin Handling /\ label \notin Early /\ label \notin Underway
    BY DEF Handling, Early, Underway, TransitionSteps
  <2>7. CASE t # u
    <3>1. slot'[t] = slot[t]
      BY <1>0, <2>3, <2>7
    <3> QED BY <1>1, <2>3, <2>5, <2>6, <2>7, <3>1, OnceBeside
  <2>8. OnceOf(u)'
    <3>1. Announced(u)' => Announced(u)
      BY <1>0, <2>3, <2>5, <2>6 DEF Announced
    <3>2. slot'[u] \in Permits
      BY <1>0, <2>2, <2>3
    <3> QED BY <1>0, <2>1, <2>3, <2>5, <2>6, <3>1, <3>2, OnceServed
  <2> QED BY <2>7, <2>8
<1>9. CASE Clear(p)
  <2>1. Under(p, u) /\ pc[p] = "clear"
    BY <1>9 DEF Clear, At, Under, Underway, TransitionSteps
  <2>3. /\ cur' = cur /\ queue' = queue /\ calls' = calls /\ events' = events /\ late' = late
        /\ live' = live /\ slot' = [slot EXCEPT ![u] = NoPermit] /\ pc' = [pc EXCEPT ![p] = "next"]
    BY <1>9 DEF Clear, taskVars, Goto
  <2>5. \A q \in Procs : pc'[q] = IF q = p THEN "next" ELSE pc[q]
    BY <1>0, <2>3
  <2>6. "next" \notin Handling /\ "next" \notin Early /\ "next" \notin Underway
    BY DEF Handling, Early, Underway, TransitionSteps
  <2>7. CASE t # u
    <3>1. slot'[t] = slot[t]
      BY <1>0, <2>3, <2>7
    <3> QED BY <1>1, <2>3, <2>5, <2>6, <2>7, <3>1, OnceBeside
  <2>8. OnceOf(u)'
    <3>1. Announced(u)' => Announced(u)
      BY <1>0, <2>3, <2>5, <2>6 DEF Announced
    <3>2. live[u] # "running"
      BY <1>0, <2>1 DEF OnceOf
    <3> QED BY <1>0, <2>1, <2>3, <2>5, <2>6, <3>1, <3>2, OnceServed
  <2> QED BY <2>7, <2>8
\* The start waits in the queue.
<1>10. CASE Enqueue(p)
  <2>1. Under(p, u) /\ pc[p] \in Early /\ pc[p] = "enqueue"
    BY <1>10 DEF Enqueue, At, Under, Early, Underway
  <2>2. /\ cur' = cur /\ calls' = calls /\ events' = events /\ late' = late
        /\ live' = live /\ slot' = slot
    BY <1>10 DEF Enqueue, taskVars, permitVars, procVars
  <2>3. PICK label \in {"done", "unwind"} : pc' = [pc EXCEPT ![p] = label]
    BY <1>10 DEF Enqueue, Goto
  <2>4. \A q \in Procs : pc'[q] = IF q = p THEN label ELSE pc[q]
    BY <1>0, <2>3
  <2>5. label \notin Handling /\ label \notin Early /\ label \notin Underway
    BY DEF Handling, Early, Underway, TransitionSteps
  <2>6. queue \in Seq(Tasks \X Actions) /\ Len(queue) \in Nat /\ cur[p] \in Tasks \X Actions
        /\ DOMAIN queue = 1..Len(queue)
    BY <1>0, <2>1, LenProperties DEF TypeOK, TypeInv, AsksForAction
  <2>7. calls[u] = 0 /\ ~Queued(u) /\ \A q \in Procs : Under(q, u) => q = p
    BY <1>0, <2>1 DEF OnceOf
  <2>8. cur[p] \notin Range(queue)
    BY <2>6, <2>7 DEF Queued, Range
  <2>9. queue' = Append(queue, cur[p])
    BY <1>10, <2>8 DEF Enqueue
  <2>10. /\ Len(queue') = Len(queue) + 1 /\ queue'[Len(queue) + 1] = cur[p]
         /\ \A i \in 1..Len(queue) : queue'[i] = queue[i]
    BY <2>6, <2>9, AppendProperties
  <2>11. \A i \in 1..Len(queue') : i \in 1..Len(queue) \/ i = Len(queue) + 1
    BY <2>6, <2>10
  <2>12. Announced(t)' => Announced(t)
    BY <1>0, <2>2, <2>4, <2>5 DEF Announced
  <2>13. CASE t # u
    <3>1. \A i \in 1..Len(queue') : queue'[i][1] = t => i \in 1..Len(queue) /\ queue[i][1] = t
      BY <2>10, <2>11, <2>13
    <3>2. Queued(t)' => Queued(t)
      BY <3>1 DEF Queued
    <3>3. \A i, j \in 1..Len(queue') : queue'[i][1] = t /\ queue'[j][1] = t => i = j
      BY <1>0, <3>1 DEF OnceOf
    <3>4. \A q \in Procs : /\ Under(q, t)' => Under(q, t) /\ pc'[q] = pc[q]
                           /\ Under(q, t) => Under(q, t)'
      BY <2>2, <2>4, <2>13 DEF Under
    <3> QED BY <1>0, <2>2, <2>12, <3>2, <3>3, <3>4, OnceUntouched
  <2>14. CASE t = u
    <3>1. \A i \in 1..Len(queue') : queue'[i][1] = t => i = Len(queue) + 1
      BY <2>7, <2>10, <2>11, <2>14 DEF Queued
    <3>2. \A q \in Procs : ~Under(q, t)'
      BY <2>2, <2>4, <2>5, <2>7, <2>14 DEF Under
    <3>3. live[t] = "none" /\ ~Announced(t)
      BY <1>0, <2>1, <2>14 DEF OnceOf, Fresh
    <3>4. \A i, j \in 1..Len(queue') : queue'[i][1] = t /\ queue'[j][1] = t => i = j
      BY <3>1
    <3> QED BY <2>2, <2>7, <2>12, <2>14, <3>2, <3>3, <3>4 DEF OnceOf
  <2> QED BY <2>13, <2>14
\* The first entry of the queue gets under way.
<1>11. CASE SpawnNext(p)
  <2>1. pc[p] = "next" /\ \A v : ~Under(p, v)
    BY <1>11 DEF SpawnNext, At, Under, Underway, TransitionSteps
  <2>2. calls' = calls /\ events' = events /\ late' = late /\ live' = live /\ slot' = slot
    BY <1>11 DEF SpawnNext, taskVars, permitVars
  <2>3. PICK label \in {"done", "unwind", "acquire"} : pc' = [pc EXCEPT ![p] = label]
    BY <1>11 DEF SpawnNext, Goto
  <2>4. \A q \in Procs : pc'[q] = IF q = p THEN label ELSE pc[q]
    BY <1>0, <2>3
  <2>5. label \notin Handling /\ "acquire" \in Underway /\ "acquire" \in Early
    BY DEF Handling, Early, Underway, TransitionSteps
  <2>6. \A q \in Procs \ {p} : cur'[q] = cur[q]
    BY <1>0, <1>11 DEF SpawnNext
  <2>7. Announced(t)' => Announced(t)
    BY <1>0, <2>2, <2>4, <2>5, <2>6 DEF Announced
  <2>8. CASE queue' = queue /\ label # "acquire"
    <3>1. label \notin Underway
      BY <2>8 DEF Underway, TransitionSteps
    <3>2. \A q \in Procs : /\ Under(q, t)' => Under(q, t) /\ pc'[q] = pc[q]
                           /\ Under(q, t) => Under(q, t)'
      BY <2>1, <2>4, <2>6, <3>1 DEF Under
    <3>3. Queued(t)' => Queued(t)
      BY <2>8 DEF Queued
    <3>4. \A i, j \in 1..Len(queue') : queue'[i][1] = t /\ queue'[j][1] = t => i = j
      BY <1>0, <2>8 DEF OnceOf
    <3> QED BY <1>0, <2>2, <2>7, <3>2, <3>3, <3>4, OnceUntouched
  <2>9. CASE queue # <<>> /\ cur' = [cur EXCEPT ![p] = Head(queue)] /\ queue' = Tail(queue)
             /\ label = "acquire"
    <3>1. /\ queue \in Seq(Tasks \X Actions) /\ Len(queue) \in Nat \ {0} /\ Head(queue) = queue[1]
          /\ Len(queue') = Len(queue) - 1
          /\ \A i \in 1..Len(queue') : queue'[i] = queue[i + 1]
      BY <1>0, <2>9, HeadTailProperties, LenProperties, EmptySeq DEF TypeOK
    <3>2. \A i \in 1..Len(queue') : i + 1 \in 1..Len(queue) /\ i + 1 # 1 /\ i \in Nat
      BY <3>1
    <3>3. 1 \in 1..Len(queue) /\ cur'[p] = queue[1]
      BY <1>0, <2>9, <3>1
    <3>4. \A i, j \in 1..Len(queue') : queue'[i][1] = t /\ queue'[j][1] = t => i = j
      <4> SUFFICES ASSUME NEW i \in 1..Len(queue'), NEW j \in 1..Len(queue'),
                          queue'[i][1] = t, queue'[j][1] = t
                   PROVE  i = j
        OBVIOUS
      <4>1. queue[i + 1][1] = t /\ queue[j + 1][1] = t
        BY <3>1
      <4>2. i + 1 = j + 1
        BY <1>0, <3>2, <4>1 DEF OnceOf
      <4> QED BY <3>2, <4>2
    <3>5. Queued(t)' => Queued(t)
      BY <3>1, <3>2 DEF Queued
    <3>6. \A q \in Procs \ {p} : /\ Under(q, t)' <=> Under(q, t)
                                 /\ pc'[q] = pc[q]
      BY <2>4, <2>6 DEF Under
    <3>7. Under(p, t)' <=> queue[1][1] = t
      BY <2>4, <2>5, <2>9, <3>3 DEF Under
    <3>8. CASE queue[1][1] # t
      <4>1. \A q \in Procs : /\ Under(q, t)' => Under(q, t) /\ pc'[q] = pc[q]
                             /\ Under(q, t) => Under(q, t)'
        BY <2>1, <3>6, <3>7, <3>8
      <4> QED BY <1>0, <2>2, <2>7, <3>4, <3>5, <4>1, OnceUntouched
    <3>9. CASE queue[1][1] = t
      <4>1. Queued(t)
        BY <3>3, <3>9 DEF Queued
      <4>2. calls[t] = 0 /\ (\A q \in Procs : ~Under(q, t)) /\ live[t] = "none" /\ ~Announced(t)
        BY <1>0, <4>1 DEF OnceOf, Fresh
      <4>3. ~Queued(t)'
        BY <1>0, <3>1, <3>2, <3>3, <3>9 DEF OnceOf, Queued
      <4>4. \A q \in Procs : Under(q, t)' => q = p
        BY <3>6, <4>2
      <4> QED BY <2>2, <2>7, <3>4, <4>2, <4>3, <4>4 DEF OnceOf
    <3> QED BY <3>8, <3>9
  <2>10. pc'[p] = label
    BY <1>0, <2>4
  <2>11. \/ queue # <<>> /\ cur' = [cur EXCEPT ![p] = Head(queue)] /\ queue' = Tail(queue)
            /\ pc'[p] = "acquire"
         \/ queue' = queue /\ pc'[p] \in {"done", "unwind"}
    BY <1>0, <1>11 DEF SpawnNext, Goto
  <2> QED BY <2>8, <2>9, <2>10, <2>11
<1>12. CASE Unwind(p) \/ Return(p)
  <2>1. pc[p] \in {"unwind", "done", "failed"}
    BY <1>12 DEF Unwind, Return, At
  <2>2. /\ cur' = cur /\ queue' = queue /\ calls' = calls /\ events' = events /\ late' = late
        /\ live' = live /\ slot' = slot
    BY <1>12 DEF Unwind, Return, taskVars, permitVars
  <2>3. PICK label \in {"failed", "unwind", "idle"} : pc' = [pc EXCEPT ![p] = label]
    BY <1>0, <1>12 DEF Unwind, Return, Goto
  <2>4. \A q \in Procs : pc'[q] = IF q = p THEN label ELSE pc[q]
    BY <1>0, <2>3
  <2>5. label \notin Handling /\ label \notin Underway /\ pc[p] \notin Underway
    BY <2>1 DEF Handling, Underway, TransitionSteps
  <2>6. Announced(t)' => Announced(t)
    BY <1>0, <2>2, <2>4, <2>5 DEF Announced
  <2>7. \A q \in Procs : /\ Under(q, t)' => Under(q, t) /\ pc'[q] = pc[q]
                         /\ Under(q, t) => Under(q, t)'
    BY <2>2, <2>4, <2>5 DEF Under
  <2>8. Queued(t)' => Queued(t)
    BY <2>2 DEF Queued
  <2>9. \A i, j \in 1..Len(queue') : queue'[i][1] = t /\ queue'[j][1] = t => i = j
    BY <1>0, <2>2 DEF OnceOf
  <2> QED BY <1>0, <2>2, <2>6, <2>7, <2>8, <2>9, OnceUntouched
<1> QED BY <1>4, <1>5, <1>6, <1>7, <1>8, <1>9, <1>10, <1>11, <1>12 DEF Transition
\* start_task takes the one call of the task.
LEMMA OnceCall ==
    ASSUME TypeInv, OnceInv, NEW c \in Clients, UserCall(c), NEW t \in Tasks
    PROVE  OnceOf(t)'
<1>0. /\ TypeOK /\ Loop \in Procs /\ c \in Procs /\ c # Loop /\ OnceOf(t)
      /\ pc \in [Procs -> Steps] /\ calls \in [Tasks -> Nat]
      /\ cur \in [Procs -> Tasks \X {"Start", "Resume", "Pause", "Cancel", "Delete"}]
  BY ConstantsAssumption DEF TypeInv, TypeOK, Procs, OnceInv
<1>1. PICK u \in Tasks : Call(c, "Start", u)
  BY DEF OnceInv, StartedOnce, UserCall, Call, CallResumeAll, CallAll
<1>2. /\ queue' = queue /\ events' = events /\ late' = late /\ live' = live /\ slot' = slot
      /\ pc[c] = "idle" /\ calls[u] > 0 /\ calls' = [calls EXCEPT ![u] = @ - 1]
      /\ cur' = [cur EXCEPT ![c] = <<u, "Start">>]
  BY <1>1 DEF Call, At, taskVars, permitVars
<1>3. pc' = [pc EXCEPT ![c] = "acquire"]
  BY <1>1 DEF Call, Goto, FirstStep
<1>4. \A q \in Procs : /\ pc'[q] = IF q = c THEN "acquire" ELSE pc[q]
                       /\ cur'[q] = IF q = c THEN <<u, "Start">> ELSE cur[q]
  BY <1>0, <1>2, <1>3
<1>5. "idle" \notin Underway /\ "acquire" \in Underway
  BY DEF Underway, TransitionSteps
<1>6. Announced(t)' => Announced(t)
  BY <1>0, <1>2, <1>4 DEF Announced
<1>7. Queued(t)' <=> Queued(t)
  BY <1>2 DEF Queued
<1>8. \A i, j \in 1..Len(queue') : queue'[i][1] = t /\ queue'[j][1] = t => i = j
  BY <1>0, <1>2 DEF OnceOf
<1>9. CASE t # u
  <2>1. \A q \in Procs : /\ Under(q, t)' => Under(q, t) /\ pc'[q] = pc[q]
                         /\ Under(q, t) => Under(q, t)'
    BY <1>2, <1>4, <1>5, <1>9 DEF Under
  <2>2. calls'[t] = calls[t]
    BY <1>0, <1>2, <1>9
  <2> QED BY <1>0, <1>2, <1>6, <1>7, <1>8, <2>1, <2>2, OnceUntouched
<1>10. CASE t = u
  <2>1. calls[t] = 1 /\ calls'[t] = 0
    BY <1>0, <1>2, <1>10 DEF OnceOf
  <2>2. ~Queued(t) /\ (\A q \in Procs : ~Under(q, t)) /\ live[t] = "none" /\ ~Announced(t)
    BY <1>0, <2>1 DEF OnceOf, Fresh
  <2>3. \A q \in Procs : Under(q, t)' => q = c
    BY <1>4, <2>2 DEF Under
  <2> QED BY <1>2, <1>6, <1>7, <1>8, <2>1, <2>2, <2>3 DEF OnceOf
<1> QED BY <1>9, <1>10

\* The handlers of the event loop: the event of a task comes only when its workers
\* are gone and its start is over.
LEMMA OnceLoop ==
    ASSUME TypeInv, OnceInv, LoopStep, NEW t \in Tasks
    PROVE  OnceOf(t)'
<1>0. /\ TypeOK /\ Loop \in Procs /\ OnceOf(t)
      /\ pc \in [Procs -> Steps] /\ slot \in [Tasks -> Permits \cup {NoPermit}]
      /\ cur \in [Procs -> Tasks \X {"Start", "Resume", "Pause", "Cancel", "Delete"}]
      /\ queue \in Seq(Tasks \X Actions) /\ events \in Seq(Events)
  BY DEF TypeInv, TypeOK, Procs, OnceInv
<1>1. calls' = calls /\ live' = live /\ late' = late
  BY DEF LoopStep, Receive, Persist, Dequeue, Release, taskVars
<1>2. PICK label \in Handling \cup {"done", "next"} : pc' = [pc EXCEPT ![Loop] = label]
  BY DEF LoopStep, Receive, Persist, Dequeue, Release, Goto, Handling
<1>3. pc[Loop] \in Handling \cup {"idle"}
  BY DEF LoopStep, Receive, Persist, Dequeue, Release, At, Handling
<1>4. label \notin Underway /\ pc[Loop] \notin Underway
  BY <1>3 DEF Underway, Handling, TransitionSteps
<1>5. \A q \in Procs : pc'[q] = IF q = Loop THEN label ELSE pc[q]
  BY <1>0, <1>2
<1>6. \A q \in Procs \ {Loop} : cur'[q] = cur[q]
  BY <1>0 DEF LoopStep, Receive, Persist, Dequeue, Release, procVars
<1>7. \A q \in Procs : /\ Under(q, t)' => Under(q, t) /\ pc'[q] = pc[q]
                       /\ Under(q, t) => Under(q, t)'
  BY <1>4, <1>5, <1>6 DEF Under
<1>8. Announced(t)' => Announced(t)
  <2>1. CASE Receive
    <3>1. events # <<>> /\ events' = Tail(events) /\ cur'[Loop][1] = Head(events)[2]
      BY <1>0, <2>1 DEF Receive
    <3>2. /\ Head(events) = events[1] /\ Len(events) \in Nat \ {0}
          /\ Len(events') = Len(events) - 1 /\ \A i \in 1..Len(events') : events'[i] = events[i + 1]
      BY <1>0, <3>1, HeadTailProperties, LenProperties, EmptySeq
    <3>3. 1 \in 1..Len(events) /\ \A i \in 1..Len(events') : i + 1 \in 1..Len(events)
      BY <3>2
    <3> QED BY <1>1, <3>1, <3>2, <3>3 DEF Announced
  <2>2. CASE Persist \/ Dequeue \/ Release
    <3>1. events' = events /\ cur' = cur /\ pc[Loop] \in Handling
      BY <2>2 DEF Persist, Dequeue, Release, At, Handling, procVars
    <3> QED BY <1>1, <3>1 DEF Announced
  <2> QED BY <2>1, <2>2 DEF LoopStep
<1>9. /\ Queued(t)' => Queued(t)
      /\ \A i, j \in 1..Len(queue') : queue'[i][1] = t /\ queue'[j][1] = t => i = j
  <2>1. CASE queue' = queue
    BY <1>0, <2>1 DEF Queued, OnceOf
  <2>2. ASSUME NEW k \in 1..Len(queue), queue' = RemoveAt(queue, k)
        PROVE  /\ Queued(t)' => Queued(t)
               /\ \A i, j \in 1..Len(queue') : queue'[i][1] = t /\ queue'[j][1] = t => i = j
    <3> DEFINE at(i) == IF i <= k - 1 THEN i ELSE i + 1
    <3>1. /\ Len(queue') = Len(queue) - 1 /\ Len(queue) \in Nat
          /\ \A i \in 1..Len(queue) - 1 : queue'[i] = queue[at(i)]
      BY <1>0, <2>2, RemovedAt, LenProperties
    <3>2. \A i \in 1..Len(queue') : at(i) \in 1..Len(queue)
      BY <2>2, <3>1
    <3>3. \A i, j \in 1..Len(queue') : at(i) = at(j) => i = j
      BY <2>2, <3>1
    <3> HIDE DEF at
    <3>4. \A i \in 1..Len(queue') : queue'[i] = queue[at(i)]
      BY <3>1
    <3>5. \A i, j \in 1..Len(queue') : queue'[i][1] = t /\ queue'[j][1] = t => at(i) = at(j)
      BY <1>0, <3>2, <3>4 DEF OnceOf
    <3>6. Queued(t)' => Queued(t)
      BY <3>2, <3>4 DEF Queued
    <3> QED BY <3>3, <3>5, <3>6
  <2>3. queue' = queue \/ \E k \in 1..Len(queue) : queue' = RemoveAt(queue, k)
    BY <1>0, LenProperties DEF LoopStep, Receive, Persist, Dequeue, Release
  <2> QED BY <2>1, <2>2, <2>3
<1>10. slot'[t] = slot[t] \/ live[t] # "running"
  <2>1. CASE Release
    <3>1. Announced(cur[Loop][1])
      BY <2>1 DEF Release, At, Announced, Handling
    <3>2. cur[Loop][1] = t => live[t] # "running"
      BY <1>0, <3>1 DEF OnceOf
    <3> QED BY <1>0, <2>1, <3>2 DEF Release
  <2>2. CASE ~Release
    BY <2>2 DEF LoopStep, Receive, Persist, Dequeue, permitVars
  <2> QED BY <2>1, <2>2
<1>11. CASE slot'[t] = slot[t]
  BY <1>0, <1>1, <1>7, <1>8, <1>9, <1>11, OnceUntouched
<1>12. CASE live[t] # "running"
  <2>1. \A q \in Procs : Under(q, t)' => Under(q, t) /\ (pc'[q] \in Early => pc[q] \in Early)
    BY <1>7
  <2> QED BY <1>0, <1>1, <1>8, <1>9, <1>12, <2>1, OnceKept
<1> QED BY <1>10, <1>11, <1>12

\* Worker events: they end a transfer, or belong to one that ended.
LEMMA OnceWorkers ==
    ASSUME TypeInv, OnceInv, NEW u \in Tasks, Workers(u), NEW t \in Tasks
    PROVE  OnceOf(t)'
<1>0. /\ TypeOK /\ Loop \in Procs /\ OnceOf(t) /\ OnceOf(u)
      /\ live \in [Tasks -> {"none", "running", "stopped"}] /\ late \subseteq LateKinds \X Tasks
  BY DEF TypeInv, TypeOK, Procs, OnceInv
<1>1. calls' = calls /\ queue' = queue /\ slot' = slot /\ pc' = pc /\ cur' = cur
  BY DEF Workers, RunFinishes, RunFails, LateError, LateCancel, LateComplete, LateNothing,
         permitVars, procVars
<1>2. /\ \A q \in Procs : /\ Under(q, t)' <=> Under(q, t)
                          /\ Under(q, u)' <=> Under(q, u)
      /\ Queued(t)' <=> Queued(t)
      /\ Queued(u)' <=> Queued(u)
      /\ Fresh(u)' <=> Fresh(u)
  BY <1>1 DEF Under, Queued, Fresh
<1>3. \A i, j \in 1..Len(queue') : queue'[i][1] = t /\ queue'[j][1] = t => i = j
  BY <1>0, <1>1 DEF OnceOf
<1>4. \E kind \in EventKinds : Emit(kind, u) \/ events' = events
  BY DEF Workers, RunFinishes, RunFails, LateError, LateCancel, LateComplete, LateNothing,
         Finalize, EventKinds
<1>5. \A v \in Tasks : v # u => live'[v] = live[v]
  BY <1>0 DEF Workers, RunFinishes, RunFails, LateError, LateCancel, LateComplete, LateNothing,
     StopWorkers
<1>6. \A v \in Tasks : v # u => \A k \in LateKinds : <<k, v>> \in late' => <<k, v>> \in late
  <2>1. late' \subseteq late \cup (LateKinds \X {u})
    BY DEF Workers, RunFinishes, RunFails, LateError, LateCancel, LateComplete, LateNothing,
       StopWorkers, taskVars
  <2> QED BY <2>1
<1>7. CASE t # u
  <2>1. Announced(t)' => Announced(t)
    BY <1>0, <1>1, <1>4, <1>6, <1>7, AnnouncedOthers
  <2> QED BY <1>0, <1>1, <1>2, <1>3, <1>5, <1>7, <2>1, OnceUntouched
<1>8. CASE t = u
  <2>1. live'[t] = live[t] \/ (live[t] = "running" /\ live'[t] = "stopped")
    BY <1>0, <1>8 DEF Workers, RunFinishes, RunFails, LateError, LateCancel, LateComplete,
       LateNothing, StopWorkers
  <2>2. live'[t] # "running" /\ live[t] = "running" => ~Fresh(t)'
    BY <1>0, <1>2, <1>8 DEF OnceOf
  <2>3. Announced(t) \/ (live[t] = "running" /\ live'[t] = "stopped")
    BY <1>0, <1>8 DEF Workers, RunFinishes, RunFails, LateError, LateCancel, LateComplete,
       LateNothing, StopWorkers, Announced, LateKinds
  <2>4. \A q \in Procs : Under(q, t)' => Under(q, t) /\ (pc'[q] \in Early => pc[q] \in Early)
    BY <1>1, <1>2
  <2>5. live'[t] = "running" =>
          /\ live[t] = "running"
          /\ \A q \in Procs : Under(q, t)' => pc'[q] = "store"
          /\ slot'[t] \in Permits \/ \E q \in Procs : Under(q, t)'
    BY <1>0, <1>1, <1>2, <2>1 DEF OnceOf
  <2> QED BY <1>0, <1>1, <1>2, <1>3, <2>1, <2>2, <2>3, <2>4, <2>5, OnceKept
<1> QED BY <1>7, <1>8

\* OnceInv is inductive.
LEMMA OnceNext == PermitInv /\ OnceInv /\ [Next]_vars => OnceInv'
<1> SUFFICES ASSUME PermitInv, OnceInv, [Next]_vars PROVE OnceInv'
  OBVIOUS
<1>0. TypeInv /\ TypeOK /\ Clients \subseteq Procs /\ Loop \in Procs
      /\ pc \in [Procs -> Steps] /\ mode \in [Procs -> Modes]
  BY DEF PermitInv, TypeInv, TypeOK, Procs
<1>1. \A p \in Procs : pc[p] \in OnceSteps /\ mode[p] = "single"
  BY DEF OnceInv
<1>s. ASSUME NEW p \in Procs, NEW label \in OnceSteps, pc' = [pc EXCEPT ![p] = label],
             mode' = mode \/ mode' = [mode EXCEPT ![p] = "single"]
      PROVE  \A q \in Procs : pc'[q] \in OnceSteps /\ mode'[q] = "single"
  BY <1>0, <1>1, <1>s
<1>2. ASSUME NEW p \in Procs, Transition(p)
      PROVE  OnceInv'
  <2>1. \E label \in OnceSteps : pc' = [pc EXCEPT ![p] = label]
    <3>1. CASE Return(p)
      BY <1>1, <3>1 DEF Return, Goto, OnceSteps
    <3>2. CASE ~Return(p)
      BY <1>2, <3>2 DEF Transition, Acquire, Enqueue, Lookup, ResumeOp, CheckStart, Preparing, Probe,
         Spawn, Store, Fail, Clear, SpawnNext, Unwind, Goto, OnceSteps, Underway, TransitionSteps
    <3> QED BY <3>1, <3>2
  <2>2. mode' = mode \/ mode' = [mode EXCEPT ![p] = "single"]
    <3>1. CASE Return(p)
      BY <1>1, <3>1 DEF Return
    <3>2. CASE ~Return(p)
      BY <1>2, <3>2 DEF Transition, Acquire, Enqueue, Lookup, ResumeOp, CheckStart, Preparing, Probe,
         Spawn, Store, Fail, Clear, SpawnNext, Unwind, procVars
    <3> QED BY <3>1, <3>2
  <2> QED BY <1>0, <1>2, <1>s, <2>1, <2>2, OnceTransition DEF OnceInv
<1>3. ASSUME NEW c \in Clients, UserCall(c)
      PROVE  OnceInv'
  <2>1. \E t \in Tasks : Call(c, "Start", t)
    BY <1>3 DEF OnceInv, StartedOnce, UserCall, Call, CallResumeAll, CallAll
  <2>2. pc' = [pc EXCEPT ![c] = "acquire"] /\ mode' = mode
    BY <2>1 DEF Call, Goto, FirstStep
  <2>3. "acquire" \in OnceSteps
    BY DEF OnceSteps, Underway
  <2> QED BY <1>0, <1>3, <1>s, <2>2, <2>3, OnceCall DEF OnceInv
<1>4. ASSUME NEW c \in Clients, ClientStep(c)
      PROVE  FALSE
  <2>1. pc[c] \in {"sweep", "pause", "pausing", "cancel", "canceling", "delete", "deleted",
                   "undeleted", "gone", "broken", "remove"}
    BY <1>4 DEF ClientStep, Sweep, Pause, Pausing, Cancel, Canceling, Delete, Deleted, Gone,
       RemoveTask, At
  <2>2. pc[c] \in OnceSteps
    BY <1>0, <1>1
  <2> QED BY <2>1, <2>2 DEF OnceSteps, Underway, Handling, TransitionSteps
<1>5. CASE LoopStep
  <2>1. \E label \in OnceSteps : pc' = [pc EXCEPT ![Loop] = label]
    BY <1>5 DEF LoopStep, Receive, Persist, Dequeue, Release, Goto, OnceSteps, Handling
  <2>2. mode' = mode
    BY <1>5 DEF LoopStep, Receive, Persist, Dequeue, Release, procVars
  <2> QED BY <1>0, <1>5, <1>s, <2>1, <2>2, OnceLoop DEF OnceInv
<1>6. ASSUME NEW u \in Tasks, Workers(u)
      PROVE  OnceInv'
  <2>1. pc' = pc /\ mode' = mode
    BY <1>6 DEF Workers, RunFinishes, RunFails, LateError, LateCancel, LateComplete, LateNothing,
       procVars
  <2> QED BY <1>0, <1>1, <1>6, <2>1, OnceWorkers DEF OnceInv
<1>7. CASE UNCHANGED vars
  <2>1. UNCHANGED <<pc, mode, calls, queue, live, slot, late, events, cur>>
    BY <1>7 DEF vars, taskVars, permitVars, procVars
  <2>2. ASSUME NEW t \in Tasks PROVE OnceOf(t)'
    <3>1. OnceOf(t)
      BY DEF OnceInv
    <3> QED BY <2>1, <3>1 DEF OnceOf, Fresh, Announced, Under, Queued
  <2> QED BY <1>1, <2>1, <2>2 DEF OnceInv
<1> QED BY <1>2, <1>3, <1>4, <1>5, <1>6, <1>7 DEF Next

\* Where each task is started once, at most concurrent_tasks tasks transfer data at a
\* time, whatever fails and whichever events are lost: each has a permit of its own, in
\* its slot or in the hand of the transition that is about to store it.
THEOREM TransfersCorrect == StartedOnce => (Spec => []TransfersWithinLimit)
<1>1. StartedOnce /\ Init => OnceInv
  <2> SUFFICES ASSUME StartedOnce, Init PROVE OnceInv
    OBVIOUS
  <2>1. \A p \in Procs : pc[p] = "idle" /\ mode[p] = "single"
    BY DEF Init
  <2>2. "idle" \in OnceSteps /\ "idle" \notin Underway /\ "idle" \notin Handling
    BY DEF OnceSteps, Underway, Handling, TransitionSteps
  <2>3. ASSUME NEW t \in Tasks PROVE OnceOf(t)
    <3>1. calls[t] \in {0, 1}
      BY ConstantsAssumption DEF Init, StartedOnce
    <3>2. live[t] = "none" /\ ~Queued(t) /\ Len(queue) = 0
      BY DEF Init, Queued
    <3>3. \A p \in Procs : ~Under(p, t)
      BY <2>1, <2>2 DEF Under
    <3>4. ~Announced(t)
      BY <2>1, <2>2 DEF Init, Announced, Procs
    <3> QED BY <3>1, <3>2, <3>3, <3>4 DEF OnceOf
  <2> QED BY <2>1, <2>2, <2>3 DEF OnceInv
<1>2. PermitInv /\ OnceInv => TransfersWithinLimit
  <2> SUFFICES ASSUME PermitInv, OnceInv PROVE TransfersWithinLimit
    OBVIOUS
  <2> DEFINE Carries(t, x) == slot[t] = x \/ \E p \in Procs : Under(p, t) /\ inHand[p] = x
             f == [t \in Transferring |-> CHOOSE x \in Permits : Carries(t, x)]
  <2>1. \A t \in Transferring : \E x \in Permits : Carries(t, x)
    <3> SUFFICES ASSUME NEW t \in Transferring PROVE \E x \in Permits : Carries(t, x)
      OBVIOUS
    <3>1. t \in Tasks /\ live[t] = "running" /\ OnceOf(t)
      BY DEF Transferring, OnceInv
    <3>2. CASE slot[t] \in Permits
      BY <3>2
    <3>3. CASE \E p \in Procs : Under(p, t)
      <4>1. PICK p \in Procs : Under(p, t) /\ pc[p] = "store"
        BY <3>1, <3>3 DEF OnceOf
      <4>2. inHand[p] \in Permits
        BY <4>1 DEF PermitInv, HandMatchesStep, PermitSteps, TransitionSteps
      <4> QED BY <4>1, <4>2
    <3> QED BY <3>1, <3>2, <3>3 DEF OnceOf
  <2>2. \A t, u \in Transferring : \A x \in Permits : Carries(t, x) /\ Carries(u, x) => t = u
    <3> SUFFICES ASSUME NEW t \in Transferring, NEW u \in Transferring, NEW x \in Permits,
                        Carries(t, x), Carries(u, x)
                 PROVE  t = u
      OBVIOUS
    <3>1. t \in Tasks /\ u \in Tasks /\ InOnePlace(x)
      BY DEF Transferring, PermitInv, PermitsAccountedFor
    <3> QED BY <3>1 DEF InOnePlace, Under
  <2> HIDE DEF Carries
  <2>3. \A t \in Transferring : f[t] \in Permits /\ Carries(t, f[t])
    BY <2>1
  <2>4. \A t, u \in Transferring : f[t] = f[u] => t = u
    BY <2>2, <2>3
  <2>5. f \in Injection(Transferring, Permits)
    BY <2>3, <2>4 DEF Injection, IsInjective
  <2> HIDE DEF f
  <2>6. Cardinality(Transferring) <= Cardinality(Permits)
    BY <2>5, FS_Injection, ConstantsAssumption
  <2> QED BY <2>6 DEF TransfersWithinLimit
<1> QED BY <1>1, <1>2, PermitInit, PermitNext, OnceNext, PTL DEF Spec
=============================================================================
