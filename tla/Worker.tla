------------------------------- MODULE Worker -------------------------------
(***************************************************************************)
(* One worker of an HTTP download (src/worker, src/transfer/http.rs): the  *)
(* loop that requests its range, writes the body slice by slice, retries   *)
(* and finishes, and the calls that start, pause, resume, cancel and       *)
(* delete it meanwhile.                                                    *)
(*                                                                         *)
(* A caller is a future that runs one of these calls on the shared worker. *)
(* Each step of a caller is the code between two awaits; the flags are     *)
(* relaxed atomics read at the places the code reads them.  The range is   *)
(* Length slices, numbered from 1; file is the set of slices written.  The *)
(* server may refuse, fail, cut a body short with or without an error, and *)
(* (without range requests) send a body that is too long.                  *)
(***************************************************************************)
EXTENDS Naturals, FiniteSets

CONSTANTS
    Callers,      \* futures that call the worker's operations
    Length,       \* slices in the worker's range
    LengthKnown,  \* Worker::length_known
    RangeSupport, \* the values of Task::supports_range_requests looked at
    MaxRetries,   \* config.retry.max_retries
    Sources,      \* the task's active transfer sources
    Ops,          \* the operations the callers use
    MaxCalls      \* bound: calls of all callers together

Operations == {"Start", "Resume", "Pause", "Cancel", "Delete"}

ASSUME WorkerAssumption ==
    /\ Length \in Nat \ {0}
    /\ LengthKnown \in BOOLEAN /\ RangeSupport \subseteq BOOLEAN
    /\ MaxRetries \in Nat /\ MaxCalls \in Nat
    /\ Sources # {}
    /\ Ops \subseteq Operations

VARIABLES
    ranges,                     \* Task::supports_range_requests
    status,                     \* Worker::status
    paused, canceled, deleted,  \* the control flags
    isRunning,                  \* Worker::is_running
    downloaded,                 \* Worker::downloaded_size, in slices
    total,                      \* the size the task learned from a stream, or 0
    source, failures,           \* current source; consecutive failures of each
    file,                       \* slices of the range that were written
    sent,                       \* kinds of events sent to the task
    pc,                         \* the step of each caller
    got, offset, retries,       \* locals of run_download_loop, one per caller
    calls,                      \* calls left
    afterStop                   \* slices written since the worker was told to stop

flags  == <<paused, canceled, deleted>>
locals == <<got, offset, retries>>
target == <<source, failures>>
vars == <<ranges, status, flags, isRunning, downloaded, total, target, file, sent, pc,
          locals, calls, afterStop>>

At(c, label) == pc[c] = label
Goto(c, label) == pc' = [pc EXCEPT ![c] = label]
Send(kind) == sent' = sent \cup {kind}

\* should_stop_gracefully
Stopping == canceled \/ deleted

\* use_range_requests
UseRanges == LengthKnown /\ ranges

(***************************************************************************)
(* Worker::start and run_download_loop.                                    *)
(***************************************************************************)

\* Mutated form of Start: is_running is read here and set by the loop.
StartUnguarded(c) ==
    /\ At(c, "start")
    /\ Goto(c, IF isRunning THEN "idle" ELSE "prepare")
    /\ isRunning' \in {isRunning, TRUE}
    /\ UNCHANGED <<status, flags, downloaded, total, target, file, sent, locals, calls, afterStop>>

\* is_running.swap(true): a second start of a running worker returns at once.
Start(c) ==
    /\ At(c, "start")
    /\ isRunning' = TRUE
    /\ Goto(c, IF isRunning THEN "idle" ELSE "prepare")
    /\ UNCHANGED <<status, flags, downloaded, total, target, file, sent, locals, calls, afterStop>>

\* prepare_run_state reads the status ...
Prepare(c) ==
    /\ At(c, "prepare")
    /\ paused' = IF status = "Paused" THEN FALSE ELSE paused
    /\ Goto(c, IF status \in {"Canceled", "Deleted"} THEN "failed"
               ELSE IF status = "Completed" THEN "exit" ELSE "running")
    /\ UNCHANGED <<status, canceled, deleted, isRunning, downloaded, total, target, file, sent,
                   locals, calls, afterStop>>

\* ... and sets it, whatever it became; the loop's locals get their first values.
Running(c) ==
    /\ At(c, "running")
    /\ status' = "Running"
    /\ got' = [got EXCEPT ![c] = downloaded]
    /\ retries' = [retries EXCEPT ![c] = 0]
    /\ Goto(c, IF LengthKnown /\ downloaded >= Length THEN "finish" ELSE "top")
    /\ UNCHANGED <<flags, isRunning, downloaded, total, target, file, sent, offset, calls, afterStop>>

\* The top of the loop: should_stop_gracefully, then wait_until_resumed.
Top(c) ==
    /\ At(c, "top")
    /\ Goto(c, IF Stopping THEN "exit" ELSE IF paused THEN "wait" ELSE "request")
    /\ UNCHANGED <<status, flags, isRunning, downloaded, total, target, file, sent, locals, calls,
                   afterStop>>

\* Where the loop goes on from each place that calls wait_until_resumed.
AfterWait == [wait |-> "request", waitSlice |-> "write", waitError |-> "retry"]

\* Mutated form of Wait: the stop flags are not polled while paused.
WaitForResume(c) ==
    /\ pc[c] \in {"wait", "waitSlice", "waitError"}
    /\ ~paused
    /\ Goto(c, AfterWait[pc[c]])
    /\ UNCHANGED <<status, flags, isRunning, downloaded, total, target, file, sent, locals, calls,
                   afterStop>>

\* wait_until_resumed: the stop flags count only while the worker is paused.
Wait(c) ==
    /\ pc[c] \in {"wait", "waitSlice", "waitError"}
    /\ \/ /\ ~paused
          /\ Goto(c, AfterWait[pc[c]])
       \/ paused /\ Stopping /\ Goto(c, IF At(c, "wait") THEN "exit" ELSE "ended")
    /\ UNCHANGED <<status, flags, isRunning, downloaded, total, target, file, sent, locals, calls,
                   afterStop>>

\* The request and the answer: 401, 403 and 404 end the run; another status, an
\* answer that does not fit the request or no answer is retried; else the body is
\* written from the requested position, or from the start without ranges.  A
\* range behind the end is not requested, so that its answer never fits.
Request(c) ==
    /\ At(c, "request")
    /\ \/ Goto(c, "failed") /\ UNCHANGED offset
       \/ Goto(c, "retry") /\ UNCHANGED offset
       \/ /\ UseRanges => got[c] < Length
          /\ Goto(c, "stream")
          /\ offset' = [offset EXCEPT ![c] = IF UseRanges THEN got[c] ELSE 0]
    /\ UNCHANGED <<status, flags, isRunning, downloaded, total, target, file, sent, got, retries,
                   calls, afterStop>>

\* Mutated form of Stream: the flags are looked at only between requests.
StreamUnchecked(c) ==
    /\ At(c, "stream")
    /\ \/ Goto(c, "ended")
       \/ offset[c] < Length /\ Goto(c, "write")
       \/ Goto(c, "retry")
    /\ UNCHANGED <<status, flags, isRunning, downloaded, total, target, file, sent, locals, calls,
                   afterStop>>

\* stream.next(): the body ends, goes on with a slice, or breaks; the flags are
\* looked at before the slice or the error.
Stream(c) ==
    /\ At(c, "stream")
    /\ \/ Goto(c, "ended")
       \/ /\ ~Stopping
          /\ offset[c] < Length \/ (offset[c] = Length /\ LengthKnown /\ ~ranges)
          /\ Goto(c, IF paused THEN "waitSlice" ELSE "write")
       \/ ~Stopping /\ Goto(c, IF paused THEN "waitError" ELSE "retry")
    /\ UNCHANGED <<status, flags, isRunning, downloaded, total, target, file, sent, locals, calls,
                   afterStop>>

\* Mutated form of Write: the progress is stored before the slice is written.
WriteProgressFirst(c) ==
    /\ At(c, "write")
    /\ \/ /\ offset[c] < Length
          /\ file' = file \cup {offset[c] + 1}
          /\ offset' = [offset EXCEPT ![c] = @ + 1]
          /\ afterStop' = IF Stopping THEN afterStop + 1 ELSE afterStop
          /\ Goto(c, "stream")
       \/ Goto(c, "retry") /\ UNCHANGED <<file, offset, afterStop>>
    /\ got' = [got EXCEPT ![c] = @ + 1]
    /\ downloaded' = got[c] + 1
    /\ UNCHANGED <<status, flags, isRunning, total, target, sent, retries, calls>>

\* Mutated form of Write: the end of the file is not checked.
WriteUnbounded(c) ==
    /\ At(c, "write")
    /\ file' = file \cup {offset[c] + 1}
    /\ offset' = [offset EXCEPT ![c] = @ + 1]
    /\ got' = [got EXCEPT ![c] = @ + 1]
    /\ downloaded' = got[c] + 1
    /\ afterStop' = IF Stopping THEN afterStop + 1 ELSE afterStop
    /\ Goto(c, "stream")
    /\ UNCHANGED <<status, flags, isRunning, total, target, sent, retries, calls>>

\* The slice is written after the rate limiter let it pass, and then counted;
\* write_at fails on an I/O error and behind the end of the file.  The write is not
\* flushed: file has it done while tokio may have it in flight, and an error of it
\* that comes up after the return, at the next use of the handle, is left out.
Write(c) ==
    /\ At(c, "write")
    /\ \/ /\ offset[c] < Length
          /\ file' = file \cup {offset[c] + 1}
          /\ offset' = [offset EXCEPT ![c] = @ + 1]
          /\ got' = [got EXCEPT ![c] = @ + 1]
          /\ downloaded' = got[c] + 1
          /\ afterStop' = IF Stopping THEN afterStop + 1 ELSE afterStop
          /\ Goto(c, "stream")
       \/ Goto(c, "retry") /\ UNCHANGED <<file, offset, got, downloaded, afterStop>>
    /\ UNCHANGED <<status, flags, isRunning, total, target, sent, retries, calls>>

\* Mutated form of Ended: the length is not checked.
EndedUnchecked(c) ==
    /\ At(c, "ended")
    /\ Goto(c, IF Stopping THEN "exit" ELSE "finish")
    /\ total' = IF Stopping \/ LengthKnown THEN total ELSE got[c]
    /\ UNCHANGED <<status, flags, isRunning, downloaded, target, file, sent, locals, calls, afterStop>>

\* After the body: stop, or check the length, which is an error without a retry.
\* A stream of unknown length gives the task its size.
Ended(c) ==
    /\ At(c, "ended")
    /\ \/ Stopping /\ Goto(c, "exit") /\ UNCHANGED total
       \/ /\ ~Stopping /\ LengthKnown
          /\ Goto(c, IF got[c] = Length THEN "finish" ELSE "failed")
          /\ UNCHANGED total
       \/ ~Stopping /\ ~LengthKnown /\ Goto(c, "finish") /\ total' = got[c]
    /\ UNCHANGED <<status, flags, isRunning, downloaded, target, file, sent, locals, calls, afterStop>>

\* finish_success, which overwrites a status set by cancel or delete meanwhile.
Finish(c) ==
    /\ At(c, "finish")
    /\ failures' = [failures EXCEPT ![source] = 0]
    /\ status' = "Completed"
    /\ Send("Complete")
    /\ Goto(c, "exit")
    /\ UNCHANGED <<flags, isRunning, downloaded, total, source, file, locals, calls, afterStop>>

\* Mutated form of Retry: the attempts are not counted.
RetryUncounted(c) ==
    /\ At(c, "retry")
    /\ Goto(c, IF retries[c] >= MaxRetries THEN "failed" ELSE "top")
    /\ UNCHANGED <<status, flags, isRunning, downloaded, total, target, file, sent, locals, calls,
                   afterStop>>

\* retry_or_fail: the source failed once more, another one with the fewest
\* failures takes over, and the loop goes on unless the retries are used up.
Retry(c) ==
    /\ At(c, "retry")
    /\ failures' = [failures EXCEPT ![source] = @ + 1]
    /\ \/ Sources = {source} /\ UNCHANGED source
       \/ \E s \in Sources \ {source} :
            /\ \A u \in Sources \ {source} : failures[s] <= failures[u]
            /\ source' = s
    /\ \/ /\ retries[c] < MaxRetries
          /\ retries' = [retries EXCEPT ![c] = @ + 1]
          /\ Goto(c, "top")
       \/ /\ retries[c] >= MaxRetries
          /\ Goto(c, "failed")
          /\ UNCHANGED retries
    /\ UNCHANGED <<status, flags, isRunning, downloaded, total, file, sent, got, offset, calls,
                   afterStop>>

\* mark_failed
Failed(c) ==
    /\ At(c, "failed")
    /\ status' = "Failed"
    /\ Send("Error")
    /\ Goto(c, "exit")
    /\ UNCHANGED <<flags, isRunning, downloaded, total, target, file, locals, calls, afterStop>>

\* start returns to the future that joins the workers.
Exit(c) ==
    /\ At(c, "exit")
    /\ isRunning' = FALSE
    /\ Goto(c, "idle")
    /\ UNCHANGED <<status, flags, downloaded, total, target, file, sent, locals, calls, afterStop>>

(***************************************************************************)
(* The calls.                                                              *)
(***************************************************************************)
Final == {"Canceled", "Failed", "Completed", "Deleted"}

\* Worker::start, pause, cancel and delete: the flag is set at once ...
Call(c, op) ==
    /\ At(c, "idle")
    /\ op \in Ops
    /\ calls > 0 /\ calls' = calls - 1
    /\ paused' = (paused \/ op = "Pause")
    /\ canceled' = (canceled \/ op = "Cancel")
    /\ deleted' = (deleted \/ op = "Delete")
    /\ Goto(c, [Start |-> "start", Resume |-> "resume", Pause |-> "pause",
                Cancel |-> "cancel", Delete |-> "delete"][op])
    /\ UNCHANGED <<status, isRunning, downloaded, total, target, file, sent, locals, afterStop>>

\* ... and the status when its mutex is free, with the event.
SetStatus(c) ==
    /\ \/ /\ At(c, "pause") /\ status \notin Final \cup {"Paused"}
          /\ status' = "Paused" /\ Send("Pause")
       \/ /\ At(c, "pause") /\ status \in Final \cup {"Paused"}
          /\ UNCHANGED <<status, sent>>
       \/ At(c, "cancel") /\ status' = "Canceled" /\ Send("Cancel")
       \/ At(c, "delete") /\ status' = "Deleted" /\ Send("Delete")
    /\ Goto(c, "idle")
    /\ UNCHANGED <<flags, isRunning, downloaded, total, target, file, locals, calls, afterStop>>

\* Worker::resume, under the status mutex; a worker without a loop is started.
Resume(c) ==
    /\ At(c, "resume")
    /\ \/ /\ status \in Final
          /\ Goto(c, "idle")
          /\ UNCHANGED <<status, paused>>
       \/ /\ status \notin Final
          /\ paused' = FALSE
          /\ status' = "Running"
          /\ Goto(c, IF isRunning THEN "idle" ELSE "start")
    /\ UNCHANGED <<canceled, deleted, isRunning, downloaded, total, target, file, sent, locals, calls,
                   afterStop>>

(***************************************************************************)
(* The specification.                                                      *)
(***************************************************************************)

\* Worker::new: fresh, or seeded with the slices written by an earlier run.
Init ==
    /\ ranges \in RangeSupport
    /\ status \in {"Pending", "Paused"}
    /\ paused = (status = "Paused")
    /\ canceled = FALSE /\ deleted = FALSE /\ isRunning = FALSE
    /\ downloaded \in (IF UseRanges THEN 0..Length ELSE {0})
    /\ total = 0
    /\ source \in Sources
    /\ failures = [s \in Sources |-> 0]
    /\ file = 1..downloaded
    /\ sent = {}
    /\ pc = [c \in Callers |-> "idle"]
    /\ got = [c \in Callers |-> 0]
    /\ offset = [c \in Callers |-> 0]
    /\ retries = [c \in Callers |-> 0]
    /\ calls = MaxCalls
    /\ afterStop = 0

Step(c) ==
    /\ UNCHANGED ranges
    /\ \/ Start(c) \/ Prepare(c) \/ Running(c) \/ Top(c) \/ Wait(c) \/ Request(c)
       \/ Stream(c) \/ Write(c) \/ Ended(c) \/ Finish(c) \/ Retry(c) \/ Failed(c)
       \/ Exit(c) \/ SetStatus(c) \/ Resume(c)

Calls(c) == UNCHANGED ranges /\ \E op \in Operations : Call(c, op)

Next == \E c \in Callers : Step(c) \/ Calls(c)

Spec == Init /\ [][Next]_vars

\* The runtime polls every future; a paused loop polls its flags every 200 ms.
\* The origin is assumed to answer, to go on or to break the connection: the
\* client sets a connect timeout and none for the answer.  Nobody has to call.
FairSpec == Spec /\ \A c \in Callers : WF_vars(Step(c))

-----------------------------------------------------------------------------
(***************************************************************************)
(* Properties.                                                             *)
(***************************************************************************)
LoopSteps == {"prepare", "running", "top", "wait", "request", "stream", "waitSlice",
              "waitError", "write", "ended", "finish", "retry", "failed", "exit"}

\* The range of every variable.
TypeOK ==
    /\ ranges \in RangeSupport
    /\ status \in {"Pending", "Running", "Paused"} \cup Final
    /\ {paused, canceled, deleted, isRunning} \subseteq BOOLEAN
    /\ {downloaded, total, calls, afterStop} \subseteq Nat
    /\ source \in Sources
    /\ failures \in [Sources -> Nat]
    /\ file \subseteq 1..Length
    /\ sent \subseteq {"Complete", "Error", "Pause", "Cancel", "Delete"}
    /\ pc \in [Callers -> LoopSteps \cup {"idle", "start", "resume", "pause", "cancel", "delete"}]
    /\ got \in [Callers -> Nat]
    /\ offset \in [Callers -> Nat]
    /\ retries \in [Callers -> Nat]

\* At most one download loop runs on a worker, whoever calls start and resume
\* (is_running.swap in Worker::start).
OneLoop ==
    \A c, d \in Callers : pc[c] \in LoopSteps /\ pc[d] \in LoopSteps => c = d

\* With range requests the progress counts only slices that are in the file, so
\* that a request that starts behind them leaves no hole (Worker::downloaded_size
\* seeds the next run and is what the task persists).
ProgressIsWritten == UseRanges => 1..downloaded \subseteq file

\* With range requests a worker that reports Complete has written its whole range,
\* whatever was retried, cut short, paused, canceled or restarted.
CompleteMeansWhole == UseRanges /\ "Complete" \in sent => file = 1..Length

\* Once the worker is canceled or deleted, at most the slice that waits for the rate
\* limiter is still written (should_stop_gracefully; a pause is not counted).
AtMostOneSliceAfterStop == afterStop <= 1

\* A worker that is told to stop stops, even while it is paused
\* (should_stop_gracefully in wait_until_resumed).
StopsWhenTold == Stopping /\ isRunning ~> ~isRunning

\* A run comes to its end unless somebody pauses it: the retries are bounded.
RunEnds == isRunning ~> (~isRunning \/ paused)

\* Without range requests every attempt writes the body from the start: when an
\* attempt has written all of it, the length check succeeds.
FullBodyIsAccepted ==
    \A c \in Callers : At(c, "ended") /\ LengthKnown /\ offset[c] = Length => got[c] = Length
=============================================================================
