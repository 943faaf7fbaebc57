----------------------------- MODULE WaitForAll -----------------------------
(***************************************************************************)
(* wait_for_all_tasks of src/coordinator/mod.rs: the waiter subscribes to  *)
(* the events, looks at the tasks one after the other, and looks again     *)
(* after every event.  A task that settles sets its status and sends its   *)
(* event in two steps; a cancel that cannot be saved returns between them. *)
(***************************************************************************)
EXTENDS Integers, FiniteSets

CONSTANTS
  Jobs,         \* the tasks, numbered in the order in which they are visited
  Capacity,     \* of the channel
  MaxRestarts   \* bound

VARIABLES
  settled,      \* the tasks whose status is terminal
  sending,      \* those that have yet to send the event of it
  backlog,      \* events that the waiter has not received
  waiter,       \* its step: the task it looks at
  restarts,
  silent        \* history: the tasks that settled without an event

waitVars == <<settled, sending, backlog, waiter, restarts, silent>>

WaitInit ==
  /\ settled \in SUBSET Jobs /\ sending = {} /\ backlog = 0
  /\ waiter = [pc |-> "start", job |-> 0] /\ restarts = 0 /\ silent = {}

(* Mutated form of Sent: the waiter subscribes after it has looked. *)
SentToReceiver == IF waiter.pc # "receive" \/ backlog = Capacity THEN backlog ELSE backlog + 1

(* A subscriber that lags behind is told so, which wakes it too. *)
Sent == IF waiter.pc = "start" \/ backlog = Capacity THEN backlog ELSE backlog + 1

(* cancel, fail_with_error, finalize and delete *)
Settle(j) ==
  /\ j \notin settled
  /\ settled' = settled \cup {j} /\ sending' = sending \cup {j}
  /\ UNCHANGED <<backlog, waiter, restarts, silent>>

SendSettled(j) ==
  /\ j \in sending /\ sending' = sending \ {j} /\ backlog' = Sent
  /\ UNCHANGED <<settled, waiter, restarts, silent>>

(* cancel: the torrent engine or the repository fails. *)
SettleSilently(j) ==
  /\ j \in sending /\ sending' = sending \ {j} /\ silent' = silent \cup {j}
  /\ UNCHANGED <<settled, backlog, waiter, restarts>>

(* A task is started again: prepare_for_start. *)
Restart(j) ==
  /\ j \in settled /\ restarts < MaxRestarts /\ restarts' = restarts + 1
  /\ settled' = settled \ {j} /\ silent' = silent \ {j} /\ backlog' = Sent
  /\ UNCHANGED <<sending, waiter>>

Subscribe ==
  /\ waiter.pc = "start" /\ waiter' = [pc |-> "look", job |-> 1]
  /\ UNCHANGED <<settled, sending, backlog, restarts, silent>>

Look ==
  /\ waiter.pc = "look"
  /\ waiter' = IF waiter.job \notin settled THEN [pc |-> "seen", job |-> 0]
               ELSE IF waiter.job = Cardinality(Jobs) THEN [pc |-> "done", job |-> 0]
               ELSE [waiter EXCEPT !.job = @ + 1]
  /\ UNCHANGED <<settled, sending, backlog, restarts, silent>>

(* Tasks may settle between the look and the call of recv. *)
AwaitEvent ==
  /\ waiter.pc = "seen" /\ waiter' = [waiter EXCEPT !.pc = "receive"]
  /\ UNCHANGED <<settled, sending, backlog, restarts, silent>>

Receive ==
  /\ waiter.pc = "receive" /\ backlog > 0
  /\ backlog' = backlog - 1 /\ waiter' = [pc |-> "look", job |-> 1]
  /\ UNCHANGED <<settled, sending, restarts, silent>>

WaitStep == Subscribe \/ Look \/ AwaitEvent \/ Receive
WaitNext ==
  \/ WaitStep
  \/ \E j \in Jobs : Settle(j) \/ SendSettled(j) \/ SettleSilently(j) \/ Restart(j)

-----------------------------------------------------------------------------

WaitTypeOK ==
  /\ sending \cup settled \cup silent \subseteq Jobs /\ backlog \in 0 .. Capacity
  /\ waiter.pc \in {"start", "look", "seen", "receive", "done"} /\ waiter.job \in 0 .. Cardinality(Jobs)

(* The waiter returns once all tasks have settled for good, however the    *)
(* last event races its look at them, if each of them sent its event.      *)
WaitReturns ==
  <>[](Jobs \subseteq settled /\ silent = {}) => <>(waiter.pc = "done")
=============================================================================
