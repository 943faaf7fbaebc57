----------------------------- MODULE Statements -----------------------------
(***************************************************************************)
(* The rows a repository keeps of a task, and the statements its calls are *)
(* made of.  A row is abstracted to the task object it was read from (gen) *)
(* and the number of changes that object had seen (ver).  The rows of the  *)
(* workers, pieces, blocks and checksums of a task are one row each.       *)
(***************************************************************************)
EXTENDS Naturals, Sequences

Tables == {"tasks", "workers", "pieces", "blocks", "checksums"}
NoRow == [gen |-> 0, ver |-> 0]
Row(gen, ver) == [gen |-> gen, ver |-> ver]
EmptyTables(ids) == [id \in ids |-> [t \in Tables |-> NoRow]]

(* What Store::save_task hands over: the task row is read first, the other *)
(* rows later, each under a lock of its own.                               *)
Bundle(gen, early, late) ==
  [t \in Tables |-> Row(gen, IF t = "tasks" THEN early ELSE late)]

(* A statement puts rows, or removes them (NoRow), in one step. *)
Do(what) == [do |-> what, rows |-> <<>>]
Put(rows) == [do |-> "put", rows |-> rows]
PutOne(t, row) == Put([x \in {t} |-> row])
=============================================================================
