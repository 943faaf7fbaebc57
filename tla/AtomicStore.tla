----------------------------- MODULE AtomicStore -----------------------------
(***************************************************************************)
(* What the store promises to the rest of the program: the rows of a task  *)
(* are replaced all at once, by rows of one task object that were read in  *)
(* the order in which save_task reads them, and every other change touches *)
(* the worker row or the checksum row alone, or removes rows.              *)
(***************************************************************************)
EXTENDS Statements

CONSTANTS Ids, MaxGen, MaxVersion

VARIABLE rows

AnyRow == [gen : 1 .. MaxGen, ver : 0 .. MaxVersion]

TypeOK == rows \in [Ids -> [Tables -> AnyRow \cup {NoRow}]]

Init == rows = EmptyTables(Ids)

SaveBundle(id) ==
  \E gen \in 1 .. MaxGen, early, late \in 0 .. MaxVersion :
    /\ early <= late
    /\ rows' = [rows EXCEPT ![id] = Bundle(gen, early, late)]

SaveRow(id) ==
  \E t \in {"workers", "checksums"}, r \in AnyRow :
    rows' = [rows EXCEPT ![id][t] = r]

Remove(id) ==
  \E t \in Tables : rows' = [rows EXCEPT ![id][t] = NoRow]

Next == \E id \in Ids : SaveBundle(id) \/ SaveRow(id) \/ Remove(id)

Spec == Init /\ [][Next]_rows

(* Of what a restart may find, the pieces and the blocks belong to the     *)
(* object the task row belongs to, and are not older than it.              *)
Whole ==
  \A id \in Ids : rows[id]["tasks"] # NoRow =>
    \A t \in {"pieces", "blocks"} : rows[id][t] # NoRow =>
      /\ rows[id][t].gen = rows[id]["tasks"].gen
      /\ rows[id][t].ver >= rows[id]["tasks"].ver
=============================================================================
