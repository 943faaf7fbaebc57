------------------------- MODULE JsonFileRepository -------------------------
(***************************************************************************)
(* The calls of JsonFileRepository: each changes the state under one write *)
(* lock and then rewrites the whole file (persist_state): the state is     *)
(* cloned, the file is truncated and filled, and nothing keeps two futures *)
(* from doing so at the same time.                                         *)
(***************************************************************************)
EXTENDS Statements

(* A file: whole with the rows in it, empty, or torn. *)
Whole(rows) == [state |-> "whole", rows |-> rows]
Damaged(rows) ==
  {[state |-> s, rows |-> EmptyTables(DOMAIN rows)] : s \in {"empty", "torn"}}

(* new: an empty file is an empty state, one that does not parse an error. *)
Opened(file) == IF file.state = "torn" THEN {} ELSE {file.rows}

Persisted(statement) == <<statement, Do("copy"), Do("write")>>

SaveBundle(gen, early, late) == Persisted(Put(Bundle(gen, early, late)))
SaveWorker(gen, ver) == Persisted(PutOne("workers", Row(gen, ver)))
SaveChecksum(gen, ver) == Persisted(PutOne("checksums", Row(gen, ver)))

DeleteTask == Persisted(Put([t \in Tables |-> NoRow]))
DeleteWorkers == Persisted(PutOne("workers", NoRow))
DeletePieces == Persisted(PutOne("pieces", NoRow))
DeleteBlocks == Persisted(PutOne("blocks", NoRow))
DeleteChecksums == Persisted(PutOne("checksums", NoRow))
=============================================================================
