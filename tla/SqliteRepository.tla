-------------------------- MODULE SqliteRepository --------------------------
(***************************************************************************)
(* The calls of SqliteRepository as programs of statements.  The pool has  *)
(* one connection, so the statements of a transaction are seen by nobody   *)
(* else and are one step here; a call without a transaction is a statement *)
(* at a time.                                                              *)
(***************************************************************************)
EXTENDS Statements

(* Opening creates what is missing and keeps what is there. *)
Opened(rows) == {rows}
LoadTasks(rows) == {id \in DOMAIN rows : rows[id]["tasks"] # NoRow}

SaveBundle(gen, early, late) ==
  <<Do("begin"), Put(Bundle(gen, early, late)), Do("commit")>>

SaveWorker(gen, ver) == <<PutOne("workers", Row(gen, ver))>>
SaveChecksum(gen, ver) == <<PutOne("checksums", Row(gen, ver))>>

DeleteTask == <<PutOne("tasks", NoRow), PutOne("blocks", NoRow)>>
DeleteWorkers == <<PutOne("workers", NoRow)>>
DeletePieces == <<PutOne("pieces", NoRow)>>
DeleteBlocks == <<PutOne("blocks", NoRow)>>
DeleteChecksums == <<PutOne("checksums", NoRow)>>

(* The upsert of save_task and save_bundle resolves a conflict on the id;  *)
(* a row with another id and the same url makes it fail.  urlOf gives the  *)
(* url of a row's object.                                                  *)
Conflict(rows, id, gen, urlOf) ==
  \E other \in LoadTasks(rows) \ {id} : urlOf[rows[other]["tasks"].gen] = urlOf[gen]
=============================================================================
