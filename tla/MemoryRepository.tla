-------------------------- MODULE MemoryRepository --------------------------
(***************************************************************************)
(* The calls of MemoryRepository: one map and one lock per table, so a     *)
(* call on several tables is several steps, and nothing outlives the       *)
(* process.                                                                *)
(***************************************************************************)
EXTENDS Statements

Opened(rows) == {EmptyTables(DOMAIN rows)}

SaveTask(gen, ver) == <<PutOne("tasks", Row(gen, ver))>>
SaveWorker(gen, ver) == <<PutOne("workers", Row(gen, ver))>>
SavePieces(gen, ver) == <<PutOne("pieces", Row(gen, ver))>>
SaveBlocks(gen, ver) == <<PutOne("blocks", Row(gen, ver))>>
SaveChecksum(gen, ver) == <<PutOne("checksums", Row(gen, ver))>>

DeleteTask ==
  <<PutOne("tasks", NoRow), PutOne("workers", NoRow), PutOne("pieces", NoRow),
    PutOne("blocks", NoRow), PutOne("checksums", NoRow)>>
DeleteWorkers == <<PutOne("workers", NoRow)>>
DeletePieces == <<PutOne("pieces", NoRow)>>
DeleteBlocks == <<PutOne("blocks", NoRow)>>
DeleteChecksums == <<PutOne("checksums", NoRow)>>

(* The save_bundle that the trait Repository provides. *)
SaveBundle(gen, early, late) ==
  SaveTask(gen, early) \o DeleteWorkers \o SaveWorker(gen, late)
    \o SavePieces(gen, late) \o SaveBlocks(gen, late)
    \o DeleteChecksums \o SaveChecksum(gen, late)
=============================================================================
