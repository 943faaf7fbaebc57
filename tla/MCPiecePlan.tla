---------------------------- MODULE MCPiecePlan ----------------------------
(* Instances of PiecePlan for TLC. *)
EXTENDS PiecePlan
=============================================================================
