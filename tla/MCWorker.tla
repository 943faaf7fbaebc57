------------------------------ MODULE MCWorker ------------------------------
(* Instances of Worker for TLC. *)
EXTENDS Worker, TLC

CONSTANTS c1, c2, c3

AllCalls == Operations
StartOnly == {"Start"}

Futures == Permutations(Callers)
=============================================================================
