--------------------------- MODULE MCCoordinator ---------------------------
(* Instances of Coordinator for TLC. *)
EXTENDS Coordinator

CONSTANTS t1, t2, x1, c1, c2

AllCalls == AllOps
StartOnly == {"Start"}
StartResume == {"Start", "Resume"}

\* Bounds on the calls for each task.
Once == [t \in Tasks |-> 1]
TwiceAndOnce == [t \in Tasks |-> IF t = t1 THEN 2 ELSE 1]
=============================================================================
