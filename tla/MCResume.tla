------------------------------ MODULE MCResume ------------------------------
(* Instances of Resume for TLC. *)
EXTENDS Resume

Task(lanes, len, checked, overlap, validations, troubles, budget) ==
    [lanes |-> lanes, len |-> len, checked |-> checked, overlap |-> overlap,
     validations |-> validations, troubles |-> troubles, budget |-> budget]

\* A checksum, two workers and runs that overlap; a checksum and crashes; no checksum,
\* with one worker and with two.
AllTasks ==
    {Task(2, 1, TRUE, TRUE, {TRUE}, {"pause", "cancel", "worker", "truncate"}, 2),
     Task(1, 2, TRUE, FALSE, BOOLEAN, AllTroubles, 3),
     Task(1, 3, FALSE, FALSE, BOOLEAN, AllTroubles \ {"crash"}, 3),
     Task(2, 2, FALSE, FALSE, {TRUE}, {"pause", "worker"}, 1)}

\* No checksum, two workers, and nothing goes wrong.
PlainTask == {Task(2, 1, FALSE, FALSE, {TRUE}, {}, 0)}

PausedTask == {Task(2, 1, FALSE, FALSE, {TRUE}, {"pause"}, 1)}
=============================================================================
