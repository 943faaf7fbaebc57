----------------------------- MODULE PiecePlan -----------------------------
(***************************************************************************)
(* How a file of known size is cut into pieces, blocks and lanes           *)
(* (src/domain/piece.rs, src/domain/manifest.rs, src/scheduler/planner.rs),*)
(* and what the progress of one plan is worth under the next: block states *)
(* and worker rows are stored, restored, checked (src/recovery.rs) and     *)
(* turned into the first offsets of new workers (src/job/workers.rs) when  *)
(* segments_per_task was changed in between.                               *)
(*                                                                         *)
(* The origin answers range requests and does not change, and the file is  *)
(* kept: what becomes of files and versions is in Resume.  disk is the set *)
(* of bytes that were written.  A save that read the list of workers and   *)
(* writes its row later is late.  Saves succeed.                           *)
(***************************************************************************)
EXTENDS Naturals, Sequences, FiniteSets

CONSTANTS
    Sizes,         \* bound: sizes of the file
    MaxPiece,      \* MAX_HTTP_PIECE_SIZE
    MaxBlock,      \* the cap on blocks in build_single_file_manifest
    Segments,      \* the values of config.segments_per_task looked at
    MaxLate,       \* bound: saves of worker rows under way
    MaxRestarts    \* bound: restarts of the process

ASSUME PlanAssumption ==
    /\ Sizes \subseteq Nat \ {0}
    /\ MaxPiece \in Nat \ {0} /\ MaxBlock \in Nat \ {0}
    /\ Segments \subseteq Nat /\ Segments # {}
    /\ MaxLate \in Nat /\ MaxRestarts \in Nat

VARIABLES
    size,          \* the size of the file
    segments,      \* config.segments_per_task
    phase,         \* how far the start of the task has come
    layout,        \* the file, piece and block size of Task::manifest
    states,        \* Task::block_states: completed, for each block of some layout
    workers,       \* Task::workers
    made,          \* the workers that create_workers has made and saved so far
    late,          \* rows that are still to be saved
    rows, stored,  \* worker and block rows in the repository
    disk,          \* bytes of the file that were written
    restarts       \* restarts left

vars == <<size, segments, phase, layout, states, workers, made, late, rows, stored, disk, restarts>>

(***************************************************************************)
(* Pieces, blocks and lanes.                                               *)
(***************************************************************************)
AtMost(a, b) == IF a < b THEN a ELSE b
AtLeast(a, b) == IF a > b THEN a ELSE b
DivCeil(a, b) == (a + b - 1) \div b

\* suggested_http_piece_size
PieceSize(total, requested) ==
    AtMost(DivCeil(total, AtMost(AtLeast(requested, 1), total)), MaxPiece)

\* build_single_file_manifest and for_single_file_with_piece_size
Layout(total, requested) ==
    [size |-> total, piece |-> PieceSize(total, requested),
     block |-> AtMost(PieceSize(total, requested), MaxBlock)]

\* plan_piece_layouts: pieces are numbered from 0, the last one may be shorter.
PieceCount(l) == DivCeil(l.size, l.piece)

\* Mutated form of PieceEnd: the last piece is as long as the others.
PieceEndUnbounded(l, p) == (p + 1) * l.piece

\* The end of a piece, exclusive.
PieceEnd(l, p) == AtMost((p + 1) * l.piece, l.size)

\* plan_piece_blocks: a block is its piece and its number there.
Offset(l, b) == b[1] * l.piece + b[2] * l.block
BlockEnd(l, b) == AtMost(Offset(l, b) + l.block, PieceEnd(l, b[1]))
Blocks(l) ==
    {b \in (0..(PieceCount(l) - 1)) \X (0..(DivCeil(l.piece, l.block) - 1)) :
        Offset(l, b) < PieceEnd(l, b[1])}

\* plan_execution_lanes_with_source_order and assignment_from_piece_slice: the
\* pieces are dealt out in order, as evenly as they can be.
Lanes(l) ==
    LET n == PieceCount(l)
        c == AtMost(AtLeast(segments, 1), n)
    IN [i \in 1..c |-> [id |-> i - 1, start |-> (((i - 1) * n) \div c) * l.piece,
                        end |-> PieceEnd(l, ((i * n) \div c) - 1) - 1]]

(***************************************************************************)
(* Progress.                                                               *)
(***************************************************************************)
Length(w) == w.end + 1 - w.start

\* The bytes a worker (or its row) says it has.
Claimed(w) == w.start..(w.start + w.got - 1)

\* Mutated form of Marks: a block counts as soon as a byte of it is there.
MarksTouched(l, b, w) == w.got > 0 /\ Offset(l, b) \in Claimed(w)

\* mark_completed_blocks for the progress of one worker
Marks(l, b, w) ==
    /\ w.got > 0
    /\ w.start <= Offset(l, b) /\ BlockEnd(l, b) <= w.start + w.got

\* sync_piece_progress_from_workers
Synced(l, old, ws) == [b \in Blocks(l) |-> old[b] \/ \E i \in DOMAIN ws : Marks(l, b, ws[i])]

\* block_state_layout_matches and install_manifest: the old states are kept if
\* they are of the same blocks, by number.
Installed(l, old) == IF DOMAIN old = Blocks(l) THEN old ELSE [b \in Blocks(l) |-> FALSE]

InLane(l, b, lane) == lane.start <= Offset(l, b) /\ BlockEnd(l, b) <= lane.end + 1

\* Mutated form of Seeded: completed blocks count wherever they are.
SeededAnywhere(l, lane) ==
    Cardinality({x \in lane.start..lane.end : \E b \in Blocks(l) :
        InLane(l, b, lane) /\ states[b] /\ Offset(l, b) <= x /\ x < BlockEnd(l, b)})

\* seeded_downloaded_from_block_states: the completed blocks up to the first one
\* that is not; the blocks of a lane follow one another.
Seeded(l, lane) ==
    LET open == {Offset(l, b) : b \in {c \in Blocks(l) : InLane(l, c, lane) /\ ~states[c]}}
    IN IF open = {} THEN Length(lane)
       ELSE (CHOOSE x \in open : \A y \in open : x <= y) - lane.start

Seed(l, lane) ==
    [id |-> lane.id, start |-> lane.start, end |-> lane.end, got |-> Seeded(l, lane)]

\* can_reuse_existing_workers
Reusable(ws, lanes) ==
    /\ ws # <<>> /\ Len(ws) = Len(lanes)
    /\ \A i \in DOMAIN ws : /\ ws[i].id = lanes[i].id
                            /\ ws[i].start = lanes[i].start /\ ws[i].end = lanes[i].end
                            /\ ws[i].got <= Length(lanes[i])

\* The rows sorted by their index, of which each has one of its own.
InOrder(rs) ==
    CHOOSE ws \in [1..Cardinality(rs) -> rs] :
        \A i, j \in 1..Cardinality(rs) : i < j => ws[i].id < ws[j].id

\* Mutated form of Trusted: gaps between the ranges are not noticed.
TrustedWithGaps(ws) ==
    /\ ws # <<>>
    /\ \A i \in DOMAIN ws : ws[i].start <= ws[i].end /\ ws[i].got <= Length(ws[i]) /\ ws[i].end < size
    /\ ws[Len(ws)].end + 1 = size

\* sanitize_worker_requests: the ranges follow one another and end with the file.
Trusted(ws) ==
    /\ ws # <<>>
    /\ \A i \in DOMAIN ws :
        /\ ws[i].start <= ws[i].end /\ ws[i].got <= Length(ws[i]) /\ ws[i].end < size
        /\ ws[i].start = IF i = 1 THEN 0 ELSE ws[i - 1].end + 1
    /\ ws[Len(ws)].end + 1 = size

\* The rows of the workers of ws, one for each index.
RowsOf(ws) == {ws[i] : i \in DOMAIN ws}

\* save_worker replaces the row of the same index.
WithRow(w) == {r \in rows : r.id # w.id} \cup {w}

(***************************************************************************)
(* The task.                                                               *)
(***************************************************************************)

\* prepare_download installs the manifest and lets the block states follow the
\* workers there are, and Task::start saves the task before it looks at them.
Install ==
    /\ phase \in {"restored", "stopped"}
    /\ layout' = Layout(size, segments)
    /\ states' = Synced(layout', Installed(layout', states), workers)
    /\ rows' = RowsOf(workers) /\ stored' = states'
    /\ phase' = "ensure"
    /\ UNCHANGED <<size, segments, workers, made, late, disk, restarts>>

\* ensure_workers: the workers are kept, or forgotten with their rows.
Ensure ==
    /\ phase = "ensure"
    /\ \/ /\ Reusable(workers, Lanes(layout))
          /\ phase' = "running"
          /\ UNCHANGED <<workers, rows>>
       \/ /\ ~Reusable(workers, Lanes(layout))
          /\ workers' = <<>> /\ rows' = {}
          /\ phase' = "create"
    /\ UNCHANGED <<size, segments, layout, states, made, late, stored, disk, restarts>>

\* create_workers saves one worker after the other ...
Create ==
    LET lanes == Lanes(layout)
        w == Seed(layout, lanes[Len(made) + 1])
    IN /\ phase = "create" /\ Len(made) < Len(lanes)
       /\ made' = Append(made, w)
       /\ rows' = WithRow(w)
       /\ UNCHANGED <<size, segments, phase, layout, states, workers, late, stored, disk, restarts>>

\* ... and they become the workers of the task together.
Created ==
    /\ phase = "create" /\ Len(made) = Len(Lanes(layout))
    /\ workers' = made /\ made' = <<>>
    /\ phase' = "running"
    /\ UNCHANGED <<size, segments, layout, states, late, rows, stored, disk, restarts>>

\* A worker writes the next byte of its range and counts it, also after it was told
\* to pause if a slice was under way.
Write(i) ==
    /\ phase \in {"running", "stopped"} /\ i \in DOMAIN workers /\ workers[i].got < Length(workers[i])
    /\ disk' = disk \cup {workers[i].start + workers[i].got}
    /\ workers' = [workers EXCEPT ![i].got = @ + 1]
    /\ UNCHANGED <<size, segments, phase, layout, states, made, late, rows, stored, restarts>>

\* handle_worker_progress, and likewise handle_worker_pause, at any time
\* after the workers ran: a row is read that another future saves, and the block
\* states follow the workers.
Progress(i) ==
    /\ phase \in {"running", "stopped"} /\ i \in DOMAIN workers /\ Cardinality(late) < MaxLate
    /\ late' = late \cup {workers[i]}
    /\ states' = Synced(layout, states, workers)
    /\ UNCHANGED <<size, segments, phase, layout, workers, made, rows, stored, disk, restarts>>

\* persist_task_worker saves its row, maybe after a later save of the whole task.
SaveLate ==
    /\ \E w \in late : rows' = WithRow(w) /\ late' = late \ {w}
    /\ UNCHANGED <<size, segments, phase, layout, states, workers, made, stored, disk, restarts>>

\* Store::save_task, at any time: the rows become the workers of the list.
SaveTask ==
    /\ rows' = RowsOf(workers) /\ stored' = states
    /\ UNCHANGED <<size, segments, phase, layout, states, workers, made, late, disk, restarts>>

\* A pause: the workers stay, with their progress.
Pause ==
    /\ phase = "running"
    /\ phase' = "stopped"
    /\ UNCHANGED <<size, segments, layout, states, workers, made, late, rows, stored, disk, restarts>>

\* The process ends at any point and starts again with other settings:
\* build_restore_plan keeps the block states and, of a task that was under way or
\* paused, the rows if it trusts them.
Restart ==
    /\ restarts > 0 /\ restarts' = restarts - 1
    /\ segments' \in Segments
    /\ phase' = "restored"
    /\ states' = stored
    /\ workers' \in {<<>>} \cup (IF Trusted(InOrder(rows)) THEN {InOrder(rows)} ELSE {})
    /\ made' = <<>> /\ late' = {}
    /\ UNCHANGED <<size, layout, rows, stored, disk>>

(***************************************************************************)
(* The specification.                                                      *)
(***************************************************************************)
Init ==
    /\ size \in Sizes
    /\ segments \in Segments
    /\ phase = "restored"
    /\ layout = Layout(size, segments)
    /\ states = <<>> /\ stored = <<>>
    /\ workers = <<>> /\ made = <<>>
    /\ late = {} /\ rows = {}
    /\ disk = {}
    /\ restarts = MaxRestarts

Next ==
    \/ Install \/ Ensure \/ Create \/ Created
    \/ \E i \in 1..Len(workers) : Write(i) \/ Progress(i)
    \/ SaveLate \/ SaveTask \/ Pause \/ Restart

Spec == Init /\ [][Next]_vars

-----------------------------------------------------------------------------
(***************************************************************************)
(* Properties.                                                             *)
(***************************************************************************)
Bytes == 0..(size - 1)
Row == [id : Nat, start : Bytes, end : Bytes, got : 0..size]

\* The range of every variable.
TypeOK ==
    /\ size \in Sizes /\ segments \in Segments /\ restarts \in Nat
    /\ phase \in {"restored", "stopped", "ensure", "create", "running"}
    /\ layout \in [size : {size}, piece : 1..MaxPiece, block : 1..MaxBlock]
    /\ states \in [DOMAIN states -> BOOLEAN] /\ stored \in [DOMAIN stored -> BOOLEAN]
    /\ workers \in Seq(Row) /\ made \in Seq(Row)
    /\ late \subseteq Row /\ rows \subseteq Row
    /\ disk \subseteq Bytes

\* The workers of a task, planned or restored, have every byte of the file in
\* exactly one range, in order: nothing is fetched twice and nothing is forgotten,
\* also when the process ended while create_workers saved the rows and a save of the
\* task had removed the first of them again.
LanesTile ==
    workers # <<>> =>
        /\ workers[1].start = 0 /\ workers[Len(workers)].end = size - 1
        /\ \A i \in DOMAIN workers :
            /\ workers[i].start <= workers[i].end
            /\ i > 1 => workers[i].start = workers[i - 1].end + 1

\* The sizes for which the numbers of its blocks tell a layout from the others
\* that the settings give.  For other sizes block_state_layout_matches takes the
\* states of one layout for those of another: with pieces of at most 4 bytes and
\* blocks of at most 2, 5 bytes are pieces of 4 and 1 for one segment, of 3 and 2
\* for two, and either time two blocks and one.
NumbersTellLayouts ==
    {z \in Sizes : \A s, t \in Segments :
        Blocks(Layout(z, s)) = Blocks(Layout(z, t)) => Layout(z, s) = Layout(z, t)}

\* Neither a worker nor a row claims a byte that is not in the file, also when the
\* progress was carried from one plan to another by way of block states and the
\* process ended between the saves of two rows.
ClaimsAreWritten ==
    size \in NumbersTellLayouts => \A w \in RowsOf(workers) \cup RowsOf(made) \cup late \cup rows :
        w.got <= Length(w) /\ Claimed(w) \subseteq disk

\* A block that counts as completed is in the file, under the layout in force.
CompletedBlocksAreWritten ==
    size \in NumbersTellLayouts /\ phase # "restored" => \A b \in Blocks(layout) :
        states[b] => \A x \in Offset(layout, b)..(BlockEnd(layout, b) - 1) : x \in disk
=============================================================================
