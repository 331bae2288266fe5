-------------------------- MODULE WatermarkCapture --------------------------
(***************************************************************************)
(* WATERMARK capture: composite positions, the batch a run selects from    *)
(* the rows of the source, and the committed position of the dataset in    *)
(* the control plane (contracts/runtime.py, capture/watermark.py,          *)
(* control_plane/repository.py, control_plane/sqlalchemy_repository.py).   *)
(*                                                                         *)
(* A position is the value of the watermark column and, between rows of    *)
(* one value, the tie-breaker.  Both are of one comparable type: the mixed *)
(* types that compare_watermark_positions refuses are left out.            *)
(***************************************************************************)
EXTENDS Naturals

Positions == [value : Nat, tie : Nat]

\* The position None of an empty WatermarkState: rows have values above 0.
NoPosition == [value |-> 0, tie |-> 0]

\* compare_watermark_positions(p, q) < 0: value first, tie-breaker second.
Precedes(p, q) ==
    \/ p.value < q.value
    \/ p.value = q.value /\ p.tie < q.tie

PositionOf(row) == [value |-> row.value, tie |-> row.tie]

\* Mutant of Selectable: the tie-breaker forgotten.
SelectableByValue(row, before, overlap) ==
    IF overlap > 0
    THEN row.value + overlap >= before.value
    ELSE row.value > before.value

\* Would a run that reads the committed position before select this row?  With
\* an overlap (overlap_window_seconds) the value alone decides, and the lower bound is inclusive.
Selectable(row, before, overlap) ==
    IF overlap > 0
    THEN row.value + overlap >= before.value
    ELSE Precedes(before, PositionOf(row))

Selected(rows, before, overlap) == {row \in rows : Selectable(row, before, overlap)}

\* plan_watermark_batch.after: the last selected position, never behind before.
After(rows, before, overlap) ==
    CHOOSE p \in {before} \cup {PositionOf(row) : row \in Selected(rows, before, overlap)} :
        \A row \in Selected(rows, before, overlap) \cup {before} : ~Precedes(p, PositionOf(row))

\* WatermarkState: version 0 is the absent row.
WatermarkStates == [version : Nat, position : Positions]
NoWatermark == [version |-> 0, position |-> NoPosition]

\* Mutant of MayCommit: the last writer wins.
MayCommitAlways(state, position, expected) == TRUE

\* The checks of commit_watermark, in one transaction with the write.
MayCommit(state, position, expected) ==
    /\ state.version = expected
    /\ ~Precedes(position, state.position)

\* What commit_watermark leaves: an equal position is not written again.
Committed(state, position) ==
    IF position = state.position
    THEN state
    ELSE [version |-> state.version + 1, position |-> position]
=============================================================================
