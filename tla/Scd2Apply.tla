------------------------------ MODULE Scd2Apply ------------------------------
(***************************************************************************)
(* The reference SCD2 apply engine (apply/scd2.py): the versions of every  *)
(* business key as rows valid from one event time up to the next.          *)
(*                                                                         *)
(* Event time is the watermark column, as the reference configuration has  *)
(* it; the hash of the tracked columns is the data itself.                 *)
(***************************************************************************)
EXTENDS Naturals, Sequences, FiniteSets, SequencesExt, WatermarkCapture

\* VALID_TO is None in a current row.
Open == 0

Version(row) ==
    [key |-> row.key, data |-> row.data, from |-> row.value, to |-> Open]

IsCurrent(version) == version.to = Open

\* assert_one_current_row
OneCurrentRow(versions) ==
    \A v, w \in versions : IsCurrent(v) /\ IsCurrent(w) /\ v.key = w.key => v = w

\* Mutant of IsLate: the check forgotten.
IsLateNever(version, row) == FALSE

\* LateArrivingRecordError
IsLate(version, row) == row.value < version.from

\* VALID_TO and IS_CURRENT of the version that row ends.
Close(version, row) == [version EXCEPT !.to = row.value]

\* One round of the loop of apply_scd2.  refused stands for the two exceptions,
\* LateArrivingRecordError and SCD2ConflictError: either ends the loop.
ApplyRow(result, row) ==
    LET current == {v \in result.versions : IsCurrent(v) /\ v.key = row.key}
        late == \E v \in current : IsLate(v, row)
        same == \E v \in current : row.data = v.data
        conflict == \E v \in current : row.value = v.from
        closed == {Close(v, row) : v \in current}
    IN  IF result.refused THEN result
        ELSE IF late THEN [result EXCEPT !.refused = TRUE]
        ELSE IF same THEN result
        ELSE IF conflict THEN [result EXCEPT !.refused = TRUE]
        ELSE [result EXCEPT !.versions = (@ \ current) \cup closed \cup {Version(row)}]

\* The order rows are applied in.  The code orders rows of one event time by key
\* before position; rows of different keys do not affect each other.
InOrder(rows) ==
    SetToSortSeq(rows, LAMBDA r, s : Precedes(PositionOf(r), PositionOf(s)))

\* apply_scd2(existing_rows, incoming_rows)
ApplyScd2(versions, rows) ==
    LET start == [versions |-> versions, refused |-> ~OneCurrentRow(versions)]
        result == FoldLeft(ApplyRow, start, InOrder(rows))
    IN  [versions |-> result.versions,
         refused |-> result.refused \/ ~OneCurrentRow(result.versions)]

-----------------------------------------------------------------------------
(* What a history of these rows is, without batches or an order of         *)
(* application: the reference the properties compare the target with.      *)

\* row differs from the row of its key just before it.
StartsVersion(row, rows) ==
    LET earlier == {r \in rows : r.key = row.key /\ Precedes(PositionOf(r), PositionOf(row))}
    IN  \A r \in earlier :
            (\A s \in earlier : ~Precedes(PositionOf(r), PositionOf(s))) => r.data # row.data

HistoryOf(rows) ==
    LET starts == {row \in rows : StartsVersion(row, rows)}
        later(row) == {s.value : s \in {t \in starts :
                          t.key = row.key /\ Precedes(PositionOf(row), PositionOf(t))}}
        to(row) == IF later(row) = {} THEN Open
                   ELSE CHOOSE t \in later(row) : \A u \in later(row) : t <= u
    IN  {[Version(row) EXCEPT !.to = to(row)] : row \in starts}

\* The target says that key had the row's data at the row's time.
Reflects(versions, row) ==
    \E v \in versions :
        /\ v.key = row.key
        /\ v.data = row.data
        /\ v.from <= row.value
        /\ IsCurrent(v) \/ row.value < v.to
=============================================================================
