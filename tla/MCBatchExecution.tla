--------------------------- MODULE MCBatchExecution ---------------------------
EXTENDS BatchExecution, TLC

CONSTANTS k1, k2, a, b, bad

Row(k, d) == [key |-> k, data |-> d]

RowChoices == {Row(k1, a), Row(k1, b), Row(k1, bad), Row(k2, a)}

\* Every batch of up to two rows (repeats, conflicts, bad rows) and a null key.
SmallBatches == BoundedSeq(RowChoices, 2) \cup {<<Row(NullKey, a)>>}

\* No target, one and two rows, and one that already breaks its identity.
SomeTargets == {<<>>, <<Row(k1, a)>>, <<Row(k2, a), Row(k1, b)>>, <<Row(k1, a), Row(k1, a)>>}

Check(kind, severity, partitioned, limit, relative) ==
    [id |-> "c", kind |-> kind, severity |-> severity, partitioned |-> partitioned,
     limit |-> limit, relative |-> relative]

Seen(id, partition, expected, actual) ==
    [check |-> id, partition |-> partition, expected |-> expected, actual |-> actual,
     passed |-> expected = actual]

Unasked == <<Seen("d", Whole, 2, 2)>>

\* Within and out of tolerance; missing; twice.
Scalars == {<<>>, <<Seen("c", Whole, 2, 3)>>, <<Seen("c", Whole, 2, 4)>>,
            <<Seen("c", Whole, 2, Missing)>>,
            <<Seen("c", Whole, 2, 2), Seen("c", Whole, 2, 2)>>}

\* Two partitions; one of them twice; none.
Partitions == {<<Seen("c", "p", 2, 2), Seen("c", "q", 2, 2)>>,
               <<Seen("c", "p", 2, 2), Seen("c", "p", 2, 2)>>,
               <<Seen("c", Whole, 2, 2)>>}

Policy(required, checks) == [required |-> required, accounting |-> TRUE, checks |-> checks]

Plain == Policy(TRUE, {})
Tolerant == Policy(TRUE, {Check("ROW_COUNT_MATCH", "ERROR", FALSE, 0, 50)})
ByPartition == Policy(TRUE, {Check("CHECKSUM_MATCH", "ERROR", TRUE, 0, 0)})
Warned == Policy(TRUE, {Check("UNIQUE_KEY", "WARNING", FALSE, 2, 0)})
NullRate == Policy(TRUE, {Check("NULL_RATE", "ERROR", FALSE, 3, 0)})
Custom == Policy(FALSE, {Check("CUSTOM", "ERROR", FALSE, 0, 0)})

EveryColumn == [d \in {a, b, bad} |-> d]
NoTracked == [d \in {a, b, bad} |-> a]

Guard == [requireComplete |-> TRUE, allowEmptySource |-> FALSE, allowEmptyCandidate |-> FALSE,
          maxDrop |-> NoLimit, propagateDeletes |-> FALSE, allowDeleteAll |-> FALSE,
          allowDeleteWithQuarantine |-> FALSE, maxDelete |-> NoLimit, view |-> EveryColumn]

Lax == [Guard EXCEPT !.requireComplete = FALSE, !.allowEmptySource = TRUE,
                     !.allowEmptyCandidate = TRUE, !.propagateDeletes = TRUE,
                     !.allowDeleteAll = TRUE, !.allowDeleteWithQuarantine = TRUE]

Of(kind, policy, guard, seen) ==
    [kind |-> kind, policy |-> policy, guard |-> guard, seen |-> seen]

EveryConfig ==
    {Of("APPEND", Plain, Guard, {<<>>}),
     Of("SPARK_APPEND", Tolerant, Guard, {<<Seen("c", Whole, 2, 3)>>, <<>>}),
     Of("REPLACE", ByPartition, Guard, Partitions),
     Of("REPLACE", Custom, Lax, {<<>>}),
     Of("REPLACE", Plain, [Guard EXCEPT !.maxDrop = 50], {<<>>, Unasked}),
     Of("SNAPSHOT_DIFF", Plain, [Guard EXCEPT !.propagateDeletes = TRUE, !.maxDelete = 50], {<<>>}),
     Of("SNAPSHOT_DIFF", Warned, [Lax EXCEPT !.view = NoTracked],
        {<<>>, <<Seen("c", Whole, 2, 4)>>}),
     Of("SNAPSHOT_DIFF", NullRate, [Guard EXCEPT !.propagateDeletes = TRUE], Scalars)}

Symmetry == Permutations(Runs)
===============================================================================
