------------------------------ MODULE CdcResume ------------------------------
(***************************************************************************)
(* Where a bounded replay starts and ends: adapters/cdc/resume.py for      *)
(* Kafka partitions and the consumer group's cursor, and                   *)
(* plan_delta_cdf_resume for Delta versions.  earliest and latest are the  *)
(* provider's inclusive evidence, committed the framework's checkpoint.    *)
(***************************************************************************)
EXTENDS Integers, Sequences, FiniteSets

NoCursor == -1               \* the group has no committed offset

Bigger(a, b) == IF a > b THEN a ELSE b

\* _parse_committed_offsets
CommittedOffsets(checkpoint) == [p \in DOMAIN checkpoint |-> checkpoint[p][1]]

\* _validate_provider_offsets: an empty partition has latest = -1 and is refused.
ProviderOffsetsError(earliest, latest) ==
    IF DOMAIN earliest = {} \/ DOMAIN earliest # DOMAIN latest THEN "evidence"
    ELSE IF \E p \in DOMAIN latest :
               latest[p] < 0 \/ earliest[p] < 0 \/ earliest[p] > latest[p] + 1
    THEN "evidence"
    ELSE ""

\* plan_debezium_kafka_resume, the checks in the code's order.
ResumeError(committed, earliest, latest, upper, allow_new) ==
    LET known == DOMAIN committed
        seen == DOMAIN latest
    IN IF ProviderOffsetsError(earliest, latest) # "" THEN "evidence"
       ELSE IF DOMAIN upper # seen \/ \E p \in seen : upper[p] < 0 \/ upper[p] > latest[p]
       THEN "upper"
       ELSE IF ~(known \subseteq seen) THEN "gap"
       ELSE IF known # {} /\ seen \ known # {} /\ ~allow_new THEN "repartition"
       ELSE IF \E p \in known : earliest[p] > committed[p] + 1 THEN "gap"
       ELSE IF \E p \in known : upper[p] < committed[p] THEN "regress"
       ELSE ""

ResumeStart(committed, earliest, p) ==
    IF p \in DOMAIN committed THEN Bigger(earliest[p], committed[p] + 1) ELSE earliest[p]

\* DebeziumKafkaPartitionResume.validate_range refuses a start that skips.
RangeIsValid(start, upper) == start <= upper + 1

PlanDebeziumResume(checkpoint, earliest, latest, upper, allow_new) ==
    LET committed == CommittedOffsets(checkpoint)
        error == ResumeError(committed, earliest, latest, upper, allow_new)
        start == [p \in DOMAIN latest |-> ResumeStart(committed, earliest, p)]
    IN [ error |-> IF error # "" THEN error
                   ELSE IF \A p \in DOMAIN latest : RangeIsValid(start[p], upper[p])
                   THEN "" ELSE "range",
         start |-> start, upper |-> upper ]

\* KafkaCursorRelation of the group's next offset to the one the framework needs
CursorRelation(current, desired) ==
    CASE current = NoCursor -> "MISSING"
      [] current # NoCursor /\ current < desired -> "BEHIND"
      [] current > desired -> "AHEAD"
      [] OTHER -> "ALIGNED"

SeekRequired(current, desired) == CursorRelation(current, desired) # "ALIGNED"

\* plan_debezium_kafka_cursor_coordination, over the group offsets observed with
\* the plan: every cursor belongs to a provider partition; the partitions to seek
\* before reading; what may be committed to the group once the checkpoint is.
CursorError(group, latest) ==
    IF \E p \in DOMAIN group \ DOMAIN latest : group[p] # NoCursor THEN "cursor" ELSE ""

SeekPartitions(group, start) == {p \in DOMAIN start : SeekRequired(group[p], start[p])}

CommitNextOffsets(upper) == [p \in DOMAIN upper |-> upper[p] + 1]

\* plan_delta_cdf_resume over versions
PlanDeltaResume(lower, earliest, latest, upper) ==
    LET error == IF earliest > latest THEN "evidence"
                 ELSE IF upper < 0 \/ upper > latest THEN "upper"
                 ELSE IF lower >= 0 /\ upper < lower THEN "regress"
                 ELSE IF lower >= 0 /\ earliest > lower + 1 THEN "gap"
                 ELSE ""
        start == IF lower < 0 THEN earliest ELSE Bigger(earliest, lower + 1)
    IN [ error |-> IF error # "" THEN error
                   ELSE IF RangeIsValid(start, upper) THEN "" ELSE "range",
         start |-> [p \in {0} |-> start], upper |-> [p \in {0} |-> upper] ]
=============================================================================
