---------------------------- MODULE CdcNormalize ----------------------------
(***************************************************************************)
(* Canonical change events: what the Debezium/Kafka and Delta Change Data  *)
(* Feed adapters make of provider records, and how a bounded window of     *)
(* events is checked, deduplicated and ordered (capture/cdc.py,            *)
(* adapters/cdc/debezium_kafka.py, adapters/cdc/delta_cdf.py,              *)
(* capture/bootstrap_cdc.py, quality/temporal.py).                         *)
(*                                                                         *)
(* A position is a tuple of naturals compared lexicographically: <<offset>>*)
(* for Kafka, <<version, row sequence>> for Delta.  A checkpoint is a      *)
(* function from partitions to inclusive positions; the empty function is  *)
(* "nothing committed".  An operator that can raise returns a record with  *)
(* an error field, "" when nothing was raised.                             *)
(***************************************************************************)
EXTENDS Integers, Sequences, FiniteSets, Functions

CONSTANTS Keys, Vals,
          MaxRowSequence     \* _MAX_COMMIT_ROW_SEQUENCE

NoCheckpoint == [p \in {} |-> <<>>]
Deleted == 0                 \* the payload of an event or row that is gone
Untouched == -1              \* an item says nothing about a key

\* Python's order on tuples of equal length.
Precedes(a, b) ==
    \E i \in 1..Len(a) : a[i] < b[i] /\ \A j \in 1..(i - 1) : a[j] = b[j]

AtOrBefore(a, b) == a = b \/ Precedes(a, b)

\* compare_source_order
SourceOrder(candidate, current) ==
    CASE Precedes(candidate, current) -> "STALE"
      [] candidate = current -> "EQUAL"
      [] OTHER -> "NEWER"

\* compare_event_time, on events that carry a time
EventTime(candidate, current) ==
    CASE candidate < current -> "EARLIER"
      [] candidate = current -> "EQUAL"
      [] OTHER -> "LATER"

----------------------------------------------------------------------------
\* Debezium records: item = [key, op, val, time]; op "t" is a tombstone.

DebeziumCheckpoint(offsets) == [p \in DOMAIN offsets |-> <<offsets[p]>>]

DebeziumEvent(p, offset, item) ==
    [ op   |-> CASE item.op \in {"c", "r"} -> "INSERT"
                 [] item.op = "u" -> "UPDATE"
                 [] item.op = "d" -> "DELETE",
      key  |-> item.key, part |-> p, pos |-> <<offset>>,
      val  |-> item.val, time |-> item.time ]

\* The records of a window: tombstones are dropped, a snapshot read is an error
\* unless the policy maps it.  records is a set of [part, offset, item].
DebeziumRecordError(r, upper, snapshot_policy) ==
    IF r.part \notin DOMAIN upper THEN "partition"
    ELSE IF r.offset > upper[r.part] THEN "beyond"
    ELSE IF r.item.op = "r" /\ snapshot_policy = "ERROR" THEN "snapshot_read"
    ELSE ""

----------------------------------------------------------------------------
\* Delta commits: item = [time, changes], changes[k] the set of [type, val].

DeltaCheckpoint(version) == [p \in {0} |-> <<version, MaxRowSequence>>]

ChangeTypes(changes) == {c.type : c \in changes}

GroupIsAmbiguous(changes) ==
    \/ \E c, d \in changes : c # d /\ c.type = d.type
    \/ ChangeTypes(changes) \notin
          {{"insert"}, {"delete"}, {"update_preimage", "update_postimage"}}

\* The row sequence of a key: its place among the keys the commit touches.
RowSequence(item, k) ==
    Cardinality({j \in Keys : item.changes[j] # {} /\ j < k})

DeltaEvent(version, item, k) ==
    LET changes == item.changes[k]
        types == ChangeTypes(changes)
        ValOf(type) == (CHOOSE c \in changes : c.type = type).val
        op == CASE types = {"insert"} -> "INSERT"
                [] types = {"delete"} -> "DELETE"
                [] OTHER -> "UPDATE"
    IN [ op |-> op, key |-> k, part |-> 0,
         pos |-> <<version, RowSequence(item, k)>>,
         val |-> CASE op = "INSERT" -> ValOf("insert")
                   [] op = "DELETE" -> Deleted
                   [] OTHER -> ValOf("update_postimage"),
         time |-> item.time ]

----------------------------------------------------------------------------
\* _validate_window
WindowIsValid(lower, upper) ==
    \A p \in DOMAIN lower : p \in DOMAIN upper /\ AtOrBefore(lower[p], upper[p])

EventBefore(d, e) ==
    d.part < e.part \/ (d.part = e.part /\ Precedes(d.pos, e.pos))

InSourceOrder(events) ==
    LET sorted[n \in 0..Cardinality(events)] ==
            IF n = 0 THEN <<>>
            ELSE LET rest == events \ Range(sorted[n - 1])
                 IN Append(sorted[n - 1],
                           CHOOSE e \in rest : \A d \in rest \ {e} : EventBefore(e, d))
    IN sorted[Cardinality(events)]

\* Mutant: overlap below the committed checkpoint is kept.
KeepOverlap(e, lower) == TRUE

AboveLower(e, lower) ==
    e.part \in DOMAIN lower => ~AtOrBefore(e.pos, lower[e.part])

\* normalize_cdc_batch.  Exact duplicates collapse in the set of events.
NormalizeCdcBatch(events, lower, upper, complete) ==
    LET accepted == {e \in events : AboveLower(e, lower)}
        error ==
            IF ~complete THEN "incomplete"
            ELSE IF ~WindowIsValid(lower, upper) THEN "window"
            ELSE IF \E d, e \in events : d # e /\ d.part = e.part /\ d.pos = e.pos
                 THEN "conflict"
            ELSE IF \E e \in events : e.part \notin DOMAIN upper THEN "partition"
            ELSE IF \E e \in events : ~AtOrBefore(e.pos, upper[e.part]) THEN "beyond"
            ELSE IF \E d, e \in accepted : d.key = e.key /\ d.part # e.part
                 THEN "moved"
            ELSE ""
    IN [ error |-> error, lower |-> lower, upper |-> upper,
         events |-> IF error = "" THEN InSourceOrder(accepted) ELSE <<>> ]

NormalizeDebezium(records, lower, uppers, complete, snapshot_policy) ==
    LET bad == {r \in records : DebeziumRecordError(r, uppers, snapshot_policy) # ""}
    IN IF bad # {}
       THEN [ error |-> DebeziumRecordError(CHOOSE r \in bad : TRUE, uppers, snapshot_policy),
              lower |-> lower, upper |-> DebeziumCheckpoint(uppers), events |-> <<>> ]
       ELSE NormalizeCdcBatch(
                {DebeziumEvent(r.part, r.offset, r.item) :
                    r \in {x \in records : x.item.op # "t"}},
                lower, DebeziumCheckpoint(uppers), complete)

NormalizeDelta(records, lower, upper_version, complete) ==
    LET groups == {g \in records \X Keys : g[1].item.changes[g[2]] # {}}
        error == IF \E r \in records : r.offset > upper_version THEN "beyond"
                 ELSE IF \E g \in groups : GroupIsAmbiguous(g[1].item.changes[g[2]])
                 THEN "ambiguous"
                 ELSE ""
    IN IF error # ""
       THEN [ error |-> error, lower |-> lower, upper |-> DeltaCheckpoint(upper_version),
              events |-> <<>> ]
       ELSE NormalizeCdcBatch({DeltaEvent(g[1].offset, g[1].item, g[2]) : g \in groups},
                              lower, DeltaCheckpoint(upper_version), complete)

----------------------------------------------------------------------------
\* plan_cdc_bootstrap: why a snapshot may not be taken as the stream's base.
BootstrapRefusal(e) ==
    IF ~e.complete_snapshot THEN "snapshot"
    ELSE IF ~e.snapshot_consistent THEN "snapshot"
    ELSE IF ~e.stream_retained THEN "stream"
    ELSE IF DOMAIN e.snapshot = {} THEN "snapshot"
    ELSE IF DOMAIN e.start # DOMAIN e.snapshot THEN "partitions"
    ELSE IF \E p \in DOMAIN e.snapshot : Precedes(e.snapshot[p], e.start[p]) THEN "stream"
    ELSE ""

\* normalize_bootstrap_cdc_batch also asks for the same partitions above.
BootstrapWindowRefusal(e, upper) ==
    IF BootstrapRefusal(e) # "" THEN BootstrapRefusal(e)
    ELSE IF DOMAIN e.snapshot # DOMAIN upper THEN "partitions"
    ELSE ""
=============================================================================
