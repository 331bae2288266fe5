---------------------------- MODULE MCCdcStream ----------------------------
(***************************************************************************)
(* Datasets small enough for TLC.  Kafka: key 1 lives in partition 0 with  *)
(* three records, key 2 in partition 1 with one; Delta: three commits over *)
(* both keys.  The refusing policy starts with cursors left by an earlier  *)
(* consumer, one of them on a partition that shows no record yet.          *)
(***************************************************************************)
EXTENDS CdcStream

Rec(k, op, v, t) == [key |-> k, op |-> op, val |-> v, time |-> t]
Gone(k, op, t) == Rec(k, op, Deleted, t)

\* Legal histories of one key: created, read by a snapshot or updated, then changed
\* or deleted.
Deletion  == <<Rec(1, "c", 1, 1), Rec(1, "u", 2, 2), Gone(1, "d", 2)>>
Return    == <<Rec(1, "c", 1, 1), Gone(1, "d", 1), Rec(1, "c", 2, 3)>>
Tombstone == <<Rec(1, "c", 1, 1), Gone(1, "d", 2), Gone(1, "t", 2)>>
Changes   == <<Rec(1, "r", 1, 2), Rec(1, "u", 1, 2), Rec(1, "u", 2, 1)>>
EarlyBack == <<Rec(1, "c", 1, 1), Gone(1, "d", 3), Rec(1, "c", 1, 2)>>

Topics(lives) ==
    { [p \in 0..1 |-> IF p = 0 THEN a ELSE <<Rec(2, "c", 1, 1)>>] : a \in lives }

\* Only the history looks at times; ignored deletes need a delete.
Currents == Topics({Deletion, Return, Tombstone, Changes})
Histories == Topics({Deletion, Return, Changes, EarlyBack})
Deletes == Topics({Deletion, Return})
Strict == Topics({Deletion, Changes})

Ins(v) == {[type |-> "insert", val |-> v]}
Upd(v, w) == {[type |-> "update_preimage", val |-> v], [type |-> "update_postimage", val |-> w]}
Del(v) == {[type |-> "delete", val |-> v]}
Commit(t, a, b) == [time |-> t, changes |-> [k \in Keys |-> IF k = 1 THEN a ELSE b]]

Feeds == { <<Commit(1, Ins(1), Ins(1)), Commit(2, Upd(1, 2), {}), Commit(3, Del(2), Upd(1, 2))>>,
           <<Commit(1, Ins(1), {}), Commit(2, Del(1), Ins(2)), Commit(3, Ins(2), {})>>,
           <<Commit(1, {}, {}), Commit(2, Ins(1), Ins(1)), Commit(3, Ins(1) \cup Del(1), {})>> }

Tables == { [p \in {0} |-> f] : f \in Feeds }

Evidence(complete, consistent, retained, start, snapshot) ==
    [ complete_snapshot |-> complete, snapshot_consistent |-> consistent,
      stream_retained |-> retained, start |-> start, snapshot |-> snapshot ]

NoBoot == [used |-> FALSE, evidence |-> Evidence(TRUE, TRUE, TRUE, NoCheckpoint, NoCheckpoint)]

Setup(provider, strategy, delete_action, policy, log_, boot) ==
    [ provider |-> provider, strategy |-> strategy, delete_action |-> delete_action,
      policy |-> policy, log |-> log_, boot |-> boot, home |-> [k \in Keys |-> k - 1],
      cursor |-> NoCursor ]

Boots(domain, arity2) ==
    LET Pos(o) == [p \in domain |-> IF arity2 THEN <<o, MaxRowSequence>> ELSE <<o>>]
    IN {NoBoot}
       \cup {[used |-> TRUE, evidence |-> e] :
               e \in { Evidence(TRUE, TRUE, TRUE, Pos(0), Pos(0)),
                       Evidence(TRUE, TRUE, TRUE, Pos(1), Pos(0)),
                       Evidence(FALSE, TRUE, TRUE, Pos(0), Pos(0)) }}

MCSetups ==
    { Setup("DEBEZIUM", "CURRENT", "APPLY", "AS_INSERT", l, b) :
        l \in Currents, b \in Boots(0..1, FALSE) }
    \cup
    { Setup("DEBEZIUM", "CURRENT", "IGNORE", "AS_INSERT", l, b) :
        l \in Deletes, b \in Boots(0..1, FALSE) }
    \cup
    { [Setup("DEBEZIUM", "CURRENT", "ERROR", "ERROR", l, NoBoot) EXCEPT !.cursor = 0] :
        l \in Strict }
    \cup
    { Setup("DEBEZIUM", "SCD2", "APPLY", "AS_INSERT", l, b) :
        l \in Histories, b \in Boots(0..1, FALSE) }
    \cup
    { Setup("DELTA", s, "APPLY", "ERROR", l, b) :
        s \in {"CURRENT", "SCD2"}, l \in Tables, b \in Boots({0}, TRUE) }
=============================================================================
