--------------------------- MODULE Reconciliation ---------------------------
(***************************************************************************)
(* The reconciliation policy engine (quality/reconciliation/engine.py) and *)
(* the metrics each apply strategy adds to it.  A metric is reduced to     *)
(* what the gate reads: whether it passed and whether it blocks.           *)
(*                                                                         *)
(*   check        [id, kind, severity, partitioned, limit, relative]       *)
(*   observation  [check, partition, expected, actual, passed]             *)
(*   policy       [required, accounting, checks]                           *)
(*   accounting   [read, accepted, quarantined]                            *)
(*                                                                         *)
(* limit is the absolute tolerance, max_count or max_fraction (in percent) *)
(* of the check's kind, relative the relative tolerance in percent.        *)
(***************************************************************************)
EXTENDS Integers, Sequences

CONSTANTS Missing,        \* a value the provider did not (usably) report
          Whole           \* the partition of an unpartitioned observation

Metric(passed, blocking) == [passed |-> passed, blocking |-> blocking]

ErrorMetric == Metric(FALSE, TRUE)

Distance(x, y) == IF x < y THEN y - x ELSE x - y

\* The absolute tolerance plus the relative one, of the expected magnitude.
WithinTolerance(c, expected, actual) ==
    100 * Distance(expected, actual) <= 100 * c.limit + c.relative * Distance(expected, 0)

Accepts(c, o) ==
    CASE c.kind \in {"ROW_COUNT_MATCH", "AGGREGATE_MATCH"} ->
            /\ Missing \notin {o.expected, o.actual}
            /\ WithinTolerance(c, o.expected, o.actual)
      [] c.kind = "CHECKSUM_MATCH" ->
            Missing \notin {o.expected, o.actual} /\ o.expected = o.actual
      [] c.kind = "UNIQUE_KEY" -> o.actual # Missing /\ o.actual \in 0..c.limit
      [] c.kind = "NULL_RATE" -> o.actual # Missing /\ o.actual \in 0..100 /\ o.actual <= c.limit
      [] c.kind = "CUSTOM" -> o.passed = TRUE

ObservationsOf(c, observations) == SelectSeq(observations, LAMBDA o : o.check = c.id)

\* The keys of the observed partition are those the policy asks for.
PartitionFits(c, o) == c.partitioned <=> o.partition # Whole

\* A mutant: a check nobody observed is passed over.
CheckMetricsIfObserved(c, observations) ==
    {Metric(Accepts(c, ObservationsOf(c, observations)[i]), c.severity = "ERROR") :
        i \in DOMAIN ObservationsOf(c, observations)}

\* None at all, two for an unpartitioned check, a partition of the wrong shape
\* and a second value for the same partition are blocking whatever the severity.
CheckMetrics(c, observations) ==
    LET mine == ObservationsOf(c, observations)
        Repeats(i) == \E j \in 1..(i - 1) :
                          PartitionFits(c, mine[j]) /\ mine[j].partition = mine[i].partition
    IN  IF mine = <<>> \/ (~c.partitioned /\ Len(mine) # 1)
        THEN {ErrorMetric}
        ELSE {IF ~PartitionFits(c, mine[i]) \/ Repeats(i)
              THEN ErrorMetric
              ELSE Metric(Accepts(c, mine[i]), c.severity = "ERROR") : i \in DOMAIN mine}

AccountingMetric(a) == Metric(a.read = a.accepted + a.quarantined, TRUE)

\* evaluate_reconciliation_policy: the strategy's own metrics come first.
Metrics(policy, accounting, observations, base) ==
    base
    \cup (IF policy.accounting THEN {AccountingMetric(accounting)} ELSE {})
    \cup (IF \E i \in DOMAIN observations :
                observations[i].check \notin {c.id : c \in policy.checks}
          THEN {ErrorMetric} ELSE {})
    \cup UNION {CheckMetrics(c, observations) : c \in policy.checks}

Status(metrics) ==
    LET failed == {x \in metrics : ~x.passed}
    IN  IF \E x \in failed : x.blocking THEN "FAIL"
        ELSE IF failed # {} THEN "WARN" ELSE "PASS"

\* blocks_state_advance and status FAIL.
Blocked(policy, metrics) == policy.required /\ Status(metrics) = "FAIL"

\* reconcile_append: every accepted row is inserted, replayed or a duplicate.
AppendMetrics(accounting, plan) ==
    {Metric(plan.inserted + plan.replayed + plan.duplicates = accounting.accepted, TRUE)}

\* reconcile_full_replace.
ReplaceMetrics(accounting, plan, evidence) ==
    {Metric(evidence.count = accounting.read, TRUE),
     Metric(accounting.accepted = Len(plan.rows), TRUE),
     Metric(evidence.complete, TRUE)}

\* reconcile_snapshot_diff: the count of the candidate, not of the new target.
DiffMetrics(accounting, candidate) == {Metric(accounting.accepted = Len(candidate), TRUE)}
=============================================================================
