--------------------------- MODULE BatchExecution ---------------------------
(***************************************************************************)
(* The batch dataset executors over one target.                            *)
(*                                                                         *)
(*   APPEND, REPLACE, SNAPSHOT_DIFF   execution/append.py, full_replace.py *)
(*                                    and snapshot_diff.py: capture,       *)
(*                                    validate, quarantine, plan,          *)
(*                                    reconcile, then publish              *)
(*   SPARK_APPEND                     execution/backends/                  *)
(*                                    fabric_spark_append.py over          *)
(*                                    adapters/fabric/append.py: a MERGE   *)
(*                                    under the dataset lease, reconciled  *)
(*                                    after the mutation                   *)
(*                                                                         *)
(* A reference executor owns its target object, so its runs do not         *)
(* overlap; Spark runs do, and only the lease keeps them apart.  Rows with *)
(* data in Invalid fail the row rules.                                     *)
(***************************************************************************)
EXTENDS BatchApply, Reconciliation, DatasetLease

CONSTANTS Batches,        \* source batches: sequences of rows
          Targets,        \* targets a run may find: sequences of rows
          Invalid,        \* data the row rules reject
          Configs         \* [kind, policy (reconciliation), guard, seen], with seen
                          \*   what a provider may report: sequences of observations

VARIABLES config,         \* the dataset's configuration
          target,         \* the published rows
          pc,             \* where each run is
          batch,          \* the captured source rows
          evidence,       \* [complete, count] of the source; for Spark the
                          \*   accounted count of the incoming relation
          plan,           \* the planned, or measured, change
          observed,       \* the provider observations the gate was given
          quarantined,    \* rows recorded in quarantine
          audit,          \* the recorded dataset_run
          added           \* rows this run has added to the target, or Untouched

runVars == <<pc, batch, evidence, plan, observed, quarantined, audit, added>>
vars == <<config, target, runVars, leaseVars>>

Untouched == -1

NoAudit == [status |-> "NONE", inserted |-> 0]

IsSpark == config.kind = "SPARK_APPEND"

Valid(row) == row.data \notin Invalid

Accepted(r) == SelectSeq(batch[r], Valid)

\* A Spark batch arrives validated: its relation is the accepted rows.
Accounting(r) ==
    [read |-> Len(batch[r]), accepted |-> Len(Accepted(r)),
     quarantined |-> Len(batch[r]) - Len(Accepted(r))]

Ended == {"idle", "done", "dead"}

Init ==
    /\ config \in Configs
    /\ target \in Targets
    /\ pc = [r \in Runs |-> "idle"]
    /\ batch = [r \in Runs |-> <<>>]
    /\ evidence = [r \in Runs |-> [complete |-> FALSE, count |-> 0]]
    /\ plan = [r \in Runs |-> Refused]
    /\ observed = [r \in Runs |-> <<>>]
    /\ quarantined = [r \in Runs |-> 0]
    /\ audit = [r \in Runs |-> NoAudit]
    /\ added = [r \in Runs |-> Untouched]
    /\ LeaseInit

Goto(r, step) == pc' = [pc EXCEPT ![r] = step]

Record(r, status, inserted) ==
    /\ audit' = [audit EXCEPT ![r] = [status |-> status, inserted |-> inserted]]
    /\ Goto(r, "done")

\* The run has its batch and the evidence that came with it.
Takes(r, rows, complete, count) ==
    /\ batch' = [batch EXCEPT ![r] = rows]
    /\ evidence' = [evidence EXCEPT ![r] = [complete |-> complete, count |-> count]]

\* A snapshot's evidence must count its rows.
TakesSnapshot(r, rows, complete, count) ==
    /\ Takes(r, rows, complete, count)
    /\ IF count # Len(rows)
       THEN Record(r, "FAILED", 0)
       ELSE Goto(r, "quarantine") /\ UNCHANGED audit

StartAppend(r) ==
    /\ config.kind = "APPEND"
    /\ \E rows \in Batches : Takes(r, rows, TRUE, Len(rows))
    /\ Goto(r, "quarantine") /\ UNCHANGED audit

StartReplace(r) ==
    /\ config.kind = "REPLACE"
    /\ \E rows \in Batches, complete \in BOOLEAN : \E count \in {Len(rows), Len(rows) + 1} :
          TakesSnapshot(r, rows, complete, count)

StartDiff(r) ==
    /\ config.kind = "SNAPSHOT_DIFF"
    /\ \E rows \in Batches, complete \in BOOLEAN : \E count \in {Len(rows), Len(rows) + 1} :
          TakesSnapshot(r, rows, complete, count)

\* The resolved Spark batch; its count is the accounting's, not the relation's.
StartSpark(r) ==
    /\ IsSpark
    /\ \E rows \in Batches : \E count \in {Len(rows), Len(rows) + 1} :
          /\ \A i \in DOMAIN rows : Valid(rows[i])
          /\ Takes(r, rows, TRUE, count)
    /\ Goto(r, "acquire") /\ UNCHANGED audit

Start(r) ==
    /\ pc[r] = "idle"
    /\ IsSpark \/ \A q \in Runs : pc[q] \in Ended
    /\ StartAppend(r) \/ StartReplace(r) \/ StartDiff(r) \/ StartSpark(r)
    /\ UNCHANGED <<config, target, plan, observed, quarantined, added, leaseVars>>

\* record_quarantine, one row at a time.
Quarantine(r) ==
    /\ pc[r] = "quarantine"
    /\ quarantined[r] < Accounting(r).quarantined
    /\ quarantined' = [quarantined EXCEPT ![r] = @ + 1]
    /\ UNCHANGED <<config, target, pc, batch, evidence, plan, observed, audit, added, leaseVars>>

AppendPlan(r) == ApplyAppend(target, Accepted(r))

FullReplacePlan(r) == PlanReplace(target, Accepted(r), evidence[r], config.guard)

DiffPlan(r) ==
    PlanSnapshotDiff(target, Accepted(r), evidence[r], Accounting(r).quarantined, config.guard)

PlanFor(r) ==
    CASE config.kind = "APPEND" -> AppendPlan(r)
      [] config.kind = "REPLACE" -> FullReplacePlan(r)
      [] config.kind = "SNAPSHOT_DIFF" -> DiffPlan(r)

\* Stage the accepted rows and plan against the live target.
Plan(r) ==
    /\ pc[r] = "quarantine"
    /\ quarantined[r] = Accounting(r).quarantined
    /\ plan' = [plan EXCEPT ![r] = PlanFor(r)]
    /\ IF plan'[r].ok
       THEN Goto(r, "reconcile") /\ UNCHANGED audit
       ELSE Record(r, "FAILED", 0)
    /\ UNCHANGED <<config, target, batch, evidence, observed, quarantined, added, leaseVars>>

Gate(r, seen, base) ==
    Blocked(config.policy, Metrics(config.policy, Accounting(r), seen, base))

AppendBlocked(r, seen) == Gate(r, seen, AppendMetrics(Accounting(r), plan[r]))

ReplaceBlocked(r, seen) == Gate(r, seen, ReplaceMetrics(Accounting(r), plan[r], evidence[r]))

DiffBlocked(r, seen) == Gate(r, seen, DiffMetrics(Accounting(r), Accepted(r)))

\* _reconcile of the Spark executor, the mutation done.
SparkBlocked(r, seen) == Gate(r, seen, AppendMetrics(Accounting(r), plan[r]))

GateBlocks(r, seen) ==
    CASE config.kind = "APPEND" -> AppendBlocked(r, seen)
      [] config.kind = "SPARK_APPEND" -> SparkBlocked(r, seen)
      [] config.kind = "REPLACE" -> ReplaceBlocked(r, seen)
      [] config.kind = "SNAPSHOT_DIFF" -> DiffBlocked(r, seen)

\* The gate.  A reference run that fails it publishes nothing; a Spark run has
\* mutated already and reports what it inserted, also when recording the
\* reconciliation or the success raises into its own handler.
Reconcile(r) ==
    /\ pc[r] = "reconcile"
    /\ \/ \E seen \in config.seen :
             /\ observed' = [observed EXCEPT ![r] = seen]
             /\ IF GateBlocks(r, seen)
                THEN Record(r, "FAILED", IF IsSpark THEN plan[r].inserted ELSE 0)
                ELSE IF IsSpark
                THEN Record(r, "SUCCEEDED", plan[r].inserted)
                ELSE Goto(r, "publish") /\ UNCHANGED audit
       \/ /\ IsSpark
          /\ Record(r, "FAILED", plan[r].inserted)
          /\ UNCHANGED observed
    /\ UNCHANGED <<config, target, batch, evidence, plan, quarantined, added, leaseVars>>

\* target.replace or target.publish of the planned rows.
Publish(r) ==
    /\ pc[r] = "publish"
    /\ target' = plan[r].rows
    /\ added' = [added EXCEPT ![r] = Cardinality(KeysOf(target') \ KeysOf(target))]
    /\ Goto(r, "record")
    /\ UNCHANGED <<config, batch, evidence, plan, observed, quarantined, audit, leaseVars>>

RecordSuccess(r) ==
    /\ pc[r] = "record"
    /\ Record(r, "SUCCEEDED", plan[r].inserted)
    /\ UNCHANGED <<config, target, batch, evidence, plan, observed, quarantined, added, leaseVars>>

-----------------------------------------------------------------------------
\* FabricSparkDeltaAppendRuntime.execute.

\* A mutant: a claim held by another run is no obstacle.
AcquireAnyway(r) ==
    /\ pc[r] = "acquire"
    /\ \/ AcquireLease(r)
       \/ holder # NoRun /\ UNCHANGED leaseVars
    /\ Goto(r, "premerge")
    /\ UNCHANGED <<config, target, batch, evidence, plan, observed, quarantined, audit, added>>

\* The target table exists, then the lease is claimed; a conflict is an error.
Acquire(r) ==
    /\ pc[r] = "acquire"
    /\ \/ AcquireLease(r) /\ Goto(r, "premerge") /\ UNCHANGED audit
       \/ holder # NoRun /\ Record(r, "FAILED", 0) /\ UNCHANGED leaseVars
    /\ UNCHANGED <<config, target, batch, evidence, plan, observed, quarantined, added>>

\* The deduplicated stage is a temporary view, read anew by each statement: the
\* incoming relation is taken to stay as the batch resolver handed it over.
Stage(r) == FirstOccurrences(batch[r])

\* A row of the target joins the stage on its identity, nulls included.
Joined(r) == SelectSeq(target, LAMBDA row : row.key \in KeysOf(Stage(r)))

Inconsistent(r) == RepeatsKey(Joined(r)) \/ Conflict(ToSet(Joined(r)) \cup ToSet(Stage(r)))

\* The counts of the stage and the three guards before the MERGE.
PreMerge(r) ==
    /\ pc[r] = "premerge"
    /\ Goto(r, IF evidence[r].count # Len(batch[r]) \/ Inconsistent(r)
               THEN "failing" ELSE "measure")
    /\ UNCHANGED <<config, target, batch, evidence, plan, observed, quarantined, audit, added,
                   leaseVars>>

MeasureReplay(r) ==
    /\ pc[r] = "measure"
    /\ LET stage == Stage(r)
           replayed == Cardinality({row \in ToSet(stage) : row.key \in KeysOf(target)})
       IN  plan' = [plan EXCEPT ![r] =
                       Planned(<<>>, Len(stage) - replayed, 0, 0, replayed,
                               Len(batch[r]) - Len(stage))]
    /\ Goto(r, "merge")
    /\ UNCHANGED <<config, target, batch, evidence, observed, quarantined, audit, added, leaseVars>>

\* A mutant: a plain INSERT of the stage.
InsertStage(r) ==
    /\ pc[r] = "merge"
    /\ target' = target \o Stage(r)
    /\ added' = [added EXCEPT ![r] = Len(Stage(r))]
    /\ Goto(r, "verify")
    /\ UNCHANGED <<config, batch, evidence, plan, observed, quarantined, audit, leaseVars>>

\* MERGE ... WHEN NOT MATCHED INSERT is one Delta commit; the call may raise
\* before or after it.
Merge(r) ==
    /\ pc[r] = "merge"
    /\ \/ LET fresh == SelectSeq(Stage(r), LAMBDA row : row.key \notin KeysOf(target))
          IN  /\ target' = target \o fresh
              /\ added' = [added EXCEPT ![r] = Len(fresh)]
              /\ Goto(r, "verify") \/ Goto(r, "failing")
       \/ Goto(r, "failing") /\ UNCHANGED <<target, added>>
    /\ UNCHANGED <<config, batch, evidence, plan, observed, quarantined, audit, leaseVars>>

\* Every staged identity is present, once, with its payload.
Verify(r) ==
    /\ pc[r] = "verify"
    /\ Goto(r, IF KeysOf(Stage(r)) \subseteq KeysOf(target) /\ ~Inconsistent(r)
               THEN "release" ELSE "failing")
    /\ UNCHANGED <<config, target, batch, evidence, plan, observed, quarantined, audit, added,
                   leaseVars>>

\* Leaving the body: the claim is released, or its release fails and it stays.
\* Either failure is recorded with no mutations.
Release(r) ==
    /\ pc[r] \in {"release", "failing"}
    /\ \/ /\ ReleaseLease(r)
          /\ IF pc[r] = "release"
             THEN Goto(r, "reconcile") /\ UNCHANGED audit
             ELSE Record(r, "FAILED", 0)
       \/ Record(r, "FAILED", 0) /\ UNCHANGED leaseVars
    /\ UNCHANGED <<config, target, batch, evidence, plan, observed, quarantined, added>>

-----------------------------------------------------------------------------
\* An unexpected exception or the death of the process: nothing more happens.
Die(r) ==
    /\ pc[r] \notin Ended
    /\ Goto(r, "dead")
    /\ UNCHANGED <<config, target, batch, evidence, plan, observed, quarantined, audit, added,
                   leaseVars>>

\* The operator recovers the overdue claim of a run that has ended.
OperatorRecovers(r) ==
    /\ pc[r] \in {"done", "dead"}
    /\ RecoverLease(r)
    /\ UNCHANGED <<config, target, runVars>>

Deadline == DeadlinePasses /\ UNCHANGED <<config, target, runVars>>

RunStep(r) ==
    \/ Start(r) \/ Quarantine(r) \/ Plan(r) \/ Reconcile(r) \/ Publish(r) \/ RecordSuccess(r)
    \/ Acquire(r) \/ PreMerge(r) \/ MeasureReplay(r) \/ Merge(r) \/ Verify(r) \/ Release(r)

Next ==
    \/ \E r \in Runs : RunStep(r) \/ Die(r) \/ OperatorRecovers(r)
    \/ Deadline

Spec == Init /\ [][Next]_vars

-----------------------------------------------------------------------------
IsAppend == config.kind \in {"APPEND", "SPARK_APPEND"}

TypeOK ==
    /\ config \in Configs
    /\ \A i \in DOMAIN target : target[i] \in UNION {ToSet(b) : b \in Batches \cup Targets}
    /\ \A r \in Runs :
          /\ batch[r] \in Batches \cup {<<>>}
          /\ observed[r] \in config.seen \cup {<<>>}
          /\ quarantined[r] \in 0..Len(batch[r])
          /\ audit[r].status \in {"NONE", "SUCCEEDED", "FAILED"}
          /\ pc[r] = "idle" => audit[r] = NoAudit /\ added[r] = Untouched
    /\ LeaseTypeOK

\* An APPEND target only grows, and never by an identity it holds already:
\* two runs, a replay, a crash between MERGE and audit and a recovered claim
\* leave one row per new identity.
AppendOnce ==
    [][IsAppend =>
          /\ IsPrefix(target, target')
          /\ \A i \in (Len(target) + 1)..Len(target') :
                target'[i].key \notin KeysOf(SubSeq(target', 1, i - 1))]_vars

\* A SUCCEEDED run has every source row accounted for: the accepted ones are in
\* the target (for good, under APPEND), the others recorded in quarantine; and
\* the inserts it reports are the rows it added, measured before another run
\* could move the target.
SuccessIsAccounted ==
    \A r \in Runs : audit[r].status = "SUCCEEDED" =>
        /\ IsAppend => ToSet(Accepted(r)) \subseteq ToSet(target)
        /\ ~IsSpark => quarantined[r] = Accounting(r).quarantined
        /\ config.kind # "REPLACE" => audit[r].inserted = added[r]

\* A FAILED reference run has changed nothing; a FAILED Spark run reports only
\* inserts it really made.
FailureIsHonest ==
    \A r \in Runs : audit[r].status = "FAILED" =>
        /\ ~IsSpark => added[r] = Untouched
        /\ audit[r].inserted > 0 => added[r] = audit[r].inserted

\* The audit row of a run is true of the target and of quarantine, whether the run
\* succeeded, failed its gate, was refused the lease or died half-way.
AuditIsHonest == SuccessIsAccounted /\ FailureIsHonest

\* A row leaves a SNAPSHOT_DIFF target only when the source, complete unless
\* the policy waives it, no longer has its key: a key whose row went to
\* quarantine is not taken for deleted unless the policy says so.
DeletesAreDeduced ==
    [][config.kind = "SNAPSHOT_DIFF" =>
          \A k \in KeysOf(target) \ KeysOf(target') : \E r \in Runs :
             /\ pc[r] = "publish" /\ pc'[r] = "record"
             /\ config.guard.propagateDeletes
             /\ config.guard.requireComplete => evidence[r].complete
             /\ k \in KeysOf(batch[r]) => config.guard.allowDeleteWithQuarantine]_vars

\* No publication empties a live target unless the policy allows exactly that.
NeverEmptied ==
    [][target # <<>> /\ target' = <<>> =>
          \/ config.kind = "REPLACE" /\ config.guard.allowEmptyCandidate
          \/ config.kind = "SNAPSHOT_DIFF" /\ config.guard.allowDeleteAll]_vars

\* Nothing vanishes from a target by mistake: neither a key the source still has
\* nor, through quarantine or an empty candidate, the whole target.
NothingVanishes == DeletesAreDeduced /\ NeverEmptied

\* The gate of a required policy, said without the engine: each configured
\* check was observed, once per partition, in the shape asked for, within its
\* limits if it is an ERROR check; nothing else was observed; and the source
\* was complete where a REPLACE needs it.
GateWasMet(r) ==
    LET seen == observed[r]
        for(c) == {i \in DOMAIN seen : seen[i].check = c.id}
    IN  /\ \A i \in DOMAIN seen : \E c \in config.policy.checks : c.id = seen[i].check
        /\ \A c \in config.policy.checks :
              /\ for(c) # {}
              /\ \A i \in for(c) :
                    /\ (seen[i].partition = Whole) <=> ~c.partitioned
                    /\ \A j \in for(c) : seen[j].partition = seen[i].partition => i = j
                    /\ c.severity = "ERROR" => Accepts(c, seen[i])
        /\ config.kind = "REPLACE" => evidence[r].complete

\* No run succeeds past a required gate that was not met: a missing, repeated,
\* mis-shaped or unexpected observation closes it.
GateIsFailClosed ==
    \A r \in Runs : audit[r].status = "SUCCEEDED" /\ config.policy.required => GateWasMet(r)
=============================================================================
