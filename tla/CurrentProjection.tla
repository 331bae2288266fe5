-------------------------- MODULE CurrentProjection --------------------------
(***************************************************************************)
(* A DELTA_PROJECTION dataset: the current rows derived from an            *)
(* authoritative history table, kept up to date by incremental runs and    *)
(* rebuilds (adapters/fabric/current_projection.py, with the reference     *)
(* executor execution/current_projection.py) under the dataset lease, and  *)
(* replaced by mode transitions (recovery/current_projection.py), which do *)
(* not take the lease for what they drop and deploy.                       *)
(*                                                                         *)
(* The lease and the checkpoint live in the control plane, history and     *)
(* target in the Lakehouse: each statement of either is a step, any        *)
(* statement may fail, and a run may die between any two of them.          *)
(*                                                                         *)
(* history[v] is the current row of every key at Delta version v.          *)
(***************************************************************************)
EXTENDS Naturals, Sequences, DatasetLease

CONSTANTS Keys, Rows,       \* business keys and row contents
          Gone,             \* "no row for this key"
          MaxHistory,       \* bound: versions the history table may reach
          RequestUpper,     \* may callers ask for an upper version before the latest?
          Started           \* bound: the kinds of job that are started

\* One run of the executor, and mode changes: DELTA_PROJECTION to a view, a view
\* to DELTA_PROJECTION, DELTA_PROJECTION to itself.
Executions == {"incremental", "rebuild"}
Transitions == {"leave", "enter", "redeploy"}

ASSUME ProjectionAssumption ==
    /\ Gone \notin Rows
    /\ MaxHistory \in Nat \ {0}
    /\ RequestUpper \in BOOLEAN
    /\ Started \subseteq Executions \cup Transitions

VARIABLES history,          \* the authoritative history, one entry per version
          kind,             \* what the consumer object is: "none", "table" or "view"
          rows,             \* Keys -> row of the projection table
          cp,               \* the cdc_checkpoint row of the dataset
          job,              \* Runs -> what the run was started for
          pc,               \* Runs -> where it is
          seen,             \* Runs -> checkpoint row it read
          up,               \* Runs -> its frozen upper version
          event             \* Runs -> last event of its transition

dataVars == <<history, kind, rows>>
runVars == <<job, pc, seen, up, event>>
vars == <<leaseVars, dataVars, cp, runVars>>

Contents == [Keys -> Rows \cup {Gone}]
FromDelta == {"leave", "redeploy"}
ToDelta == {"enter", "redeploy"}

Ended == {"done", "failed", "crashed"}
Locked == {"window", "mutate", "verify", "reconcile", "commit", "succeed", "raise"}
TransitionPcs == {"drop", "deploy", "complete", "abort"}
Pcs == Ended \cup Locked \cup TransitionPcs \cup {"start", "acquire"}

\* version 0 is the absent row; by is committed_dataset_run_id.
NoCheckpoint == [version |-> 0, pos |-> 0, by |-> NoRun]
Checkpoints == [version : Nat, pos : Nat, by : Runs \cup {NoRun}]

\* A projection in either mode: bootstrapped at the first version, or a view.
Init ==
    /\ LeaseInit
    /\ history \in {<<c>> : c \in Contents}
    /\ \/ kind = "table" /\ cp = [version |-> 1, pos |-> 1, by |-> NoRun]
       \/ kind = "view" /\ cp = NoCheckpoint
    /\ rows = history[1]
    /\ job \in [Runs -> Started]
    /\ pc = [r \in Runs |-> "start"]
    /\ seen = [r \in Runs |-> NoCheckpoint]
    /\ up = [r \in Runs |-> 0]
    /\ event = [r \in Runs |-> "none"]

Goto(r, label) == pc' = [pc EXCEPT ![r] = label]

\* A step that only moves run r.
Move(r, label) ==
    /\ Goto(r, label)
    /\ UNCHANGED <<leaseVars, dataVars, cp, job, seen, up, event>>

\* Where a run goes whose exception leaves the executor.
Unwind(r) == IF job[r] \in Transitions THEN "abort" ELSE "failed"

-----------------------------------------------------------------------------
(* The lease around the mutation: _projection_lease *)

\* execute_incremental looks for the target first (a view counts as a table
\* there); rebuild does not.
Start(r) ==
    /\ pc[r] = "start" /\ job[r] \in Executions
    /\ Move(r, IF job[r] = "incremental" /\ kind = "none" THEN "failed" ELSE "acquire")

\* The INSERT succeeds, or raises (a conflict, or an error that may follow a
\* committed INSERT and so leave a claim behind).
Acquire(r) ==
    /\ pc[r] = "acquire"
    /\ \/ /\ AcquireLease(r) /\ Goto(r, "window")
          /\ UNCHANGED <<dataVars, cp, job, seen, up, event>>
       \/ /\ AcquireLease(r) /\ Goto(r, Unwind(r))
          /\ UNCHANGED <<dataVars, cp, job, seen, up, event>>
       \/ Move(r, Unwind(r))

\* Both exits of the context manager release the exact claim; the release may
\* fail, before or after it took effect.
Release(r) ==
    /\ pc[r] \in {"succeed", "raise"}
    /\ \/ /\ ReleaseLease(r)
          /\ \/ pc[r] = "succeed" /\ Goto(r, IF job[r] \in ToDelta THEN "complete" ELSE "done")
             \/ Goto(r, Unwind(r))
          /\ UNCHANGED <<dataVars, cp, job, seen, up, event>>
       \/ Move(r, Unwind(r))

-----------------------------------------------------------------------------
(* The mutation *)

UppersFromStaleHistory == 1..Len(history)

\* Upper versions a run may freeze: the latest, or an explicitly requested one.
Uppers == IF RequestUpper THEN 1..Len(history) ELSE {Len(history)}

\* _resolve_version_window: no incremental run without a checkpoint, no rewind;
\* an incremental run that is up to date has no work.
ResolveWindow(r) ==
    /\ pc[r] = "window"
    /\ \E u \in Uppers :
          /\ seen' = [seen EXCEPT ![r] = cp]
          /\ up' = [up EXCEPT ![r] = u]
          /\ Goto(r, IF (cp.version = 0 /\ job[r] = "incremental") \/ u < cp.pos THEN "raise"
                     ELSE IF job[r] = "incremental" /\ u = cp.pos THEN "succeed"
                     ELSE "mutate")
    /\ UNCHANGED <<leaseVars, dataVars, cp, job, event>>

AffectedSkippingFirst(r) ==
    {k \in Keys : \E v \in seen[r].pos + 1 .. up[r] : history[v][k] # history[up[r]][k]}

\* The distinct keys in the change feed of (lower, upper]: those whose row
\* differs between two versions of lower..upper.
Affected(r) ==
    {k \in Keys : \E v \in seen[r].pos .. up[r] : history[v][k] # history[up[r]][k]}

\* Keys of the target a run answers for.
Scope(r) == IF job[r] = "incremental" THEN Affected(r) ELSE Keys

\* apply_current_projection: the authoritative row of each selected key, or none.
ApplyCurrentProjection(existing, authoritative, selected) ==
    [k \in Keys |-> IF k \in selected THEN authoritative[k] ELSE existing[k]]

\* MERGE of the affected keys at the exact upper version; CREATE OR REPLACE
\* TABLE for a rebuild.  A window without affected keys touches nothing.
Mutate(r) ==
    /\ pc[r] = "mutate"
    /\ \/ /\ Scope(r) # {}
          /\ kind \in (IF job[r] = "incremental" THEN {"table"} ELSE {"none", "table"})
          /\ kind' = "table"
          /\ rows' = ApplyCurrentProjection(rows, history[up[r]], Scope(r))
          /\ \/ Goto(r, "verify") \/ Goto(r, "raise")
          /\ UNCHANGED <<leaseVars, history, cp, job, seen, up, event>>
       \/ Scope(r) = {} /\ Move(r, "reconcile")

\* The target is read back: every affected key for a MERGE, a row count for a
\* rebuild.
Verify(r) ==
    /\ pc[r] = "verify"
    /\ \/ /\ kind # "none"
          /\ job[r] = "incremental" =>
                kind = "table" /\ \A k \in Affected(r) : rows[k] = history[up[r]][k]
          /\ Move(r, "reconcile")
       \/ Move(r, "raise")

\* The reconciliation callback and StateCommitGate.
Reconcile(r) ==
    /\ pc[r] = "reconcile"
    /\ Move(r, "commit") \/ Move(r, "raise")

CommitCheckpointLastWriterWins(r) ==
    /\ pc[r] = "commit"
    /\ \/ /\ cp' = [version |-> cp.version + 1, pos |-> up[r], by |-> r]
          /\ \/ Goto(r, "succeed") \/ Goto(r, "raise")
          /\ UNCHANGED <<leaseVars, dataVars, job, seen, up, event>>
       \/ Move(r, "raise")

\* commit_cdc_checkpoint: compare-and-swap from the version read, never back;
\* the error of a lost acknowledgement may follow a committed write.
CommitCheckpoint(r) ==
    /\ pc[r] = "commit"
    /\ \/ /\ cp.version = seen[r].version /\ cp.pos <= up[r]
          /\ cp' = [version |-> cp.version + 1, pos |-> up[r], by |-> r]
          /\ \/ Goto(r, "succeed") \/ Goto(r, "raise")
          /\ UNCHANGED <<leaseVars, dataVars, job, seen, up, event>>
       \/ Move(r, "raise")

\* Any other statement under the lease raises.
Raise(r) ==
    /\ pc[r] \in {"window", "mutate"}
    /\ Move(r, "raise")

-----------------------------------------------------------------------------
(* FabricSparkProjectionTransitionCoordinator.transition *)

\* The checkpoint is read and judged, STARTED is recorded.  That write may fail,
\* before or after it took effect, outside the try block.
StartTransition(r) ==
    /\ pc[r] = "start" /\ job[r] \in Transitions
    /\ \/ /\ job[r] = "leave" => cp.version # 0
          /\ job[r] = "enter" => cp.version = 0
          /\ seen' = [seen EXCEPT ![r] = cp]
          /\ event' = [event EXCEPT ![r] = "STARTED"]
          /\ \/ Goto(r, "drop") \/ Goto(r, "failed")
          /\ UNCHANGED <<leaseVars, dataVars, cp, job, up>>
       \/ Move(r, "failed")

\* _drop_previous: DROP TABLE IF EXISTS or DROP VIEW IF EXISTS, which raise on an
\* object of the other kind.  Here and below an error may follow the effect.
DropPrevious(r) ==
    /\ pc[r] = "drop"
    /\ \/ /\ kind \in {"none", IF job[r] \in FromDelta THEN "table" ELSE "view"}
          /\ kind' = "none"
          /\ \/ Goto(r, IF job[r] \in ToDelta THEN "acquire" ELSE "deploy")
             \/ Goto(r, "abort")
          /\ UNCHANGED <<leaseVars, history, rows, cp, job, seen, up, event>>
       \/ Move(r, "abort")

\* _deploy_non_delta: CREATE OR REPLACE VIEW, which raises on a table.
DeployView(r) ==
    /\ pc[r] = "deploy"
    /\ \/ /\ kind # "table"
          /\ kind' = "view"
          /\ \/ Goto(r, "complete") \/ Goto(r, "abort")
          /\ UNCHANGED <<leaseVars, history, rows, cp, job, seen, up, event>>
       \/ Move(r, "abort")

\* The version complete_projection_transition expects: the one read at the start
\* when leaving, the one the rebuild committed otherwise.
Expected(r) == IF job[r] = "leave" THEN seen[r].version ELSE seen[r].version + 1

\* complete_projection_transition: one transaction checks the version, deletes
\* the checkpoint when leaving, and appends COMPLETED.
CompleteTransition(r) ==
    /\ pc[r] = "complete"
    /\ \/ /\ cp.version = Expected(r)
          /\ cp' = IF job[r] = "leave" THEN NoCheckpoint ELSE cp
          /\ event' = [event EXCEPT ![r] = "COMPLETED"]
          /\ \/ Goto(r, "done") \/ Goto(r, "abort")
          /\ UNCHANGED <<leaseVars, dataVars, job, seen, up>>
       \/ Move(r, "abort")

\* The except branch: FAILED is recorded, or that write fails too.
AbortTransition(r) ==
    /\ pc[r] = "abort"
    /\ event' \in {event, [event EXCEPT ![r] = "FAILED"]}
    /\ Goto(r, "failed")
    /\ UNCHANGED <<leaseVars, dataVars, cp, job, seen, up>>

-----------------------------------------------------------------------------
(* Environment *)

\* The history dataset commits another version.
CommitHistory ==
    /\ Len(history) < MaxHistory
    /\ \E c \in Contents : history' = Append(history, c)
    /\ UNCHANGED <<leaseVars, kind, rows, cp, runVars>>

Crash(r) == pc[r] \notin Ended /\ Move(r, "crashed")

RecoverOnTimeout(r) ==
    RecoverLease(r) /\ UNCHANGED <<dataVars, cp, runVars>>

\* The operator recovers a claim with proof that its executor cannot resume.
OperatorRecovers(r) ==
    /\ pc[r] \in Ended
    /\ RecoverLease(r)
    /\ UNCHANGED <<dataVars, cp, runVars>>

LeaseAges == DeadlinePasses /\ UNCHANGED <<dataVars, cp, runVars>>

RunStep(r) ==
    \/ Start(r) \/ Acquire(r) \/ Release(r) \/ ResolveWindow(r) \/ Mutate(r)
    \/ Verify(r) \/ Reconcile(r) \/ CommitCheckpoint(r) \/ Raise(r)
    \/ StartTransition(r) \/ DropPrevious(r) \/ DeployView(r)
    \/ CompleteTransition(r) \/ AbortTransition(r)

\* Every run is over, its claim recovered, and history has reached its bound.
Finished ==
    /\ \A r \in Runs : pc[r] \in Ended
    /\ holder = NoRun /\ Len(history) = MaxHistory
    /\ UNCHANGED vars

Next ==
    \/ \E r \in Runs : RunStep(r) \/ Crash(r) \/ OperatorRecovers(r)
    \/ CommitHistory \/ LeaseAges \/ Finished

Spec == Init /\ [][Next]_vars

-----------------------------------------------------------------------------
TypeOK ==
    /\ LeaseTypeOK
    /\ history \in Seq(Contents) /\ Len(history) \in 1..MaxHistory
    /\ kind \in {"none", "table", "view"} /\ rows \in Contents
    /\ cp \in Checkpoints /\ job \in [Runs -> Started] /\ pc \in [Runs -> Pcs]
    /\ seen \in [Runs -> Checkpoints] /\ up \in [Runs -> 0..MaxHistory]
    /\ event \in [Runs -> {"none", "STARTED", "FAILED", "COMPLETED"}]
    /\ \A r \in Runs : pc[r] \in TransitionPcs => job[r] \in Transitions

\* Row x of key k is the authoritative one of some version from..to.
AsOf(k, x, from, to) == \E v \in from..to : x = history[v][k]

(***************************************************************************)
(* No committed change is lost: with the checkpoint at version p, every    *)
(* key of the projection table holds its authoritative row of version p or *)
(* of a later one, however many runs crashed or failed between their MERGE *)
(* and their checkpoint and whatever transitions ran beside them           *)
(* (_load_affected_keys resumes at p + 1 and never looks back).            *)
(***************************************************************************)
NothingLost ==
    cp.version # 0 /\ kind = "table" =>
        \A k \in Keys : AsOf(k, rows[k], cp.pos, Len(history))

(***************************************************************************)
(* Mutual exclusion of mutation and checkpoint: of the runs between        *)
(* acquiring and releasing the lease at most one is alive, across failed   *)
(* acquisitions and releases, crashes and recoveries                       *)
(* (acquire_dataset_lease, recover_abandoned_dataset_lease).               *)
(***************************************************************************)
OneMutator ==
    \A r, q \in Runs : pc[r] \in Locked /\ pc[q] \in Locked => r = q

(***************************************************************************)
(* A checkpoint commit publishes exactly one version: if the projection    *)
(* table is still there, it equals the authoritative history at the        *)
(* committed version on every key, also on the keys the run did not touch  *)
(* (_reconcile_and_commit verifies the affected keys only).                *)
(***************************************************************************)
CommitsExactVersion ==
    [][cp'.version > cp.version /\ kind = "table" => rows = history[cp'.pos]]_vars

(***************************************************************************)
(* "An absent projection checkpoint is not permission to start": a         *)
(* checkpoint comes into being by a full rebuild only, even when a         *)
(* transition deletes it between an incremental run's read and its commit  *)
(* (_resolve_version_window, commit_cdc_checkpoint).                       *)
(***************************************************************************)
BootstrapIsRebuild ==
    [][cp.version = 0 /\ cp'.version # 0 => job[cp'.by] # "incremental"]_vars
=============================================================================
