# TLA+ verification of fabric-data-framework

The framework (`src/src/fabric_data_framework`, Python) runs metadata-driven
ingestion into Microsoft Fabric Lakehouses and Warehouses. It promises that a
dataset run is audited, that a failed or interrupted run can be repeated, that a
target mutation whose acknowledgement was lost is never applied twice, and that a
source position never advances past data that is not durably in the target.
These promises rest on compare-and-swap rows in a control-plane database, on
markers written in the target's own transaction, and on the order in which the
two databases are written. That is what this project models, checks with TLC and
proves with TLAPS.

## 1. Inventory

Paths are relative to `src/src/fabric_data_framework/`.

| part | state it keeps | operations | what makes it correct |
|---|---|---|---|
| **Target-operation journal** `control_plane/target_operation_journal.py`, `contracts/target_operation.py` | one row per semantic operation (status, row version, attempt), an append-only event list | claim (insert or retry), mark succeeded / unknown / not committed, reconcile a probe result | at most one attempt may execute at a time; every change is one event; stale writers lose |
| **Warehouse marker, probe and absence certifier** `recovery/fabric_warehouse.py`, `recovery/fabric_warehouse_session_absence.py`, `recovery/target_probe.py` | marker rows beside the data, target sessions | execute mutation and marker in one transaction, probe, observe session, kill, observe, read marker again | a mutation takes effect at most once; "not committed" is only said when no late commit is possible |
| **Parent dispatcher, planner and in-process backend** `orchestration/dispatcher.py`, `orchestration/planner.py`, `execution/backends/in_process.py` | the plan, outcomes, the remaining set, dataset_run and pipeline_run rows | plan, block dependents, run ready waves on a thread pool, aggregate, finalise | dependencies first, faults isolated, the reported status is honest, every dispatch ends |
| **Watermarks of the control-plane repository** `control_plane/repository.py`, `sqlalchemy_repository.py` | watermark rows with version, run rows, evidence rows | compare-and-swap a watermark, record runs, read state | a watermark never moves backwards and never skips data |
| **Dataset mutation lease** `control_plane/dataset_lease.py`, `dataset_lease_recovery.py` | at most one claim row per dataset (owner, run, review deadline), recovery events | claim by INSERT, exact-identity release, operator-governed recovery after the deadline; no renewal and no automatic takeover | one mutator per dataset |
| **Retry runtime** `recovery/runtime.py`, `contracts/recovery.py` | attempt lineage, run audits, reprocess requests | bounded attempts, failure classification, resolution of an unknown outcome | unknown outcomes are never retried blindly; the records are true of the target |
| **Pipeline recovery** `recovery/pipeline.py` | none (reads outcomes) | recommend what to run again | an ambiguous outcome is never retried automatically |
| **Current projection** `adapters/fabric/current_projection.py`, `execution/current_projection.py`, `recovery/current_projection.py`, `control_plane/current_projection_transition.py` | projection table or view, checkpoint row with version, transition events | incremental execution from the history's change feed, rebuild, transition between a Delta projection and a view | the table is never behind the checkpoint; the checkpoint starts with a rebuild; a reset hits the checkpoint it observed |
| **Quarantine governance and replay** `control_plane/quarantine_governance.py`, `recovery/replay.py`, quarantine part of `control_plane/io.py` | quarantine batches with their replay marker, review events, manual corrections | review, correct, replay, mark | one decision per status; a batch is marked only after its replay; a correction is applied only as approved |
| **Watermark to SCD2 executor** `execution/watermark_scd2.py`, `capture/watermark.py`, `apply/scd2.py` | the SCD2 target, quarantine evidence, the watermark row, the run's audit row | capture past the watermark, validate and quarantine, plan the history, reconcile, publish, commit the watermark, audit | no row is left behind, whatever step a run died at; the target is the history of what was published |
| **Batch executors** `execution/append.py`, `full_replace.py`, `snapshot_diff.py`, `execution/backends/fabric_spark_append.py`, with `apply/append.py`, `replace.py`, `snapshot_diff.py` and `adapters/fabric/append.py` | the target rows, quarantine evidence, the audit row, for Spark the lease | capture, validate, quarantine, plan under guards, reconcile, publish; Spark: MERGE under the lease, then reconcile | an identity is appended once; nothing is deleted on a guess; the audit is true |
| **Reconciliation engine** `quality/reconciliation/*.py` | none (pure) | evaluate checks over observations, gate | a check that was not observed as asked closes the gate |
| **Fabric pipeline backend and child** `execution/backends/fabric_pipeline.py`, `execution/pipeline_child.py`, `certification/fabric/fabric_job.py`, `certification/fabric/pipeline_child.py`, job part of `adapters/fabric/rest.py` | job instances, the shared dataset_run row, target and checkpoint of the child | compile, submit, poll, read the durable outcome, record; the child validates, executes, commits, audits, exits | success is proven by provider and child; the child runs what was planned; every attempt is answered |
| **Change data capture** `capture/cdc.py`, `capture/bootstrap_cdc.py`, `adapters/cdc/*.py`, `apply/cdc.py`, `apply/cdc_scd2.py` | the checkpoint row, the target, the consumer group's cursor | plan a bounded window, seek, read, normalise, apply, gate, commit checkpoint, commit offsets | no gap, no loss, no repeated effect; the target is the source at the checkpoint |
| **Approved Warehouse checks** `evidence/integration/approved/warehouse*.py`, `recovery/warehouse_fault_injection.py` | the armed fault, the driver's trace, the report | claim, arm, execute, disarm, record, probe, verify, recover the session, assess | PASS and "retry is safe" are proven; only a verified fault kills a session |
| **Integration evidence** `evidence/integration/*.py` and its approved runners | manifests on disk | run a check, validate, merge, require prerequisites | a merge never turns a failure into a pass |
| **Business-path evidence** `evidence/business_paths/*.py` | observations, reports, proof bundles | prepare, observe, run the Pipeline, clean up, evaluate | PASS means that the path did what it stands for |
| **Release readiness** `evidence/release/*.py` | proof bundles | merge, evaluate gates, certify | a release is backed for its own wheel and inputs |
| **Control-plane schema and its certification** `control_plane/schema.py`, `control_plane/certification.py`, `deployment/delivery.py` | tables, migration history, deployed metadata | migrate, probe, deploy | an interrupted migration is completed; a backend without rollback or compare-and-swap is refused |
| **Unified certification** `certification/unified_stages.py`, `simple.py`, `installed.py`, `bounded.py` | the run's checks, blockers and partial manifests | attest, bootstrap, check after check, merge, business paths, report | nothing is called unauthorised; a PASS report is true |
| Rebuild and cutover `recovery/rebuild*.py`, `recovery/target_cutover.py` | plans, staged targets | plan, impact, swap | the old target stays until the new one is proven |
| Other capture `capture/patterns.py`, `files.py`, `api.py`, `bootstrap_watermark.py` | none | compute a window | no gap at the boundary |
| Metadata, deployment, operator tooling, item adapters, CLI | configuration, artifacts | validate, package, call | mostly input validation and I/O |

How they interact. The dispatcher calls a backend per ready wave; the backend
calls one executor per dataset; an executor captures, validates, applies to the
target, and then advances the watermark or checkpoint. The lease or the
target-operation journal stands between an executor and its target. Everything durable goes through
the control-plane repository. Journal and target are different databases, so no
transaction spans them. `recovery/` is what runs after a crash, a lost
acknowledgement or a timeout. With the pipeline backend the executor is another
process that Fabric starts: parent and child share only the control plane and what
the job API tells. The certification drives all of this with a release candidate's
wheel, through the approved runners, and what it retains is what a release is
decided on.

What is hard here: attempts that interleave between a read and a
compare-and-swap; a process that dies between the target's commit and the
journal's write; a commit that completes after its client gave up; a certifier
that kills a session while that session commits; worker threads that finish in
any order; control-plane writes that fail after they took effect; dependency
chains behind a failure; a job that runs although its submission failed; a window
read again over its own rows; evidence of several runs mixed in one decision. `PROJECT.json` lists each as a hazard, at its line, with
the properties that would catch it.

## 2. Modules

| module | models |
|---|---|
| `OperationIdentity` | runs and the semantic operation each one attempts (`operation_key`) |
| `TargetOperationJournal` | the journal rows and events and the guarded writes on them |
| `FabricWarehouse` | the target: sessions, COMMIT, rollback, KILL by number, marker rows (external, from how the code uses it) |
| `WarehouseRecovery` | the composition: each attempt as a process through claim, execution, marking, probe, certification and reconciliation |
| `AtMostOnceMutation` | the abstract promise: hold, apply, release, succeed |
| `Dispatcher` | one dispatch of a parent pipeline with the in-process backend |
| `DispatcherProofs` | theorems about `Dispatcher`, checked by TLAPS |
| `DatasetLease` | the claim row of a dataset and its governed recovery |
| `CurrentProjection` | executions, rebuilds and mode transitions of one projection, over `DatasetLease` |
| `CurrentProjectionProofs` | theorems about `CurrentProjection`, checked by TLAPS |
| `WatermarkCapture` | positions, the batch a watermark selects, the compare-and-swap of a watermark row |
| `Scd2Apply` | `apply_scd2` as a fold over the ordered batch, and what it means for a target to reflect a row |
| `WatermarkScd2` | the runs of one watermark dataset, over both |
| `WatermarkScd2Proofs` | theorems about `WatermarkScd2`, checked by TLAPS |
| `RetryRuntime` | `execute_with_retry`: attempts, lineage, classification, resolution, audit, request status |
| `QuarantineGovernance` | review events, manual corrections and the case derived from them |
| `QuarantineReplay` | replay requests and reviewers over both, with the replay markers and the target |
| `QuarantineReplayProofs` | theorems about `QuarantineReplay`, checked by TLAPS |
| `WarehouseDrill` | the two approved Warehouse checks, as drivers of `WarehouseRecovery`, with the fault injector |
| `WarehouseProofs` | theorems about `WarehouseRecovery` and about its drivers, checked by TLAPS |
| `Reconciliation` | checks, observations and the gate, as operators |
| `BatchApply` | `apply_append`, `plan_replace`, `plan_snapshot_diff` and their guards, as operators |
| `BatchExecution` | runs of the four batch executors over both, and over `DatasetLease` for Spark |
| `PipelineChild` | the job instance and the child process it runs |
| `PipelineExecution` | the parent's backend, the job API and the recovery recommendation over it |
| `PipelineExecutionProofs` | theorems about `PipelineExecution`, checked by TLAPS |
| `CdcNormalize` | provider records to canonical events: order, overlap, duplicates, bootstrap handoff |
| `CdcResume` | where a replay starts and ends; the cursor of the consumer group |
| `CdcApply` | current-state and SCD2 apply of a window of events |
| `CdcStream` | one dataset's runs over all three, with a provider that produces, expires and moves its cursor |
| `CdcStreamProofs` | theorems about the checkpoint of `CdcStream`, checked by TLAPS |
| `ControlPlaneCertification` | migrations, deployment and the probes of a control-plane database |
| `IntegrationEvidence` | results, manifests, validation, merge, rerun, prerequisites |
| `ReleaseReadiness` | proof bundles, their merge and the release decision |
| `BusinessPaths` | the steps of a business path and the evaluator of its evidence |
| `UnifiedCertification` | the certification run, stage by stage, over the four modules above |
| `UnifiedCertificationProofs` | theorems about `UnifiedCertification`, checked by TLAPS |
| `MC*` | finite instances for TLC; `Dispatcher` needs none, its constants are given in the configurations |

### WarehouseRecovery and what it composes

`status`, `version` and `events` are the columns of `target_operation` and the
rows of `target_operation_event`. `WriteRow` is the pair "UPDATE or INSERT of the
row, INSERT of the event" that every journal operation performs in one
transaction. `session`, `sid`, `sent`, `markers` and `applied` are the target:
the state and number of each attempt's session, whether its COMMIT left the
client, which marker rows are committed, and how often the business mutation
took effect. `pc`, `ver`, `res`, `bind`, `bound` and `probes` are the local
variables of the attempt: its place in the code, the row version it read, the
resolution its probe returned, the session its certifier was built for.

Each read and each write of either database is a step of its own. Steps of the
target (`ServerCommit`, `SessionEnds`) are independent of the client, so a COMMIT
may complete after the client lost the connection, died, or saw the marker
absent, and it may win over a KILL under way. Any attempt may crash at any step.

Abstractions, all towards more behaviours or towards data no property tells apart:

- Identities (keys, hashes, run ids) are model values; `KeyOf` maps a run to the
  semantic operation whose key it computes. Timestamps, payload hashes and error
  texts are left out; so are the semantic-conflict checks that compare them,
  because runs of the same key carry the same intent.
- A certifier may be bound to any retained session binding of the same
  operation. The fault-stage driver uses its own run's binding, a special case.
- A session is not returned to a pool and reused by a later run.
- `reconcile_target_operation` reads the row and then performs a guarded write
  whose guard repeats the version test; the model takes both in one step.
- `mark_target_operation_succeeded` is reached from an acknowledged execution.
  The approved fault drivers lose that acknowledgement on purpose and mark
  UNKNOWN; `MarkOutcome` allows both.
- The branch of `execute_atomic` that finds a marker and executes nothing is
  modelled. The inductive invariant shows that an attempt never reaches it while
  the journal is used as written: it is a second line of defence.

### Dispatcher

`plan` is what `build_dispatch_plan` resolves: dependencies, selection, failure
policy, and the datasets of a required criticality. `Init` ranges over all of
them, cyclic and dangling graphs included. `remaining`, `outcomes` and `blocking`
are the loop's local variables, `queued`, `running`, `results` and `waveFault`
the thread pool of a wave, `rows` and `pipelineRow` the durable rows. Control-plane
writes may fail; the final one may fail after taking effect, in which case the
except branch writes FAILED over it. A crash is possible in every phase. The
outcome FAILED stands for every non-success terminal status an executor returns,
since the planner treats them alike. `execute_one_in_process` does not read the
executor's row back: that an executor returns the outcome it recorded is its contract.

### DatasetLease and CurrentProjection

`holder` is the lease row, `cp` the checkpoint row (version, committed history
version, committing run; version 0 is "no row"), `kind` and `rows` the consumer
object in the Lakehouse, and `history` the authoritative table, one entry per
Delta version. `job`, `pc`, `seen`, `up` and `event` are each run's purpose, place,
checkpoint read, frozen upper version and last transition event.

A run inside the lease resolves its window, mutates (MERGE of the affected keys,
or CREATE OR REPLACE TABLE), reads back, reconciles and commits the checkpoint.
Lease and checkpoint are in the control plane, history and target in the Lakehouse:
each statement is a step, may raise before it takes effect, and, where it writes,
also after. Any run may crash anywhere. The coordinator of a transition drops and
deploys outside the lease and takes it only for the rebuild inside, as the code does.

Abstractions:

- A row's contents are one value, so the change feed of a window is the set of keys
  whose row differs between two of its versions. Duplicates, null keys and retention
  gaps are statements that raise (`Raise`).
- The reconciliation callback passes or fails freely; a missing callback is a
  request error before anything happens.
- `OperatorRecovers` needs the run to have ended. The code takes a reference to a
  proof that the old executor cannot resume and cannot check it: a proof that is
  right is the model's assumption on the operator. The mutant `RecoverOnTimeout`
  shows what the deadline alone would admit.
- An upper version other than the latest is a parameter of the runtime
  (`RequestUpper`) that no caller in the repository uses.
- A transition between two non-Delta modes touches no checkpoint and is left out.

### WatermarkCapture, Scd2Apply and WatermarkScd2

`watermark` is the persisted `WatermarkState` (position and row version),
`target` the versions of the SCD2 table, `quarantine` the rows with durable
evidence, `audit` the status of each run's row. `run` holds the locals of
`execute_watermark_scd2`: the source rows its caller read, the watermark it read,
the batch, the position it will commit, whether it passed its gates; `proposed`
is the history it planned. `source` grows while runs are under way, also between
the caller's read of the source and the run's read of the watermark.

A run captures, records quarantine evidence (all of it, or part of it when a write
raises), plans with `apply_scd2`, reconciles, replaces the target, commits the
watermark if the position moved, and audits. `Raise` ends it between any two of
these steps. Target and watermark are different stores: a replaced target with an
uncommitted watermark is an ordinary state, and so is a compare-and-swap that
fails after the target has been replaced.

Abstractions and assumptions:

- The dataset's SCD2 event-time column is its watermark column. The tie-breaker
  grows in the order in which rows become visible, and a row is at most the
  configured overlap behind the newest one. This is what a watermark capture
  requires of a source; without it rows are skipped by design.
- A row carries one data value and whether it satisfies the validation rules. The
  row limit and the fraction limit of the quarantine policy are one number,
  `maxQuarantine`. Schema checks are among the raises. The outcome of the
  reconciliation rules other than the one-current-row rule is free.
- The configuration is chosen once and stays during a behaviour.
- `config.serialized` says whether the caller serializes the runs of a dataset. The
  executor has no lease of its own: of two overlapping runs the one that loses the
  compare-and-swap has already replaced the target with a history planned from an
  older read. `NothingSkipped`, `TargetIsReplay` and `HistoryPreserved` are
  therefore asked of serialized runs only; the other properties of both.
- `apply_scd2` compares a row with the current version only. Of two rows of one key
  and one time with different data, the second is refused when the first opened
  the current version, and otherwise opens a version of its own: `Accounted` asks
  for the later of the two.

### RetryRuntime, QuarantineGovernance and QuarantineReplay

A call `c` of `execute_with_retry` is `call[c]`: the step it is at, its attempt and the
disposition of what it caught. `request`, `lineage` and `audit` are the rows of
`reprocess_request`, `dataset_attempt_lineage` and `dataset_run`; the run id of an
attempt is the pair of call and number, as each attempt gets a fresh id and its
root and predecessor follow from the pair. `Begin` to `CloseRequest` are the
repository writes in the order of the code. Each may raise after it took effect
(`AfterWrite`), or the process may die before it (`CallDies`).

`execute_attempt` belongs to the caller. In `QuarantineReplay` it is
`execute_quarantine_replay`: `replay[c]` is its step, `prepared[c]` the payloads
it has checked. `ReadScope`, `LoadPayload` (one batch after another, the case read
anew for each), the mutation and `Mark` are separate steps, because nothing locks
what was read. `events` and `marker` are the review and marker rows, `review[v]` a
reviewer's transaction between its read and its insert.

What is abstracted, and what is assumed:

- The target is external. `MutationUnknown` puts a mutation into `inflight`;
  `TargetDecides` commits or drops it at any later time. The resolver, a callback, is
  assumed to be sound: COMMITTED only of a mutation that is there,
  NOT_COMMITTED only of one that is not and cannot come. `WarehouseRecovery`
  shows that the framework's probe and certifier give that. It may also answer
  UNRESOLVED, raise, or be absent.
- `RetryableExecutionError` means that the target was not changed; any other exception
  may come with or without an effect.
- A review transaction is its read and its insert, with other transactions in between:
  the code sets no isolation level. `mark_quarantine_replayed` is one step, since its
  updates are conditional on the marker being null and it is rolled back as a whole.
- REJECTED stands for WAIVED too. The batches are of one dataset and their evidence exists:
  refusals of malformed requests have no effect on any row and are left out.
- Every call has a request of its own and starts its chain. `initial_attempt` > 1 and
  NORMAL calls are not modelled.

### WarehouseDrill

`stage[r]` is the stage of the driver `_run_one` or `execute_approved_warehouse`,
`trace[r]` what it has observed, `fault[r]` the fault as the provider knows it and
`result[r]` what it returned. Every journal and target step of a driver *is* the action of
that name in `WarehouseRecovery`, conjoined with the driver's own bookkeeping. The
commit check claims, executes and probes; the drill also arms a fault, always
records UNKNOWN after the execution, asks the injector whether the fault fired, and
kills the bound session only when `_session_recovery_eligible` holds.

The injector is external. It may refuse to arm, arm the wrong phase, fail to disarm,
not answer, or answer with the evidence of another drill's fault on the same
operation: identities are compared, and that is what tells them apart. A driver may die at
any step and leave its fault armed. Approvals, request hashes and the wording of
reports are left out. `Evidence` takes the status from the probe's own resolution; the
journal re-reads its row after the commit and may hand over a later one, which cannot
make a PASS, as that needs the resolution COMMITTED too.

### BatchApply, Reconciliation and BatchExecution

`target` is the published rows in order, a row a key and one data value. `config`
chooses the executor, the reconciliation policy, the guards and what a provider may
report. Each run has the locals of its executor (`batch`, `evidence`, `plan`,
`observed`) and its durable `audit`; `quarantined` counts its evidence rows, and
`added` is a ghost: what the run really added.

A reference run quarantines row by row, plans, reconciles, publishes and records.
It owns its target object, so two of them do not overlap. A Spark run claims the
lease, checks the staged relation, measures which identities are already there,
MERGEs, verifies, releases and then reconciles, and a failure to record that is a FAILED
run with the measured mutations; runs of it do overlap,
and the operator recovers the claim of one that has ended. Every statement may raise
before its effect, the release after it too, and any run may die between two steps.

Abstractions: values of observations are small integers, `Missing` when the provider
gave none or not a number; a partition is one value, `Whole` without one.
Fractions are in percent. The step audits and the schema checks are left out. The Spark
stage is a temporary view that every statement evaluates anew; the relation behind it is
taken to stay as the batch resolver handed it over.

### PipelineChild and PipelineExecution

`job[a]` is the status of the job instance of attempt `a`, `cpc[a]` the place of
its child, `pc[a]` the place of the parent's thread. `audit[a]` is the one
dataset_run row that both write. `source`, `target` and `progress` count changes:
what the source has, what the target shows and the checkpoint the child commits
with it. `outcome[a]` is what the dispatcher is told, `Recommend` what the
recovery plan makes of it.

The POST may be refused, accepted, deduplicated, or accepted with its answer lost;
a poll may fail with a retriable or other error or run out of time; the reader of the
durable outcome may fail or hand over a foreign or unfinished row; a job may
wait, run, complete, fail, be cancelled or killed at any time, whatever the parent
believes. A second attempt starts on a recommendation or by hand, and its child may
run beside the first one's. The Warehouse gives a transaction a snapshot and aborts
it when another committed meanwhile (external). A configuration may be deployed
while a job waits to start.

Abstractions: one dataset; its configuration is a version number; the child's
mutation brings the target to the source it has read. The certification program is
`fabric_job.main` with its failure modes, the domain program any executor under
`execute_pipeline_child`.

### CdcNormalize, CdcResume, CdcApply and CdcStream

`log` is everything the source will emit, `avail` and `earliest` the produced
and retained part, `group` the consumer group's cursor. `checkpoint` and `version`
are the checkpoint row, `rows` or `history` the target. A run plans a window from
the checkpoint and the provider's evidence: with the group's offsets it also
decides which partitions to seek, and refuses offsets of partitions the provider does
not show. It reads the window from the planned seeks and, elsewhere, from the cursor as
it is by then (it may be lost or records may have expired meanwhile, earlier ones
may be delivered again, the client may auto-commit), normalises, applies, passes the gate, commits the checkpoint and then the group
offsets. It may crash between any two of these; `applied` is a ghost: the highest
offset that ever reached the target.

The repository has these steps as functions and leaves calling them to the
domain program; the order of the model is the one their docstrings and contracts ask
for. Assumed: runs of a dataset do not overlap; a key stays in its partition;
nothing expires from a partition before the first checkpoint covers it; payloads
are full rows. Offsets, versions and times are small integers, and a position is a
tuple compared lexicographically, as in the code.

### ControlPlaneCertification, IntegrationEvidence, ReleaseReadiness, BusinessPaths and UnifiedCertification

`c` is the state of the running certification: its stage, the checks with their
statuses, blockers, the partial manifests it holds in memory, and, in a business
path, the gate, step, observations and reports. `db` is the control-plane database,
`world` the data set of the gate under way. `shelf`, `proofs`, `issued` and `releases` are the
files that survive: manifests, proof bundles, reports, release decisions. Three
ghosts say what is so, whatever the results claim: `truth` (which checks really
held), `calls` (which state-changing calls were made) and `faults`.

One action per stage, in the code's order, each with its authorisations, missing
inputs, prerequisite checks, exceptions and files. A runner writes its manifest
before its report, so either or both may be missing. A Pipeline attempt may fail for its
caller and take effect later (`LateEffect`). The process may die anywhere,
inside a migration too (`MigrationInterrupted`). A release may be decided on the
manifests of whole runs, on one partial per check from any run, or on one proof per
gate from any run.

Abstractions and assumptions:

- One certification at a time, and the environment, domain and framework version are
  the same everywhere. A git SHA is a function of its wheel. Each gate has a data
  set of its own, which the plan file does not enforce: an effect that an earlier gate left
  pending is not carried into the next.
- Whether a gate held is asked at its final observation. The code does not wait for a
  Pipeline it gave up; an effect that lands during or after CLEANUP is outside
  `BusinessPassIsReal`.
- The attempts of a path have one plan hash by construction: the runner plans from the
  config the release pins, in RunMode.NORMAL, and raises when another is deployed.
- The semantic acceptance and the bounded probes are functions of the installed package:
  a request says whether they fail (`broken`).
- A result is its status and the execution it refers to; two results are the same
  when both agree. Hashing, report text and paths are left out.
- A request differs from a complete one in one thing or two (`MCRequests`); a database from
  a healthy one likewise. `MaxFaults` bounds failures and deviations from the intended
  outcome.
- The inside of the Warehouse runners is `WarehouseDrill`. Here they answer freely,
  and a PASS stands for what `PassIsProven` says.
- The probes write and delete rows of their own; no decision reads what a failed
  cleanup leaves.


## 3. Runs

| run | instance | asks |
|---|---|---|
| `warehouse_recovery` | 3 attempts of 1 operation, 2 session numbers, 1 probe each; 672,682 states | `AtMostOnce`; the journal's final statuses are true and stay true (`JournalIsHonest`); events replay to the row; refinement of `AtMostOnceMutation` |
| `warehouse_drill` | 2 checks of 1 operation, commit check or drill, with and without session recovery, deployed or not; 263,096 states | PASS is proven, retry eligibility is safe, only a verified and disarmed fault kills; refinement of `WarehouseRecovery` |
| `dispatch` | every graph, selection and policy over 3 datasets and an undeployed one; 2,579,191 states | dependencies first and no dataset twice (`ExecutedInOrder`), honest aggregate, isolation, every dispatch ends |
| `dispatch_chain` (violation) | 3 datasets | whether all dependents of a failure become BLOCKED |
| `projection` | 2 runs of any of the 5 jobs, 2 keys, 3 history versions; 4,881,503 states | nothing lost beside crashes and transitions, mutual exclusion, exact publication, a checkpoint starts with a rebuild |
| `watermark` | 2 runs, serialized or interleaved, 2 keys, 3 rows, 3 times, overlap 0 and 1, both quality policies; 4,183,839 states | every row handed over, success covered, monotone watermark; for serialized runs nothing skipped, target the replay of what was published, history never rewritten (`TargetIsSound`) |
| `quarantine_replay` | 2 requests with any scopes over 2 batches, 2 attempts each, 2 reviews; 1,574,077 states | one effect per call; audit, lineage and request are true (`RecordsAreHonest`); backed markers; one decision per status and only approved corrections (`GovernanceHolds`) |
| `batch_executors` | 2 runs, 8 configurations of the 4 executors, batches of up to 2 rows over 4 targets; 1,674,901 states | honest audit, fail-closed gate, append once, nothing deleted or emptied on a guess |
| `pipeline_execution` | 2 attempts, 2 changes of the source, 5 programs, 1 poll before the timeout; 535,025 states | success is proven, the child does and records what was planned, target and checkpoint move together and forward, every attempt is answered |
| `auto_retry` (violation) | 1 attempt | whether an ambiguous outcome is recommended for automatic retry |
| `cdc_stream` | 1 dataset, 2 keys, Kafka with 2 partitions and 4 records or Delta with 3 commits, both strategies, with and without bootstrap, 2 faults; 489,325 states | the target is the source at the checkpoint, replays never conflict, the checkpoint is sound |
| `certification` | 2 runs, 15 requests, 7 databases, 1 fault, any release decision; 375,172 states | releases are proven and hide nothing, PASS reports and PASS proofs are true, nothing is called unauthorised |

**Bounds.** Three attempts are the least that show the interesting race: one
attempt with a commit in flight, one that certifies its absence and reopens the
row, one that claims and executes anew, while a fourth would repeat one of these
roles. One operation suffices for at-most-once because operations share only the
session numbers, and the theorems below cover any number of operations. One probe
per attempt still gives three probes of the row, since each attempt may probe.
In the drill a second check is what probes, claims or leaves evidence beside the first;
its probe bound is one above what a driver uses.
Three datasets give chains, forks, joins and cycles of length up to three.
For the projection, one run mutates and dies or is overtaken while the other replays or
continues; three versions give a window of more than one version, in which a key
changes and changes back; two keys are the least with one inside and one outside the
affected set. Upper versions other than the latest (`RequestUpper`) are left to the
theorem `NoChangeLost`. For the watermark, two runs give one that dies or fails at
any step and one that repeats or continues; three rows give a batch of two with one
row to either side of a cut; an overlap of 1 over three times puts a row inside, at
the edge of and outside the lookback window; the second key gives a row that is late
for the dataset and not for its key. For replay, two attempts give one that is retried
and one that is the last; two calls over two batches give equal, overlapping and
disjoint scopes; two reviews are what a manual correction takes, and two that compete
for one status.
For the batch executors, two rows give repeats, conflicts and a mixture of accepted and
quarantined; each configuration turns on one guard, and each set of observations holds
one of each defect. For the pipeline, two attempts give two overlapping children; one
poll gives an answer in time or none. For CDC, three records are the least in which a key is
created, changed and deleted or created again; three checkpoint versions give a run that
crashes, one that replays and one that continues; two faults give a crash over an
expired record or a cursor that ran ahead. For the certification, two runs give a
failure and its repetition, or two candidates; two failures that coincide in one
run and cancel each other out are outside this bound; the theorems cover them.

Runs, keys, calls, batches, reviews and data values are interchangeable where a cfg
declares symmetry, and only safety properties are checked there. `dispatch` and
`pipeline_execution` check liveness and use none. Attempts, rows and requests are
bounded and a certification may end anywhere: where CHECK_DEADLOCK is FALSE, every
behaviour comes to rest.

**Fairness.** `dispatch` assumes weak fairness of the dispatcher's steps together: its
thread runs, and an executor eventually returns or raises; the framework blocks
nowhere else, as a wave ends when its pool is empty. A crash also ends a dispatch, and
is never forced. `pipeline_execution` assumes weak fairness of each parent thread
alone, and nothing of the provider or of the child: polling is bounded by the plan's
timeout, so the parent answers even when the job never moves.

### What the violation runs show

- `dispatch_chain`. With A failed, B depending on A, and C depending on B, one
  iteration blocks B but not C, because the newly blocked datasets are computed
  from the outcomes of earlier iterations. If nothing is ready then, the dispatch
  raises ORCHESTRATION_NO_PROGRESS, and C has neither outcome nor row.
  `docs/OPERATIONS.md` says that downstream dependents become BLOCKED.
- `auto_retry`. A poll that ends in a retriable HTTP error after the job was accepted
  is recorded as FAILED and retryable, and the recovery plan recommends an automatic
  RETRY while the job is queued, running or has committed. The module's docstring says
  that ambiguous writes are never converted into blind automatic retries.
  `pipeline_execution` shows what contains it: the Warehouse aborts the overtaken
  child, so target and checkpoint stay sound.

### Seen while modelling

Disagreements between code and text that the modules contain and no run is devoted to:

- The session certifier observes a session by connection id and number and kills by
  number alone; a number reused in between kills another operation's session.
  At-most-once survives it.
- A mode transition drops the projection's table outside the lease, so a running
  execution may advance the checkpoint over a dropped table. The next incremental
  run fails closed.
- A checkpoint that was reset and recreated starts at version 1 again, so a reset that
  observed the old version 1 deletes the new one.
- With an overlap, a reread row that is older than its key's current version is refused
  as late although the target reflects it; the dataset stops and nothing is lost.
- A case resolved by manual correction after a replay read it is still replayed with
  the original.
- `certification/fabric/fabric_job.py:262` formats a `dataset_id` that the dispatch
  outcome does not have: the child raises after it has persisted its outcome and its
  job ends Failed.
- `warehouse_fault_stages.py:756`: a marker that the certifier's own probe finds leaves
  the atomic result unset, so the report is a FAIL with the detail code of a success.

## 4. Theorems

`WarehouseProofs` proves, for any set of operations, runs and session
numbers and any probe bound: `TypeCorrect`, `MutationAtMostOnce`,
`SucceededHasMarker`, `NotCommittedHasNoLateCommit` (together `JournalNeverLies`),
`EventsReplay`, and `Refinement` (the composition implements `AtMostOnceMutation`).

Assumptions on constants: every run attempts one operation (`KeyOfAssumption`),
session numbers are positive (`SidsAssumption`), the probe bound is positive
(`MaxProbesAssumption`), and the "no certifier" value is not a run
(`NoRunAssumption`).

`AtMostOnce` is not inductive: it says nothing of an attempt that holds a claim
while another transaction of the same operation is open. The inductive invariant
`IInv` adds to typing:

- `FreshRuns`: an attempt that has not begun executing has no session and no
  binding;
- `OneCommitter`: per operation at most one run can still commit; it excludes a
  second claim while a transaction is open somewhere;
- `MarkedIsQuiet`: once a marker is committed no run of that operation can still
  commit; this gives at-most-once at the commit step;
- `FreeRows`: a row that is ABSENT or NOT_COMMITTED has no marker and no possible
  committer, so that a claim creates the only one;
- `MarkerCountsEffect`: the effect count is zero when no marker exists, else one;
- `CommittedClaims`: an attempt that believes in success is backed by a marker;
- `VersionsRead`: the version an attempt remembers is not ahead of the row;
- `CertifierBound`: a certifier is bound to the captured session of a run of its
  own operation;
- `Certificates`: while the row has not moved since the probe's read, the
  bound session's disappearance means that nobody can commit. It carries the
  argument across the several statements of `certify_absence`.

The proof has one lemma per group of actions with the same effect (`QuietStep`,
`MarkStep`, `ClaimStep`, `ProbeStep`, `SessionStep`). `Refinement` and
`EventsReplay` use the same invariant. `IInv` was first model-checked as an
invariant of the `warehouse_recovery` instance.

`WarehouseProofs` also proves, for any runs, operations, session numbers and approved
requests, that the approved checks implement the recovery protocol
(`DrillImplementsRecovery`). There is no invariant to find for this: each driver step is a client
step of `WarehouseRecovery` (`ExecutionDrivesRecovery`, `OutcomeDrivesRecovery`), its
crash, a step of the target, or leaves journal and target alone. Hence
`DrillAtMostOnce` and `DrillJournalNeverLies` follow from the theorems above without
being proved again. The further assumptions are that a request is a request
(`RequestsAssumption`) and that the probe bound exceeds the three probes a driver makes
(`DrillProbesAssumption`), so that the bound never decides anything.

What the checks report is proved too: `DrillPassIsProven` (`PassIsProven`),
`DrillRetryIsSafe` (`RetryEligibleIsSafe`) and `DrillKillsOnlyVerified`
(`KillOnlyVerified`). For this the invariant of the recovery protocol does not
suffice, because it knows nothing of the driver's notes. `DrillInv` adds, per run:

- `CertifiesVerified`: the certifier is entered only in the stage that a verified,
  identified and disarmed fault has opened;
- `FaultIsKnown`: what the run notes of its fault is true of the injector, and a fault
  that fired hit a COMMIT that was sent;
- `AbsenceIsFinal`: a drill that noted NOT_COMMITTED noted it of a transaction that is
  over. It must survive every step of every other run;
- `ResultIsTrue`: the result, once written.

`StepFacts` collects what no protocol step can undo (a SUCCEEDED row, a sent COMMIT, the
absence of a transaction) so that a step of one run leaves the notes of the others true;
the driver's own steps are proved in five groups by what they note. `DrillInv` was first
model-checked on the `warehouse_drill` instance.

`CurrentProjectionProofs` proves, for any runs, keys, rows, history bound and mix of
jobs: `TypeCorrect`, `MutualExclusion`, `NoChangeLost`, `NoSilentBootstrap`, and,
when runs freeze the latest version, `ExactPublication`. Assumptions on constants:
"no run" is not a run (`LeaseAssumption`), "no row" is not a row and the history bound
is positive (`ProjectionAssumption`).

`NothingLost` is not inductive: it does not say what a run that has mutated and not
yet committed may commit. `LostInv` adds to typing:

- `LeaseHeld`: a run inside the lease holds the persisted claim, so windows never overlap;
- `CheckpointKnown` and `UpperKnown`: committed and frozen versions exist in history,
  and a frozen one is not behind the run's lower one;
- `SeenKnown`: under an open window the checkpoint is the one the run read, or has
  been reset by a transition; never another one;
- `Pending`: once a run that may still commit has mutated, no key of the table is
  behind the version it will commit. For the untouched keys this follows from
  `NothingLost` at the old checkpoint and from their absence in the change feed.

`ExactInv` adds, for latest-version runs, that the table is never ahead of a frozen
window, and equals the frozen version after the mutation. All steps but five leave
history, rows and checkpoint alone; one lemma (`QuietStep`) covers those. Both
invariants were first model-checked on the instances above.

`WatermarkScd2Proofs` proves, for any keys, data, configurations
and numbers of rows and runs, serialized or not: `NoRowLeftBehind`
(`EveryRowHandedOver`), `SuccessStaysCovered` (`SuccessIsCovered`) and
`CheckpointMonotone` (`WatermarkMonotone`). The assumption on constants is
`WatermarkScd2Assumption`: the bounds are natural numbers and the configurations
are configurations.

`EveryRowHandedOver` speaks of the committed watermark only, so it says nothing of
a run about to commit. `IInv` adds to typing:

- `FreshTies`: no tie-breaker of the source exceeds its size, so that a row that
  appears later follows every row of the same time;
- the committed position and every position a run holds are those of rows of the
  source, so that nothing appears behind them by more than the overlap;
- `SnapshotOK` and `BeforeOK`: what a run read is part of the source, and the
  watermark it read is one that was committed, not ahead of the present one; with
  equal versions it is the present one;
- `BatchOK`: every row of the source outside a run's batch is selectable from the
  run's new position, or was not selectable from its old one;
- `GateOK`: a run about to commit has published, and its accepted rows and its
  quarantine evidence make up its batch.

At the commit the version test makes the run's old position the committed one, and
`BatchOK` with `GateOK` give the invariant at the new one. That `After`, a maximum
in the lexicographic order, exists and bounds the batch is proved from a minimal
counterexample in the natural numbers.

`DispatcherProofs` proves, for any datasets, dependency graph (cyclic ones included),
selection, policy and pool size: `DispatcherTypeCorrect`, `StatusIsHonest`
(`ReportedStatusIsHonest`), `DatasetFaultsAreIsolated` (`FaultsAreIsolated`) and
`OrderedExecution` (`ExecutedInOrder`). No assumption on constants beyond the module's
own is used. The status written at the end is computed from the
dispatcher's memory while the properties speak of the rows, so the invariant ties the two
at every step in between: `RemainingIsUndecided` (what remains is what has no outcome),
`OutcomeIsDurable` (an outcome in memory is in its row), `OutcomeIsCaused` and
`ExecutedWasReady` (why an outcome is what it is), `WaveIsSound` (a wave holds ready
datasets only, and loses one only with a failed future), `SuccessIsFinal` (after the
aggregation no row changes any more).

`PipelineExecutionProofs` proves, for any number of overlapping attempts, changes of the
source, programs and polls: `PipelineTypeCorrect`, `PipelineSuccessIsProven`
(`SuccessIsProven`), `PipelineChildIsFaithful` (`ChildIsFaithful`) and
`PipelineProgressIsSound` (`ProgressIsSound`). Assumptions: a program is one of the
strategies and failure modes of the certification job and an executor's failure says
yes, no or nothing about a retry (`ChildAssumption`), the poll bound is a natural number
(`ParentAssumption`). The invariant adds `JobFollowsParent` (parent, job and child advance
in step), `RanIsPlanned` and `OneSuccess` (a SUCCEEDED comes from the child's row alone),
`SuccessIsBacked` (already the child's result, before it is recorded, stands on a commit or
an empty window) and `SnapshotIsCurrent`: a transaction that nobody has overtaken read a
source at least as new as the target, which is why the Warehouse's abort of overtaken
transactions keeps progress from going back.

`QuarantineReplayProofs` proves, for any number of calls, attempts, batches and reviews:
`ReplayTypeCorrect`, `ReplayMutatesOnce` (`OneEffectPerCall`), `ReplayRecordsAreHonest`
(`RecordsAreHonest`), `ReplayMarkersAreBacked` (`MarkerIsBacked`) and `ReplayIsGoverned`
(`GovernanceHolds`). Assumption (`ReplayAssumption`): "no run" is not a run, and the name
of a correction is neither of the words "original" and "none". The invariant has, per call:
`CleanUntilMutated` (while a retry is possible, no mutation of the call is in the target or
on its way), `ScopeIsPrepared`, `SuccessIsEffective`, `AuditsAreTrue` and
`EarlierAttemptsFailed` (which audit and lineage rows there can be); and, over all of them,
`OneMutation`, `MarkerIsBacked`, `ReviewsFollow` (a validated review still follows from the
events, whatever another reviewer inserted since) and `CorrectionsGranted` (a correction
loaded before the mutation is one the case was resolved by, for good: a case is not
resolved twice, so it is still the case's correction when the mutation lands).
`CallStepPreserves` and `OthersAreSound` reduce a step to its own call. The invariant was
first model-checked on the `quarantine_replay` instance.

`CdcStreamProofs` proves, for any streams, partitions, strategies, versions and faults,
`CdcCheckpointIsSound` (`CheckpointIsSound`). Assumption (`SetupsAssumption`): a Delta table
is one partition and a snapshot has an offset in every partition. The invariant
`StreamInv`: the window names partitions of the log (`WindowIsPlanned`), the batch ends
where the window does (`BatchEndsTheWindow`), and the gate's `target_committed` stands for
the whole window in the target (`GateIsTrue`); so what the gate lets through is covered.
What normalization and apply compute of the events is not needed for this, only that
they return the upper checkpoint they were given.

`UnifiedCertificationProofs` proves, for any calls, bundles, databases and numbers of runs
and failures: `CertTypeCorrect` (`CertTypeOK`), `ReleasesAreProven` (`ReleaseIsProven`),
`ReleasesHideNothing` (`ReleaseHidesNothing`), `ReportsAreHonest` (`ReportIsHonest`),
`BusinessPassesAreReal` (`BusinessPassIsReal`) and `NothingIsUnauthorized`
(`NothingUnauthorized`). No assumption on the constants is used: `RequestsAssumption` and
`BoundsAssumption` are what TLC needs of an instance.

The properties speak of releases, reports and files; the invariant `CertInv` says what
each stage of a run must already know for them to come out true:

- `EvidenceOK`: the partials and merged manifests in memory carry a PASS only of the run
  under way (`Own`), the proofs in memory only what is backed;
- `StageOK`: past the attestation the installed package is the wheel; a live stage has
  manifest and bundle of that wheel; inside the gates the three authorizations are given
  and every required check really held in this run;
- `ChecksOK`: a tracked check that says PASS held (`TrueChecks`), and none is missing
  (`CompleteOK`): each stage has left its own check a status and each finished gate too.
  Without the second part a report could be PASS by leaving a check out;
- `PathOK`: what three snapshots say about a data set that a given-up Pipeline may still
  change. Before the first attempt nothing has landed and nothing is pending; when nothing
  has landed the state is the one observed before; a first attempt that landed has
  changed the state and leaves nothing pending. So a first observation that equals the
  one before means that nothing had landed by then (`quiet`), which is what the retry gate
  is about;
- `DiskOK`: every PASS on disk is `Backed` by a run for the same wheel and inputs in which
  it really held. Runs and truth only grow, so this survives later runs (`BackedStays`).

The merge lemmas carry the release: `MergedResult` and `ProofChosen` (a merge invents no
result), `MergeSound` (each manifest was validated against the candidate),
`MergeHidesNothing` (two different substantive results have cardinality above one, and
the merge raises) and `MergedIdentity`. `EvaluatedIsHeld` is the evaluator's correctness:
what `evaluate_business_path_evidence` accepts under `PathOK` really happened.
`NothingIsUnauthorized` needs no invariant of its own: the prerequisites a runner demands of a manifest
held in its run because that manifest is `Own`. `CertInv` was first model-checked on the
`certification` instance.

Only model-checked:

- liveness (`DispatchEnds`, `EveryAttemptAnswered`), which is outside the prover's reach;
- what rests on the result of `apply_scd2`, of the CDC folds, of the batch planners and of
  the row accounting (`TargetIsSound`, `TargetIsReplay`, `ReplayNeverConflicts`,
  `AuditIsHonest` of `BatchExecution`, `AppendOnce`, `NothingVanishes`), because that result
  is a fold over a sequence and would need induction over data;
- `GateIsFailClosed` of `BatchExecution`, whose inductive invariant has not been worked out.

## 5. Not modelled, and the plan

Not modelled because there is no state to model: SQL authentication and item
adapters, the REST client outside item jobs, command line, report and asset templates,
configuration parsing and capability tables, packaging and hashing of artifacts. The
current-projection health report and the operator's export are read-only. Sessions of a
connection pool and step audits are left out of every module.

Planned, in this order:

1. Rebuild, its impact analysis and target cutover over the lease and the checkpoints;
   the current-projection executor's apply arithmetic.
2. `initial_attempt` > 1 and NORMAL calls of the retry runtime; the assembly of a
   recovery plan into waves over the rows that `Dispatcher` leaves.
3. Ordered current-state apply, schema evolution, capture patterns, file and API windows
   and the watermark bootstrap, as operators against reference definitions.
4. The other dispatch of compiled plans (`fabric_spark_dataset.py`).
5. The theorem about `GateIsFailClosed` of `BatchExecution`.
