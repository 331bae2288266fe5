----------------------------- MODULE Dispatcher -----------------------------
(***************************************************************************)
(* One dispatch of a parent pipeline                                       *)
(* (orchestration/dispatcher.py, dispatch_datasets_with_backend) over a    *)
(* plan (orchestration/planner.py) and the in-process ready-wave backend   *)
(* (execution/backends/in_process.py): the dependency waves, the thread    *)
(* pool of a wave, the dataset fault boundary, the blocked datasets, the   *)
(* final aggregation and every control-plane write, each of which may      *)
(* fail; the process may die at any step.                                  *)
(*                                                                         *)
(* "FAILED" as an outcome stands for every terminal status other than      *)
(* SUCCEEDED that an executor may return: the planner treats them alike.   *)
(***************************************************************************)
EXTENDS Naturals, FiniteSets

CONSTANTS Datasets,         \* dataset ids that configurations may name
          Deployed,         \* the deployed ones
          MaxConcurrency    \* plan.max_concurrency

ASSUME DispatcherAssumption ==
    /\ Deployed \subseteq Datasets /\ IsFiniteSet(Datasets)
    /\ MaxConcurrency \in Nat \ {0}

VARIABLES plan,             \* what build_dispatch_plan resolves, fixed for the run
          phase,            \* where the dispatcher is
          remaining,        \* selected datasets without an outcome
          outcomes,         \* Deployed -> outcome known to the dispatcher
          blocking,         \* newly_blocked, still to be recorded
          queued, running,  \* the wave: submitted to the pool, being executed
          results,          \* Deployed -> the wave's outcomes so far
          waveFault,        \* a worker's future holds an exception
          executed,         \* datasets an executor was called for
          rows,             \* Deployed -> status of the durable dataset_run row
          pipelineRow,      \* status of the durable pipeline_run row
          error             \* the error the dispatch ends with

waveVars == <<queued, running, results, waveFault, executed>>
vars == <<plan, phase, remaining, outcomes, blocking, waveVars, rows,
          pipelineRow, error>>

Outcomes == {"none", "SUCCEEDED", "FAILED", "BLOCKED"}
PipelineStatuses == {"none", "RUNNING", "SUCCESS", "FAILED", "PARTIAL_SUCCESS"}
EndPhases == {"returned", "raised", "crashed"}
Phases == EndPhases \cup {"planning", "scan", "blocking", "wave", "aggregate", "failing"}

Plans == [deps : [Deployed -> SUBSET Datasets], selected : SUBSET Deployed,
          policy : {"FAIL_AT_END", "CRITICALITY"}, required : SUBSET Deployed]

Init ==
    /\ plan \in {p \in Plans : p.policy = "FAIL_AT_END" => p.required = {}}
    /\ phase = "planning" /\ error = "none"
    /\ remaining = {} /\ blocking = {} /\ executed = {}
    /\ queued = {} /\ running = {} /\ waveFault = FALSE
    /\ outcomes = [d \in Deployed |-> "none"]
    /\ results = [d \in Deployed |-> "none"]
    /\ rows = [d \in Deployed |-> "none"]
    /\ pipelineRow = "none"

-----------------------------------------------------------------------------
(* orchestration/planner.py *)

\* _validate_dependency_graph: an undeployed dependency, or a cycle (a
\* non-empty set of selected datasets each depending on another of the set).
Unschedulable ==
    \/ \E d \in plan.selected : ~(plan.deps[d] \subseteq Deployed)
    \/ \E S \in SUBSET plan.selected : S # {} /\ \A d \in S : plan.deps[d] \cap S # {}

BlockersUndecidedToo(d) == {p \in plan.deps[d] : outcomes[p] # "SUCCEEDED"}

\* blocking_dependencies: unselected, or with a non-success outcome.
Blockers(d) ==
    {p \in plan.deps[d] :
        p \notin plan.selected \/ outcomes[p] \notin {"none", "SUCCEEDED"}}

ReadyOnceDecided(d) == \A p \in plan.deps[d] : outcomes[p] # "none"

Ready(d) == \A p \in plan.deps[d] : outcomes[p] = "SUCCEEDED"

\* ready_dataset_ids.
ReadyIds == {d \in remaining : Ready(d)}

AggregateAnySuccess(final) ==
    LET failed == {d \in Deployed : outcomes[d] \notin {"none", "SUCCEEDED"}}
    IN  final = IF failed = {} \/ failed # plan.selected THEN "SUCCESS" ELSE "FAILED"

\* aggregate_pipeline_status over the outcomes the dispatcher holds.
Aggregate(final) ==
    LET failed == {d \in Deployed : outcomes[d] \notin {"none", "SUCCEEDED"}}
    IN  final = IF failed = {} THEN "SUCCESS"
                ELSE IF plan.policy = "FAIL_AT_END" \/ failed \cap plan.required # {}
                THEN "FAILED" ELSE "PARTIAL_SUCCESS"

-----------------------------------------------------------------------------
(* dispatch_datasets_with_backend *)

\* The except branches: remember the error, go and record FAILED.
Fail(code) ==
    /\ phase' = "failing" /\ error' = code
    /\ UNCHANGED <<plan, remaining, outcomes, blocking, waveVars, rows, pipelineRow>>

\* build_dispatch_plan raises: FAILED is recorded, or that write fails too; the
\* exception propagates either way.
PlanRejected ==
    /\ phase = "planning" /\ Unschedulable
    /\ pipelineRow' \in {"none", "FAILED"}
    /\ phase' = "raised" /\ error' = "ORCHESTRATION_INTEGRITY_ERROR"
    /\ UNCHANGED <<plan, remaining, outcomes, blocking, waveVars, rows>>

\* The plan is accepted and RUNNING recorded; a failure of that write is
\* outside the try block.
PlanAccepted ==
    /\ phase = "planning" /\ ~Unschedulable
    /\ \/ /\ pipelineRow' = "RUNNING" /\ phase' = "scan" /\ error' = error
          /\ remaining' = plan.selected
       \/ /\ pipelineRow' = "none" /\ phase' = "raised" /\ error' = "CONTROL_PLANE"
          /\ remaining' = remaining
    /\ UNCHANGED <<plan, outcomes, blocking, waveVars, rows>>

\* The head of the while loop: newly_blocked is computed from the outcomes of
\* earlier iterations, before any of them is recorded.
Scan ==
    /\ phase = "scan"
    /\ blocking' = {d \in remaining : Blockers(d) # {}}
    /\ phase' = IF remaining = {} THEN "aggregate" ELSE "blocking"
    /\ UNCHANGED <<plan, remaining, outcomes, waveVars, rows, pipelineRow, error>>

\* _record_blocked_dataset for one of them; the write may fail.
RecordBlocked(d) ==
    /\ phase = "blocking" /\ d \in blocking
    /\ \/ /\ rows' = [rows EXCEPT ![d] = "BLOCKED"]
          /\ outcomes' = [outcomes EXCEPT ![d] = "BLOCKED"]
          /\ remaining' = remaining \ {d}
          /\ blocking' = blocking \ {d}
          /\ UNCHANGED <<plan, phase, waveVars, pipelineRow, error>>
       \/ Fail("CONTROL_PLANE")

\* ready_dataset_ids, and the wave is handed to the backend.
SubmitWave ==
    /\ phase = "blocking" /\ blocking = {}
    /\ \/ /\ ReadyIds # {}
          /\ phase' = "wave" /\ queued' = ReadyIds
          /\ results' = [d \in Deployed |-> "none"] /\ waveFault' = FALSE
          /\ UNCHANGED <<plan, remaining, outcomes, blocking, running, executed,
                         rows, pipelineRow, error>>
       \/ ReadyIds = {} /\ remaining # {} /\ Fail("ORCHESTRATION_NO_PROGRESS")
       \/ /\ ReadyIds = {} /\ remaining = {} /\ phase' = "aggregate"
          /\ UNCHANGED <<plan, remaining, outcomes, blocking, waveVars, rows,
                         pipelineRow, error>>

\* A pool thread takes a submitted dataset and calls its executor.
StartExecutor(d) ==
    /\ phase = "wave" /\ d \in queued /\ Cardinality(running) < MaxConcurrency
    /\ queued' = queued \ {d} /\ running' = running \cup {d}
    /\ executed' = executed \cup {d}
    /\ UNCHANGED <<plan, phase, remaining, outcomes, blocking, results, waveFault,
                   rows, pipelineRow, error>>

\* execute_one_in_process returns the executor's terminal outcome, or turns any
\* exception into an audited FAILED outcome.  It does not read the executor's row
\* back: that the outcome returned is the outcome recorded is the executor's part.
FinishExecutor(d) ==
    /\ phase = "wave" /\ d \in running
    /\ \E o \in {"SUCCEEDED", "FAILED"} :
          /\ results' = [results EXCEPT ![d] = o]
          /\ rows' = [rows EXCEPT ![d] = o]
    /\ running' = running \ {d}
    /\ UNCHANGED <<plan, phase, remaining, outcomes, blocking, queued, waveFault,
                   executed, pipelineRow, error>>

\* The audit write of the fault boundary fails as well: the exception reaches
\* future.result().
FutureFails(d) ==
    /\ phase = "wave" /\ d \in running
    /\ running' = running \ {d} /\ waveFault' = TRUE
    /\ UNCHANGED <<plan, phase, remaining, outcomes, blocking, queued, results,
                   executed, rows, pipelineRow, error>>

WaveReturnsKeepingRemaining ==
    /\ phase = "wave" /\ queued = {} /\ running = {}
    /\ IF waveFault THEN Fail("BACKEND_READY_WAVE_FAILED")
       ELSE /\ outcomes' = [d \in Deployed |->
                              IF results[d] = "none" THEN outcomes[d] ELSE results[d]]
            /\ phase' = "scan"
            /\ UNCHANGED <<plan, remaining, blocking, waveVars, rows, pipelineRow, error>>

\* The backend returns once the pool is shut down; an exception of any future
\* drops every outcome of the wave.
WaveReturns ==
    /\ phase = "wave" /\ queued = {} /\ running = {}
    /\ IF waveFault THEN Fail("BACKEND_READY_WAVE_FAILED")
       ELSE /\ outcomes' = [d \in Deployed |->
                              IF results[d] = "none" THEN outcomes[d] ELSE results[d]]
            /\ remaining' = {d \in remaining : results[d] = "none"}
            /\ phase' = "scan"
            /\ UNCHANGED <<plan, blocking, waveVars, rows, pipelineRow, error>>

\* A backend other than the in-process one answers the wrong set of datasets.
InvalidWaveResult ==
    /\ phase = "wave" /\ queued = {} /\ running = {}
    /\ Fail("INVALID_READY_WAVE_RESULT")

\* The final record_pipeline_run; a failing write may or may not have reached
\* the database.
Finalize ==
    /\ phase = "aggregate"
    /\ \E final \in PipelineStatuses : Aggregate(final) /\
          \/ /\ pipelineRow' = final /\ phase' = "returned" /\ error' = error
          \/ /\ pipelineRow' \in {final, pipelineRow}
             /\ phase' = "failing" /\ error' = "CONTROL_PLANE"
    /\ UNCHANGED <<plan, remaining, outcomes, blocking, waveVars, rows>>

\* The outer except: _record_failed_pipeline, or PipelineFinalizationError.
RecordFailed ==
    /\ phase = "failing"
    /\ pipelineRow' \in {"FAILED", pipelineRow}
    /\ phase' = "raised"
    /\ UNCHANGED <<plan, remaining, outcomes, blocking, waveVars, rows, error>>

\* The process dies, its worker threads with it.
Crash ==
    /\ phase \notin EndPhases
    /\ phase' = "crashed" /\ running' = {} /\ queued' = {}
    /\ UNCHANGED <<plan, remaining, outcomes, blocking, results, waveFault, executed,
                   rows, pipelineRow, error>>

Step ==
    \/ PlanRejected \/ PlanAccepted \/ Scan \/ SubmitWave \/ WaveReturns
    \/ InvalidWaveResult \/ Finalize \/ RecordFailed
    \/ \E d \in Deployed : RecordBlocked(d) \/ StartExecutor(d)
                             \/ FinishExecutor(d) \/ FutureFails(d)

\* The dispatch is over.
Finished == phase \in EndPhases /\ UNCHANGED vars

Next == Step \/ Crash \/ Finished

Spec == Init /\ [][Next]_vars

\* The dispatcher thread is never blocked by the framework itself, and an
\* executor returns or raises.
FairSpec == Spec /\ WF_vars(Step)

-----------------------------------------------------------------------------
TypeOK ==
    /\ plan \in Plans /\ phase \in Phases
    /\ remaining \subseteq plan.selected /\ blocking \subseteq remaining
    /\ queued \subseteq remaining /\ running \subseteq remaining
    /\ queued \cap running = {}
    /\ outcomes \in [Deployed -> Outcomes] /\ results \in [Deployed -> Outcomes]
    /\ rows \in [Deployed -> Outcomes] /\ executed \subseteq plan.selected
    /\ waveFault \in BOOLEAN /\ pipelineRow \in PipelineStatuses

(***************************************************************************)
(* An executor is called only for a dataset all of whose dependencies were *)
(* executed in this dispatch and durably succeeded, whatever the order in  *)
(* which the threads of earlier waves finished (ready_dataset_ids,         *)
(* execute_ready_wave).                                                    *)
(***************************************************************************)
DependenciesFirst ==
    \A d \in executed : \A p \in plan.deps[d] : p \in executed /\ rows[p] = "SUCCEEDED"

(***************************************************************************)
(* The parent's durable status never hides an incomplete batch: SUCCESS    *)
(* only if every selected dataset durably succeeded, PARTIAL_SUCCESS only  *)
(* if every selected dataset of a required criticality did                 *)
(* (aggregate_pipeline_status, which looks at the outcomes it is given and *)
(* not at the selection).                                                  *)
(***************************************************************************)
ReportedStatusIsHonest ==
    /\ pipelineRow = "SUCCESS" => \A d \in plan.selected : rows[d] = "SUCCEEDED"
    /\ pipelineRow = "PARTIAL_SUCCESS" =>
          \A d \in plan.selected \cap plan.required : rows[d] = "SUCCEEDED"

(***************************************************************************)
(* Dataset faults are isolated: when a dispatch returns, the executors     *)
(* called are exactly those of the datasets whose dependencies all         *)
(* succeeded, and every other selected dataset is durably BLOCKED          *)
(* (the while loop of dispatch_datasets_with_backend).                     *)
(***************************************************************************)
FaultsAreIsolated ==
    phase = "returned" =>
        \A d \in plan.selected :
            IF \A p \in plan.deps[d] : p \in plan.selected /\ rows[p] = "SUCCEEDED"
              THEN d \in executed /\ rows[d] \in {"SUCCEEDED", "FAILED"}
              ELSE d \notin executed /\ rows[d] = "BLOCKED"

(***************************************************************************)
(* Executors are called in dependency order, and none twice in a dispatch, *)
(* although the loop selects waves again and again and their threads       *)
(* finish in any order (remaining.difference_update).                      *)
(***************************************************************************)
ExecutedInOrder ==
    [][/\ DependenciesFirst'
       /\ \A d \in Deployed : d \in running' \ running => d \notin executed]_vars

(***************************************************************************)
(* Every dispatch ends: each iteration of the while loop gives an outcome  *)
(* to at least one remaining dataset or raises.                            *)
(***************************************************************************)
DispatchEnds == <>(phase \in EndPhases)

(***************************************************************************)
(* "downstream dependents BLOCKED -> all runnable work reaches terminal    *)
(* state" (docs/OPERATIONS.md): a dispatch of an accepted plan that        *)
(* selects its own dependencies, and that met no fault of the control      *)
(* plane or of the backend, ends with an outcome for every selected        *)
(* dataset.                                                                *)
(***************************************************************************)
DependentsAreBlocked ==
    /\ phase \in {"returned", "raised"}
    /\ error \in {"none", "ORCHESTRATION_NO_PROGRESS"}
    /\ \A d \in plan.selected : plan.deps[d] \subseteq plan.selected
    => \A d \in plan.selected : outcomes[d] # "none"
=============================================================================
