-------------------------- MODULE PipelineExecution --------------------------
(***************************************************************************)
(* Attempts at one dataset through a Fabric pipeline: the parent's backend *)
(* (execution/backends/fabric_pipeline.py) over the REST job API           *)
(* (adapters/fabric/rest.py, pipeline.py), the child of PipelineChild, and *)
(* the recovery recommendation (recovery/pipeline.py) the next attempt is  *)
(* decided on.  Parent and child write the same dataset_run row, the       *)
(* parent without looking at what the child has written.                   *)
(***************************************************************************)
EXTENDS PipelineChild

CONSTANTS MaxPolls,       \* polls that fit before the plan's timeout
          HttpRetry       \* what an HTTP error may say of retrying

ASSUME ParentAssumption == MaxPolls \in Nat /\ HttpRetry \subseteq Retries

VARIABLES pc,             \* where the parent thread of each attempt is
          planned,        \* configuration version of the compiled plan
          polls,          \* polls done
          pending,        \* the failure about to be recorded
          audit,          \* the durable dataset_run row
          outcome         \* what the dispatcher was told

parentVars == <<pc, planned, polls, pending, audit, outcome>>
vars == <<program, deployed, warehouseVars, childVars, parentVars>>

Init ==
    /\ ChildInit
    /\ pc = [a \in Attempts |-> "idle"]
    /\ planned = [a \in Attempts |-> 0]
    /\ polls = [a \in Attempts |-> 0]
    /\ pending = [a \in Attempts |-> NoAnswer]
    /\ audit = [a \in Attempts |-> NoAnswer]
    /\ outcome = [a \in Attempts |-> NoAnswer]

Goto(a, step) == pc' = [pc EXCEPT ![a] = step]

Fails(a, status, code, retry) ==
    /\ pending' = [pending EXCEPT ![a] = Answer(status, code, retry)]
    /\ Goto(a, "record")

\* recommend_dataset_recovery, first match.
Recommend(o) ==
    CASE o.status = "SUCCEEDED" -> "NONE"
      [] o.status # "SUCCEEDED" /\ o.code = "UNKNOWN_COMMIT" -> "RECONCILE_UNKNOWN_OUTCOME"
      [] o.status # "SUCCEEDED" /\ o.code = "DATA_QUALITY" -> "FIX_DATA_AND_RETRY"
      [] o.status # "SUCCEEDED" /\ o.code = "RECONCILIATION_FAILED" ->
            "INVESTIGATE_RECONCILIATION"
      [] o.status = "BLOCKED" -> "RETRY_AFTER_DEPENDENCY"
      [] o.status = "CANCELLED" -> "MANUAL_INVESTIGATION"
      [] o.status = "FAILED" /\ o.code = "FABRIC_PIPELINE_BINDING_ERROR" -> "FIX_CONFIGURATION"
      [] OTHER -> IF o.retry = "yes" THEN "RETRY" ELSE "MANUAL_INVESTIGATION"

\* The next attempt follows a failed one, on its recommendation or by hand.
MayStart(a) ==
    \A p \in Attempts : p = a - 1 => outcome[p].status \notin {"NONE", "SUCCEEDED"}

\* Compile the plan and resolve the binding.
Prepare(a) ==
    /\ pc[a] = "idle" /\ MayStart(a)
    /\ \/ Fails(a, "FAILED", "FABRIC_PIPELINE_PLAN_ERROR", "no") /\ UNCHANGED planned
       \/ Fails(a, "FAILED", "FABRIC_PIPELINE_BINDING_ERROR", "no") /\ UNCHANGED planned
       \/ /\ planned' = [planned EXCEPT ![a] = deployed]
          /\ Goto(a, "post")
          /\ UNCHANGED pending
    /\ UNCHANGED <<program, deployed, warehouseVars, childVars, polls, audit, outcome>>

\* POST of the job.  It may be refused, or be accepted and its answer (or its
\* Location) lost; an instance may be a duplicate the provider drops.
Post(a) ==
    /\ pc[a] = "post"
    /\ \/ /\ \E status \in {"NotStarted", "Deduped"} : job' = [job EXCEPT ![a] = status]
          /\ Goto(a, "poll")
          /\ UNCHANGED pending
       \/ \E retry \in HttpRetry :
             Fails(a, "FAILED", "FABRIC_REST_ERROR", retry) /\ UNCHANGED job
       \/ /\ job' = [job EXCEPT ![a] = "NotStarted"]
          /\ Fails(a, "FAILED", "FABRIC_REST_ERROR", "unknown")
    /\ UNCHANGED <<program, deployed, warehouseVars, cpc, snapshot, result, ran, wrote,
                   planned, polls, audit, outcome>>

\* A mutant: a deduplicated instance counts as executed.
ClassifyDeduped(a) ==
    IF job[a] \in {"Completed", "Deduped"}
    THEN /\ outcome' = [outcome EXCEPT ![a] = Succeeded]
         /\ Goto(a, "done") /\ UNCHANGED pending
    ELSE Fails(a, "FAILED", "FABRIC_PIPELINE_FAILED", "unknown") /\ UNCHANGED outcome

\* The provider's terminal status; only COMPLETED goes on to the outcome.
Classify(a) ==
    /\ CASE job[a] = "Deduped" -> Fails(a, "BLOCKED", "FABRIC_PIPELINE_DEDUPED", "yes")
         [] job[a] = "Cancelled" ->
               Fails(a, "CANCELLED", "FABRIC_PIPELINE_CANCELLED", "unknown")
         [] job[a] = "Failed" -> Fails(a, "FAILED", "FABRIC_PIPELINE_FAILED", "unknown")
         [] job[a] = "Completed" -> Goto(a, "read") /\ UNCHANGED pending
    /\ UNCHANGED outcome

\* A mutant: the deadline of the wait is not looked at.
PollForever(a) ==
    /\ pc[a] = "poll"
    /\ IF job[a] \in TerminalJob
       THEN Classify(a) /\ UNCHANGED polls
       ELSE /\ polls' = [polls EXCEPT ![a] = (@ + 1) % (MaxPolls + 1)]
            /\ UNCHANGED <<pc, pending, outcome>>
    /\ UNCHANGED <<program, deployed, warehouseVars, childVars, planned, audit>>

\* One round of _wait_for_item_job: the deadline first, then a GET, whose
\* answer may be an error or of another instance.
Poll(a) ==
    /\ pc[a] = "poll"
    /\ \/ /\ polls[a] = MaxPolls
          /\ polls' = [polls EXCEPT ![a] = 0]
          /\ Fails(a, "FAILED", "FABRIC_REST_ERROR", "unknown")
          /\ UNCHANGED outcome
       \/ /\ polls[a] < MaxPolls /\ job[a] \in TerminalJob
          /\ polls' = [polls EXCEPT ![a] = 0]
          /\ Classify(a)
       \/ /\ polls[a] < MaxPolls /\ job[a] \notin TerminalJob
          /\ polls' = [polls EXCEPT ![a] = @ + 1]
          /\ UNCHANGED <<pc, pending, outcome>>
       \/ /\ polls[a] < MaxPolls
          /\ polls' = [polls EXCEPT ![a] = 0]
          /\ \E retry \in HttpRetry : Fails(a, "FAILED", "FABRIC_REST_ERROR", retry)
          /\ UNCHANGED outcome
    /\ UNCHANGED <<program, deployed, warehouseVars, childVars, planned, audit>>

\* The durable outcome of exactly this dataset_run_id.  The injected reader may
\* fail, or hand over another run's row or a row that is not terminal.
ReadOutcome(a) ==
    /\ pc[a] = "read"
    /\ \/ /\ audit[a] = NoAnswer
          /\ Fails(a, "FAILED", "FABRIC_PIPELINE_RESULT_MISSING", "unknown")
          /\ UNCHANGED outcome
       \/ /\ audit[a] # NoAnswer
          /\ outcome' = [outcome EXCEPT ![a] = audit[a]]
          /\ Goto(a, "done")
          /\ UNCHANGED pending
       \/ /\ \E code \in {"FABRIC_PIPELINE_OUTCOME_READ_ERROR", "FABRIC_PIPELINE_RESULT_MISMATCH",
                          "FABRIC_PIPELINE_RESULT_NON_TERMINAL"} :
                Fails(a, "FAILED", code, "unknown")
          /\ UNCHANGED outcome
    /\ UNCHANGED <<program, deployed, warehouseVars, childVars, planned, polls, audit>>

\* execute_ready_wave's handler: a failure under a fresh dataset_run_id, or an
\* exception of the whole wave.
WorkerFails(a) ==
    \/ /\ outcome' = [outcome EXCEPT ![a] =
                         Answer("FAILED", "FABRIC_PIPELINE_WORKER_EXCEPTION", "unknown")]
       /\ Goto(a, "done")
    \/ Goto(a, "raised") /\ UNCHANGED outcome

\* _record_failure overwrites the row and returns the failure.  The recording
\* (or the evidence step after it) may raise into the worker's own handler.
Record(a) ==
    /\ pc[a] = "record"
    /\ \/ /\ audit' = [audit EXCEPT ![a] = pending[a]]
          /\ outcome' = [outcome EXCEPT ![a] = pending[a]]
          /\ Goto(a, "done")
       \/ /\ audit' = [audit EXCEPT ![a] = pending[a]] \/ UNCHANGED audit
          /\ WorkerFails(a)
    /\ pending' = [pending EXCEPT ![a] = NoAnswer]
    /\ UNCHANGED <<program, deployed, warehouseVars, childVars, planned, polls>>

\* A mutant: the outcome is recorded before the Warehouse commit.
AuditFirst(a) ==
    /\ cpc[a] \in {"commit", "audit"}
    /\ audit' = [audit EXCEPT ![a] = IF cpc[a] = "commit" THEN Succeeded ELSE result[a]]
    /\ ChildGoto(a, "end")
    /\ UNCHANGED <<program, deployed, warehouseVars, job, snapshot, result, ran, wrote,
                   pc, planned, polls, pending, outcome>>

\* execute_pipeline_child records the result, once the executor has returned.
ChildAudits(a) ==
    /\ cpc[a] = "audit"
    /\ \/ /\ audit' = [audit EXCEPT ![a] = result[a]]
          /\ ChildGoto(a, "end")
          /\ UNCHANGED <<job, snapshot, result, ran, wrote>>
       \/ ChildRaises(a) /\ UNCHANGED audit
    /\ UNCHANGED <<program, deployed, warehouseVars, pc, planned, polls, pending, outcome>>

ParentStep(a) ==
    Prepare(a) \/ Post(a) \/ Poll(a) \/ ReadOutcome(a) \/ Record(a)

ChildStep(a) ==
    \/ ChildAudits(a)
    \/ /\ \/ ChildStart(a) \/ Validate(a, planned[a]) \/ Execute(a) \/ Commit(a)
          \/ ChildEnds(a) \/ ChildDies(a) \/ CancelJob(a)
       /\ UNCHANGED <<program, deployed, parentVars>>

\* A new configuration version is deployed while a job waits to start: at any
\* other moment the next plan and its child would see the same version.
Redeploy ==
    /\ deployed = 1
    /\ \E a \in Attempts : job[a] = "NotStarted"
    /\ deployed' = 2
    /\ UNCHANGED <<program, warehouseVars, childVars, parentVars>>

Next ==
    \/ \E a \in Attempts : ParentStep(a) \/ ChildStep(a)
    \/ Redeploy
    \/ SourceChanges /\ UNCHANGED <<program, deployed, childVars, parentVars>>

\* Only the parent's own threads are scheduled fairly; nothing is assumed of
\* the provider or of the child.
Spec == Init /\ [][Next]_vars /\ \A a \in Attempts : WF_vars(ParentStep(a))

-----------------------------------------------------------------------------
TypeOK ==
    /\ \A a \in Attempts :
          /\ job[a] \in TerminalJob \cup {"none", "NotStarted", "InProgress"}
          /\ cpc[a] \in {"none", "validate", "execute", "commit", "audit", "end", "ended"}
          /\ planned[a] \in 0..deployed /\ ran[a] \in 0..deployed
          /\ polls[a] \in 0..MaxPolls
          /\ pc[a] = "idle" => job[a] = "none" /\ audit[a] = NoAnswer
          /\ cpc[a] = "none" => job[a] \notin {"InProgress", "Completed", "Failed"}
    /\ target \in 0..source /\ source \in 0..MaxChanges

\* The dispatcher is told SUCCEEDED only of a job the provider completed and
\* whose child had recorded it: not of a deduplicated, cancelled or lost one.
SuccessIsProven ==
    \A a \in Attempts : outcome[a].status = "SUCCEEDED" =>
        /\ job[a] = "Completed" /\ audit[a] = Succeeded
        /\ ran[a] = planned[a]

\* A row says SUCCEEDED only once the mutation it stands for is committed (or
\* there was nothing new to apply), whatever died in between.
AuditFollowsCommit ==
    \A a \in Attempts : audit[a].status = "SUCCEEDED" =>
        wrote[a] \/ (program.strategy # "REPLACE" /\ progress > 0)

\* Target and checkpoint move together, although two attempts at the dataset
\* may be running their children at once.
ProgressFollowsTarget == progress = target

\* What a child executes is the configuration its parent planned, although
\* another may be deployed while the job waits.
ConfigIsBound ==
    \A a \in Attempts : ran[a] # 0 => ran[a] = planned[a]

\* A dispatched attempt is always answered, or the wave raises, even when the
\* provider never says another word.
EveryAttemptAnswered ==
    \A a \in Attempts : pc[a] # "idle" ~> pc[a] \in {"done", "raised"}

\* What a child did is what was planned and what its row says, although its parent
\* may have given up on it and another attempt may be under way.
ChildIsFaithful == AuditFollowsCommit /\ ConfigIsBound

\* Target and checkpoint move together and only forward, whichever of two
\* overlapping children commits last: an overtaken one does not overwrite a newer.
ProgressIsSound == [][ProgressFollowsTarget' /\ target' >= target]_vars

\* "Unknown/ambiguous writes, DQ failures and reconciliation failures are never
\* converted into blind automatic retries" (recovery/pipeline.py:6): an attempt
\* recommended for RETRY is neither queued nor running and has written nothing.
AmbiguousIsNotRetried ==
    \A a \in Attempts : Recommend(outcome[a]) = "RETRY" =>
        ~ChildLives(a) /\ job[a] # "NotStarted" /\ ~wrote[a]
=============================================================================
