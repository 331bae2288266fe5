---------------------------- MODULE PipelineChild ----------------------------
(***************************************************************************)
(* The remote half of a Fabric pipeline attempt: the job instance of the   *)
(* provider, and the child process it runs (execution/pipeline_child.py,   *)
(* certification/fabric/fabric_job.py and pipeline_child.py) over one      *)
(* dataset of the Warehouse.                                               *)
(*                                                                         *)
(* The source is the number of changes it has seen and the target the      *)
(* number it shows.  The Warehouse gives a transaction a snapshot and      *)
(* aborts it when another one committed meanwhile (external).  entry says  *)
(* which program the job runs: "certification" is fabric_job.main,         *)
(* "domain" a program that returns once execute_pipeline_child has.        *)
(***************************************************************************)
EXTENDS Naturals

CONSTANTS Attempts,       \* 1..n, attempts at the dataset in order
          MaxChanges,     \* bound on the changes of the source
          Programs,       \* [entry, strategy, mode] a run may be given
          DomainFailures  \* [code, retry] a domain executor may return

\* retryable of an outcome, a tri-state.
Retries == {"yes", "no", "unknown"}

ASSUME ChildAssumption ==
    /\ MaxChanges \in Nat \ {0}
    /\ Programs \subseteq [entry : {"certification", "domain"},
                           strategy : {"REPLACE", "SCD1", "SCD2"},
                           mode : {"SUCCESS", "CERTIFICATION_RETRYABLE_FAILURE",
                                   "RECONCILIATION_FAILED"}]
    /\ \A f \in DomainFailures : f.retry \in Retries

VARIABLES program,        \* entry, apply strategy and failure_mode row
          deployed,       \* version of the deployed configuration
          source,         \* changes in the source table
          target,         \* changes the target shows
          progress,       \* the cert_progress checkpoint
          closed,         \* the history table holds closed rows
          commits,        \* Warehouse transactions committed
          job,            \* status of the attempt's job instance
          cpc,            \* where the child is
          snapshot,       \* [source, commits] its transaction has read
          result,         \* the FabricPipelineChildResult
          ran,            \* configuration version the child executed, or 0
          wrote           \* the attempt's mutation is committed

warehouseVars == <<source, target, progress, closed, commits>>
childVars == <<job, cpc, snapshot, result, ran, wrote>>

Answer(status, code, retry) == [status |-> status, code |-> code, retry |-> retry]

NoAnswer == Answer("NONE", "", "unknown")

Succeeded == Answer("SUCCEEDED", "", "unknown")

NoSnapshot == [source |-> 0, commits |-> 0]

TerminalJob == {"Completed", "Failed", "Cancelled", "Deduped"}

ChildInit ==
    /\ program \in Programs
    /\ deployed = 1
    /\ source = 1 /\ target = 0 /\ progress = 0 /\ closed = FALSE /\ commits = 0
    /\ job = [a \in Attempts |-> "none"]
    /\ cpc = [a \in Attempts |-> "none"]
    /\ snapshot = [a \in Attempts |-> NoSnapshot]
    /\ result = [a \in Attempts |-> NoAnswer]
    /\ ran = [a \in Attempts |-> 0]
    /\ wrote = [a \in Attempts |-> FALSE]

ChildGoto(a, step) == cpc' = [cpc EXCEPT ![a] = step]

\* The process ends; a job that was cancelled meanwhile stays cancelled.
JobEnds(a, status) ==
    /\ ChildGoto(a, "ended")
    /\ snapshot' = [snapshot EXCEPT ![a] = NoSnapshot]
    /\ result' = [result EXCEPT ![a] = NoAnswer]
    /\ job' = [job EXCEPT ![a] = IF @ = "InProgress" THEN status ELSE @]

ChildRaises(a) == JobEnds(a, "Failed") /\ UNCHANGED <<ran, wrote>>

\* The provider starts the process of a queued instance.
ChildStart(a) ==
    /\ job[a] = "NotStarted"
    /\ job' = [job EXCEPT ![a] = "InProgress"]
    /\ ChildGoto(a, "validate")
    /\ UNCHANGED <<snapshot, result, ran, wrote, warehouseVars>>

\* validate_pipeline_child_request: the deployed configuration and the plan
\* compiled from it are those the parent invoked.
Validate(a, planned) ==
    /\ cpc[a] = "validate"
    /\ IF deployed = planned
       THEN /\ ran' = [ran EXCEPT ![a] = deployed]
            /\ ChildGoto(a, "execute")
            /\ UNCHANGED <<job, snapshot, result, wrote>>
       ELSE ChildRaises(a)
    /\ UNCHANGED warehouseVars

Returns(a, answer) ==
    /\ result' = [result EXCEPT ![a] = answer]
    /\ ChildGoto(a, "audit")
    /\ UNCHANGED <<job, snapshot, ran, wrote>>

\* The transaction reads the source, target and checkpoint and prepares writes.
Prepares(a) ==
    /\ snapshot' = [snapshot EXCEPT ![a] = [source |-> source, commits |-> commits]]
    /\ ChildGoto(a, "commit")
    /\ UNCHANGED <<job, result, ran, wrote>>

\* _execute_replace up to its commit.
ExecuteReplace(a) ==
    CASE program.mode = "CERTIFICATION_RETRYABLE_FAILURE" ->
            Returns(a, Answer("FAILED", "CERTIFICATION_RETRYABLE_FAILURE", "yes"))
      [] program.mode = "RECONCILIATION_FAILED" ->
            Returns(a, Answer("FAILED", "RECONCILIATION_FAILED", "no"))
      [] program.mode = "SUCCESS" -> Prepares(a)

\* _execute_scd1 up to its commit: only a REPLACE may be told to fail its gate,
\* and a window without a new change commits nothing.
ExecuteScd1(a) ==
    CASE program.mode = "CERTIFICATION_RETRYABLE_FAILURE" ->
            Returns(a, Answer("FAILED", "CERTIFICATION_RETRYABLE_FAILURE", "yes"))
      [] program.mode = "RECONCILIATION_FAILED" -> ChildRaises(a)
      [] program.mode = "SUCCESS" ->
            IF source = progress THEN Returns(a, Succeeded) ELSE Prepares(a)

\* _execute_scd2: as SCD1, and a history with closed rows is refused.
ExecuteScd2(a) ==
    IF program.mode = "SUCCESS" /\ source # progress /\ closed
    THEN ChildRaises(a) ELSE ExecuteScd1(a)

\* CertificationPipelineChildExecutor.__call__ up to the commit.
CertificationExecute(a) ==
    CASE program.strategy = "REPLACE" -> ExecuteReplace(a)
      [] program.strategy = "SCD1" -> ExecuteScd1(a)
      [] program.strategy = "SCD2" -> ExecuteScd2(a)

\* A domain executor succeeds or fails without a mutation (or raises: as if
\* it died).
DomainExecute(a) ==
    \/ Prepares(a)
    \/ \E f \in DomainFailures : Returns(a, Answer("FAILED", f.code, f.retry))

Execute(a) ==
    /\ cpc[a] = "execute"
    /\ IF program.entry = "certification" THEN CertificationExecute(a) ELSE DomainExecute(a)
    /\ UNCHANGED warehouseVars

\* A mutant: each statement commits on its own, whatever ran meanwhile.
CommitOvertaken(a) ==
    /\ cpc[a] = "commit"
    /\ target' = snapshot[a].source /\ progress' = snapshot[a].source
    /\ commits' = commits + 1
    /\ wrote' = [wrote EXCEPT ![a] = TRUE]
    /\ result' = [result EXCEPT ![a] = Succeeded]
    /\ ChildGoto(a, "audit")
    /\ UNCHANGED <<job, snapshot, ran, source, closed>>

\* COMMIT of target, history and checkpoint together; a transaction overtaken
\* by another aborts, and an acknowledgement may be lost.
Commit(a) ==
    /\ cpc[a] = "commit"
    /\ IF commits # snapshot[a].commits
       THEN ChildRaises(a) /\ UNCHANGED warehouseVars
       ELSE /\ target' = snapshot[a].source
            /\ progress' = snapshot[a].source
            /\ closed' = (closed \/ (program.strategy = "SCD2" /\ target > 0))
            /\ commits' = commits + 1
            /\ wrote' = [wrote EXCEPT ![a] = TRUE]
            /\ \/ /\ result' = [result EXCEPT ![a] = Succeeded]
                  /\ snapshot' = [snapshot EXCEPT ![a] = NoSnapshot]
                  /\ ChildGoto(a, "audit")
                  /\ UNCHANGED job
               \/ JobEnds(a, "Failed")
            /\ UNCHANGED <<ran, source>>

\* What follows execute_pipeline_child.  The certification program formats
\* outcome.dataset_id, which a DatasetDispatchOutcome does not have.
ChildEnds(a) ==
    /\ cpc[a] = "end"
    /\ JobEnds(a, IF program.entry = "certification" THEN "Failed" ELSE "Completed")
    /\ UNCHANGED <<ran, wrote, warehouseVars>>

ChildLives(a) == cpc[a] \notin {"none", "ended"}

\* The process is killed; an open transaction is rolled back.
ChildDies(a) ==
    /\ ChildLives(a)
    /\ ChildRaises(a)
    /\ UNCHANGED warehouseVars

\* An operator cancels the instance; its process is not stopped at once.
CancelJob(a) ==
    /\ job[a] \in {"NotStarted", "InProgress"}
    /\ job' = [job EXCEPT ![a] = "Cancelled"]
    /\ UNCHANGED <<cpc, snapshot, result, ran, wrote, warehouseVars>>

\* The source moves on once its first state has been read.
SourceChanges ==
    /\ source < MaxChanges
    /\ commits > 0 \/ \E a \in Attempts : cpc[a] = "commit"
    /\ source' = source + 1
    /\ UNCHANGED <<target, progress, closed, commits>>
=============================================================================
