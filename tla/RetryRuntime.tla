---------------------------- MODULE RetryRuntime ----------------------------
(***************************************************************************)
(* execute_with_retry (recovery/runtime.py): bounded attempts of one       *)
(* logical run, each with its lineage row, the classification of its       *)
(* failure, the resolution of an unknown outcome, its terminal audit row,  *)
(* and the status of the reprocess request.                                *)
(*                                                                         *)
(* The attempt itself is the caller's: this module ends it with a return   *)
(* or an exception.  Every call starts a chain of its own                  *)
(* (initial_attempt = 1) and carries a request.                            *)
(***************************************************************************)
EXTENDS Naturals

CONSTANTS Calls,            \* calls of execute_with_retry, each with its request
          MaxAttempts       \* retry_policy.max_attempts

ASSUME RetryAssumption == MaxAttempts \in Nat \ {0}

VARIABLES request,          \* Calls -> status of the reprocess_request row
          lineage,          \* dataset_attempt_lineage: the attempts begun
          audit,            \* RunIds -> its dataset_run row
          call              \* Calls -> where it is, in which attempt, what it caught

\* dataset_run_id of an attempt; its root is attempt 1 of the call.
RunIds == Calls \X (1 .. MaxAttempts)
CurrentRun(c) == <<c, call[c].attempt>>

Dispositions == {"none", "RETRYABLE", "NON_RETRYABLE", "UNKNOWN_OUTCOME"}
Ended == {"returned", "raised"}
Steps == Ended \cup {"idle", "lineage", "attempt", "resolve", "failed", "succeeded",
                     "close_failed", "close_succeeded"}

NoAudit == [status |-> "none", retryable |-> FALSE]
Audits == [status : {"none", "SUCCEEDED", "FAILED"}, retryable : BOOLEAN]

RetryInit ==
    /\ request = [c \in Calls |-> "PENDING"]
    /\ lineage = {}
    /\ audit = [r \in RunIds |-> NoAudit]
    /\ call = [c \in Calls |-> [step |-> "idle", attempt |-> 1, disposition |-> "none"]]

RetryTypeOK ==
    /\ request \in [Calls -> {"PENDING", "RUNNING", "SUCCEEDED", "FAILED"}]
    /\ lineage \subseteq RunIds
    /\ audit \in [RunIds -> Audits]
    /\ call \in [Calls -> [step : Steps, attempt : 1 .. MaxAttempts,
                           disposition : Dispositions]]

\* A repository write returns and the call goes on, or raises although it took
\* effect and the exception leaves execute_with_retry.
AfterWrite(c, step) ==
    \E next \in {step, "raised"} : call' = [call EXCEPT ![c].step = next]

\* The RUNNING request.
Begin(c) ==
    /\ call[c].step = "idle"
    /\ request' = [request EXCEPT ![c] = "RUNNING"]
    /\ AfterWrite(c, "lineage")
    /\ UNCHANGED <<lineage, audit>>

\* record_attempt_lineage
RecordLineage(c) ==
    /\ call[c].step = "lineage"
    /\ lineage' = lineage \cup {CurrentRun(c)}
    /\ AfterWrite(c, "attempt")
    /\ UNCHANGED <<request, audit>>

\* execute_attempt returns.
AttemptReturns(c) ==
    /\ call[c].step = "attempt"
    /\ call' = [call EXCEPT ![c].step = "succeeded"]
    /\ UNCHANGED <<request, lineage, audit>>

Exceptions == {"RetryableExecutionError", "PermanentExecutionError",
               "UnknownCommitOutcomeError", "other"}

\* Mutant of Classify: an unknown outcome is taken for a transient failure.
ClassifyUnknownAsTransient(exc) ==
    IF exc \in {"RetryableExecutionError", "UnknownCommitOutcomeError"} THEN "RETRYABLE"
    ELSE "NON_RETRYABLE"

\* classify_failure
Classify(exc) ==
    CASE exc = "RetryableExecutionError" -> "RETRYABLE"
      [] exc = "UnknownCommitOutcomeError" -> "UNKNOWN_OUTCOME"
      [] OTHER -> "NON_RETRYABLE"

\* execute_attempt raises an Exception.
AttemptRaises(c, exc) ==
    /\ call[c].step = "attempt" /\ exc \in Exceptions
    /\ call' = [call EXCEPT ![c].step = IF Classify(exc) = "UNKNOWN_OUTCOME"
                                        THEN "resolve" ELSE "failed",
                            ![c].disposition = Classify(exc)]
    /\ UNCHANGED <<request, lineage, audit>>

\* What resolve_unknown_outcome comes to: a resolution; or "failed" when there is
\* no resolver, it raises, or it returns something else.
Resolutions == {"COMMITTED", "NOT_COMMITTED", "UNRESOLVED", "failed"}

\* Mutant of AfterResolution: only a committed attempt is not retried.
AfterResolutionOptimistic(resolution) ==
    IF resolution = "COMMITTED" THEN "UNKNOWN_OUTCOME" ELSE "RETRYABLE"

\* The disposition a resolution leaves.
AfterResolution(resolution) ==
    CASE resolution = "COMMITTED" -> "UNKNOWN_OUTCOME"
      [] resolution = "NOT_COMMITTED" -> "RETRYABLE"
      [] OTHER -> "NON_RETRYABLE"

\* The unknown-outcome branch of the except block.
Resolve(c, resolution) ==
    /\ call[c].step = "resolve"
    /\ call' = [call EXCEPT ![c].step = IF resolution = "COMMITTED"
                                        THEN "succeeded" ELSE "failed",
                            ![c].disposition = AfterResolution(resolution)]
    /\ UNCHANGED <<request, lineage, audit>>

\* can_retry
CanRetry(c) ==
    call[c].disposition = "RETRYABLE" /\ call[c].attempt < MaxAttempts

\* _record_terminal_audit of a failed attempt, and the backoff to the next one.
\* The caught exception is not looked at again.
AuditFailed(c) ==
    /\ call[c].step = "failed"
    /\ audit' = [audit EXCEPT ![CurrentRun(c)] =
                    [status |-> "FAILED", retryable |-> CanRetry(c)]]
    /\ \E next \in {IF CanRetry(c) THEN "lineage" ELSE "close_failed", "raised"} :
          call' = [call EXCEPT ![c].step = next, ![c].disposition = "none",
                               ![c].attempt = IF next = "lineage" THEN @ + 1 ELSE @]
    /\ UNCHANGED <<request, lineage>>

\* _record_terminal_audit of an attempt that succeeded or was found committed.
AuditSucceeded(c) ==
    /\ call[c].step = "succeeded"
    /\ audit' = [audit EXCEPT ![CurrentRun(c)] =
                    [status |-> "SUCCEEDED", retryable |-> FALSE]]
    /\ AfterWrite(c, "close_succeeded")
    /\ UNCHANGED <<request, lineage>>

\* _update_reprocess_status, then return, or raise what the call ends with.
CloseRequest(c) ==
    /\ call[c].step \in {"close_failed", "close_succeeded"}
    /\ request' = [request EXCEPT ![c] = IF call[c].step = "close_failed"
                                         THEN "FAILED" ELSE "SUCCEEDED"]
    /\ AfterWrite(c, IF call[c].step = "close_failed" THEN "raised" ELSE "returned")
    /\ UNCHANGED <<lineage, audit>>

\* The process dies, or a repository write raises without effect.
CallDies(c) ==
    /\ call[c].step \notin Ended \cup {"idle"}
    /\ call' = [call EXCEPT ![c].step = "raised", ![c].disposition = "none"]
    /\ UNCHANGED <<request, lineage, audit>>
=============================================================================
