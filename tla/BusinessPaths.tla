------------------------------ MODULE BusinessPaths ------------------------------
(***************************************************************************)
(* The representative business paths (evidence/business_paths): the steps  *)
(* of one gate and the evaluator that turns observations and Pipeline      *)
(* reports into a proof.                                                   *)
(*                                                                         *)
(* An observed state counts how often the scenario's change is in the      *)
(* target and in the progress, and says whether a business key has two     *)
(* current rows.  The baseline is Baseline, the scenario expects the       *)
(* change exactly once in both.                                            *)
(***************************************************************************)
EXTENDS Naturals, Sequences

Gates == <<"full.replace", "watermark.scd1", "watermark.scd2",
           "retry.idempotency", "reconciliation.fail_closed">>

Baseline == [target |-> 0, progress |-> 0, overlap |-> FALSE]

\* _GATE_REPORT_COUNT and the steps execute_approved_business_path takes;
\* CLEANUP follows in a finally block.
IsRetry(g) == g = "retry.idempotency"

Steps(g) ==
    IF IsRetry(g)
    THEN <<"PREPARE_BASELINE", "BEFORE", "PREPARE_ATTEMPT_1", "PIPELINE",
           "AFTER_FIRST_ATTEMPT", "PREPARE_ATTEMPT_2", "PIPELINE", "AFTER_FINAL_ATTEMPT">>
    ELSE <<"PREPARE_BASELINE", "BEFORE", "PREPARE_ATTEMPT_1", "PIPELINE",
           "AFTER_FINAL_ATTEMPT">>

ReportCount(g) == IF IsRetry(g) THEN 2 ELSE 1

-----------------------------------------------------------------------------
CompletedSuccess(report) ==
    report.remote = "Completed" /\ report.framework = "SUCCEEDED"

ExpectedSuccessState(g, s) ==
    /\ s.target = 1
    /\ s.progress = 1
    /\ g = "watermark.scd2" => ~s.overlap

\* Mutant: the final state alone is looked at.
FinalState(before, final) == final.target >= before.target

MeaningfulChange(before, final) == final # before

StateUnchanged(before, after) == after = before

\* The reports of a path are of distinct dataset runs.  Their plan hash, which
\* validate_membership also compares, is one by construction: the runner plans
\* each attempt from the config the release pins, in RunMode.NORMAL, and raises
\* before submitting when the deployed config is another (Deployed).
ReportIdentity(g, reports) ==
    /\ Len(reports) = ReportCount(g)
    /\ \A i, j \in 1..Len(reports) : i # j => reports[i].run # reports[j].run

SuccessPath(g, before, final, report) ==
    /\ CompletedSuccess(report)
    /\ ExpectedSuccessState(g, final)
    /\ MeaningfulChange(before, final)

RetryPath(g, before, first, final, reports) ==
    /\ reports[1].framework = "FAILED"
    /\ reports[1].retryable
    /\ reports[1].code = "expected"
    /\ StateUnchanged(before, first)
    /\ SuccessPath(g, before, final, reports[2])

ReconciliationPath(before, final, report) ==
    /\ report.remote = "Completed"
    /\ report.framework = "FAILED"
    /\ report.code = "expected"
    /\ StateUnchanged(before, final)
    /\ before.target # 1

\* evaluate_business_path_evidence returns PASS; otherwise it raises.
Evaluates(g, seen, reports) ==
    /\ ReportIdentity(g, reports)
    /\ IF IsRetry(g)
       THEN RetryPath(g, seen.before, seen.first, seen.final, reports)
       ELSE IF g = "reconciliation.fail_closed"
            THEN ReconciliationPath(seen.before, seen.final, reports[1])
            ELSE SuccessPath(g, seen.before, seen.final, reports[1])
=============================================================================
