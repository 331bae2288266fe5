---------------------------- MODULE WarehouseDrill ----------------------------
(***************************************************************************)
(* The two approved Warehouse checks of the certification, as drivers of   *)
(* WarehouseRecovery: the normal commit check                              *)
(* (evidence/integration/approved/warehouse.py) and the ambiguous-COMMIT   *)
(* fault drill (warehouse_fault_stages.py).                                *)
(*                                                                         *)
(* A drill claims the operation, arms a real fault in the provider, runs   *)
(* the mutation, disarms, always records UNKNOWN, probes, asks the         *)
(* injector whether its fault fired, kills the bound session when the      *)
(* outcome is still unresolved and the fault is verified, and reports      *)
(* PASS, FAIL and whether a retry is safe.  Every journal and target step  *)
(* is the WarehouseRecovery action of the same name; the injector is       *)
(* external and answers from its own evidence, which may be that of an     *)
(* earlier drill of the same operation.                                    *)
(***************************************************************************)
EXTENDS WarehouseRecovery

CONSTANT Requests       \* approved requests: [kind, recovery, deployed]

ASSUME RequestsAssumption ==
    Requests \subseteq [kind : {"commit", "drill"}, recovery : BOOLEAN, deployed : BOOLEAN]

\* Plain probe, certifier probe and final plain probe, and never the bound.
ASSUME DrillProbesAssumption == MaxProbes > 3

VARIABLES request,      \* Runs -> its approved request
          stage,        \* Runs -> stage of its driver
          fault,        \* Runs -> the fault it armed, as the provider knows it
          trace,        \* Runs -> what its driver has observed so far
          result        \* Runs -> the check result it returned

driverVars == <<request, stage, fault, trace, result>>
drillVars == <<vars, driverVars>>

Stages == {"claim", "execute", "probe", "verify", "recover", "terminate",
           "final", "assess", "end"}

NoFault == [armed |-> FALSE, fired |-> FALSE]

NoTrace == [raised |-> FALSE, captureFailed |-> FALSE, disarmFailed |-> FALSE,
            verifyFailed |-> FALSE, verified |-> FALSE, identity |-> FALSE,
            resolution |-> "UNRESOLVED", status |-> "UNKNOWN", atomic |-> FALSE,
            attempted |-> FALSE, recoveryFailed |-> FALSE, safe |-> FALSE]

NoResult == [status |-> "NONE", reported |-> FALSE, retry |-> FALSE, reason |-> ""]

DrillInit ==
    /\ Init
    /\ request \in [Runs -> Requests]
    /\ stage = [r \in Runs |-> "claim"]
    /\ fault = [r \in Runs |-> NoFault]
    /\ trace = [r \in Runs |-> NoTrace]
    /\ result = [r \in Runs |-> NoResult]

IsDrill(r) == request[r].kind = "drill"

Enter(r, s) == stage' = [stage EXCEPT ![r] = s]

\* What the driver learns in a step.
Learn(r, t) == trace' = [trace EXCEPT ![r] = t]

\* A step of the journal or the target that leaves the driver where it is.
DriverKeeps == UNCHANGED driverVars

\* The runner returns; an exception out of it is a FAIL result without a report
\* (run_integration_evidence, _failed_runner_result).
Return(r, outcome) ==
    /\ Enter(r, "end")
    /\ result' = [result EXCEPT ![r] = outcome]

Failed(reason) == [status |-> "FAIL", reported |-> FALSE, retry |-> FALSE, reason |-> reason]

Raise(r) == Return(r, Failed("RAISED")) /\ UNCHANGED <<request, fault, trace>>

-----------------------------------------------------------------------------
(* Claim *)

\* _validate_deployed_identity: a control plane deployed from another release.
NotDeployed(r) ==
    /\ stage[r] = "claim" /\ pc[r] = "start" /\ ~request[r].deployed
    /\ Raise(r) /\ UNCHANGED vars

\* claim_target_operation with attempt = 1.
Claim(r) ==
    /\ stage[r] = "claim" /\ request[r].deployed
    /\ ClaimSelect(r) \/ ClaimInsert(r) \/ ClaimRetry(r) \/ ClaimReread(r)
    /\ DriverKeeps

\* TargetOperationVersionConflict out of any journal write of the driver.
Conflict(r) ==
    /\ stage[r] \in {"claim", "probe"} /\ pc[r] = "stopped"
    /\ Raise(r) /\ UNCHANGED vars

\* FRESH_EXECUTE_REQUIRED: a drill needs an operation it may execute itself.
NotFresh(r) ==
    /\ stage[r] = "claim" /\ IsDrill(r) /\ pc[r] \in {"probe", "done"}
    /\ Return(r, Failed("FRESH_EXECUTE_REQUIRED"))
    /\ UNCHANGED <<vars, request, fault, trace>>

-----------------------------------------------------------------------------
(* Arm, execute, disarm *)

\* _arm_fault.  The injector may raise or return an invalid controller; a fault
\* armed for the wrong phase raises after the provider armed it, and nothing
\* disarms it.
ArmRaises(r) ==
    /\ stage[r] = "claim" /\ IsDrill(r) /\ pc[r] = "claimed"
    /\ \E armed \in BOOLEAN : fault' = [fault EXCEPT ![r].armed = armed]
    /\ Return(r, Failed("RAISED"))
    /\ UNCHANGED <<vars, request, trace>>

ArmFault(r) ==
    /\ stage[r] = "claim" /\ IsDrill(r) /\ pc[r] = "claimed"
    /\ fault' = [fault EXCEPT ![r].armed = TRUE]
    /\ Enter(r, "execute")
    /\ UNCHANGED <<vars, request, trace, result>>

\* _fault_not_armed: the claim is given back and the report says so.
FaultNotArmed(r) ==
    /\ stage[r] = "claim" /\ IsDrill(r) /\ pc[r] = "claimed"
    /\ NotArmed(r)
    /\ Return(r, IF status'[KeyOf[r]] = "NOT_COMMITTED" /\ version' # version
                 THEN [status |-> "FAIL", reported |-> TRUE, retry |-> TRUE,
                       reason |-> "FAULT_NOT_ARMED"]
                 ELSE Failed("RAISED"))
    /\ UNCHANGED <<request, fault, trace>>

\* The commit check executes without a fault.
BeginCommitCheck(r) ==
    /\ stage[r] = "claim" /\ ~IsDrill(r) /\ pc[r] = "claimed"
    /\ Enter(r, "execute")
    /\ UNCHANGED <<vars, request, fault, trace, result>>

\* _execute_faulted_mutation: the first thing the mutation does is to capture
\* the session binding, when recovery is enabled.
Execute(r) ==
    /\ stage[r] = "execute"
    /\ ExecuteAtomic(r)
    /\ bound' # bound => IsDrill(r) /\ request[r].recovery
    /\ DriverKeeps

\* The capture raises inside the mutation, or the mutation itself raises, or
\* the transaction fails before the mutation is called.
MutationRaises(r) ==
    /\ stage[r] = "execute"
    /\ MutationFails(r)
    /\ \E captureFailed \in BOOLEAN :
          /\ captureFailed => IsDrill(r) /\ request[r].recovery /\ r \notin bound
          /\ Learn(r, [trace[r] EXCEPT !.raised = TRUE, !.captureFailed = captureFailed])
    /\ UNCHANGED <<request, stage, fault, result>>

\* COMMIT is sent only after the mutation, so after the capture.
Commit(r) ==
    /\ stage[r] = "execute"
    /\ SendCommit(r)
    /\ IsDrill(r) /\ request[r].recovery => r \in bound
    /\ DriverKeeps

CommitAcknowledged(r) ==
    /\ stage[r] = "execute"
    /\ CommitReturns(r)
    /\ DriverKeeps

\* The connection breaks without the fault having fired.
ConnectionBreaks(r) ==
    /\ stage[r] = "execute"
    /\ ConnectionLost(r)
    /\ Learn(r, [trace[r] EXCEPT !.raised = TRUE])
    /\ UNCHANGED <<request, stage, fault, result>>

\* The armed fault fires: the acknowledgement of COMMIT is lost.
FaultFires(r) ==
    /\ stage[r] = "execute" /\ pc[r] = "committing" /\ fault[r].armed
    /\ ConnectionLost(r)
    /\ fault' = [fault EXCEPT ![r].fired = TRUE]
    /\ Learn(r, [trace[r] EXCEPT !.raised = TRUE])
    /\ UNCHANGED <<request, stage, result>>

\* injector.disarm in the finally block; its exception is only recorded.
Disarm(r) ==
    /\ stage[r] = "execute" /\ pc[r] \in {"acked", "raised"}
    /\ \E failed \in IF IsDrill(r) THEN BOOLEAN ELSE {FALSE} :
          /\ fault' = [fault EXCEPT ![r].armed = failed]
          /\ Learn(r, [trace[r] EXCEPT !.disarmFailed = failed, !.atomic = pc[r] = "acked"])
    /\ Enter(r, "probe")
    /\ UNCHANGED <<vars, request, result>>

-----------------------------------------------------------------------------
(* Record UNKNOWN, probe, verify *)

RecordRolledBack(r) ==
    /\ stage[r] = "probe" /\ pc[r] \in {"acked", "raised"}
    /\ Mark(r, IF trace[r].raised THEN "NOT_COMMITTED" ELSE "UNKNOWN", "probe")
    /\ DriverKeeps

\* Whatever happened, the outcome is first recorded as UNKNOWN.
RecordUnknown(r) ==
    /\ stage[r] = "probe" /\ pc[r] \in {"acked", "raised"}
    /\ Mark(r, "UNKNOWN", "probe")
    /\ DriverKeeps

\* The commit check finds an operation to reconcile or already succeeded.
Preexisting(r) ==
    /\ stage[r] = "claim" /\ ~IsDrill(r) /\ pc[r] \in {"probe", "done"}
    /\ Enter(r, IF pc[r] = "probe" THEN "probe" ELSE "final")
    /\ UNCHANGED <<vars, request, fault, trace, result>>

\* One step of probe_and_reconcile_target_operation up to its journal write.
Probing(r, binding) ==
    \/ ProbeRead(r) /\ (pc'[r] = "readMarkers" => bind'[r] = binding)
    \/ ReadMarkers(r) \/ ProviderFails(r) \/ Observe(r) \/ Terminate(r)
    \/ ObserveAgain(r) \/ RereadMarkers(r)

\* Its journal write, which returns the evidence and the record, or raises.
ReconcileReturns(r) == Reconcile(r) /\ pc'[r] # "stopped"
ReconcileRaises(r) == Reconcile(r) /\ pc'[r] = "stopped" /\ UNCHANGED journalVars

\* The evidence of the probe and the status of the record it left.  The journal
\* re-reads its row after the commit and so may hand over a later status, which
\* cannot make a PASS: that needs the resolution COMMITTED as well, and SUCCEEDED
\* is final.
Evidence(r) == [trace[r] EXCEPT !.resolution = res[r], !.status = StatusFor(res[r])]

PlainProbe(r) ==
    /\ stage[r] = "probe"
    /\ Probing(r, NoRun)
    /\ DriverKeeps

\* _mark_unknown_and_probe returns; a COMMITTED marker stands for the atomic
\* result the driver never got.
PlainProbeReturns(r) ==
    /\ stage[r] = "probe"
    /\ ReconcileReturns(r)
    /\ Learn(r, [Evidence(r) EXCEPT !.atomic = @ \/ res[r] = "COMMITTED"])
    /\ Enter(r, IF IsDrill(r) THEN "verify" ELSE "assess")
    /\ UNCHANGED <<request, fault, result>>

PlainProbeRaises(r) ==
    /\ stage[r] = "probe"
    /\ ReconcileRaises(r)
    /\ DriverKeeps

\* Reading the committed marker back fails: _atomic_from_committed_marker.
MarkerRereadRaises(r) ==
    /\ stage[r] = "probe" /\ ~trace[r].atomic /\ res[r] = "COMMITTED"
    /\ ReconcileReturns(r)
    /\ Raise(r)

\* A direct probe of an operation the journal already calls SUCCEEDED.
DirectProbe(r) ==
    /\ stage[r] = "final" /\ ~IsDrill(r)
    /\ \E readable \in BOOLEAN :
          LET committed == readable /\ markers[KeyOf[r]] # {}
          IN Learn(r, [trace[r] EXCEPT
                !.resolution = IF committed THEN "COMMITTED" ELSE "UNRESOLVED",
                !.status = status[KeyOf[r]],
                !.atomic = committed])
    /\ Enter(r, "assess")
    /\ UNCHANGED <<vars, request, fault, result>>

\* What the injector may answer: evidence of this drill's fault, or of another
\* drill's fault on the same operation, or none.
Verifications(r) ==
    {[triggered |-> fault[r].fired, own |-> TRUE], [triggered |-> FALSE, own |-> FALSE]}
    \cup {[triggered |-> TRUE, own |-> FALSE] :
            q \in {q \in Runs \ {r} : KeyOf[q] = KeyOf[r] /\ fault[q].fired}}

IdentityIgnored(v) == TRUE

\* _fault_identity_matches: the provider fault id, or else the evidence
\* reference, is the one the arming returned.
IdentityMatches(v) == v.own

\* _verify_fault: an exception or another phase leaves no verification.
VerifyFault(r) ==
    /\ stage[r] = "verify"
    /\ \/ Learn(r, [trace[r] EXCEPT !.verifyFailed = TRUE])
       \/ \E v \in Verifications(r) :
             Learn(r, [trace[r] EXCEPT !.verified = v.triggered,
                                       !.identity = IdentityMatches(v)])
    /\ Enter(r, "recover")
    /\ UNCHANGED <<vars, request, fault, result>>

-----------------------------------------------------------------------------
(* Session-termination recovery *)

\* The conditions on the execution that both recovery and PASS require.
FaultObserved(t) ==
    /\ t.raised /\ ~t.captureFailed /\ ~t.disarmFailed
    /\ ~t.verifyFailed /\ t.verified /\ t.identity

EligibleUnverified(r) ==
    /\ request[r].recovery /\ trace[r].raised /\ r \in bound
    /\ trace[r].resolution = "UNRESOLVED" /\ trace[r].status = "UNKNOWN"

\* _session_recovery_eligible.
SessionRecoveryEligible(r) ==
    /\ request[r].recovery /\ FaultObserved(trace[r]) /\ r \in bound
    /\ trace[r].resolution = "UNRESOLVED" /\ trace[r].status = "UNKNOWN"

SkipRecovery(r) ==
    /\ stage[r] = "recover" /\ ~SessionRecoveryEligible(r)
    /\ Enter(r, "assess")
    /\ UNCHANGED <<vars, request, fault, trace, result>>

\* The Admin connection and the authority; either may be refused.
OpenAuthority(r) ==
    /\ stage[r] = "recover" /\ SessionRecoveryEligible(r)
    /\ \E failed \in BOOLEAN :
          /\ Learn(r, [trace[r] EXCEPT !.attempted = TRUE, !.recoveryFailed = failed])
          /\ Enter(r, IF failed THEN "assess" ELSE "terminate")
    /\ UNCHANGED <<vars, request, fault, result>>

CertifierProbe(r) ==
    /\ stage[r] = "terminate"
    /\ Probing(r, r)
    /\ DriverKeeps

FinalProbe(r) ==
    /\ stage[r] = "final" /\ IsDrill(r)
    /\ Probing(r, NoRun)
    /\ DriverKeeps

\* The certifier probe's evidence.  A marker it finds itself leaves the atomic
\* result unset; only the final plain probe reads it back.
CertifierProbeReturns(r) ==
    /\ stage[r] = "terminate"
    /\ ReconcileReturns(r)
    /\ Learn(r, [Evidence(r) EXCEPT !.safe = res[r] = "NOT_COMMITTED"])
    /\ Enter(r, IF res[r] = "UNRESOLVED" THEN "final" ELSE "assess")
    /\ UNCHANGED <<request, fault, result>>

FinalProbeReturns(r) ==
    /\ stage[r] = "final" /\ IsDrill(r)
    /\ ReconcileReturns(r)
    /\ Learn(r, [Evidence(r) EXCEPT !.atomic = @ \/ res[r] = "COMMITTED"])
    /\ Enter(r, "assess")
    /\ UNCHANGED <<request, fault, result>>

\* Reading the marker back fails: the exception hides what the probe found.
FinalRereadRaises(r) ==
    /\ stage[r] = "final" /\ IsDrill(r) /\ res[r] = "COMMITTED"
    /\ ReconcileReturns(r)
    /\ Learn(r, [trace[r] EXCEPT !.recoveryFailed = TRUE, !.safe = FALSE])
    /\ Enter(r, "assess")
    /\ UNCHANGED <<request, fault, result>>

RecoveryReconcileRaises(r) ==
    /\ stage[r] \in {"terminate", "final"} /\ IsDrill(r)
    /\ ReconcileRaises(r)
    /\ DriverKeeps

\* Any exception of the recovery is caught and the plain probe's evidence kept.
RecoveryRaises(r) ==
    /\ stage[r] \in {"terminate", "final"} /\ IsDrill(r) /\ pc[r] = "stopped"
    /\ Learn(r, [trace[r] EXCEPT !.recoveryFailed = TRUE, !.resolution = "UNRESOLVED",
                                 !.status = "UNKNOWN", !.safe = FALSE])
    /\ Enter(r, "assess")
    /\ UNCHANGED <<vars, request, fault, result>>

-----------------------------------------------------------------------------
(* Assessment *)

\* _claim_reentry: a claim of the succeeded operation must be skipped.
Reentry(r, t) ==
    IF t.status # "SUCCEEDED" THEN "NONE"
    ELSE IF status[KeyOf[r]] = "SUCCEEDED" THEN "SKIP_SUCCEEDED" ELSE "RECONCILE_REQUIRED"

\* _execution_failure_reason, in the code's order.
ExecutionFailureReason(t) ==
    CASE t.captureFailed -> "SESSION_BINDING_CAPTURE_FAILED"
      [] ~t.captureFailed /\ ~t.raised -> "NO_PROVIDER_OR_DRIVER_EXCEPTION"
      [] ~t.captureFailed /\ t.raised /\ t.disarmFailed -> "FAULT_DISARM_FAILED"
      [] ~t.captureFailed /\ t.raised /\ ~t.disarmFailed /\ t.verifyFailed ->
            "FAULT_VERIFICATION_FAILED"
      [] OTHER -> IF ~t.verified THEN "FAULT_NOT_VERIFIED"
                  ELSE IF ~t.identity THEN "FAULT_IDENTITY_MISMATCH" ELSE ""

\* _recovery_failure_reason.
RecoveryFailureReason(r, t) ==
    IF t.recoveryFailed THEN "SESSION_TERMINATION_RECOVERY_FAILED"
    ELSE IF t.status = "NOT_COMMITTED" /\ t.safe THEN "SAFE_NOT_COMMITTED"
    ELSE IF request[r].recovery /\ t.resolution = "UNRESOLVED" /\ r \notin bound
         THEN "SESSION_BINDING_NOT_CAPTURED"
    ELSE IF t.resolution # "COMMITTED" THEN "MARKER_NOT_COMMITTED"
    ELSE IF t.status # "SUCCEEDED" THEN "FINAL_NOT_SUCCEEDED"
    ELSE IF Reentry(r, t) # "SKIP_SUCCEEDED" THEN "REENTRY_NOT_SKIP_SUCCEEDED" ELSE ""

\* _failure_reason: the execution's reason comes first.
FailureReason(r, t) ==
    LET execution == ExecutionFailureReason(t)
    IN IF execution # "" THEN execution ELSE RecoveryFailureReason(r, t)

\* _assess, and the report's own validator.
Passes(r, t) ==
    /\ FaultObserved(t)
    /\ t.resolution = "COMMITTED" /\ t.status = "SUCCEEDED"
    /\ Reentry(r, t) = "SKIP_SUCCEEDED" /\ t.atomic

RetryEligibleUnlessCommitted(t) == t.resolution # "COMMITTED"

RetryEligible(t) == t.status = "NOT_COMMITTED"

\* _report_from_trace and _build_result: the detail code of a PASS is
\* REAL_FAULT_COMMITTED_RECOVERED, and so is that of no failure reason.
Assess(r) ==
    /\ stage[r] = "assess" /\ IsDrill(r)
    /\ LET t == trace[r]
           reason == FailureReason(r, t)
       IN Return(r, [status |-> IF Passes(r, t) THEN "PASS" ELSE "FAIL",
                     reported |-> TRUE, retry |-> RetryEligible(t),
                     reason |-> IF reason = "" THEN "REAL_FAULT_COMMITTED_RECOVERED"
                                ELSE reason])
    /\ UNCHANGED <<vars, request, fault, trace>>

\* The end of execute_approved_warehouse: marker, journal and re-entry agree.
CommitCheckPasses(r, t) ==
    /\ t.atomic /\ t.resolution = "COMMITTED"
    /\ status[KeyOf[r]] = "SUCCEEDED"

AssessCommit(r) ==
    /\ stage[r] = "assess" /\ ~IsDrill(r)
    /\ LET passed == CommitCheckPasses(r, trace[r])
       IN Return(r, IF passed
                    THEN [status |-> "PASS", reported |-> TRUE, retry |-> FALSE, reason |-> ""]
                    ELSE Failed("RECOVERY_NOT_COMMITTED"))
    /\ UNCHANGED <<vars, request, fault, trace>>

-----------------------------------------------------------------------------
\* The process dies; the fault stays as it is in the provider.
Dies(r) ==
    /\ stage[r] # "end"
    /\ Crash(r)
    /\ Enter(r, "end")
    /\ UNCHANGED <<request, fault, trace, result>>

DriverStep(r) ==
    \/ NotDeployed(r) \/ Claim(r) \/ Conflict(r) \/ NotFresh(r)
    \/ ArmRaises(r) \/ ArmFault(r) \/ FaultNotArmed(r) \/ BeginCommitCheck(r)
    \/ Execute(r) \/ MutationRaises(r) \/ Commit(r) \/ CommitAcknowledged(r)
    \/ ConnectionBreaks(r) \/ FaultFires(r) \/ Disarm(r)
    \/ RecordUnknown(r) \/ Preexisting(r) \/ PlainProbe(r) \/ PlainProbeReturns(r)
    \/ PlainProbeRaises(r) \/ MarkerRereadRaises(r) \/ DirectProbe(r) \/ VerifyFault(r)
    \/ SkipRecovery(r) \/ OpenAuthority(r) \/ CertifierProbe(r)
    \/ CertifierProbeReturns(r) \/ FinalProbe(r) \/ FinalProbeReturns(r)
    \/ FinalRereadRaises(r) \/ RecoveryReconcileRaises(r) \/ RecoveryRaises(r)
    \/ Assess(r) \/ AssessCommit(r) \/ Dies(r)

\* The target moves on its own.
TargetMoves(r) == TargetStep(r) /\ DriverKeeps

DrillTerminated ==
    /\ \A r \in Runs : stage[r] = "end" /\ ~Observable(r)
    /\ UNCHANGED drillVars

DrillNext ==
    \/ \E r \in Runs : DriverStep(r) \/ TargetMoves(r)
    \/ DrillTerminated

DrillSpec == DrillInit /\ [][DrillNext]_drillVars

-----------------------------------------------------------------------------
DrillTypeOK ==
    /\ request \in [Runs -> Requests]
    /\ stage \in [Runs -> Stages]
    /\ fault \in [Runs -> [armed : BOOLEAN, fired : BOOLEAN]]
    /\ \A r \in Runs : /\ DOMAIN trace[r] = DOMAIN NoTrace
                       /\ trace[r].resolution \in Resolutions
                       /\ trace[r].status \in Statuses
    /\ \A r \in Runs : /\ DOMAIN result[r] = DOMAIN NoResult
                       /\ result[r].status \in {"NONE", "PASS", "FAIL"}

(***************************************************************************)
(* A PASS is proven.  The operation took effect exactly once and its       *)
(* journal row says SUCCEEDED; and when the check is the fault drill, the  *)
(* run's own fault really fired against the run's own COMMIT and is no     *)
(* longer armed in the provider (_assess, validate_report,                 *)
(* execute_approved_warehouse).  Evidence of an earlier drill's fault, or  *)
(* a connection that broke by itself, never passes.                        *)
(***************************************************************************)
PassIsProven ==
    \A r \in Runs : result[r].status = "PASS" =>
        /\ applied[KeyOf[r]] = 1 /\ markers[KeyOf[r]] # {}
        /\ status[KeyOf[r]] = "SUCCEEDED"
        /\ IsDrill(r) => fault[r].fired /\ ~fault[r].armed /\ r \in sent

(***************************************************************************)
(* A report that calls the operation eligible for retry is safe to act on: *)
(* the reporting run's own transaction has not committed and never will    *)
(* (_fault_not_armed, absence_safe_to_retry, validate_report).             *)
(***************************************************************************)
RetryEligibleIsSafe ==
    \A r \in Runs : result[r].retry =>
        r \notin markers[KeyOf[r]] /\ ~HasOpenTransaction(r)

(***************************************************************************)
(* "Read Admin credentials only after the exact unresolved verified-fault  *)
(* gate": a Warehouse session is killed only by a drill with recovery      *)
(* enabled, whose own fault fired and is disarmed, so never while the      *)
(* fault could still be what keeps the transaction open                    *)
(* (_session_recovery_eligible).                                           *)
(***************************************************************************)
KillOnlyVerified ==
    [][\A q \in Runs :
         session[q] # "killed" /\ session'[q] = "killed" =>
            \E r \in Runs : /\ pc[r] = "terminate" /\ pc'[r] # "terminate"
                            /\ request[r].recovery
                            /\ fault[r].fired /\ ~fault[r].armed]_drillVars

(***************************************************************************)
(* The approved drivers take no journal or target step that the recovery   *)
(* protocol does not: every behaviour of theirs is one of                  *)
(* WarehouseRecovery, so AtMostOnce, SucceededIsCommitted and              *)
(* NotCommittedIsFinal hold of the certification's own mutations           *)
(* (_run_one, execute_approved_warehouse).                                 *)
(***************************************************************************)
DrivesRecovery == Spec
=============================================================================
