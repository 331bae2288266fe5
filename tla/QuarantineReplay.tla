-------------------------- MODULE QuarantineReplay --------------------------
(***************************************************************************)
(* Replay of quarantined batches (recovery/replay.py): the attempts of     *)
(* execute_with_retry run execute_quarantine_replay, which reads the scope *)
(* and its markers, loads a payload per batch and checks it against the    *)
(* governed case, applies the payloads to the target, and marks the        *)
(* batches.  Reviewers work beside it.                                     *)
(*                                                                         *)
(* The target is external: a mutation whose answer was lost may still      *)
(* commit later, and the resolver is sound, as the target probe of         *)
(* WarehouseRecovery is.                                                   *)
(***************************************************************************)
EXTENDS RetryRuntime, QuarantineGovernance

ASSUME ReplayAssumption == NoRun \notin RunIds /\ Reviews \cap {"original", "none"} = {}

VARIABLES scope,            \* Calls -> quarantine ids of its REPLAY request
          replay,           \* Calls -> step of execute_quarantine_replay
          prepared,         \* Calls -> Batches -> the payload its attempt will apply
          inflight,         \* mutations that may still commit
          applied           \* mutations in the target

retryVars == <<request, lineage, audit, call>>
replayVars == <<scope, replay, prepared>>
targetVars == <<inflight, applied>>
vars == <<retryVars, governanceVars, marker, replayVars, targetVars>>

\* A payload is the original rows or the rows of a correction.
Payloads == {"original"} \cup Reviews
NoPayloads == [q \in Batches |-> "none"]
Mutations == [run : RunIds, payload : [Batches -> Payloads \cup {"none"}]]
Mutation(c) == [run |-> CurrentRun(c), payload |-> prepared[c]]
RunsOf(mutations) == {m.run : m \in mutations}
ReplaySteps == {"idle", "scope", "payload", "mutate", "mark"}

TypeOK ==
    /\ RetryTypeOK
    /\ \A q \in Batches : events[q] \subseteq ReviewEvents
    /\ marker \in [Batches -> RunIds \cup {NoRun}]
    /\ scope \in [Calls -> (SUBSET Batches) \ {{}}]
    /\ replay \in [Calls -> ReplaySteps]
    /\ prepared \in [Calls -> [Batches -> Payloads \cup {"none"}]]
    /\ inflight \subseteq Mutations /\ applied \subseteq Mutations
    /\ \A c \in Calls : replay[c] # "idle" <=> call[c].step = "attempt"

Init ==
    /\ RetryInit /\ GovernanceInit
    /\ marker = [q \in Batches |-> NoRun]
    /\ scope \in [Calls -> (SUBSET Batches) \ {{}}]
    /\ replay = [c \in Calls |-> "idle"]
    /\ prepared = [c \in Calls |-> NoPayloads]
    /\ inflight = {} /\ applied = {}

-----------------------------------------------------------------------------
(* execute_quarantine_replay, one attempt of a call. *)

Step(c, next) ==
    /\ replay' = [replay EXCEPT ![c] = next]
    /\ UNCHANGED retryVars

\* The attempt ends by returning, or with an exception.
Forget(c) ==
    /\ replay' = [replay EXCEPT ![c] = "idle"]
    /\ prepared' = [prepared EXCEPT ![c] = NoPayloads]
Return(c) == AttemptReturns(c) /\ Forget(c)
RaiseFrom(c, exc) == AttemptRaises(c, exc) /\ Forget(c)

\* _load_batches and _validate_batch_scope.  already_replayed is for a caller that
\* brings a run id of its own: an attempt's is fresh, so no scope carries it yet.
ReadScope(c) ==
    LET markers == {marker[q] : q \in scope[c]} IN
    /\ replay[c] = "scope"
    /\ \/ markers = {NoRun} /\ Step(c, "payload") /\ UNCHANGED prepared
       \/ /\ markers # {NoRun}
          /\ IF markers = {CurrentRun(c)} THEN Return(c) ELSE RaiseFrom(c, "other")
    /\ UNCHANGED <<governanceVars, marker, scope, targetVars>>

\* _validate_correction_provenance: a case resolved by a manual correction takes
\* exactly that correction, any other case the original.
Approved(q, payload) ==
    LET manual == CaseStatus(q) = "RESOLVED" /\ CaseCorrection(q) # NoReview
    IN  IF payload = "original" THEN ~manual
        ELSE manual /\ payload = CaseCorrection(q)

\* load_payload, _validate_payload and the provenance of one batch after another.
LoadPayload(c) ==
    /\ replay[c] = "payload"
    /\ \E q \in scope[c], payload \in Payloads :
        /\ prepared[c][q] = "none"
        /\ \/ /\ Approved(q, payload)
              /\ prepared' = [prepared EXCEPT ![c][q] = payload]
              /\ Step(c, IF \A p \in scope[c] \ {q} : prepared[c][p] # "none"
                         THEN "mutate" ELSE "payload")
           \/ ~Approved(q, payload) /\ RaiseFrom(c, "other")
    /\ UNCHANGED <<governanceVars, marker, scope, targetVars>>

\* The provider, or a control-plane read, raises.
LoadFails(c) ==
    /\ replay[c] \in {"scope", "payload"}
    /\ \E exc \in {"RetryableExecutionError", "PermanentExecutionError", "other"} :
          RaiseFrom(c, exc)
    /\ UNCHANGED <<governanceVars, marker, scope, targetVars>>

\* execute_payloads returns and the gate lets the state advance.
MutationPasses(c) ==
    /\ replay[c] = "mutate"
    /\ applied' = applied \cup {Mutation(c)}
    /\ Step(c, "mark")
    /\ UNCHANGED <<governanceVars, marker, scope, prepared, inflight>>

\* The mutation is rolled back with a transient error, or ends, in the target or
\* not, with a failed gate or any other error.
MutationFails(c) ==
    /\ replay[c] = "mutate"
    /\ \/ applied' = applied /\ RaiseFrom(c, "RetryableExecutionError")
       \/ /\ applied' \in {applied, applied \cup {Mutation(c)}}
          /\ \E exc \in {"PermanentExecutionError", "other"} : RaiseFrom(c, exc)
    /\ UNCHANGED <<governanceVars, marker, scope, inflight>>

\* The answer is lost: the mutation may have committed, or may yet.
MutationUnknown(c) ==
    /\ replay[c] = "mutate"
    /\ inflight' = inflight \cup {Mutation(c)}
    /\ RaiseFrom(c, "UnknownCommitOutcomeError")
    /\ UNCHANGED <<governanceVars, marker, scope, applied>>

\* The target commits or drops a mutation whose answer was lost.
TargetDecides ==
    /\ \E m \in inflight :
        /\ inflight' = inflight \ {m}
        /\ applied' \in {applied, applied \cup {m}}
    /\ UNCHANGED <<retryVars, governanceVars, marker, replayVars>>

\* Mutant of MarkConflicts: the last replay overwrites the marker.
MarkConflictsNever(c) == FALSE

\* mark_quarantine_replayed finds another run's marker.
MarkConflicts(c) == \E q \in scope[c] : marker[q] \notin {NoRun, CurrentRun(c)}

\* mark_quarantine_replayed, in one transaction; it may raise after it took effect.
Mark(c) ==
    /\ replay[c] = "mark"
    /\ \/ MarkConflicts(c) /\ marker' = marker /\ RaiseFrom(c, "other")
       \/ /\ ~MarkConflicts(c)
          /\ marker' = [q \in Batches |-> IF q \in scope[c] THEN CurrentRun(c) ELSE marker[q]]
          /\ Return(c) \/ RaiseFrom(c, "other")
    /\ UNCHANGED <<governanceVars, scope, targetVars>>

\* The transaction of mark_quarantine_replayed raises without effect.
MarkFails(c) ==
    /\ replay[c] = "mark"
    /\ RaiseFrom(c, "other")
    /\ UNCHANGED <<governanceVars, marker, scope, targetVars>>

-----------------------------------------------------------------------------
(* The call around it. *)

\* An attempt begins with execute_attempt.
BeginAttempt(c) ==
    /\ RecordLineage(c)
    /\ replay' = [replay EXCEPT ![c] = IF call'[c].step = "attempt" THEN "scope" ELSE "idle"]
    /\ UNCHANGED <<governanceVars, marker, scope, prepared, targetVars>>

\* resolve_unknown_outcome says COMMITTED or NOT_COMMITTED only when it is so.
ResolveOutcome(c) ==
    /\ \E resolution \in Resolutions :
        /\ resolution = "COMMITTED" => CurrentRun(c) \in RunsOf(applied)
        /\ resolution = "NOT_COMMITTED" => CurrentRun(c) \notin RunsOf(applied \cup inflight)
        /\ Resolve(c, resolution)
    /\ UNCHANGED <<governanceVars, marker, replayVars, targetVars>>

Bookkeeping(c) ==
    /\ Begin(c) \/ AuditFailed(c) \/ AuditSucceeded(c) \/ CloseRequest(c)
    /\ UNCHANGED <<governanceVars, marker, replayVars, targetVars>>

\* The process dies.  Death during the mutation leaves it to the target.
Dies(c) ==
    /\ CallDies(c) /\ Forget(c)
    /\ inflight' = IF replay[c] = "mutate" THEN inflight \cup {Mutation(c)} ELSE inflight
    /\ UNCHANGED <<governanceVars, marker, scope, applied>>

Reviewing(v) ==
    /\ ValidateReview(v) \/ InsertReview(v) \/ ReviewConflicts(v)
    /\ UNCHANGED <<retryVars, marker, replayVars, targetVars>>

Next ==
    \/ \E c \in Calls :
        \/ Bookkeeping(c) \/ BeginAttempt(c) \/ ReadScope(c) \/ LoadPayload(c)
        \/ LoadFails(c) \/ MutationPasses(c) \/ MutationFails(c) \/ MutationUnknown(c)
        \/ Mark(c) \/ MarkFails(c) \/ ResolveOutcome(c) \/ Dies(c)
    \/ TargetDecides
    \/ \E v \in Reviews : Reviewing(v)

Spec == Init /\ [][Next]_vars

-----------------------------------------------------------------------------
(* Properties. *)

\* One call mutates the target at most once: a mutation that is in the target, or
\* may still get there after its answer was lost, is never followed by another
\* attempt (execute_with_retry retries only what is transient or NOT_COMMITTED).
OneEffectPerCall ==
    \A m, n \in applied \cup inflight : m.run[1] = n.run[1] => m = n

\* The audit row of an attempt is true of the target: SUCCEEDED means that the
\* mutation is there, retryable that it is not and never will be.
AuditIsHonest ==
    \A r \in RunIds :
        /\ audit[r].status = "SUCCEEDED" => r \in RunsOf(applied)
        /\ audit[r].retryable => r \notin RunsOf(applied \cup inflight)

\* The lineage of a call has no gap, and an attempt after the first follows one
\* that was durably audited as failed and retryable.
LineageIsChain ==
    \A r \in lineage :
        r[2] > 1 =>
            /\ <<r[1], r[2] - 1>> \in lineage
            /\ audit[<<r[1], r[2] - 1>>] = [status |-> "FAILED", retryable |-> TRUE]

\* A request is closed as SUCCEEDED only with its mutation in the target and its
\* whole scope marked by the attempt that made it, or when the answer was lost and
\* the resolver found the mutation; as FAILED only when no attempt was audited as
\* SUCCEEDED.
ClosedHonestly ==
    \A c \in Calls :
        /\ request[c] = "SUCCEEDED" =>
            /\ CurrentRun(c) \in RunsOf(applied)
            /\ \/ \A q \in scope[c] : marker[q] = CurrentRun(c)
               \/ call[c].disposition = "UNKNOWN_OUTCOME"
        /\ request[c] = "FAILED" => \A r \in RunIds : r[1] = c => audit[r].status # "SUCCEEDED"

\* A batch is marked only by an attempt whose mutation, with a payload for that
\* batch, is in the target, and together with the rest of the attempt's scope:
\* overlapping replays never share a scope between them (mark_quarantine_replayed).
MarkerIsBacked ==
    \A q \in Batches :
        marker[q] # NoRun =>
            /\ \E m \in applied : m.run = marker[q] /\ m.payload[q] # "none"
            /\ \A p \in scope[marker[q][1]] : marker[p] = marker[q]

\* A correction reaches the target only if it is the one that the review of its
\* batch approved, whatever reviews were under way (_validate_correction_provenance).
OnlyApprovedCorrections ==
    \A m \in applied \cup inflight, q \in Batches :
        m.payload[q] \in Reviews => m.payload[q] = CaseCorrection(q)

\* Competing reviewers never leave two decisions for one status, or a decision
\* that does not follow from OPEN: the case can always be derived (_ordered_events).
ReviewIsChain == \A q \in Batches : IsReviewChain(events[q])

\* What a call leaves behind is true: its audit rows of the target, its lineage of
\* its attempts, its request status of both, through lost answers, late commits,
\* failing writes and deaths (execute_with_retry).
RecordsAreHonest == AuditIsHonest /\ LineageIsChain /\ ClosedHonestly

\* Governance holds against races of reviewers with each other and with replays:
\* one decision per status, and only approved corrections are applied.
GovernanceHolds == ReviewIsChain /\ OnlyApprovedCorrections
=============================================================================
