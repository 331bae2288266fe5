------------------------ MODULE QuarantineGovernance ------------------------
(***************************************************************************)
(* Governed review of quarantine batches                                   *)
(* (control_plane/quarantine_governance.py): append-only review events, at *)
(* most one per batch and prior status, manual corrections, and the replay *)
(* marker on the batch (control_plane/io.py).                              *)
(*                                                                         *)
(* A review transaction reads the case and inserts its event in two        *)
(* statements; the control plane runs it at the database's default         *)
(* isolation, so other transactions may commit in between.  REJECTED       *)
(* stands for WAIVED too, and of the resolutions only MANUAL_CORRECTION is *)
(* told apart: the code treats the others alike.                           *)
(***************************************************************************)
EXTENDS Naturals

CONSTANTS Batches,          \* quarantine ids
          Reviews,          \* calls by reviewers; a correction is known by its review
          NoReview,         \* no correction_id
          NoRun             \* no replayed_by_dataset_run_id

ASSUME GovernanceAssumption == NoReview \notin Reviews

VARIABLES events,           \* Batches -> quarantine_review_event rows
          marker,           \* Batches -> replayed_by_dataset_run_id
          review            \* Reviews -> the call's progress, batch and event

governanceVars == <<events, review>>

Statuses == {"OPEN", "UNDER_REVIEW", "RESOLVED", "REJECTED", "REPLAYED"}
Terminal == {"RESOLVED", "REJECTED"}

\* _ALLOWED_TRANSITIONS
AllowedTransitions(status) ==
    CASE status = "OPEN" -> {"UNDER_REVIEW"} \cup Terminal
      [] status = "UNDER_REVIEW" -> Terminal
      [] OTHER -> {}

\* QuarantineReviewEvent and the checks on its shape: a manual correction
\* resolves a case under review and carries its correction.
ReviewEvents ==
    {e \in [from : Statuses, to : Statuses, correction : Reviews \cup {NoReview}] :
        /\ e.to \in AllowedTransitions(e.from)
        /\ e.correction # NoReview => e.from = "UNDER_REVIEW" /\ e.to = "RESOLVED"}

GovernanceInit ==
    /\ events = [q \in Batches |-> {}]
    /\ review = [v \in Reviews |-> [step |-> "idle"]]

-----------------------------------------------------------------------------
(* The case, derived from the events and the marker. *)

\* _ordered_events accepts the rows: one event per prior status, from OPEN on.
IsReviewChain(rows) ==
    /\ \A e, f \in rows : e.from = f.from => e = f
    /\ \A e \in rows : e.from = "OPEN" \/ \E f \in rows : f.to = e.from

\* The last event of the chain, or one that stands for none.
Latest(rows) ==
    IF rows = {} THEN [from |-> "OPEN", to |-> "OPEN", correction |-> NoReview]
    ELSE CHOOSE e \in rows : \A f \in rows : f.from # e.to

\* _case_from_connection
CaseStatus(q) == IF marker[q] # NoRun THEN "REPLAYED" ELSE Latest(events[q]).to
CaseCorrection(q) == Latest(events[q]).correction

-----------------------------------------------------------------------------
(* record_quarantine_review_event, resolve_quarantine_with_manual_correction *)

\* The transaction has read the case and found the event valid.  An event that is
\* not valid is refused without effect.
ValidateReview(v) ==
    /\ review[v].step = "idle"
    /\ \E q \in Batches, e \in ReviewEvents :
        /\ e.correction \in {v, NoReview}
        /\ e.from = CaseStatus(q)
        /\ review' = [review EXCEPT ![v] = [step |-> "validated", batch |-> q, event |-> e]]
    /\ UNCHANGED events

\* Mutant of TransitionClaimed: no unique transition_key.
TransitionClaimedNever(q, from) == FALSE

\* The unique transition_key of the batch and the prior status.
TransitionClaimed(q, from) == \E e \in events[q] : e.from = from

\* The event, and the correction with it, is inserted.
InsertReview(v) ==
    /\ review[v].step = "validated"
    /\ ~TransitionClaimed(review[v].batch, review[v].event.from)
    /\ events' = [events EXCEPT ![review[v].batch] = @ \cup {review[v].event}]
    /\ review' = [review EXCEPT ![v] = [step |-> "done"]]

\* IntegrityError, raised as QuarantineTransitionConflict.
ReviewConflicts(v) ==
    /\ review[v].step = "validated"
    /\ TransitionClaimed(review[v].batch, review[v].event.from)
    /\ review' = [review EXCEPT ![v] = [step |-> "done"]]
    /\ UNCHANGED events
=============================================================================
