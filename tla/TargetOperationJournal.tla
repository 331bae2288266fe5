----------------------- MODULE TargetOperationJournal -----------------------
(***************************************************************************)
(* The durable target-operation journal of the control plane               *)
(* (control_plane/target_operation_journal.py over the tables              *)
(* target_operation and target_operation_event).                           *)
(*                                                                         *)
(* One row per semantic operation key holds a status and a version.  Every *)
(* write bumps the version and appends one event in the same transaction.  *)
(* An operator below is one database transaction that writes the row; the  *)
(* reads that precede it belong to the processes in WarehouseRecovery.     *)
(***************************************************************************)
EXTENDS Integers, OperationIdentity

VARIABLES status,       \* Ops -> row status, "ABSENT" when there is no row
          version,      \* Ops -> row version, 0 when there is no row
          events        \* Ops -> set of journal events of the operation

journalVars == <<status, version, events>>

Statuses == {"IN_PROGRESS", "SUCCEEDED", "UNKNOWN", "NOT_COMMITTED"}

Event == [version : Nat, from : Statuses \cup {"ABSENT"}, to : Statuses]

\* A probe of the target answers one of these.
Resolutions == {"COMMITTED", "NOT_COMMITTED", "UNRESOLVED"}

\* _ALLOWED_TRANSITIONS / require_target_operation_transition.
AllowedTransitions(before) ==
    CASE before \in {"IN_PROGRESS", "UNKNOWN"} ->
            {"SUCCEEDED", "UNKNOWN", "NOT_COMMITTED"}
      [] before = "NOT_COMMITTED" -> {"IN_PROGRESS"}
      [] OTHER -> {}

JournalInit ==
    /\ status = [o \in Ops |-> "ABSENT"]
    /\ version = [o \in Ops |-> 0]
    /\ events = [o \in Ops |-> {}]

\* The row update and _insert_event, in one engine.begin() transaction.
WriteRowStaleEvent(o, to) ==
    /\ status' = [status EXCEPT ![o] = to]
    /\ version' = [version EXCEPT ![o] = @ + 1]
    /\ events' = [events EXCEPT ![o] = @ \cup
          {[version |-> version[o], from |-> status[o], to |-> to]}]

WriteRow(o, to) ==
    /\ status' = [status EXCEPT ![o] = to]
    /\ version' = [version EXCEPT ![o] = @ + 1]
    /\ events' = [events EXCEPT ![o] = @ \cup
          {[version |-> version[o] + 1, from |-> status[o], to |-> to]}]

\* claim_target_operation, unseen key: the primary key makes a second insert
\* fail with IntegrityError.
InsertClaim(o) == status[o] = "ABSENT" /\ WriteRow(o, "IN_PROGRESS")

\* claim_target_operation, retry: UPDATE ... WHERE version = read version AND
\* status = NOT_COMMITTED; a rowcount other than 1 is a version conflict.
RetryClaimUnguarded(o, v) ==
    status[o] \in {"NOT_COMMITTED", "IN_PROGRESS"} /\ WriteRow(o, "IN_PROGRESS")

RetryClaim(o, v) ==
    /\ version[o] = v
    /\ status[o] = "NOT_COMMITTED"
    /\ WriteRow(o, "IN_PROGRESS")

\* transition_target_operation: the row is read, its version compared with the
\* caller's and the UPDATE repeats the version test; every write bumps the
\* version, so the two tests are one compare-and-swap.
CanTransitionAnyVersion(o, v, to) ==
    to \in AllowedTransitions(status[o])

CanTransition(o, v, to) ==
    version[o] = v /\ to \in AllowedTransitions(status[o])

Transition(o, v, to) == CanTransition(o, v, to) /\ WriteRow(o, to)

\* The status reconcile_target_operation records for a probe's resolution.
StatusFor(resolution) ==
    CASE resolution = "COMMITTED" -> "SUCCEEDED"
      [] resolution = "NOT_COMMITTED" -> "NOT_COMMITTED"
      [] OTHER -> "UNKNOWN"

JournalTypeOK ==
    /\ status \in [Ops -> Statuses \cup {"ABSENT"}]
    /\ version \in [Ops -> Nat]
    /\ events \in [Ops -> SUBSET Event]

(***************************************************************************)
(* The immutable events of an operation replay to its current row: exactly *)
(* one event per version, each starting where its predecessor ended, the   *)
(* last one ending in the row's status.  This is what lets an operator     *)
(* reconstruct why a retry was executed, skipped or blocked                *)
(* (target_operation_journal.py, transition_target_operation with          *)
(* _insert_event).                                                         *)
(***************************************************************************)
EventsReplayJournal ==
    \A o \in Ops :
        /\ version[o] = 0 <=> status[o] = "ABSENT"
        /\ \A v \in 1..version[o] : \E e \in events[o] : e.version = v
        /\ \A e \in events[o] :
              /\ e.version \in 1..version[o]
              /\ e.version = version[o] => e.to = status[o]
              /\ e.version = 1 => e.from = "ABSENT"
        /\ \A e, f \in events[o] :
              /\ e.version = f.version => e = f
              /\ f.version = e.version + 1 => f.from = e.to

=============================================================================
