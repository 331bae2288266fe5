---------------------------- MODULE DatasetLease ----------------------------
(***************************************************************************)
(* The durable execution claim of one dataset                              *)
(* (control_plane/dataset_lease.py) and its governed recovery              *)
(* (control_plane/dataset_lease_recovery.py).  The row's key is the        *)
(* dataset, so rows of different datasets never meet and one is enough.    *)
(* A lease owner is a fresh UUID of its execution: a run stands for the    *)
(* whole identity (lease_owner, dataset_run_id, lease_version).            *)
(***************************************************************************)
CONSTANTS Runs,         \* executions that may claim the dataset
          NoRun         \* "there is no row"

ASSUME LeaseAssumption == NoRun \notin Runs

VARIABLES holder,       \* the run whose claim is persisted, or NoRun
          overdue,      \* the row's review deadline has passed
          recoveries    \* runs with a dataset_lease_recovery_event

leaseVars == <<holder, overdue, recoveries>>

LeaseInit == holder = NoRun /\ overdue = FALSE /\ recoveries = {}

\* INSERT under the primary key dataset_id; the deadline lies in the future.
AcquireLease(r) ==
    /\ holder = NoRun
    /\ holder' = r /\ overdue' = FALSE
    /\ UNCHANGED recoveries

\* DELETE of exactly the caller's claim.
ReleaseLease(r) ==
    /\ holder = r
    /\ holder' = NoRun /\ overdue' = FALSE
    /\ UNCHANGED recoveries

\* Time passes; nothing happens to the claim by itself.
DeadlinePasses ==
    /\ holder # NoRun /\ ~overdue
    /\ overdue' = TRUE
    /\ UNCHANGED <<holder, recoveries>>

\* recover_abandoned_dataset_lease for the exact identity r: after the deadline,
\* DELETE and evidence in one transaction.
RecoverLease(r) ==
    /\ holder = r /\ overdue
    /\ holder' = NoRun /\ overdue' = FALSE
    /\ recoveries' = recoveries \cup {r}

LeaseTypeOK ==
    /\ holder \in Runs \cup {NoRun}
    /\ overdue \in BOOLEAN
    /\ recoveries \subseteq Runs
=============================================================================
