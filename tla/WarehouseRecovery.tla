-------------------------- MODULE WarehouseRecovery --------------------------
(***************************************************************************)
(* Attempts of target mutations against a Fabric Warehouse: the composition*)
(* of the control-plane journal (TargetOperationJournal) and the target    *)
(* (FabricWarehouse) by the code that claims, executes, marks, probes and  *)
(* reconciles: claim_target_operation, execute_atomic,                     *)
(* probe_and_reconcile_target_operation and the session-termination        *)
(* certifier, as evidence/integration/approved/warehouse.py and            *)
(* warehouse_fault_stages.py drive them.                                   *)
(*                                                                         *)
(* Journal and target are different databases: every read and every write  *)
(* of either is a step of its own, runs interleave at every step, and a    *)
(* run may lose its connection or die between any two steps while its      *)
(* transaction lives on in the target.                                     *)
(***************************************************************************)
EXTENDS TargetOperationJournal, FabricWarehouse

CONSTANTS MaxProbes,    \* bound: probes one run may make
          NoRun         \* the binding of a probe that has no certifier

ASSUME MaxProbesAssumption == MaxProbes \in Nat \ {0}
ASSUME NoRunAssumption == NoRun \notin Runs

VARIABLES pc,           \* Runs -> where the run is in its code
          ver,          \* Runs -> row version of the last record the run read
          res,          \* Runs -> resolution its current probe returned
          bind,         \* Runs -> run whose session its certifier is bound to
          bound,        \* runs whose session binding was captured
          probes        \* Runs -> probes made so far

clientVars == <<pc, ver, res, bind, bound, probes>>
vars == <<journalVars, warehouseVars, clientVars>>

Ended == {"done", "stopped", "crashed"}
ProbePcs == {"probe", "readMarkers", "observe", "terminate", "observeAgain",
             "rereadMarkers", "reconcile"}
Pcs == Ended \cup ProbePcs \cup
       {"start", "insert", "cas", "reread", "claimed", "executing",
        "committing", "acked", "raised"}

Init ==
    /\ JournalInit /\ WarehouseInit
    /\ pc = [r \in Runs |-> "start"]
    /\ ver = [r \in Runs |-> 0]
    /\ res = [r \in Runs |-> "UNRESOLVED"]
    /\ bind = [r \in Runs |-> NoRun]
    /\ bound = {}
    /\ probes = [r \in Runs |-> 0]

Goto(r, label) == pc' = [pc EXCEPT ![r] = label]

\* A run that raises out of its driver without having written anything.
Stop(r) ==
    /\ Goto(r, "stopped")
    /\ UNCHANGED <<journalVars, warehouseVars, ver, res, bind, bound, probes>>

-----------------------------------------------------------------------------
(* claim_target_operation *)

\* The SELECT and the branch on the row's status.
ClaimSelect(r) ==
    /\ pc[r] = "start"
    /\ ver' = [ver EXCEPT ![r] = version[KeyOf[r]]]
    /\ Goto(r, CASE status[KeyOf[r]] = "ABSENT" -> "insert"
                 [] status[KeyOf[r]] = "SUCCEEDED" -> "done"
                 [] status[KeyOf[r]] = "NOT_COMMITTED" -> "cas"
                 [] OTHER -> "probe")
    /\ UNCHANGED <<journalVars, warehouseVars, res, bind, bound, probes>>

\* First claim: EXECUTE with the record built from the inserted values, or
\* IntegrityError raised as TargetOperationVersionConflict.
ClaimInsert(r) ==
    /\ pc[r] = "insert"
    /\ \/ /\ InsertClaim(KeyOf[r])
          /\ ver' = [ver EXCEPT ![r] = 1]
          /\ Goto(r, "claimed")
          /\ UNCHANGED <<warehouseVars, res, bind, bound, probes>>
       \/ status[KeyOf[r]] # "ABSENT" /\ Stop(r)

\* Retry claim: the guarded UPDATE, or TargetOperationVersionConflict.
ClaimRetry(r) ==
    /\ pc[r] = "cas"
    /\ \/ /\ RetryClaim(KeyOf[r], ver[r])
          /\ Goto(r, "reread")
          /\ UNCHANGED <<warehouseVars, ver, res, bind, bound, probes>>
       \/ version[KeyOf[r]] # ver[r] /\ Stop(r)

\* The record of a retry claim is read after the transaction committed, so its
\* version may already be somebody else's.
ClaimReread(r) ==
    /\ pc[r] = "reread"
    /\ ver' = [ver EXCEPT ![r] = version[KeyOf[r]]]
    /\ Goto(r, "claimed")
    /\ UNCHANGED <<journalVars, warehouseVars, res, bind, bound, probes>>

-----------------------------------------------------------------------------
(* Execution: FabricWarehouseMarkerStore.execute_atomic *)

\* A compare-and-swap of the row from the run's version, or a version conflict.
Mark(r, to, label) ==
    \/ /\ Transition(KeyOf[r], ver[r], to)
       /\ Goto(r, label)
       /\ UNCHANGED <<warehouseVars, ver, res, bind, bound, probes>>
    \/ ~CanTransition(KeyOf[r], ver[r], to) /\ Stop(r)

\* _fault_not_armed: nothing was sent to the target, give the claim back.
NotArmed(r) ==
    /\ pc[r] = "claimed"
    /\ Mark(r, "NOT_COMMITTED", "stopped")

\* The body of execute_atomic up to COMMIT: a committed marker is accepted as
\* proof and nothing is executed, otherwise mutation and marker are written in
\* one transaction of a new session.
ExecuteAtomic(r) ==
    /\ pc[r] = "claimed"
    /\ IF markers[KeyOf[r]] # {}
         THEN /\ Goto(r, "acked")
              /\ UNCHANGED <<warehouseVars, bound>>
         ELSE /\ OpenSession(r)
              /\ bound' \in {bound, bound \cup {r}}
              /\ Goto(r, "executing")
    /\ UNCHANGED <<journalVars, ver, res, bind, probes>>

\* The with block ends: COMMIT goes to the server.
SendCommit(r) ==
    /\ pc[r] = "executing"
    /\ sent' = sent \cup {r}
    /\ Goto(r, "committing")
    /\ UNCHANGED <<journalVars, session, sid, markers, applied,
                   ver, res, bind, bound, probes>>

\* The mutation or the marker insert raises: engine.begin() rolls back.
MutationFails(r) ==
    /\ pc[r] = "executing"
    /\ ClientRollback(r)
    /\ Goto(r, "raised")
    /\ UNCHANGED <<journalVars, ver, res, bind, bound, probes>>

\* COMMIT returns.
CommitReturns(r) ==
    /\ pc[r] = "committing" /\ r \in markers[KeyOf[r]]
    /\ Goto(r, "acked")
    /\ UNCHANGED <<journalVars, warehouseVars, ver, res, bind, bound, probes>>

\* The driver raises while the server keeps the transaction, or has committed
\* it, or has rolled it back: the client cannot tell which.
ConnectionLost(r) ==
    /\ pc[r] \in {"executing", "committing"}
    /\ Goto(r, "raised")
    /\ UNCHANGED <<journalVars, warehouseVars, ver, res, bind, bound, probes>>

\* The acknowledged outcome: mark_target_operation_succeeded, or UNKNOWN where
\* the approved drivers lose the acknowledgement on purpose.
MarkOutcome(r) ==
    /\ pc[r] = "acked"
    /\ Mark(r, "SUCCEEDED", "done") \/ Mark(r, "UNKNOWN", "probe")

\* The drivers' except branch: mark_target_operation_unknown, then probe.
MarkUnknown(r) ==
    /\ pc[r] = "raised"
    /\ Mark(r, "UNKNOWN", "probe")

-----------------------------------------------------------------------------
(* probe_and_reconcile_target_operation *)

\* The runs whose retained binding a certifier for r's operation may be given.
Bindings(r) == {b \in bound : KeyOf[b] = KeyOf[r]}

\* read_target_operation and TargetCommitProbeRequest.from_record; the probe is
\* built plain (NoRun) or with a certifier bound to a retained session.
ProbeRead(r) ==
    /\ pc[r] = "probe"
    /\ \/ /\ status[KeyOf[r]] \in {"IN_PROGRESS", "UNKNOWN"}
          /\ \E b \in Bindings(r) \cup {NoRun} : bind' = [bind EXCEPT ![r] = b]
          /\ ver' = [ver EXCEPT ![r] = version[KeyOf[r]]]
          /\ probes' = [probes EXCEPT ![r] = @ + 1]
          /\ Goto(r, "readMarkers")
          /\ UNCHANGED <<journalVars, warehouseVars, res, bound>>
       \/ status[KeyOf[r]] \notin {"IN_PROGRESS", "UNKNOWN"} /\ Stop(r)

\* The probe returns a resolution, still to be persisted.
Resolve(r, resolution) ==
    /\ res' = [res EXCEPT ![r] = resolution]
    /\ Goto(r, "reconcile")
    /\ UNCHANGED <<journalVars, warehouseVars, ver, bind, bound, probes>>

Advance(r, label) ==
    /\ Goto(r, label)
    /\ UNCHANGED <<journalVars, warehouseVars, ver, res, bind, bound, probes>>

\* Any provider call of a probe may raise: UNRESOLVED.
ProviderFails(r) ==
    /\ pc[r] \in {"readMarkers", "observe", "terminate", "observeAgain",
                  "rereadMarkers"}
    /\ Resolve(r, "UNRESOLVED")

\* FabricWarehouseTargetCommitProbe.probe: a marker is COMMITTED; absence alone
\* is UNRESOLVED and only a certifier goes on.
ReadMarkers(r) ==
    /\ pc[r] = "readMarkers"
    /\ \/ markers[KeyOf[r]] # {} /\ Resolve(r, "COMMITTED")
       \/ markers[KeyOf[r]] = {} /\ bind[r] = NoRun /\ Resolve(r, "UNRESOLVED")
       \/ markers[KeyOf[r]] = {} /\ bind[r] # NoRun /\ Advance(r, "observe")

\* certify_absence, first observation: connection and session id identify the
\* bound session; it must be listed with an open transaction.
Observe(r) ==
    /\ pc[r] = "observe"
    /\ \/ Observable(bind[r]) /\ HasOpenTransaction(bind[r]) /\ Advance(r, "terminate")
       \/ ~(Observable(bind[r]) /\ HasOpenTransaction(bind[r]))
          /\ Resolve(r, "UNRESOLVED")

\* terminate: KILL <session_id>, by number alone.  KILL of a number nobody
\* holds raises.
Terminate(r) ==
    /\ pc[r] = "terminate"
    /\ \/ /\ KillSession(sid[bind[r]])
          /\ Goto(r, "observeAgain")
          /\ UNCHANGED <<journalVars, ver, res, bind, bound, probes>>
       \/ KillTargets(sid[bind[r]]) = {} /\ Resolve(r, "UNRESOLVED")

ObserveAgainIgnoringRollback(r) ==
    /\ pc[r] = "observeAgain"
    /\ Advance(r, "rereadMarkers")

\* The second observation: the exact session must be gone.
ObserveAgain(r) ==
    /\ pc[r] = "observeAgain"
    /\ \/ ~Observable(bind[r]) /\ Advance(r, "rereadMarkers")
       \/ Observable(bind[r]) /\ Resolve(r, "UNRESOLVED")

\* The second marker read: a marker that won the race forbids NOT_COMMITTED.
RereadMarkers(r) ==
    /\ pc[r] = "rereadMarkers"
    /\ Resolve(r, IF markers[KeyOf[r]] = {} THEN "NOT_COMMITTED" ELSE "UNRESOLVED")

\* Where a run goes once its probe's result is durable: an unresolved one may
\* be probed again (the drill probes plain, with the certifier, plain again).
AfterReconcile(r) ==
    IF res[r] # "UNRESOLVED" THEN {"done"}
    ELSE {"stopped"} \cup (IF probes[r] < MaxProbes THEN {"probe"} ELSE {})

\* reconcile_target_operation: SUCCEEDED absorbs COMMITTED and refuses the rest;
\* any other row is compare-and-swapped from the version the probe read.
Reconcile(r) ==
    /\ pc[r] = "reconcile"
    /\ IF status[KeyOf[r]] = "SUCCEEDED"
         THEN IF res[r] = "COMMITTED" THEN Advance(r, "done") ELSE Stop(r)
         ELSE \E label \in AfterReconcile(r) : Mark(r, StatusFor(res[r]), label)

-----------------------------------------------------------------------------
(* Faults, the target's own steps, and the specification *)

\* The process dies; its target session is not touched.
Crash(r) ==
    /\ pc[r] \notin Ended
    /\ Goto(r, "crashed")
    /\ UNCHANGED <<journalVars, warehouseVars, ver, res, bind, bound, probes>>

ClientStep(r) ==
    \/ ClaimSelect(r) \/ ClaimInsert(r) \/ ClaimRetry(r) \/ ClaimReread(r)
    \/ NotArmed(r) \/ ExecuteAtomic(r) \/ SendCommit(r) \/ MutationFails(r)
    \/ CommitReturns(r) \/ ConnectionLost(r) \/ MarkOutcome(r) \/ MarkUnknown(r)
    \/ ProbeRead(r) \/ ProviderFails(r) \/ ReadMarkers(r) \/ Observe(r)
    \/ Terminate(r) \/ ObserveAgain(r) \/ RereadMarkers(r) \/ Reconcile(r)

\* The target moves on its own, whatever the client does.
TargetStep(r) ==
    \/ ServerCommit(r) /\ UNCHANGED <<journalVars, clientVars>>
    \/ SessionEnds(r) /\ UNCHANGED <<journalVars, clientVars>>

\* Every run is over and the target has nothing left to do.
Terminated ==
    /\ \A r \in Runs : pc[r] \in Ended /\ ~Observable(r)
    /\ UNCHANGED vars

Next ==
    \/ \E r \in Runs : ClientStep(r) \/ Crash(r) \/ TargetStep(r)
    \/ Terminated

Spec == Init /\ [][Next]_vars

-----------------------------------------------------------------------------
TypeOK ==
    /\ JournalTypeOK /\ WarehouseTypeOK
    /\ pc \in [Runs -> Pcs]
    /\ ver \in [Runs -> Nat]
    /\ res \in [Runs -> Resolutions]
    /\ bind \in [Runs -> Runs \cup {NoRun}]
    /\ bound \subseteq Runs
    /\ probes \in [Runs -> 0..MaxProbes]

(***************************************************************************)
(* A semantic target mutation takes effect at most once, however many      *)
(* attempts claim, crash, lose their COMMIT acknowledgement, probe and     *)
(* retry it (claim_target_operation, execute_atomic, certify_absence).     *)
(* The marker table has no enforced key, so nothing in the target forbids  *)
(* a second commit.                                                        *)
(***************************************************************************)
AtMostOnce == \A o \in Ops : applied[o] <= 1

(***************************************************************************)
(* A journal row that says SUCCEEDED is backed by a committed marker in    *)
(* the target: recovery never reports success for a mutation that did not  *)
(* happen (mark_target_operation_succeeded, reconcile_target_operation).   *)
(***************************************************************************)
SucceededIsCommitted ==
    \A o \in Ops : status[o] = "SUCCEEDED" => markers[o] # {}

\* Run r holds an EXECUTE claim it may still act on, or a transaction the
\* target may still commit.
MayStillCommit(r) == pc[r] \in {"reread", "claimed"} \/ HasOpenTransaction(r)

(***************************************************************************)
(* NOT_COMMITTED opens the operation for a retry, so it must be final: no  *)
(* marker is committed and no earlier attempt holds a claim or an open     *)
(* transaction that could commit later (certify_absence; the "no late      *)
(* commit" guarantee of fabric_warehouse_session_absence.py).              *)
(***************************************************************************)
NotCommittedIsFinal ==
    \A o \in Ops : status[o] = "NOT_COMMITTED" =>
        /\ markers[o] = {}
        /\ \A r \in Runs : KeyOf[r] = o => ~MayStillCommit(r)

(***************************************************************************)
(* The journal never lies about the target: its final statuses, reached by *)
(* marking or by a probe that raced other attempts, are true and stay true *)
(* (mark_target_operation_*, reconcile_target_operation).                  *)
(***************************************************************************)
JournalIsHonest == SucceededIsCommitted /\ NotCommittedIsFinal

HolderOf(s) ==
    CASE s \in {"ABSENT", "NOT_COMMITTED"} -> "free"
      [] s = "SUCCEEDED" -> "succeeded"
      [] OTHER -> "held"

Abstract == INSTANCE AtMostOnceMutation WITH
    holder <- [o \in Ops |-> HolderOf(status[o])],
    effect <- applied

(***************************************************************************)
(* The claims, probes and kills implement the abstract at-most-once        *)
(* operation: every database step is a step of AtMostOnceMutation or       *)
(* changes nothing it talks about (claim_target_operation,                 *)
(* probe_and_reconcile_target_operation).                                  *)
(***************************************************************************)
ImplementsAtMostOnce == Abstract!Spec
=============================================================================
