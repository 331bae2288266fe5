---------------------------- MODULE WarehouseProofs ----------------------------
(***************************************************************************)
(* Proofs about WarehouseRecovery and WarehouseDrill, for any number of    *)
(* operations, runs, session ids and probes.                               *)
(*                                                                         *)
(* First the recovery protocol by itself.  Then the approved Warehouse     *)
(* checks: they implement the protocol, so that what is proved of          *)
(* WarehouseRecovery holds of the certification's own mutations, and the   *)
(* results they report are true of the Warehouse and of its journal.       *)
(***************************************************************************)
EXTENDS WarehouseDrill, TLAPS

\* The probe budget is spent by ProbeRead only and refilled by nobody.
ProbesLeft ==
    \A r \in Runs :
        /\ pc[r] \notin ProbePcs \cup Ended => probes[r] = 0
        /\ pc[r] = "probe" => probes[r] < MaxProbes

TypeInv == TypeOK /\ ProbesLeft

(***************************************************************************)
(* Writing the row of one operation keeps the journal well typed           *)
(* (transition_target_operation with _insert_event).                       *)
(***************************************************************************)
LEMMA WriteRowType ==
    ASSUME NEW o \in Ops, NEW to \in Statuses, JournalTypeOK, WriteRow(o, to)
    PROVE  JournalTypeOK'
<1>1. [version |-> version[o] + 1, from |-> status[o], to |-> to] \in Event
  BY DEF JournalTypeOK, Event
<1> QED
  BY <1>1 DEF JournalTypeOK, WriteRow

(***************************************************************************)
(* A claim, a marking or a reconciliation keeps the journal well typed.    *)
(***************************************************************************)
LEMMA MarkType ==
    ASSUME NEW r \in Runs, NEW to \in {"SUCCEEDED", "UNKNOWN", "NOT_COMMITTED"},
           NEW label \in Pcs, TypeOK, Mark(r, to, label)
    PROVE  TypeOK'
<1> USE KeyOfAssumption
<1>1. CASE /\ Transition(KeyOf[r], ver[r], to)
           /\ Goto(r, label)
           /\ UNCHANGED <<warehouseVars, ver, res, bind, bound, probes>>
  <2>1. JournalTypeOK'
    BY <1>1, WriteRowType DEF Transition, TypeOK, Statuses
  <2> QED
    BY <1>1, <2>1 DEF TypeOK, Goto, WarehouseTypeOK, warehouseVars
<1>2. CASE Stop(r)
  BY <1>2 DEF Stop, TypeOK, Goto, Pcs, Ended, JournalTypeOK, WarehouseTypeOK,
              journalVars, warehouseVars
<1> QED
  BY <1>1, <1>2 DEF Mark

(***************************************************************************)
(* Every step of a run, of the target and every crash keeps the state well *)
(* typed and the probe budget respected.                                   *)
(***************************************************************************)
LEMMA TypeStep == TypeInv /\ [Next]_vars => TypeInv'
<1> SUFFICES ASSUME TypeInv, [Next]_vars PROVE TypeInv'
  OBVIOUS
<1> USE KeyOfAssumption, MaxProbesAssumption DEF TypeInv
<1>1. ASSUME NEW r \in Runs, ClaimInsert(r) PROVE TypeInv'
  <2>1. CASE InsertClaim(KeyOf[r]) /\ Goto(r, "claimed")
    <3>1. JournalTypeOK'
      BY <2>1, WriteRowType DEF InsertClaim, TypeOK, Statuses
    <3> QED
      BY <1>1, <2>1, <3>1 DEF ClaimInsert, TypeOK, ProbesLeft, Goto, Stop, Pcs,
         Ended, ProbePcs, WarehouseTypeOK, warehouseVars
  <2>2. CASE Stop(r)
    BY <2>2 DEF Stop, TypeOK, ProbesLeft, Goto, Pcs, Ended, ProbePcs,
       JournalTypeOK, WarehouseTypeOK, journalVars, warehouseVars
  <2> QED
    BY <1>1, <2>1, <2>2 DEF ClaimInsert
<1>2. ASSUME NEW r \in Runs, ClaimRetry(r) PROVE TypeInv'
  <2>1. CASE RetryClaim(KeyOf[r], ver[r]) /\ Goto(r, "reread")
    <3>1. JournalTypeOK'
      BY <2>1, WriteRowType DEF RetryClaim, TypeOK, Statuses
    <3> QED
      BY <1>2, <2>1, <3>1 DEF ClaimRetry, TypeOK, ProbesLeft, Goto, Stop, Pcs,
         Ended, ProbePcs, WarehouseTypeOK, warehouseVars
  <2>2. CASE Stop(r)
    BY <2>2 DEF Stop, TypeOK, ProbesLeft, Goto, Pcs, Ended, ProbePcs,
       JournalTypeOK, WarehouseTypeOK, journalVars, warehouseVars
  <2> QED
    BY <1>2, <2>1, <2>2 DEF ClaimRetry
<1>3. ASSUME NEW r \in Runs, ClaimSelect(r) \/ ClaimReread(r) PROVE TypeInv'
  BY <1>3 DEF ClaimSelect, ClaimReread, TypeOK, ProbesLeft, Goto, Pcs, Ended,
     ProbePcs, JournalTypeOK, WarehouseTypeOK, journalVars, warehouseVars
<1>4. ASSUME NEW r \in Runs, NotArmed(r) \/ MarkOutcome(r) \/ MarkUnknown(r)
      PROVE TypeInv'
  <2>1. PICK to \in {"SUCCEEDED", "UNKNOWN", "NOT_COMMITTED"},
             label \in {"stopped", "done", "probe"} : Mark(r, to, label)
    BY <1>4, Zenon DEF NotArmed, MarkOutcome, MarkUnknown
  <2>2. TypeOK'
    BY <2>1, MarkType DEF Pcs, Ended, ProbePcs
  <2>3. probes[r] = 0
    BY <1>4 DEF NotArmed, MarkOutcome, MarkUnknown, ProbesLeft, ProbePcs, Ended
  <2> QED
    BY <2>1, <2>2, <2>3 DEF Mark, Goto, Stop, ProbesLeft, TypeOK, Ended, ProbePcs
<1>5. ASSUME NEW r \in Runs, ExecuteAtomic(r) PROVE TypeInv'
  BY <1>5 DEF ExecuteAtomic, OpenSession, TypeOK, ProbesLeft, Goto, Pcs, Ended,
     ProbePcs, JournalTypeOK, WarehouseTypeOK, SessionStates, journalVars,
     warehouseVars
<1>6. ASSUME NEW r \in Runs, SendCommit(r) \/ MutationFails(r) PROVE TypeInv'
  BY <1>6 DEF SendCommit, MutationFails, ClientRollback, TypeOK, ProbesLeft, Goto,
     Pcs, Ended, ProbePcs, JournalTypeOK, WarehouseTypeOK, SessionStates,
     journalVars, warehouseVars
<1>7. ASSUME NEW r \in Runs, CommitReturns(r) \/ ConnectionLost(r) \/ Crash(r)
      PROVE TypeInv'
  BY <1>7 DEF CommitReturns, ConnectionLost, Crash, TypeOK, ProbesLeft, Goto, Pcs,
     Ended, ProbePcs, JournalTypeOK, WarehouseTypeOK, journalVars, warehouseVars
<1>8. ASSUME NEW r \in Runs, ProbeRead(r) PROVE TypeInv'
  BY <1>8 DEF ProbeRead, Bindings, Stop, TypeOK, ProbesLeft, Goto, Pcs, Ended,
     ProbePcs, JournalTypeOK, WarehouseTypeOK, journalVars, warehouseVars
<1>9. ASSUME NEW r \in Runs,
             ProviderFails(r) \/ ReadMarkers(r) \/ Observe(r) \/ ObserveAgain(r)
               \/ RereadMarkers(r)
      PROVE TypeInv'
  BY <1>9 DEF ProviderFails, ReadMarkers, Observe, ObserveAgain, RereadMarkers,
     Resolve, Advance, Resolutions, TypeOK, ProbesLeft, Goto, Pcs, Ended, ProbePcs,
     JournalTypeOK, WarehouseTypeOK, journalVars, warehouseVars
<1>10. ASSUME NEW r \in Runs, Terminate(r) PROVE TypeInv'
  <2>1. JournalTypeOK' /\ ver' = ver /\ bind' = bind /\ bound' = bound /\ probes' = probes
    BY <1>10 DEF Terminate, Resolve, TypeOK, JournalTypeOK, journalVars
  <2>2. WarehouseTypeOK'
    BY <1>10 DEF Terminate, KillSession, Resolve, TypeOK, WarehouseTypeOK, SessionStates,
       warehouseVars
  <2>3. PICK label \in ProbePcs \ {"probe"} : Goto(r, label)
    BY <1>10 DEF Terminate, Resolve, ProbePcs
  <2>4. res' \in [Runs -> Resolutions]
    BY <1>10 DEF Terminate, Resolve, Resolutions, TypeOK
  <2>5. pc[r] = "terminate"
    BY <1>10 DEF Terminate
  <2> QED
    BY <2>1, <2>2, <2>3, <2>4, <2>5 DEF TypeOK, ProbesLeft, Goto, Pcs, Ended, ProbePcs
<1>11. ASSUME NEW r \in Runs, Reconcile(r) PROVE TypeInv'
  <2>1. CASE Advance(r, "done") \/ Stop(r)
    BY <2>1 DEF Advance, Stop, TypeOK, ProbesLeft, Goto, Pcs, Ended, ProbePcs,
       JournalTypeOK, WarehouseTypeOK, journalVars, warehouseVars
  <2>2. ASSUME NEW label \in AfterReconcile(r), Mark(r, StatusFor(res[r]), label)
        PROVE TypeInv'
    <3>1. StatusFor(res[r]) \in {"SUCCEEDED", "UNKNOWN", "NOT_COMMITTED"}
      BY DEF StatusFor
    <3>2. /\ label \in {"done", "stopped", "probe"}
          /\ label = "probe" => probes[r] < MaxProbes
      BY <2>2 DEF AfterReconcile
    <3>3. TypeOK'
      BY <2>2, <3>1, <3>2, MarkType DEF Pcs, Ended, ProbePcs
    <3> QED
      BY <2>2, <3>2, <3>3 DEF Mark, Goto, Stop, ProbesLeft, TypeOK, Ended, ProbePcs
  <2> QED
    BY <1>11, <2>1, <2>2 DEF Reconcile
<1>12. ASSUME NEW r \in Runs, TargetStep(r) PROVE TypeInv'
  BY <1>12 DEF TargetStep, ServerCommit, SessionEnds, TypeOK, ProbesLeft,
     JournalTypeOK, WarehouseTypeOK, SessionStates, journalVars, clientVars
<1>13. CASE UNCHANGED vars
  BY <1>13 DEF vars, journalVars, warehouseVars, clientVars, TypeOK, ProbesLeft,
     JournalTypeOK, WarehouseTypeOK
<1> QED
  BY <1>1, <1>2, <1>3, <1>4, <1>5, <1>6, <1>7, <1>8, <1>9, <1>10, <1>11, <1>12,
     <1>13 DEF Next, ClientStep, Terminated

(***************************************************************************)
(* In every reachable state the journal rows, events, sessions, markers    *)
(* and run-local records have their types, and no run exceeds its probe    *)
(* budget.                                                                 *)
(***************************************************************************)
THEOREM TypeCorrect == Spec => []TypeOK
<1>1. Init => TypeInv
  BY MaxProbesAssumption DEF Init, JournalInit, WarehouseInit, TypeInv, TypeOK,
     ProbesLeft, JournalTypeOK, WarehouseTypeOK, Pcs, Ended, ProbePcs, Statuses,
     SessionStates, Resolutions
<1> QED
  BY <1>1, TypeStep, PTL DEF Spec, TypeInv

-----------------------------------------------------------------------------
(* The inductive invariant *)

\* No run may still commit operation o; only run b may.
NoCommitter(o) == \A q \in Runs : KeyOf[q] = o => ~MayStillCommit(q)
OnlyCommitter(o, b) ==
    \A q \in Runs : KeyOf[q] = o /\ MayStillCommit(q) => q = b

\* A run that has not begun its transaction has no session and no binding.
FreshRuns ==
    \A r \in Runs : pc[r] \in {"start", "insert", "cas", "reread", "claimed"} =>
        session[r] = "none" /\ r \notin bound

\* The journal lets at most one attempt of an operation touch the target.
OneCommitter ==
    \A r \in Runs : MayStillCommit(r) => OnlyCommitter(KeyOf[r], r)

\* A committed marker leaves nobody who could commit again.
MarkedIsQuiet == \A o \in Ops : markers[o] # {} => NoCommitter(o)

\* A free row (no row, or NOT_COMMITTED) has no marker and no committer.
FreeRows ==
    \A o \in Ops : status[o] \in {"ABSENT", "NOT_COMMITTED"} =>
        markers[o] = {} /\ NoCommitter(o)

\* The marker is the effect.
MarkerCountsEffect ==
    \A o \in Ops : applied[o] = IF markers[o] = {} THEN 0 ELSE 1

\* Who says committed has seen a marker.
CommittedClaims ==
    /\ SucceededIsCommitted
    /\ \A r \in Runs :
         (pc[r] = "acked" \/ (pc[r] = "reconcile" /\ res[r] = "COMMITTED")) =>
            markers[KeyOf[r]] # {}

\* A run never knows a version the row has not reached.
VersionsRead == \A r \in Runs : ver[r] <= version[KeyOf[r]]

\* A certifier is bound to a captured session of its own operation.
CertifierBound ==
    \A r \in Runs :
        pc[r] \in {"observe", "terminate", "observeAgain", "rereadMarkers"}
          \/ (pc[r] = "readMarkers" /\ bind[r] # NoRun)
        => bind[r] \in bound /\ KeyOf[bind[r]] = KeyOf[r]

\* While the row is still at the version the probe read, what the certifier has
\* established stays true: the bound session was the only committer (from its
\* first observation on), and there is none (from the second on).
Certificates ==
    \A r \in Runs : version[KeyOf[r]] = ver[r] =>
        /\ pc[r] \in {"terminate", "observeAgain"} =>
              OnlyCommitter(KeyOf[r], bind[r])
        /\ pc[r] = "rereadMarkers" => NoCommitter(KeyOf[r])
        /\ pc[r] = "reconcile" /\ res[r] = "NOT_COMMITTED" =>
              NoCommitter(KeyOf[r]) /\ markers[KeyOf[r]] = {}

Safe == /\ FreshRuns /\ OneCommitter /\ MarkedIsQuiet /\ FreeRows
        /\ MarkerCountsEffect /\ CommittedClaims /\ VersionsRead
        /\ CertifierBound /\ Certificates

IInv == TypeInv /\ Safe

(***************************************************************************)
(* A step of run r that writes neither the journal nor the target, starts  *)
(* no claim and resolves nothing keeps the invariant: crashes, lost        *)
(* connections, version conflicts.                                         *)
(***************************************************************************)
LEMMA QuietStep ==
    ASSUME IInv, TypeInv', NEW r \in Runs,
           NEW label \in {"stopped", "done", "crashed", "raised"},
           Goto(r, label),
           UNCHANGED <<journalVars, warehouseVars, ver, res, bind, bound, probes>>
    PROVE  Safe'
BY KeyOfAssumption DEF IInv, TypeInv, Safe, Goto, journalVars, warehouseVars,
   TypeOK, FreshRuns, OneCommitter, MarkedIsQuiet, FreeRows, MarkerCountsEffect,
   CommittedClaims, SucceededIsCommitted, VersionsRead, CertifierBound,
   Certificates, NoCommitter, OnlyCommitter, MayStillCommit, HasOpenTransaction

(***************************************************************************)
(* Marking or reconciling a row keeps the invariant when SUCCEEDED is      *)
(* backed by a marker and NOT_COMMITTED by the absence of a marker and of  *)
(* any committer but the run itself, which holds no transaction            *)
(* (transition_target_operation).                                          *)
(***************************************************************************)
LEMMA MarkStep ==
    ASSUME IInv, TypeInv', NEW r \in Runs,
           NEW to \in {"SUCCEEDED", "UNKNOWN", "NOT_COMMITTED"},
           NEW label \in {"stopped", "done", "probe"},
           Mark(r, to, label),
           to = "SUCCEEDED" => markers[KeyOf[r]] # {},
           to = "NOT_COMMITTED" /\ version[KeyOf[r]] = ver[r] =>
               /\ markers[KeyOf[r]] = {}
               /\ OnlyCommitter(KeyOf[r], r)
               /\ ~HasOpenTransaction(r)
    PROVE  Safe'
<1> DEFINE o == KeyOf[r]
<1> USE KeyOfAssumption
<1>1. CASE Stop(r)
  BY <1>1, QuietStep DEF Stop
<1>2. CASE /\ Transition(o, ver[r], to)
           /\ Goto(r, label)
           /\ UNCHANGED <<warehouseVars, ver, res, bind, bound, probes>>
  <2> USE DEF IInv, Safe, TypeInv, TypeOK, JournalTypeOK, Goto, warehouseVars
  <2>1. /\ version[o] = ver[r] /\ version'[o] = ver[r] + 1 /\ status'[o] = to
        /\ \A p \in Ops \ {o} : status'[p] = status[p] /\ version'[p] = version[p]
        /\ status[o] \notin {"ABSENT", "NOT_COMMITTED", "SUCCEEDED"}
    BY <1>2 DEF Transition, CanTransition, WriteRow, AllowedTransitions
  <2>2. \A q \in Runs : MayStillCommit(q)' => MayStillCommit(q)
    BY <1>2 DEF MayStillCommit, HasOpenTransaction
  <2>3. ~(pc'[r] \in {"reread", "claimed"})
    BY <1>2
  <2>4. FreshRuns' /\ OneCommitter' /\ MarkedIsQuiet' /\ MarkerCountsEffect'
    BY <1>2, <2>2 DEF FreshRuns, OneCommitter, MarkedIsQuiet, MarkerCountsEffect,
       OnlyCommitter, NoCommitter
  <2>5. FreeRows'
    <3>1. to = "NOT_COMMITTED" => markers[o] = {} /\ NoCommitter(o)'
      BY <1>2, <2>1, <2>2, <2>3 DEF OnlyCommitter, NoCommitter, MayStillCommit,
         HasOpenTransaction
    <3> QED
      BY <1>2, <2>1, <2>2, <3>1 DEF FreeRows, NoCommitter
  <2>6. CommittedClaims'
    BY <1>2, <2>1 DEF CommittedClaims, SucceededIsCommitted
  <2>7. VersionsRead' /\ CertifierBound'
    BY <1>2, <2>1 DEF VersionsRead, CertifierBound
  <2>8. Certificates'
    BY <1>2, <2>1, <2>2 DEF Certificates, VersionsRead, OnlyCommitter, NoCommitter
  <2> QED
    BY <2>4, <2>5, <2>6, <2>7, <2>8
<1> QED
  BY <1>1, <1>2 DEF Mark

(***************************************************************************)
(* A successful claim, first or retried, makes the run the operation's     *)
(* only committer (claim_target_operation).                                *)
(***************************************************************************)
LEMMA ClaimStep ==
    ASSUME IInv, TypeInv', NEW r \in Runs,
           pc[r] \in {"insert", "cas"},
           status[KeyOf[r]] \in {"ABSENT", "NOT_COMMITTED"},
           WriteRow(KeyOf[r], "IN_PROGRESS"),
           pc' \in {[pc EXCEPT ![r] = "claimed"], [pc EXCEPT ![r] = "reread"]},
           ver'[r] <= version[KeyOf[r]] + 1,
           \A q \in Runs \ {r} : ver'[q] = ver[q],
           UNCHANGED <<warehouseVars, res, bind, bound, probes>>
    PROVE  Safe'
<1> DEFINE o == KeyOf[r]
<1> USE KeyOfAssumption
        DEF IInv, Safe, TypeInv, TypeOK, JournalTypeOK, warehouseVars
<1>1. /\ version'[o] = version[o] + 1 /\ status'[o] = "IN_PROGRESS"
      /\ \A p \in Ops \ {o} : status'[p] = status[p] /\ version'[p] = version[p]
  BY DEF WriteRow
<1>2. markers[o] = {} /\ NoCommitter(o)
  BY DEF FreeRows
<1>3. \A q \in Runs \ {r} : MayStillCommit(q)' = MayStillCommit(q)
  BY DEF MayStillCommit, HasOpenTransaction
<1>4. FreshRuns' /\ CertifierBound' /\ VersionsRead'
  BY <1>1 DEF FreshRuns, CertifierBound, VersionsRead
<1>5. OneCommitter' /\ MarkedIsQuiet' /\ MarkerCountsEffect'
  BY <1>2, <1>3 DEF OneCommitter, OnlyCommitter, MarkedIsQuiet, NoCommitter,
     MarkerCountsEffect
<1>6. FreeRows'
  BY <1>1, <1>3 DEF FreeRows, NoCommitter
<1>7. CommittedClaims'
  BY <1>1 DEF CommittedClaims, SucceededIsCommitted
<1>8. Certificates'
  BY <1>1, <1>3 DEF Certificates, VersionsRead, OnlyCommitter, NoCommitter
<1> QED
  BY <1>4, <1>5, <1>6, <1>7, <1>8

(***************************************************************************)
(* A probe step that writes nothing keeps the invariant: each resolution   *)
(* it returns and each certificate it moves on with is justified by what   *)
(* it has just read (FabricWarehouseTargetCommitProbe.probe,               *)
(* certify_absence).                                                       *)
(***************************************************************************)
LEMMA ProbeStep ==
    ASSUME IInv, TypeInv', NEW r \in Runs,
           \/ ProbeRead(r) \/ ProviderFails(r) \/ ReadMarkers(r) \/ Observe(r)
           \/ ObserveAgain(r) \/ RereadMarkers(r)
    PROVE  Safe'
<1> USE KeyOfAssumption, NoRunAssumption
        DEF IInv, Safe, TypeInv, TypeOK, JournalTypeOK, WarehouseTypeOK,
            Goto, Advance, Resolve, Stop, journalVars, warehouseVars
<1>1. UNCHANGED <<status, version, markers, applied, session, bound>>
  BY DEF ProbeRead, ProviderFails, ReadMarkers, Observe, ObserveAgain, RereadMarkers
<1>2. /\ \A q \in Runs \ {r} : /\ pc'[q] = pc[q] /\ ver'[q] = ver[q]
                               /\ res'[q] = res[q] /\ bind'[q] = bind[q]
      /\ pc[r] \in ProbePcs /\ pc'[r] \in ProbePcs \cup {"stopped"}
  BY DEF ProbeRead, ProviderFails, ReadMarkers, Observe, ObserveAgain,
     RereadMarkers, ProbePcs
<1>3. \A q \in Runs : MayStillCommit(q)' = MayStillCommit(q)
  BY <1>1, <1>2 DEF MayStillCommit, HasOpenTransaction, ProbePcs
<1>4. FreshRuns' /\ OneCommitter' /\ MarkedIsQuiet' /\ FreeRows' /\ MarkerCountsEffect'
  BY <1>1, <1>2, <1>3 DEF FreshRuns, OneCommitter, OnlyCommitter, MarkedIsQuiet,
     FreeRows, NoCommitter, MarkerCountsEffect, ProbePcs
<1>5. CommittedClaims'
  BY <1>1 DEF CommittedClaims, SucceededIsCommitted, ProbeRead, ProviderFails,
     ReadMarkers, Observe, ObserveAgain, RereadMarkers
<1>6. VersionsRead' /\ CertifierBound'
  BY <1>1 DEF VersionsRead, CertifierBound, ProbeRead, Bindings, ProviderFails,
     ReadMarkers, Observe, ObserveAgain, RereadMarkers
<1>7. Certificates'
  <2>1. ASSUME NEW q \in Runs \ {r}, version'[KeyOf[q]] = ver'[q]
        PROVE  /\ pc'[q] \in {"terminate", "observeAgain"} =>
                     OnlyCommitter(KeyOf[q], bind[q])'
               /\ pc'[q] = "rereadMarkers" => NoCommitter(KeyOf[q])'
               /\ pc'[q] = "reconcile" /\ res'[q] = "NOT_COMMITTED" =>
                     NoCommitter(KeyOf[q])' /\ markers'[KeyOf[q]] = {}
    BY <1>1, <1>2, <1>3, <2>1 DEF Certificates, OnlyCommitter, NoCommitter
  <2>2. CASE Observe(r)
    <3>1. pc'[r] = "terminate" => OnlyCommitter(KeyOf[r], bind[r])
      BY <2>2 DEF Observe, CertifierBound, OneCommitter, MayStillCommit
    <3> QED
      BY <1>1, <1>3, <2>1, <2>2, <3>1 DEF Observe, Certificates, OnlyCommitter,
         NoCommitter
  <2>3. CASE ObserveAgain(r)
    <3>1. pc'[r] = "rereadMarkers" => ~MayStillCommit(bind[r])
      BY <2>3 DEF ObserveAgain, CertifierBound, FreshRuns, MayStillCommit,
         Observable, HasOpenTransaction
    <3> QED
      BY <1>1, <1>3, <2>1, <2>3, <3>1 DEF ObserveAgain, Certificates,
         OnlyCommitter, NoCommitter
  <2>4. CASE RereadMarkers(r)
    BY <1>1, <1>3, <2>1, <2>4 DEF RereadMarkers, Certificates, OnlyCommitter,
       NoCommitter
  <2>5. CASE ProbeRead(r) \/ ProviderFails(r) \/ ReadMarkers(r)
    BY <1>1, <1>3, <2>1, <2>5 DEF ProbeRead, ProviderFails, ReadMarkers,
       Certificates, OnlyCommitter, NoCommitter
  <2> QED
    BY <2>2, <2>3, <2>4, <2>5
<1> QED
  BY <1>4, <1>5, <1>6, <1>7

(***************************************************************************)
(* A step that only moves target sessions, and creates no new committer,   *)
(* keeps the invariant: opening a session from a claim, rollback, KILL of  *)
(* any session, the end of a session.                                      *)
(***************************************************************************)
LEMMA SessionStep ==
    ASSUME IInv, TypeInv', NEW r \in Runs,
           UNCHANGED <<status, version, markers, applied, ver, res, bind>>,
           \A q \in Runs \ {r} : pc'[q] = pc[q],
           pc'[r] \in {pc[r], "executing", "committing", "raised", "observeAgain"},
           pc'[r] = "observeAgain" /\ pc[r] # "observeAgain" => pc[r] = "terminate",
           bound \subseteq bound',
           \A q \in Runs : MayStillCommit(q)' => MayStillCommit(q),
           FreshRuns'
    PROVE  Safe'
<1> USE KeyOfAssumption DEF IInv, Safe, TypeInv, TypeOK
<1>1. OneCommitter' /\ MarkedIsQuiet' /\ FreeRows' /\ MarkerCountsEffect'
  BY DEF OneCommitter, OnlyCommitter, MarkedIsQuiet, FreeRows, NoCommitter,
     MarkerCountsEffect
<1>2. CommittedClaims' /\ VersionsRead' /\ CertifierBound'
  BY DEF CommittedClaims, SucceededIsCommitted, VersionsRead, CertifierBound
<1>3. Certificates'
  BY DEF Certificates, OnlyCommitter, NoCommitter
<1> QED
  BY <1>1, <1>2, <1>3

(***************************************************************************)
(* The invariant is inductive: no step of any run, of the target or of a   *)
(* fault leaves it.                                                        *)
(***************************************************************************)
LEMMA SafeStep == IInv /\ [Next]_vars => IInv'
<1> SUFFICES ASSUME IInv, [Next]_vars PROVE IInv'
  OBVIOUS
<1>0. TypeInv'
  BY TypeStep DEF IInv
<1> SUFFICES Safe'
  BY <1>0 DEF IInv
<1> USE KeyOfAssumption
        DEF IInv, Safe, TypeInv, TypeOK, JournalTypeOK, WarehouseTypeOK, Goto,
            journalVars, warehouseVars
<1>1. ASSUME NEW r \in Runs, ClaimSelect(r) \/ ClaimReread(r) PROVE Safe'
  <2>1. /\ UNCHANGED <<status, version, markers, applied, session, bound, bind, res>>
        /\ pc[r] \in {"start", "reread"}
        /\ pc' = [pc EXCEPT ![r] = pc'[r]] /\ ver' = [ver EXCEPT ![r] = version[KeyOf[r]]]
        /\ pc'[r] \in {"insert", "done", "cas", "probe", "claimed"}
        /\ pc[r] = "start" => pc'[r] # "claimed"
    BY <1>1 DEF ClaimSelect, ClaimReread
  <2>2. \A q \in Runs : MayStillCommit(q)' => MayStillCommit(q)
    BY <2>1 DEF MayStillCommit, HasOpenTransaction
  <2>3. FreshRuns' /\ OneCommitter' /\ MarkedIsQuiet' /\ FreeRows' /\ MarkerCountsEffect'
    BY <2>1, <2>2 DEF FreshRuns, OneCommitter, OnlyCommitter, MarkedIsQuiet, FreeRows,
       NoCommitter, MarkerCountsEffect
  <2>4. CommittedClaims' /\ VersionsRead' /\ CertifierBound'
    BY <2>1 DEF CommittedClaims, SucceededIsCommitted, VersionsRead, CertifierBound
  <2>5. Certificates'
    BY <2>1, <2>2 DEF Certificates, OnlyCommitter, NoCommitter
  <2> QED
    BY <2>3, <2>4, <2>5
<1>2. ASSUME NEW r \in Runs, ClaimInsert(r) PROVE Safe'
  <2>1. CASE Stop(r)
    BY <1>0, <2>1, QuietStep DEF Stop
  <2>2. CASE ~Stop(r)
    <3>1. /\ InsertClaim(KeyOf[r]) /\ ver' = [ver EXCEPT ![r] = 1]
          /\ Goto(r, "claimed")
          /\ UNCHANGED <<warehouseVars, res, bind, bound, probes>>
      BY <1>2, <2>2 DEF ClaimInsert
    <3>2. ver'[r] <= version[KeyOf[r]] + 1
      BY <3>1
    <3> QED
      BY <1>0, <1>2, <3>1, <3>2, ClaimStep DEF ClaimInsert, InsertClaim
  <2> QED
    BY <2>1, <2>2
<1>3. ASSUME NEW r \in Runs, ClaimRetry(r) PROVE Safe'
  <2>1. CASE Stop(r)
    BY <1>0, <2>1, QuietStep DEF Stop
  <2>2. CASE ~Stop(r)
    <3>1. /\ RetryClaim(KeyOf[r], ver[r]) /\ Goto(r, "reread")
          /\ UNCHANGED <<warehouseVars, ver, res, bind, bound, probes>>
      BY <1>3, <2>2 DEF ClaimRetry
    <3>2. ver'[r] <= version[KeyOf[r]] + 1
      BY <3>1 DEF VersionsRead
    <3> QED
      BY <1>0, <1>3, <3>1, <3>2, ClaimStep DEF ClaimRetry, RetryClaim
  <2> QED
    BY <2>1, <2>2
<1>4. ASSUME NEW r \in Runs, NotArmed(r) PROVE Safe'
  <2>1. MayStillCommit(r) /\ ~HasOpenTransaction(r)
    BY <1>4 DEF NotArmed, MayStillCommit, HasOpenTransaction, FreshRuns
  <2>2. OnlyCommitter(KeyOf[r], r) /\ markers[KeyOf[r]] = {}
    BY <2>1 DEF OneCommitter, MarkedIsQuiet, NoCommitter
  <2> QED
    BY <1>0, <1>4, <2>1, <2>2, MarkStep DEF NotArmed
<1>5. ASSUME NEW r \in Runs, MarkOutcome(r) \/ MarkUnknown(r) PROVE Safe'
  <2>1. MarkOutcome(r) => markers[KeyOf[r]] # {}
    BY DEF MarkOutcome, CommittedClaims
  <2> QED
    BY <1>0, <1>5, <2>1, MarkStep DEF MarkOutcome, MarkUnknown
<1>6. ASSUME NEW r \in Runs, ExecuteAtomic(r) PROVE Safe'
  <2>1. markers[KeyOf[r]] = {}
    BY <1>6 DEF ExecuteAtomic, MayStillCommit, MarkedIsQuiet, NoCommitter
  <2>2. \A q \in Runs : MayStillCommit(q)' => MayStillCommit(q)
    BY <1>6, <2>1 DEF ExecuteAtomic, OpenSession, MayStillCommit, HasOpenTransaction
  <2>3. FreshRuns'
    BY <1>6, <2>1 DEF ExecuteAtomic, OpenSession, FreshRuns
  <2> QED
    BY <1>0, <1>6, <2>1, <2>2, <2>3, SessionStep DEF ExecuteAtomic, OpenSession
<1>7. ASSUME NEW r \in Runs, SendCommit(r) \/ MutationFails(r) PROVE Safe'
  <2>1. \A q \in Runs : MayStillCommit(q)' => MayStillCommit(q)
    BY <1>7 DEF SendCommit, MutationFails, ClientRollback, MayStillCommit,
       HasOpenTransaction
  <2>2. FreshRuns'
    BY <1>7 DEF SendCommit, MutationFails, ClientRollback, FreshRuns
  <2> QED
    BY <1>0, <1>7, <2>1, <2>2, SessionStep DEF SendCommit, MutationFails,
       ClientRollback
<1>8. ASSUME NEW r \in Runs, CommitReturns(r) PROVE Safe'
  BY <1>8 DEF CommitReturns, FreshRuns, OneCommitter, MarkedIsQuiet,
     FreeRows, MarkerCountsEffect, CommittedClaims, SucceededIsCommitted,
     VersionsRead, CertifierBound, Certificates, NoCommitter, OnlyCommitter,
     MayStillCommit, HasOpenTransaction
<1>9. ASSUME NEW r \in Runs, ConnectionLost(r) \/ Crash(r) PROVE Safe'
  BY <1>0, <1>9, QuietStep DEF ConnectionLost, Crash
<1>10. ASSUME NEW r \in Runs,
              \/ ProbeRead(r) \/ ProviderFails(r) \/ ReadMarkers(r) \/ Observe(r)
              \/ ObserveAgain(r) \/ RereadMarkers(r)
       PROVE Safe'
  BY <1>0, <1>10, ProbeStep
<1>11. ASSUME NEW r \in Runs, Terminate(r) PROVE Safe'
  <2>1. CASE Resolve(r, "UNRESOLVED")
    BY <2>1, <1>11 DEF Terminate, Resolve, FreshRuns, OneCommitter, MarkedIsQuiet,
       FreeRows, MarkerCountsEffect, CommittedClaims, SucceededIsCommitted,
       VersionsRead, CertifierBound, Certificates, NoCommitter, OnlyCommitter,
       MayStillCommit, HasOpenTransaction
  <2>2. CASE /\ KillSession(sid[bind[r]])
             /\ Goto(r, "observeAgain")
             /\ UNCHANGED <<journalVars, ver, res, bind, bound, probes>>
    <3>1. \A q \in Runs : MayStillCommit(q)' => MayStillCommit(q)
      BY <1>11, <2>2 DEF Terminate, KillSession, MayStillCommit, HasOpenTransaction
    <3>2. FreshRuns'
      BY <1>11, <2>2 DEF Terminate, KillSession, KillTargets, Observable, FreshRuns
    <3> QED
      BY <1>0, <1>11, <2>2, <3>1, <3>2, SessionStep DEF Terminate, KillSession
  <2> QED
    BY <1>11, <2>1, <2>2 DEF Terminate
<1>12. ASSUME NEW r \in Runs, Reconcile(r) PROVE Safe'
  <2>1. CASE Advance(r, "done") \/ Stop(r)
    BY <1>0, <2>1, QuietStep DEF Advance, Stop
  <2>2. ASSUME NEW label \in AfterReconcile(r), Mark(r, StatusFor(res[r]), label)
        PROVE Safe'
    <3>1. /\ StatusFor(res[r]) \in {"SUCCEEDED", "UNKNOWN", "NOT_COMMITTED"}
          /\ StatusFor(res[r]) = "SUCCEEDED" => res[r] = "COMMITTED"
          /\ StatusFor(res[r]) = "NOT_COMMITTED" => res[r] = "NOT_COMMITTED"
      BY DEF StatusFor
    <3>2. label \in {"done", "stopped", "probe"}
      BY <2>2 DEF AfterReconcile
    <3>3. StatusFor(res[r]) = "SUCCEEDED" => markers[KeyOf[r]] # {}
      BY <1>12, <3>1 DEF Reconcile, CommittedClaims
    <3>4. StatusFor(res[r]) = "NOT_COMMITTED" /\ version[KeyOf[r]] = ver[r] =>
            /\ markers[KeyOf[r]] = {}
            /\ OnlyCommitter(KeyOf[r], r)
            /\ ~HasOpenTransaction(r)
      BY <1>12, <3>1 DEF Reconcile, Certificates, NoCommitter, OnlyCommitter,
         MayStillCommit
    <3> QED
      BY <1>0, <2>2, <3>1, <3>2, <3>3, <3>4, MarkStep
  <2> QED
    BY <1>12, <2>1, <2>2 DEF Reconcile
<1>13. ASSUME NEW r \in Runs, SessionEnds(r), UNCHANGED <<journalVars, clientVars>>
       PROVE Safe'
  <2>1. \A q \in Runs : MayStillCommit(q)' => MayStillCommit(q)
    BY <1>13 DEF SessionEnds, MayStillCommit, HasOpenTransaction, clientVars
  <2>2. FreshRuns'
    BY <1>13 DEF SessionEnds, Observable, FreshRuns, clientVars
  <2> QED
    BY <1>0, <1>13, <2>1, <2>2, SessionStep DEF SessionEnds, clientVars
<1>14. ASSUME NEW r \in Runs, ServerCommit(r), UNCHANGED <<journalVars, clientVars>>
       PROVE Safe'
  <2> DEFINE o == KeyOf[r]
  <2>1. /\ markers[o] = {} /\ OnlyCommitter(o, r)
        /\ status[o] \notin {"ABSENT", "NOT_COMMITTED"}
    BY <1>14 DEF ServerCommit, MayStillCommit, OneCommitter, MarkedIsQuiet,
       FreeRows, NoCommitter
  <2>2. ~MayStillCommit(r)' /\ \A q \in Runs : MayStillCommit(q)' => MayStillCommit(q)
    BY <1>14 DEF ServerCommit, MayStillCommit, HasOpenTransaction, FreshRuns, clientVars
  <2>3. /\ markers'[o] = {r} /\ applied'[o] = 1
        /\ \A p \in Ops \ {o} : markers'[p] = markers[p] /\ applied'[p] = applied[p]
    BY <1>14, <2>1 DEF ServerCommit, MarkerCountsEffect
  <2>4. FreshRuns'
    BY <1>14 DEF ServerCommit, HasOpenTransaction, FreshRuns, clientVars
  <2>5. OneCommitter' /\ MarkedIsQuiet'
    BY <1>14, <2>1, <2>2, <2>3 DEF OneCommitter, OnlyCommitter, MarkedIsQuiet,
       NoCommitter, clientVars
  <2>6. FreeRows' /\ MarkerCountsEffect'
    BY <1>14, <2>1, <2>2, <2>3 DEF FreeRows, NoCommitter, MarkerCountsEffect
  <2>7. CommittedClaims' /\ VersionsRead' /\ CertifierBound'
    BY <1>14, <2>3 DEF CommittedClaims, SucceededIsCommitted, VersionsRead,
       CertifierBound, clientVars
  <2>8. Certificates'
    BY <1>14, <2>2, <2>3 DEF ServerCommit, Certificates, OnlyCommitter,
       NoCommitter, MayStillCommit, clientVars
  <2> QED
    BY <2>4, <2>5, <2>6, <2>7, <2>8
<1>15. CASE UNCHANGED vars
  BY <1>15 DEF vars, clientVars, FreshRuns, OneCommitter, MarkedIsQuiet,
     FreeRows, MarkerCountsEffect, CommittedClaims, SucceededIsCommitted,
     VersionsRead, CertifierBound, Certificates, NoCommitter, OnlyCommitter,
     MayStillCommit, HasOpenTransaction
<1> QED
  BY <1>1, <1>2, <1>3, <1>4, <1>5, <1>6, <1>7, <1>8, <1>9, <1>10, <1>11, <1>12,
     <1>13, <1>14, <1>15 DEF Next, ClientStep, TargetStep, Terminated

\* The initial states satisfy it.
LEMMA InitInv == Init => IInv
BY MaxProbesAssumption, KeyOfAssumption DEF Init, JournalInit, WarehouseInit,
   IInv, TypeInv, TypeOK, ProbesLeft, JournalTypeOK, WarehouseTypeOK, Pcs, Ended,
   ProbePcs, Statuses, SessionStates, Resolutions, Safe, FreshRuns, OneCommitter,
   MarkedIsQuiet, FreeRows, MarkerCountsEffect, CommittedClaims,
   SucceededIsCommitted, VersionsRead, CertifierBound, Certificates, NoCommitter,
   OnlyCommitter, MayStillCommit, HasOpenTransaction

(***************************************************************************)
(* The inductive invariant holds in every reachable state.                 *)
(***************************************************************************)
THEOREM Invariant == Spec => []IInv
BY InitInv, SafeStep, PTL DEF Spec

(***************************************************************************)
(* However many attempts claim, crash, lose acknowledgements, probe, kill  *)
(* and retry, a semantic target mutation takes effect at most once.        *)
(***************************************************************************)
THEOREM MutationAtMostOnce == Spec => []AtMostOnce
<1>1. ASSUME IInv, NEW o \in Ops PROVE applied[o] <= 1
  <2>1. applied[o] = 0 \/ applied[o] = 1
    BY <1>1 DEF IInv, Safe, MarkerCountsEffect
  <2> QED
    BY <2>1
<1>2. IInv => AtMostOnce
  BY <1>1 DEF AtMostOnce
<1> QED
  BY <1>2, Invariant, PTL

(***************************************************************************)
(* A SUCCEEDED row always has a committed marker behind it.                *)
(***************************************************************************)
THEOREM SucceededHasMarker == Spec => []SucceededIsCommitted
<1>1. IInv => SucceededIsCommitted
  BY DEF IInv, Safe, CommittedClaims
<1> QED
  BY <1>1, Invariant, PTL

(***************************************************************************)
(* A NOT_COMMITTED row is final evidence: nothing is committed and nothing *)
(* that may still commit is left when the retry is opened.                 *)
(***************************************************************************)
THEOREM NotCommittedHasNoLateCommit == Spec => []NotCommittedIsFinal
<1>1. IInv => NotCommittedIsFinal
  BY DEF IInv, Safe, FreeRows, NoCommitter, NotCommittedIsFinal
<1> QED
  BY <1>1, Invariant, PTL

(***************************************************************************)
(* Both final statuses of a journal row are true of the target.            *)
(***************************************************************************)
THEOREM JournalNeverLies == Spec => []JournalIsHonest
  BY SucceededHasMarker, NotCommittedHasNoLateCommit, PTL DEF JournalIsHonest

(***************************************************************************)
(* The claims, markings, probes and commits implement the abstract         *)
(* at-most-once operation: an insert or a retry claim is Hold, a commit in *)
(* the target is Apply, recording NOT_COMMITTED is Release, recording      *)
(* SUCCEEDED is Succeed, and every other step stutters.                    *)
(***************************************************************************)
THEOREM Refinement == Spec => ImplementsAtMostOnce
<1> DEFINE holder == [o \in Ops |-> HolderOf(status[o])]
<1>1. Init => Abstract!Init
  BY DEF Init, JournalInit, WarehouseInit, Abstract!Init, HolderOf
<1>2. IInv /\ IInv' /\ [Next]_vars => [Abstract!Next]_(Abstract!avars)
  <2> SUFFICES ASSUME IInv, IInv', [Next]_vars
               PROVE Abstract!Next \/ UNCHANGED <<holder, applied>>
    BY DEF Abstract!avars
  <2> USE KeyOfAssumption DEF IInv, TypeInv, TypeOK, JournalTypeOK, WarehouseTypeOK
  <2>1. CASE UNCHANGED <<status, applied>>
    BY <2>1
  <2>2. ASSUME NEW o \in Ops, NEW to \in Statuses, WriteRow(o, to),
               UNCHANGED applied,
               \/ status[o] \in {"ABSENT", "NOT_COMMITTED"} /\ to = "IN_PROGRESS"
               \/ status[o] \in {"IN_PROGRESS", "UNKNOWN"} /\ to # "IN_PROGRESS"
        PROVE  Abstract!Next \/ UNCHANGED <<holder, applied>>
    <3>1. /\ status' = [status EXCEPT ![o] = to]
          /\ holder' = [holder EXCEPT ![o] = HolderOf(to)]
          /\ holder[o] = HolderOf(status[o])
      BY <2>2 DEF WriteRow
    <3>2. CASE to = "IN_PROGRESS"
      BY <2>2, <3>1, <3>2 DEF HolderOf, Abstract!Next, Abstract!Hold
    <3>3. CASE to = "UNKNOWN"
      BY <2>2, <3>1, <3>3 DEF HolderOf
    <3>4. CASE to = "NOT_COMMITTED"
      <4>1. applied[o] = 0
        BY <2>2, <3>1, <3>4 DEF Safe, FreeRows, MarkerCountsEffect
      <4> QED
        BY <2>2, <3>1, <3>4, <4>1 DEF HolderOf, Abstract!Next, Abstract!Release
    <3>5. CASE to = "SUCCEEDED"
      <4>1. applied[o] = 1
        BY <2>2, <3>1, <3>5 DEF Safe, CommittedClaims, SucceededIsCommitted,
           MarkerCountsEffect
      <4> QED
        BY <2>2, <3>1, <3>5, <4>1 DEF HolderOf, Abstract!Next, Abstract!Succeed
    <3> QED
      BY <3>2, <3>3, <3>4, <3>5 DEF Statuses
  <2>3. ASSUME NEW r \in Runs, ServerCommit(r), UNCHANGED status
        PROVE  Abstract!Next
    <3> DEFINE o == KeyOf[r]
    <3>1. markers[o] = {} /\ markers'[o] # {}
      BY <2>3 DEF ServerCommit, Safe, MarkedIsQuiet, NoCommitter, MayStillCommit
    <3>2. applied[o] = 0 /\ applied' = [applied EXCEPT ![o] = 1]
      BY <2>3, <3>1 DEF ServerCommit, Safe, MarkerCountsEffect
    <3>3. holder[o] = "held" /\ holder' = holder
      <4>1. status[o] \notin {"ABSENT", "NOT_COMMITTED", "SUCCEEDED"}
        BY <2>3, <3>1 DEF Safe, FreeRows, CommittedClaims, SucceededIsCommitted
      <4> QED
        BY <2>3, <4>1 DEF HolderOf
    <3> QED
      BY <3>2, <3>3 DEF Abstract!Next, Abstract!Apply
  <2>4. ASSUME NEW r \in Runs, ClaimInsert(r) \/ ClaimRetry(r)
        PROVE  Abstract!Next \/ UNCHANGED <<holder, applied>>
    BY <2>1, <2>2, <2>4 DEF ClaimInsert, ClaimRetry, InsertClaim, RetryClaim, Stop,
       journalVars, warehouseVars, Statuses
  <2>5. ASSUME NEW r \in Runs, NEW label,
               NEW to \in {"SUCCEEDED", "UNKNOWN", "NOT_COMMITTED"}, Mark(r, to, label)
        PROVE  Abstract!Next \/ UNCHANGED <<holder, applied>>
    BY <2>1, <2>2, <2>5 DEF Mark, Transition, CanTransition, AllowedTransitions, Stop,
       journalVars, warehouseVars, Statuses
  <2>6. ASSUME NEW r \in Runs,
               NotArmed(r) \/ MarkOutcome(r) \/ MarkUnknown(r) \/ Reconcile(r)
        PROVE  Abstract!Next \/ UNCHANGED <<holder, applied>>
    <3>1. StatusFor(res[r]) \in {"SUCCEEDED", "UNKNOWN", "NOT_COMMITTED"}
      BY DEF StatusFor
    <3> QED
      BY <2>1, <2>5, <2>6, <3>1 DEF NotArmed, MarkOutcome, MarkUnknown, Reconcile,
         Advance, Stop, journalVars, warehouseVars
  <2>7. ASSUME NEW r \in Runs, TargetStep(r)
        PROVE  Abstract!Next \/ UNCHANGED <<holder, applied>>
    BY <2>1, <2>3, <2>7 DEF TargetStep, SessionEnds, journalVars
  <2>8. ASSUME NEW r \in Runs,
               \/ ClaimSelect(r) \/ ClaimReread(r) \/ ExecuteAtomic(r)
               \/ SendCommit(r) \/ MutationFails(r) \/ CommitReturns(r)
               \/ ConnectionLost(r) \/ ProbeRead(r) \/ ProviderFails(r)
               \/ ReadMarkers(r) \/ Observe(r) \/ Terminate(r)
               \/ ObserveAgain(r) \/ RereadMarkers(r) \/ Crash(r)
        PROVE  UNCHANGED <<status, applied>>
    BY <2>8 DEF ClaimSelect, ClaimReread, ExecuteAtomic, OpenSession, SendCommit,
       MutationFails, ClientRollback, CommitReturns, ConnectionLost, ProbeRead,
       Stop, ProviderFails, ReadMarkers, Observe, Terminate, KillSession,
       ObserveAgain, RereadMarkers, Resolve, Advance, Crash, journalVars,
       warehouseVars
  <2>9. CASE UNCHANGED vars
    BY <2>1, <2>9 DEF vars, journalVars, warehouseVars
  <2> QED
    BY <2>1, <2>4, <2>6, <2>7, <2>8, <2>9 DEF Next, ClientStep, Terminated
<1> QED
  BY <1>1, <1>2, Invariant, PTL DEF Spec, ImplementsAtMostOnce, Abstract!Spec

(***************************************************************************)
(* Every step leaves the journal alone or is one row write with its event  *)
(* (the only writers are claim_target_operation and                        *)
(* transition_target_operation).                                           *)
(***************************************************************************)
LEMMA JournalStep ==
    ASSUME [Next]_vars
    PROVE  UNCHANGED journalVars \/ \E o \in Ops, to \in Statuses : WriteRow(o, to)
<1> USE KeyOfAssumption
<1>1. ASSUME NEW r \in Runs, ClaimInsert(r) \/ ClaimRetry(r)
      PROVE UNCHANGED journalVars \/ \E o \in Ops, to \in Statuses : WriteRow(o, to)
  BY <1>1 DEF ClaimInsert, ClaimRetry, InsertClaim, RetryClaim, Stop, Statuses,
     journalVars
<1>2. ASSUME NEW r \in Runs, NEW label,
             NEW to \in {"SUCCEEDED", "UNKNOWN", "NOT_COMMITTED"}, Mark(r, to, label)
      PROVE UNCHANGED journalVars \/ \E o \in Ops, s \in Statuses : WriteRow(o, s)
  BY <1>2 DEF Mark, Transition, Stop, Statuses, journalVars
<1>3. ASSUME NEW r \in Runs,
             NotArmed(r) \/ MarkOutcome(r) \/ MarkUnknown(r) \/ Reconcile(r)
      PROVE UNCHANGED journalVars \/ \E o \in Ops, to \in Statuses : WriteRow(o, to)
  <2>1. StatusFor(res[r]) \in {"SUCCEEDED", "UNKNOWN", "NOT_COMMITTED"}
    BY DEF StatusFor
  <2> QED
    BY <1>2, <1>3, <2>1 DEF NotArmed, MarkOutcome, MarkUnknown, Reconcile, Advance,
       Stop, journalVars
<1>4. ASSUME NEW r \in Runs,
             \/ ClaimSelect(r) \/ ClaimReread(r) \/ ExecuteAtomic(r)
             \/ SendCommit(r) \/ MutationFails(r) \/ CommitReturns(r)
             \/ ConnectionLost(r) \/ ProbeRead(r) \/ ProviderFails(r)
             \/ ReadMarkers(r) \/ Observe(r) \/ Terminate(r)
             \/ ObserveAgain(r) \/ RereadMarkers(r) \/ Crash(r) \/ TargetStep(r)
      PROVE UNCHANGED journalVars
  BY <1>4 DEF ClaimSelect, ClaimReread, ExecuteAtomic, SendCommit, MutationFails,
     CommitReturns, ConnectionLost, ProbeRead, Stop, ProviderFails, ReadMarkers,
     Observe, Terminate, ObserveAgain, RereadMarkers, Resolve, Advance, Crash,
     TargetStep, journalVars
<1>5. CASE UNCHANGED vars
  BY <1>5 DEF vars
<1> QED
  BY <1>1, <1>3, <1>4, <1>5 DEF Next, ClientStep, Terminated

(***************************************************************************)
(* One more row write with its event keeps the events a replay of the row. *)
(***************************************************************************)
LEMMA ReplayStep ==
    ASSUME JournalTypeOK, EventsReplayJournal, NEW o \in Ops, NEW to \in Statuses,
           WriteRow(o, to)
    PROVE  EventsReplayJournal'
<1> DEFINE new == [version |-> version[o] + 1, from |-> status[o], to |-> to]
<1> USE DEF JournalTypeOK
<1>1. /\ version'[o] = version[o] + 1 /\ status'[o] = to
      /\ events'[o] = events[o] \cup {new}
      /\ \A p \in Ops \ {o} : /\ version'[p] = version[p] /\ status'[p] = status[p]
                              /\ events'[p] = events[p]
  BY DEF WriteRow
<1>2. /\ version[o] \in Nat /\ to # "ABSENT"
      /\ new.version = version[o] + 1 /\ new.from = status[o] /\ new.to = to
      /\ \A e \in events[o] : e.version \in 1..version[o]
  BY DEF EventsReplayJournal, Statuses
<1>3. ASSUME NEW v \in 1..version'[o] PROVE \E e \in events'[o] : e.version = v
  <2>1. CASE v \in 1..version[o]
    <3>1. PICK e \in events[o] : e.version = v
      BY <2>1 DEF EventsReplayJournal
    <3> QED
      BY <1>1, <3>1
  <2>2. CASE v = version[o] + 1
    <3>1. new \in events'[o] /\ new.version = v
      BY <1>1, <1>2, <2>2
    <3> QED
      BY <3>1
  <2> QED
    BY <1>1, <1>2, <2>1, <2>2
<1>4. ASSUME NEW e \in events'[o]
      PROVE /\ e.version \in 1..version'[o]
            /\ e.version = version'[o] => e.to = status'[o]
            /\ e.version = 1 => e.from = "ABSENT"
  <2>1. CASE e \in events[o]
    BY <1>1, <1>2, <2>1 DEF EventsReplayJournal
  <2>2. CASE e = new
    <3>1. version[o] + 1 = 1 => status[o] = "ABSENT"
      BY <1>2 DEF EventsReplayJournal
    <3> HIDE DEF new
    <3> QED
      BY <1>1, <1>2, <2>2, <3>1
  <2> QED
    BY <1>1, <2>1, <2>2
<1>5. \A e, f \in events'[o] : /\ e.version = f.version => e = f
                               /\ f.version = e.version + 1 => f.from = e.to
  <2> SUFFICES ASSUME NEW e \in events'[o], NEW f \in events'[o]
               PROVE  /\ e.version = f.version => e = f
                      /\ f.version = e.version + 1 => f.from = e.to
    OBVIOUS
  <2>1. CASE e \in events[o] /\ f \in events[o]
    BY <2>1 DEF EventsReplayJournal
  <2>2. CASE e \in events[o] /\ f = new
    <3>1. e.version \in 1..version[o] /\ (e.version = version[o] => e.to = status[o])
      BY <2>2 DEF EventsReplayJournal
    <3> QED
      BY <1>1, <1>2, <2>2, <3>1
  <2>3. CASE e = new /\ f \in events[o]
    <3>1. f.version \in 1..version[o]
      BY <2>3 DEF EventsReplayJournal
    <3> QED
      BY <1>1, <1>2, <2>3, <3>1
  <2>4. CASE e = new /\ f = new
    BY <1>1, <1>2, <2>4
  <2> QED
    BY <1>1, <2>1, <2>2, <2>3, <2>4
<1>6. version'[o] = 0 <=> status'[o] = "ABSENT"
  BY <1>1, <1>2
<1>7. ASSUME NEW p \in Ops
      PROVE /\ version'[p] = 0 <=> status'[p] = "ABSENT"
            /\ \A v \in 1..version'[p] : \E e \in events'[p] : e.version = v
            /\ \A e \in events'[p] : /\ e.version \in 1..version'[p]
                                     /\ e.version = version'[p] => e.to = status'[p]
                                     /\ e.version = 1 => e.from = "ABSENT"
            /\ \A e, f \in events'[p] : /\ e.version = f.version => e = f
                                        /\ f.version = e.version + 1 => f.from = e.to
  <2>1. CASE p = o
    BY <1>3, <1>4, <1>5, <1>6, <2>1
  <2>2. CASE p # o
    BY <1>1, <2>2 DEF EventsReplayJournal
  <2> QED
    BY <2>1, <2>2
<1> QED
  BY <1>7 DEF EventsReplayJournal

(***************************************************************************)
(* The immutable events always replay to the current row, whatever races,  *)
(* conflicts and crashes the runs go through.                              *)
(***************************************************************************)
THEOREM EventsReplay == Spec => []EventsReplayJournal
<1>1. ASSUME Init PROVE EventsReplayJournal
  <2>1. \A o \in Ops : status[o] = "ABSENT" /\ version[o] = 0 /\ events[o] = {}
    BY <1>1 DEF Init, JournalInit
  <2>2. \A o \in Ops : 1..version[o] = {}
    <3>1. 1..0 = {}
      OBVIOUS
    <3> QED
      BY <2>1, <3>1, Zenon
  <2> QED
    BY <2>1, <2>2, Zenon DEF EventsReplayJournal
<1>2. TypeOK /\ EventsReplayJournal /\ [Next]_vars => EventsReplayJournal'
  <2> SUFFICES ASSUME TypeOK, EventsReplayJournal, [Next]_vars
               PROVE EventsReplayJournal'
    OBVIOUS
  <2>1. CASE UNCHANGED journalVars
    BY <2>1, Zenon DEF journalVars, EventsReplayJournal
  <2> QED
    BY <2>1, JournalStep, ReplayStep DEF TypeOK
<1> QED
  BY <1>1, <1>2, TypeCorrect, PTL DEF Spec

-----------------------------------------------------------------------------
(* The approved Warehouse checks.                                          *)

\* Claiming, arming and executing: the steps before the outcome is recorded.
LEMMA ExecutionDrivesRecovery ==
    ASSUME NEW r \in Runs,
           \/ NotDeployed(r) \/ Claim(r) \/ Conflict(r) \/ NotFresh(r)
           \/ ArmRaises(r) \/ ArmFault(r) \/ FaultNotArmed(r) \/ BeginCommitCheck(r)
           \/ Execute(r) \/ MutationRaises(r) \/ Commit(r) \/ CommitAcknowledged(r)
           \/ ConnectionBreaks(r) \/ FaultFires(r) \/ Disarm(r)
    PROVE  ClientStep(r) \/ UNCHANGED vars
  <1>1. CASE NotDeployed(r) \/ Conflict(r) \/ NotFresh(r) \/ ArmRaises(r)
             \/ ArmFault(r) \/ BeginCommitCheck(r) \/ Disarm(r)
    BY <1>1, Zenon DEF NotDeployed, Conflict, NotFresh, ArmRaises, ArmFault,
                BeginCommitCheck, Disarm
  <1>2. CASE Claim(r)
    BY <1>2, Zenon DEF Claim, ClientStep
  <1>3. CASE FaultNotArmed(r)
    BY <1>3, Zenon DEF FaultNotArmed, ClientStep
  <1>4. CASE Execute(r) \/ MutationRaises(r) \/ Commit(r) \/ CommitAcknowledged(r)
             \/ ConnectionBreaks(r) \/ FaultFires(r)
    BY <1>4, Zenon DEF Execute, MutationRaises, Commit, CommitAcknowledged,
                ConnectionBreaks, FaultFires, ClientStep
  <1> QED  BY <1>1, <1>2, <1>3, <1>4, Zenon

\* Every probe of a driver is a probe of the protocol, whatever its binding.
LEMMA ProbingDrivesRecovery ==
    ASSUME NEW r \in Runs, NEW b, Probing(r, b)
    PROVE  ClientStep(r)
  BY Zenon DEF Probing, ClientStep

\* Recording, probing, verifying, recovering and assessing.
LEMMA OutcomeDrivesRecovery ==
    ASSUME NEW r \in Runs,
           \/ RecordUnknown(r) \/ Preexisting(r) \/ PlainProbe(r) \/ PlainProbeReturns(r)
           \/ PlainProbeRaises(r) \/ MarkerRereadRaises(r) \/ DirectProbe(r) \/ VerifyFault(r)
           \/ SkipRecovery(r) \/ OpenAuthority(r) \/ CertifierProbe(r)
           \/ CertifierProbeReturns(r) \/ FinalProbe(r) \/ FinalProbeReturns(r)
           \/ FinalRereadRaises(r) \/ RecoveryReconcileRaises(r) \/ RecoveryRaises(r)
           \/ Assess(r) \/ AssessCommit(r)
    PROVE  ClientStep(r) \/ UNCHANGED vars
  <1>1. CASE RecordUnknown(r)
    <2>1. CASE pc[r] = "acked"
      BY <1>1, <2>1, Zenon DEF RecordUnknown, MarkOutcome, ClientStep
    <2>2. CASE pc[r] = "raised"
      BY <1>1, <2>2, Zenon DEF RecordUnknown, MarkUnknown, ClientStep
    <2> QED  BY <1>1, <2>1, <2>2, Zenon DEF RecordUnknown
  <1>2. CASE PlainProbe(r) \/ CertifierProbe(r) \/ FinalProbe(r)
    BY <1>2, ProbingDrivesRecovery, Zenon DEF PlainProbe, CertifierProbe, FinalProbe
  <1>3. CASE \/ PlainProbeReturns(r) \/ PlainProbeRaises(r) \/ MarkerRereadRaises(r)
             \/ CertifierProbeReturns(r) \/ FinalProbeReturns(r) \/ FinalRereadRaises(r)
             \/ RecoveryReconcileRaises(r)
    BY <1>3, Zenon DEF PlainProbeReturns, PlainProbeRaises, MarkerRereadRaises,
                CertifierProbeReturns, FinalProbeReturns, FinalRereadRaises,
                RecoveryReconcileRaises, ReconcileReturns, ReconcileRaises, ClientStep
  <1>4. CASE \/ Preexisting(r) \/ DirectProbe(r) \/ VerifyFault(r) \/ SkipRecovery(r)
             \/ OpenAuthority(r) \/ RecoveryRaises(r) \/ Assess(r) \/ AssessCommit(r)
    BY <1>4, Zenon DEF Preexisting, DirectProbe, VerifyFault, SkipRecovery,
                OpenAuthority, RecoveryRaises, Assess, AssessCommit
  <1> QED  BY <1>1, <1>2, <1>3, <1>4, Zenon

\* Every step of the drivers or of the target is a step of the protocol.
LEMMA StepDrivesRecovery == [DrillNext]_drillVars => [Next]_vars
  <1> SUFFICES ASSUME [DrillNext]_drillVars PROVE [Next]_vars
    OBVIOUS
  <1>1. CASE UNCHANGED drillVars
    BY <1>1, Zenon DEF drillVars
  <1>2. CASE DrillTerminated
    BY <1>2, Zenon DEF DrillTerminated, drillVars
  <1>3. ASSUME NEW r \in Runs, DriverStep(r)  PROVE [Next]_vars
    <2>1. CASE Dies(r)
      BY <2>1, Zenon DEF Dies, Next
    <2>2. ClientStep(r) \/ UNCHANGED vars \/ Dies(r)
      BY <1>3, ExecutionDrivesRecovery, OutcomeDrivesRecovery, Zenon DEF DriverStep
    <2> QED  BY <2>1, <2>2, Zenon DEF Next
  <1>4. ASSUME NEW r \in Runs, TargetMoves(r)  PROVE [Next]_vars
    BY <1>4, Zenon DEF TargetMoves, Next
  <1> QED  BY <1>1, <1>2, <1>3, <1>4, Zenon DEF DrillNext

(***************************************************************************)
(* Every behaviour of the approved Warehouse checks is a behaviour of the  *)
(* recovery protocol (_run_one, execute_approved_warehouse).               *)
(***************************************************************************)
THEOREM DrillImplementsRecovery == DrillSpec => DrivesRecovery
  BY StepDrivesRecovery, PTL DEF DrillSpec, DrillInit, DrivesRecovery, Spec

(***************************************************************************)
(* A certification never applies its target mutation twice, however often  *)
(* its checks are rerun, crash or are raced by each other.                 *)
(***************************************************************************)
THEOREM DrillAtMostOnce == DrillSpec => []AtMostOnce
  BY DrillImplementsRecovery, MutationAtMostOnce, PTL DEF DrivesRecovery

(***************************************************************************)
(* What the checks leave in the journal is true: SUCCEEDED is committed,   *)
(* and a row left NOT_COMMITTED, which a report calls eligible for retry,  *)
(* stays without a late commit.                                            *)
(***************************************************************************)
THEOREM DrillJournalNeverLies == DrillSpec => []JournalIsHonest
  BY DrillImplementsRecovery, JournalNeverLies, PTL DEF DrivesRecovery

-----------------------------------------------------------------------------
(* What the results of the checks say. *)

Traces ==
    [raised : BOOLEAN, captureFailed : BOOLEAN, disarmFailed : BOOLEAN,
     verifyFailed : BOOLEAN, verified : BOOLEAN, identity : BOOLEAN,
     resolution : Resolutions, status : Statuses \cup {"ABSENT"}, atomic : BOOLEAN,
     attempted : BOOLEAN, recoveryFailed : BOOLEAN, safe : BOOLEAN]

DrillShapes ==
    /\ request \in [Runs -> Requests]
    /\ stage \in [Runs -> Stages]
    /\ fault \in [Runs -> [armed : BOOLEAN, fired : BOOLEAN]]
    /\ trace \in [Runs -> Traces]
    /\ DOMAIN result = Runs

\* Only a certifier gets past the markers.
Certifying == {"observe", "terminate", "observeAgain", "rereadMarkers"}
ProbesPlainly(r) == pc[r] \notin Certifying /\ (pc[r] = "readMarkers" => bind[r] = NoRun)

\* The run's own transaction has not committed and never will.
Gone(r) == r \notin markers[KeyOf[r]] /\ ~HasOpenTransaction(r)

\* A run probes with its certifier only in the stage that its verified and disarmed
\* fault has opened.
CertifiesVerified(r) ==
    /\ stage[r] # "terminate" => ProbesPlainly(r)
    /\ stage[r] = "terminate" =>
          /\ request[r].recovery /\ trace[r].verified /\ trace[r].identity
          /\ ~trace[r].disarmFailed

\* What the run knows of its fault is true of the provider.
FaultIsKnown(r) ==
    /\ trace[r].verified /\ trace[r].identity => fault[r].fired
    /\ fault[r].fired => r \in sent
    /\ pc[r] = "committing" => r \in sent
    /\ stage[r] = "claim" => ~fault[r].armed
    /\ stage[r] \notin {"claim", "execute", "end"} /\ ~trace[r].disarmFailed => ~fault[r].armed

\* A drill that saw NOT_COMMITTED saw it of a transaction that is over.
AbsenceIsFinal(r) ==
    IsDrill(r) /\ trace[r].status = "NOT_COMMITTED" =>
        stage[r] \notin {"claim", "execute"} /\ Gone(r)

ResultIsTrue(r) ==
    /\ stage[r] # "end" => result[r] = NoResult
    /\ result[r].retry => Gone(r)
    /\ result[r].status = "PASS" =>
          /\ status[KeyOf[r]] = "SUCCEEDED"
          /\ IsDrill(r) => fault[r].fired /\ ~fault[r].armed

CheckIsSound(r) ==
    CertifiesVerified(r) /\ FaultIsKnown(r) /\ AbsenceIsFinal(r) /\ ResultIsTrue(r)

DrillInv == IInv /\ DrillShapes /\ \A r \in Runs : CheckIsSound(r)

(***************************************************************************)
(* What a step of the protocol can never undo: a SUCCEEDED row, a COMMIT   *)
(* that was sent, and, but for a run that begins its transaction, the      *)
(* absence of a transaction.  Only Terminate kills.                        *)
(***************************************************************************)
StepFacts(q) ==
    /\ status[KeyOf[q]] = "SUCCEEDED" => status'[KeyOf[q]] = "SUCCEEDED"
    /\ q \in sent => q \in sent'
    /\ pc'[q] = "committing" => pc[q] = "committing" \/ q \in sent'
    /\ Gone(q) => Gone(q)' \/ (pc[q] = "claimed" /\ pc'[q] = "executing")
    /\ session[q] # "killed" /\ session'[q] = "killed" => \E r \in Runs : Terminate(r)

\* A write of the journal keeps what is SUCCEEDED.
LEMMA SucceededStays ==
    ASSUME TypeOK, NEW q \in Runs, NEW r \in Runs, NEW to, NEW v,
           \/ InsertClaim(KeyOf[r]) \/ RetryClaim(KeyOf[r], v) \/ Transition(KeyOf[r], v, to),
           status[KeyOf[q]] = "SUCCEEDED"
    PROVE  status'[KeyOf[q]] = "SUCCEEDED"
  <1>1. KeyOf[q] \in Ops /\ KeyOf[r] \in Ops
    BY KeyOfAssumption
  <1>2. status[KeyOf[r]] # "SUCCEEDED" /\ \E s : status' = [status EXCEPT ![KeyOf[r]] = s]
    BY DEF InsertClaim, RetryClaim, Transition, CanTransition, AllowedTransitions, WriteRow
  <1> QED
    BY <1>1, <1>2 DEF TypeOK, JournalTypeOK

\* A client's step on the journal: the target stays as it is.
LEMMA JournalStepFacts ==
    ASSUME TypeOK, NEW r \in Runs, NEW q \in Runs, UNCHANGED warehouseVars,
           NEW label \in Pcs \ {"committing"}, Goto(r, label),
           \/ UNCHANGED journalVars
           \/ \E v, to : \/ InsertClaim(KeyOf[r]) \/ RetryClaim(KeyOf[r], v)
                         \/ Transition(KeyOf[r], v, to)
    PROVE  StepFacts(q)
  <1>1. status[KeyOf[q]] = "SUCCEEDED" => status'[KeyOf[q]] = "SUCCEEDED"
    BY SucceededStays DEF journalVars
  <1>2. pc'[q] = "committing" => pc[q] = "committing"
    BY DEF Goto, TypeOK
  <1>3. UNCHANGED <<session, sent, markers>>
    BY DEF warehouseVars
  <1> QED
    BY <1>1, <1>2, <1>3 DEF StepFacts, Gone, HasOpenTransaction

\* A client step of any run keeps what a check already knows of run q.
LEMMA ClientStepFacts ==
    ASSUME TypeOK, NEW r \in Runs, NEW q \in Runs, ClientStep(r) \/ Crash(r)
    PROVE  StepFacts(q)
  <1>1. CASE \/ ClaimSelect(r) \/ ClaimInsert(r) \/ ClaimRetry(r) \/ ClaimReread(r)
             \/ NotArmed(r) \/ MarkOutcome(r) \/ MarkUnknown(r) \/ Reconcile(r)
    <2>1. UNCHANGED warehouseVars
      BY <1>1 DEF ClaimSelect, ClaimInsert, ClaimRetry, ClaimReread, NotArmed, MarkOutcome,
                  MarkUnknown, Reconcile, Mark, Advance, Stop
    <2>2. \E label \in Pcs \ {"committing"} : Goto(r, label)
      BY <1>1 DEF ClaimSelect, ClaimInsert, ClaimRetry, ClaimReread, NotArmed, MarkOutcome,
                  MarkUnknown, Reconcile, AfterReconcile, Mark, Advance, Stop, Pcs, Ended, ProbePcs
    <2>3. \/ UNCHANGED journalVars
          \/ \E v, to : \/ InsertClaim(KeyOf[r]) \/ RetryClaim(KeyOf[r], v)
                        \/ Transition(KeyOf[r], v, to)
      BY <1>1 DEF ClaimSelect, ClaimInsert, ClaimRetry, ClaimReread, NotArmed, MarkOutcome,
                  MarkUnknown, Reconcile, Mark, Advance, Stop
    <2> QED
      BY <2>1, <2>2, <2>3, JournalStepFacts
  <1>2. CASE \/ ProbeRead(r) \/ ProviderFails(r) \/ ReadMarkers(r) \/ Observe(r)
             \/ ObserveAgain(r) \/ RereadMarkers(r) \/ CommitReturns(r) \/ ConnectionLost(r)
             \/ Crash(r)
    <2>1. UNCHANGED journalVars /\ UNCHANGED warehouseVars
      BY <1>2 DEF ProbeRead, ProviderFails, ReadMarkers, Observe, ObserveAgain, RereadMarkers,
                  CommitReturns, ConnectionLost, Crash, Advance, Resolve, Stop
    <2>2. \E label \in Pcs \ {"committing"} : Goto(r, label)
      BY <1>2 DEF ProbeRead, ProviderFails, ReadMarkers, Observe, ObserveAgain, RereadMarkers,
                  CommitReturns, ConnectionLost, Crash, Advance, Resolve, Stop, Pcs, Ended,
                  ProbePcs
    <2> QED
      BY <2>1, <2>2, JournalStepFacts
  <1>3. CASE SendCommit(r)
    BY <1>3 DEF SendCommit, Goto, TypeOK, StepFacts, Gone, HasOpenTransaction, journalVars
  <1>4. CASE MutationFails(r)
    BY <1>4 DEF MutationFails, ClientRollback, Goto, TypeOK, WarehouseTypeOK, StepFacts, Gone,
                HasOpenTransaction, journalVars
  <1>5. CASE ExecuteAtomic(r)
    BY <1>5 DEF ExecuteAtomic, OpenSession, Goto, TypeOK, WarehouseTypeOK, StepFacts, Gone,
                HasOpenTransaction, journalVars, warehouseVars
  <1>6. CASE Terminate(r)
    <2>1. CASE Resolve(r, "UNRESOLVED")
      BY <2>1, JournalStepFacts DEF Resolve, Pcs, ProbePcs
    <2>2. CASE KillSession(sid[bind[r]]) /\ Goto(r, "observeAgain") /\ UNCHANGED journalVars
      BY <1>6, <2>2 DEF KillSession, KillTargets, Goto, TypeOK, WarehouseTypeOK, StepFacts, Gone,
                  HasOpenTransaction, Observable, journalVars
    <2> QED
      BY <1>6, <2>1, <2>2 DEF Terminate
  <1> QED
    BY <1>1, <1>2, <1>3, <1>4, <1>5, <1>6 DEF ClientStep

\* So does every step of the recovery protocol.
LEMMA ProtocolStepFacts ==
    ASSUME TypeOK, [Next]_vars, NEW q \in Runs
    PROVE  StepFacts(q)
  <1>1. ASSUME NEW r \in Runs, TargetStep(r) PROVE StepFacts(q)
    <2>1. UNCHANGED <<status, pc, sent>>
      BY <1>1 DEF TargetStep, ServerCommit, SessionEnds, journalVars, clientVars
    <2>2. (Gone(q) => Gone(q)') /\ (session[q] # "killed" => session'[q] # "killed")
      BY <1>1, KeyOfAssumption
         DEF TargetStep, ServerCommit, SessionEnds, Gone, HasOpenTransaction, TypeOK,
             WarehouseTypeOK
    <2> QED
      BY <2>1, <2>2 DEF StepFacts
  <1>2. CASE UNCHANGED vars
    BY <1>2 DEF vars, journalVars, warehouseVars, clientVars, StepFacts, Gone, HasOpenTransaction
  <1> QED
    BY <1>1, <1>2, ClientStepFacts DEF Next, Terminated

-----------------------------------------------------------------------------
(* Steps of one check. *)

\* The other runs stay where they are in the protocol.
OthersWait(r) == \A q \in Runs \ {r} : pc'[q] = pc[q] /\ bind'[q] = bind[q]

\* A step of one run moves no other run.
LEMMA ClientsAreLocal ==
    ASSUME TypeOK, NEW r \in Runs, ClientStep(r) \/ Crash(r) \/ TargetStep(r) \/ UNCHANGED vars
    PROVE  OthersWait(r)
  <1>1. \/ UNCHANGED pc
        \/ \E label : pc' = [pc EXCEPT ![r] = label]
    BY DEF ClientStep, ClaimSelect, ClaimInsert, ClaimRetry, ClaimReread, NotArmed, ExecuteAtomic,
           SendCommit, MutationFails, CommitReturns, ConnectionLost, MarkOutcome, MarkUnknown,
           ProbeRead, ProviderFails, ReadMarkers, Observe, Terminate, ObserveAgain, RereadMarkers,
           Reconcile, Crash, TargetStep, Mark, Advance, Resolve, Stop, Goto, vars, clientVars
  <1>2. \/ UNCHANGED bind
        \/ \E b : bind' = [bind EXCEPT ![r] = b]
    BY DEF ClientStep, ClaimSelect, ClaimInsert, ClaimRetry, ClaimReread, NotArmed, ExecuteAtomic,
           SendCommit, MutationFails, CommitReturns, ConnectionLost, MarkOutcome, MarkUnknown,
           ProbeRead, ProviderFails, ReadMarkers, Observe, Terminate, ObserveAgain, RereadMarkers,
           Reconcile, Crash, TargetStep, Mark, Advance, Resolve, Stop, vars, clientVars
  <1> QED
    BY <1>1, <1>2 DEF OthersWait, TypeOK

\* Where a run is after a step that does not probe.
LEMMA QuietSteps ==
    ASSUME TypeOK, NEW r \in Runs,
           \/ ClaimSelect(r) \/ ClaimInsert(r) \/ ClaimRetry(r) \/ ClaimReread(r)
           \/ NotArmed(r) \/ ExecuteAtomic(r) \/ SendCommit(r) \/ MutationFails(r)
           \/ CommitReturns(r) \/ ConnectionLost(r) \/ Mark(r, "UNKNOWN", "probe")
           \/ Reconcile(r) \/ Crash(r)
    PROVE  /\ ProbesPlainly(r)'
           /\ pc'[r] = "executing" => pc[r] = "claimed"
  <1>1. PICK label \in Pcs \ (Certifying \cup {"readMarkers"}) :
           /\ Goto(r, label)
           /\ label = "executing" => pc[r] = "claimed"
    BY DEF ClaimSelect, ClaimInsert, ClaimRetry, ClaimReread, NotArmed, ExecuteAtomic, SendCommit,
           MutationFails, CommitReturns, ConnectionLost, Reconcile, AfterReconcile, Crash, Mark,
           Advance, Stop, Pcs, Ended, ProbePcs, Certifying
  <1> QED
    BY <1>1 DEF Goto, TypeOK, ProbesPlainly

\* A plain probe stays plain, and no probe begins a transaction.
LEMMA ProbingSteps ==
    ASSUME TypeOK, NEW r \in Runs, NEW b, Probing(r, b)
    PROVE  /\ b = NoRun /\ ProbesPlainly(r) => ProbesPlainly(r)'
           /\ pc'[r] # "executing"
  <1>1. CASE ProbeRead(r) /\ (pc'[r] = "readMarkers" => bind'[r] = b)
    BY <1>1 DEF ProbeRead, Stop, Goto, TypeOK, ProbesPlainly, Certifying
  <1>2. CASE ProviderFails(r) \/ ReadMarkers(r)
    BY <1>2 DEF ProviderFails, ReadMarkers, Resolve, Advance, Goto, TypeOK, ProbesPlainly,
                Certifying
  <1>3. CASE Observe(r) \/ Terminate(r) \/ ObserveAgain(r) \/ RereadMarkers(r)
    BY <1>3 DEF Observe, Terminate, ObserveAgain, RereadMarkers, Resolve, Advance, Goto, TypeOK,
                ProbesPlainly, Certifying
  <1> QED
    BY <1>1, <1>2, <1>3 DEF Probing

\* What only touches run r's check.
OnlyRun(r) ==
    /\ request' = request /\ OthersWait(r)
    /\ \A q \in Runs \ {r} : /\ stage'[q] = stage[q] /\ trace'[q] = trace[q]
                             /\ fault'[q] = fault[q] /\ result'[q] = result[q]

\* A step of one check leaves the other checks sound.
LEMMA CheckStepPreserves ==
    ASSUME DrillInv, [Next]_vars, NEW r \in Runs, OnlyRun(r), DrillShapes', CheckIsSound(r)'
    PROVE  DrillInv'
  <1>1. IInv'
    BY SafeStep DEF DrillInv
  <1>2. ASSUME NEW q \in Runs \ {r} PROVE CheckIsSound(q)'
    <2>1. StepFacts(q)
      BY ProtocolStepFacts DEF DrillInv, IInv, TypeInv
    <2>2. /\ request'[q] = request[q] /\ stage'[q] = stage[q] /\ trace'[q] = trace[q]
          /\ fault'[q] = fault[q] /\ result'[q] = result[q]
          /\ pc'[q] = pc[q] /\ bind'[q] = bind[q]
      BY DEF OnlyRun, OthersWait
    <2>3. CheckIsSound(q)
      BY DEF DrillInv
    <2>4. CertifiesVerified(q)'
      BY <2>2, <2>3 DEF CheckIsSound, CertifiesVerified, ProbesPlainly
    <2>5. FaultIsKnown(q)'
      BY <2>1, <2>2, <2>3 DEF CheckIsSound, FaultIsKnown, StepFacts
    <2>6. Gone(q) => Gone(q)'
      BY <2>1, <2>2 DEF StepFacts
    <2>7. AbsenceIsFinal(q)' /\ ResultIsTrue(q)'
      BY <2>1, <2>2, <2>3, <2>6 DEF CheckIsSound, AbsenceIsFinal, ResultIsTrue, IsDrill, StepFacts
    <2> QED
      BY <2>4, <2>5, <2>7 DEF CheckIsSound
  <1> QED
    BY <1>1, <1>2 DEF DrillInv

\* The result of a check that has not ended claims nothing.
LEMMA NoResultSaysNothing == ~NoResult.retry /\ NoResult.status # "PASS"
  BY DEF NoResult

\* A step of the protocol that the driver only waits for.
LEMMA KeepsPreserves ==
    ASSUME DrillInv, [Next]_vars, NEW r \in Runs, OthersWait(r), DriverKeeps,
           stage[r] # "terminate" => ProbesPlainly(r)',
           stage[r] \in {"claim", "execute"} \/ pc'[r] = pc[r] \/ pc'[r] # "executing"
    PROVE  DrillInv'
  <1>1. UNCHANGED <<request, stage, fault, trace, result>>
    BY DEF DriverKeeps, driverVars
  <1>2. OnlyRun(r) /\ DrillShapes'
    BY <1>1 DEF OnlyRun, DrillInv, DrillShapes
  <1>3. StepFacts(r) /\ CheckIsSound(r)
    BY ProtocolStepFacts DEF DrillInv, IInv, TypeInv
  <1>4. CertifiesVerified(r)'
    BY <1>1, <1>3 DEF CheckIsSound, CertifiesVerified
  <1>5. FaultIsKnown(r)'
    BY <1>1, <1>3 DEF CheckIsSound, FaultIsKnown, StepFacts
  <1>6. stage[r] \notin {"claim", "execute"} => (Gone(r) => Gone(r)')
    BY <1>3 DEF StepFacts
  <1>7. AbsenceIsFinal(r)'
    BY <1>1, <1>3, <1>6 DEF CheckIsSound, AbsenceIsFinal, IsDrill
  <1>8. ResultIsTrue(r)'
    BY <1>1, <1>3, <1>6, NoResultSaysNothing DEF CheckIsSound, ResultIsTrue, IsDrill, StepFacts
  <1> QED
    BY <1>2, <1>4, <1>5, <1>7, <1>8, CheckStepPreserves DEF CheckIsSound

\* The driver goes on to stage s with trace t, the provider knowing fault f.
Learned(r, s, t, f) ==
    /\ DrillShapes' /\ UNCHANGED <<request, result>>
    /\ stage'[r] = s /\ trace'[r] = t /\ fault'[r] = f
    /\ \A q \in Runs \ {r} : /\ stage'[q] = stage[q] /\ trace'[q] = trace[q]
                             /\ fault'[q] = fault[q]

\* What an ongoing check may change: its stage, its trace, its fault.
LEMMA Learning ==
    ASSUME DrillShapes, NEW r \in Runs, NEW s \in Stages, NEW t \in Traces,
           NEW f \in [armed : BOOLEAN, fired : BOOLEAN], UNCHANGED <<request, result>>,
           (UNCHANGED stage /\ s = stage[r]) \/ stage' = [stage EXCEPT ![r] = s],
           (UNCHANGED trace /\ t = trace[r]) \/ trace' = [trace EXCEPT ![r] = t],
           (UNCHANGED fault /\ f = fault[r]) \/ fault' = [fault EXCEPT ![r] = f]
    PROVE  Learned(r, s, t, f)
  BY DEF DrillShapes, Learned

\* A check that goes on keeps the invariant when what it learned is true.
LEMMA LearnedPreserves ==
    ASSUME DrillInv, [Next]_vars, NEW r \in Runs, OthersWait(r), stage[r] # "end",
           NEW s \in Stages \ {"end"}, NEW t \in Traces,
           NEW f \in [armed : BOOLEAN, fired : BOOLEAN],
           Learned(r, s, t, f),
           s # "terminate" => ProbesPlainly(r)',
           s = "terminate" => /\ request[r].recovery /\ t.verified /\ t.identity
                              /\ ~t.disarmFailed,
           t.verified /\ t.identity => f.fired,
           f.fired => fault[r].fired \/ r \in sent,
           s = "claim" => ~f.armed,
           s \notin {"claim", "execute"} /\ ~t.disarmFailed => ~f.armed,
           IsDrill(r) /\ t.status = "NOT_COMMITTED" => s \notin {"claim", "execute"} /\ Gone(r)'
    PROVE  DrillInv'
  <1>1. OnlyRun(r) /\ DrillShapes'
    BY DEF OnlyRun, Learned
  <1>2. StepFacts(r) /\ CheckIsSound(r)
    BY ProtocolStepFacts DEF DrillInv, IInv, TypeInv
  <1>3. request' = request /\ result' = result /\ stage'[r] = s /\ trace'[r] = t /\ fault'[r] = f
    BY DEF Learned
  <1>4. CertifiesVerified(r)'
    BY <1>3 DEF CertifiesVerified
  <1>5. FaultIsKnown(r)'
    BY <1>2, <1>3 DEF CheckIsSound, FaultIsKnown, StepFacts
  <1>6. AbsenceIsFinal(r)'
    BY <1>3 DEF AbsenceIsFinal, IsDrill
  <1>7. result'[r] = NoResult
    BY <1>2, <1>3 DEF CheckIsSound, ResultIsTrue
  <1>8. ResultIsTrue(r)'
    BY <1>7, NoResultSaysNothing DEF ResultIsTrue
  <1> QED
    BY <1>1, <1>4, <1>5, <1>6, <1>8, CheckStepPreserves DEF CheckIsSound

\* The check is over, with a result or none.
LEMMA EndPreserves ==
    ASSUME DrillInv, [Next]_vars, NEW r \in Runs, OthersWait(r), Enter(r, "end"),
           UNCHANGED <<request, trace>>, ProbesPlainly(r)', pc'[r] # "executing" \/ UNCHANGED vars,
           \/ UNCHANGED fault
           \/ \E armed \in BOOLEAN : fault' = [fault EXCEPT ![r].armed = armed],
           \/ UNCHANGED result /\ result[r] = NoResult
           \/ \E outcome : /\ result' = [result EXCEPT ![r] = outcome]
                           /\ outcome.retry => Gone(r)'
                           /\ outcome.status = "PASS" =>
                                 /\ status'[KeyOf[r]] = "SUCCEEDED"
                                 /\ IsDrill(r) => fault'[r].fired /\ ~fault'[r].armed
    PROVE  DrillInv'
  <1>1. /\ stage' \in [Runs -> Stages] /\ stage'[r] = "end"
        /\ \A q \in Runs \ {r} : stage'[q] = stage[q]
    BY DEF Enter, DrillInv, DrillShapes, Stages
  <1>2. /\ fault' \in [Runs -> [armed : BOOLEAN, fired : BOOLEAN]]
        /\ fault'[r].fired = fault[r].fired
        /\ \A q \in Runs \ {r} : fault'[q] = fault[q]
    <2>1. fault \in [Runs -> [armed : BOOLEAN, fired : BOOLEAN]]
      BY DEF DrillInv, DrillShapes
    <2>2. CASE UNCHANGED fault
      BY <2>1, <2>2
    <2>3. ASSUME NEW armed \in BOOLEAN, fault' = [fault EXCEPT ![r].armed = armed]
          PROVE  <1>2!1 /\ <1>2!2 /\ <1>2!3
      <3>1. fault[r] \in [armed : BOOLEAN, fired : BOOLEAN]
        BY <2>1
      <3>2. fault'[r] = [fault[r] EXCEPT !.armed = armed]
        BY <2>1, <2>3
      <3>3. fault'[r].fired = fault[r].fired /\ fault'[r] \in [armed : BOOLEAN, fired : BOOLEAN]
        BY <3>1, <3>2, <2>3
      <3> QED  BY <2>1, <2>3, <3>3
    <2> QED  BY <2>2, <2>3
  <1>3. /\ DOMAIN result' = Runs
        /\ \A q \in Runs \ {r} : result'[q] = result[q]
    BY DEF DrillInv, DrillShapes
  <1>4. /\ result'[r].retry => Gone(r)'
        /\ result'[r].status = "PASS" =>
              /\ status'[KeyOf[r]] = "SUCCEEDED"
              /\ IsDrill(r) => fault'[r].fired /\ ~fault'[r].armed
    BY NoResultSaysNothing DEF DrillInv, DrillShapes
  <1>5. OnlyRun(r) /\ DrillShapes'
    BY <1>1, <1>2, <1>3 DEF OnlyRun, DrillInv, DrillShapes
  <1>6. StepFacts(r) /\ CheckIsSound(r)
    BY ProtocolStepFacts DEF DrillInv, IInv, TypeInv
  <1>7. CertifiesVerified(r)'
    BY <1>1 DEF CertifiesVerified
  <1>8. FaultIsKnown(r)'
    BY <1>1, <1>2, <1>6 DEF CheckIsSound, FaultIsKnown, StepFacts
  <1>9. Gone(r) => Gone(r)'
    BY <1>6 DEF StepFacts, Gone, HasOpenTransaction, vars, warehouseVars
  <1>10. AbsenceIsFinal(r)'
    BY <1>1, <1>6, <1>9 DEF CheckIsSound, AbsenceIsFinal, IsDrill
  <1>11. ResultIsTrue(r)'
    BY <1>1, <1>4 DEF ResultIsTrue, IsDrill
  <1> QED
    BY <1>5, <1>7, <1>8, <1>10, <1>11, CheckStepPreserves DEF CheckIsSound

\* The steps after which a check only waits for the journal.
LEMMA WaitingPreserves ==
    ASSUME DrillInv, [Next]_vars, NEW r \in Runs, OthersWait(r),
           \/ Claim(r) \/ Execute(r) \/ Commit(r) \/ CommitAcknowledged(r) \/ RecordUnknown(r)
           \/ PlainProbe(r) \/ PlainProbeRaises(r) \/ CertifierProbe(r) \/ FinalProbe(r)
           \/ RecoveryReconcileRaises(r)
    PROVE  DrillInv'
  <1>1. TypeOK /\ CertifiesVerified(r)
    BY DEF DrillInv, IInv, TypeInv, CheckIsSound
  <1>2. CASE Claim(r) \/ Execute(r) \/ Commit(r) \/ CommitAcknowledged(r)
    <2>1. ProbesPlainly(r)'
      BY <1>1, <1>2, QuietSteps DEF Claim, Execute, Commit, CommitAcknowledged
    <2>2. DriverKeeps /\ stage[r] \in {"claim", "execute"}
      BY <1>2 DEF Claim, Execute, Commit, CommitAcknowledged
    <2> QED
      BY <2>1, <2>2, KeepsPreserves
  <1>3. CASE RecordUnknown(r) \/ PlainProbeRaises(r) \/ RecoveryReconcileRaises(r)
    <2>1. Mark(r, "UNKNOWN", "probe") \/ Reconcile(r)
      BY <1>3 DEF RecordUnknown, PlainProbeRaises, RecoveryReconcileRaises, ReconcileRaises
    <2>2. DriverKeeps /\ pc[r] # "claimed"
      BY <1>3 DEF RecordUnknown, PlainProbeRaises, RecoveryReconcileRaises, ReconcileRaises,
                  Reconcile
    <2>3. ProbesPlainly(r)' /\ pc'[r] # "executing"
      BY <1>1, <2>1, <2>2, QuietSteps
    <2> QED
      BY <2>2, <2>3, KeepsPreserves
  <1>4. CASE PlainProbe(r) \/ FinalProbe(r)
    <2>1. Probing(r, NoRun) /\ DriverKeeps /\ ProbesPlainly(r)
      BY <1>1, <1>4 DEF PlainProbe, FinalProbe, CertifiesVerified
    <2>2. ProbesPlainly(r)' /\ pc'[r] # "executing"
      BY <1>1, <2>1, ProbingSteps
    <2> QED
      BY <2>1, <2>2, KeepsPreserves
  <1>5. CASE CertifierProbe(r)
    <2>1. pc'[r] # "executing"
      BY <1>1, <1>5, ProbingSteps DEF CertifierProbe
    <2> QED
      BY <1>5, <2>1, KeepsPreserves DEF CertifierProbe
  <1> QED
    BY <1>2, <1>3, <1>4, <1>5

\* A result that claims nothing.
LEMMA FailedSaysNothing ==
    ASSUME NEW reason PROVE ~Failed(reason).retry /\ Failed(reason).status # "PASS"
  BY DEF Failed

\* The steps that end a check with a result.
LEMMA EndingPreserves ==
    ASSUME DrillInv, [Next]_vars, NEW r \in Runs, OthersWait(r),
           \/ NotDeployed(r) \/ Conflict(r) \/ NotFresh(r) \/ ArmRaises(r) \/ FaultNotArmed(r)
           \/ MarkerRereadRaises(r) \/ Assess(r) \/ AssessCommit(r) \/ Dies(r)
    PROVE  DrillInv'
  <1>1. TypeOK /\ CheckIsSound(r) /\ IInv'
    BY SafeStep DEF DrillInv, IInv, TypeInv
  <1>2. UNCHANGED vars => ProbesPlainly(r)' = ProbesPlainly(r)
    BY DEF vars, clientVars, ProbesPlainly
  <1>3. CASE NotDeployed(r) \/ Conflict(r) \/ NotFresh(r) \/ ArmRaises(r)
    <2>1. /\ UNCHANGED <<vars, request, trace>> /\ Enter(r, "end") /\ stage[r] # "terminate"
          /\ \E reason : result' = [result EXCEPT ![r] = Failed(reason)]
          /\ \/ UNCHANGED fault
             \/ \E armed \in BOOLEAN : fault' = [fault EXCEPT ![r].armed = armed]
      BY <1>3 DEF NotDeployed, Conflict, NotFresh, ArmRaises, Raise, Return
    <2>2. ProbesPlainly(r)' /\ UNCHANGED vars
      BY <1>1, <1>2, <2>1 DEF CheckIsSound, CertifiesVerified
    <2>3. PICK reason : result' = [result EXCEPT ![r] = Failed(reason)]
      BY <2>1
    <2>4. ~Failed(reason).retry /\ Failed(reason).status # "PASS"
      BY FailedSaysNothing
    <2> QED
      BY <2>1, <2>2, <2>3, <2>4, EndPreserves
  <1>4. CASE FaultNotArmed(r)
    <2> DEFINE free == [status |-> "FAIL", reported |-> TRUE, retry |-> TRUE,
                        reason |-> "FAULT_NOT_ARMED"]
               outcome == IF status'[KeyOf[r]] = "NOT_COMMITTED" /\ version' # version
                          THEN free ELSE Failed("RAISED")
    <2>1. /\ NotArmed(r) /\ UNCHANGED <<request, fault, trace>> /\ Enter(r, "end")
          /\ result' = [result EXCEPT ![r] = outcome]
      BY <1>4 DEF FaultNotArmed, Return
    <2>2. ProbesPlainly(r)' /\ pc'[r] # "executing"
      BY <1>1, <2>1, QuietSteps DEF NotArmed, Mark, Goto, Stop, TypeOK
    <2>3. status'[KeyOf[r]] = "NOT_COMMITTED" => Gone(r)'
      BY <1>1, KeyOfAssumption DEF IInv, Safe, FreeRows, NoCommitter, MayStillCommit, Gone
    <2>4. (outcome.retry => Gone(r)') /\ outcome.status # "PASS"
      BY <2>3, FailedSaysNothing
    <2> HIDE DEF outcome
    <2> QED
      BY <2>1, <2>2, <2>4, EndPreserves
  <1>5. CASE MarkerRereadRaises(r)
    <2>1. /\ Reconcile(r) /\ pc[r] = "reconcile" /\ UNCHANGED <<request, fault, trace>>
          /\ Enter(r, "end") /\ result' = [result EXCEPT ![r] = Failed("RAISED")]
      BY <1>5 DEF MarkerRereadRaises, ReconcileReturns, Reconcile, Raise, Return
    <2>2. ProbesPlainly(r)' /\ pc'[r] # "executing"
      BY <1>1, <2>1, QuietSteps
    <2> QED
      BY <2>1, <2>2, FailedSaysNothing, EndPreserves
  <1>6. CASE Assess(r)
    <2>1. /\ stage[r] = "assess" /\ IsDrill(r) /\ UNCHANGED <<vars, request, fault, trace>>
          /\ Enter(r, "end")
      BY <1>6 DEF Assess, Return
    <2> DEFINE reason == FailureReason(r, trace[r])
               outcome == [status |-> IF Passes(r, trace[r]) THEN "PASS" ELSE "FAIL",
                           reported |-> TRUE, retry |-> RetryEligible(trace[r]),
                           reason |-> IF reason = "" THEN "REAL_FAULT_COMMITTED_RECOVERED"
                                      ELSE reason]
    <2>2. /\ result' = [result EXCEPT ![r] = outcome]
          /\ outcome.status = IF Passes(r, trace[r]) THEN "PASS" ELSE "FAIL"
          /\ outcome.retry = RetryEligible(trace[r])
      BY <1>6, Zenon DEF Assess, Return
    <2> HIDE DEF outcome
    <2>3. outcome.retry => Gone(r)'
      <3>1. outcome.retry => Gone(r)
        BY <1>1, <2>1, <2>2 DEF RetryEligible, CheckIsSound, AbsenceIsFinal
      <3> QED
        BY <2>1, <3>1 DEF Gone, HasOpenTransaction, vars, warehouseVars
    <2>4. outcome.status = "PASS" => /\ status'[KeyOf[r]] = "SUCCEEDED"
                                     /\ fault'[r].fired /\ ~fault'[r].armed
      <3> SUFFICES ASSUME Passes(r, trace[r])
                   PROVE  status[KeyOf[r]] = "SUCCEEDED" /\ fault[r].fired /\ ~fault[r].armed
        BY <2>1, <2>2 DEF vars, journalVars
      <3>1. status[KeyOf[r]] = "SUCCEEDED"
        BY DEF Passes, Reentry
      <3>2. trace[r].verified /\ trace[r].identity /\ ~trace[r].disarmFailed
        BY DEF Passes, FaultObserved
      <3> QED
        BY <1>1, <2>1, <3>1, <3>2 DEF CheckIsSound, FaultIsKnown
    <2>5. ProbesPlainly(r)' /\ UNCHANGED vars
      BY <1>1, <1>2, <2>1 DEF CheckIsSound, CertifiesVerified
    <2> QED
      BY <2>1, <2>2, <2>3, <2>4, <2>5, EndPreserves
  <1>7. CASE AssessCommit(r)
    <2>1. /\ stage[r] = "assess" /\ ~IsDrill(r) /\ UNCHANGED <<vars, request, fault, trace>>
          /\ Enter(r, "end")
      BY <1>7 DEF AssessCommit, Return
    <2> DEFINE passed == CommitCheckPasses(r, trace[r])
               pass == [status |-> "PASS", reported |-> TRUE, retry |-> FALSE, reason |-> ""]
               outcome == IF passed THEN pass ELSE Failed("RECOVERY_NOT_COMMITTED")
    <2>2. /\ result' = [result EXCEPT ![r] = outcome]
          /\ outcome.status = "PASS" => status[KeyOf[r]] = "SUCCEEDED"
          /\ ~outcome.retry
      <3>1. result' = [result EXCEPT ![r] = outcome]
        BY <1>7, Zenon DEF AssessCommit, Return
      <3>2. ~pass.retry /\ (passed => status[KeyOf[r]] = "SUCCEEDED")
        BY DEF CommitCheckPasses
      <3> QED
        BY <3>1, <3>2, FailedSaysNothing
    <2> HIDE DEF outcome
    <2>3. ProbesPlainly(r)' /\ UNCHANGED vars /\ status' = status
      BY <1>1, <1>2, <2>1 DEF CheckIsSound, CertifiesVerified, vars, journalVars
    <2> QED
      BY <2>1, <2>2, <2>3, EndPreserves
  <1>8. CASE Dies(r)
    <2>1. /\ Crash(r) /\ UNCHANGED <<request, fault, trace, result>> /\ Enter(r, "end")
          /\ result[r] = NoResult
      BY <1>1, <1>8 DEF Dies, CheckIsSound, ResultIsTrue
    <2>2. ProbesPlainly(r)' /\ pc'[r] # "executing"
      BY <1>1, <2>1, QuietSteps DEF Crash, Goto, TypeOK
    <2> QED
      BY <2>1, <2>2, EndPreserves
  <1> QED
    BY <1>3, <1>4, <1>5, <1>6, <1>7, <1>8

\* What a probe's journal write leaves when it returns.
LEMMA ReconcileFacts ==
    ASSUME IInv, IInv', NEW r \in Runs, ReconcileReturns(r)
    PROVE  /\ ProbesPlainly(r)' /\ pc'[r] # "executing"
           /\ res[r] = "NOT_COMMITTED" => Gone(r)'
  <1>1. TypeOK /\ Reconcile(r) /\ pc[r] = "reconcile" /\ pc'[r] # "stopped" /\ KeyOf[r] \in Ops
    BY KeyOfAssumption DEF IInv, TypeInv, ReconcileReturns, Reconcile
  <1>2. ProbesPlainly(r)' /\ pc'[r] # "executing"
    BY <1>1, QuietSteps
  <1>3. ASSUME res[r] = "NOT_COMMITTED" PROVE status'[KeyOf[r]] = "NOT_COMMITTED"
    <2>1. ~Stop(r)
      BY <1>1 DEF Stop, Goto, TypeOK
    <2>2. StatusFor(res[r]) = "NOT_COMMITTED"
      BY <1>3 DEF StatusFor
    <2>3. Transition(KeyOf[r], ver[r], "NOT_COMMITTED")
      BY <1>1, <1>3, <2>1, <2>2 DEF Reconcile, Mark
    <2> QED
      BY <1>1, <2>3 DEF Transition, WriteRow, TypeOK, JournalTypeOK
  <1>4. status'[KeyOf[r]] = "NOT_COMMITTED" => Gone(r)'
    BY <1>1 DEF IInv, Safe, FreeRows, NoCommitter, MayStillCommit, Gone
  <1> QED
    BY <1>2, <1>3, <1>4

\* The steps that arm, execute, break the connection and disarm.
LEMMA ExecutingPreserves ==
    ASSUME DrillInv, [Next]_vars, NEW r \in Runs, OthersWait(r),
           \/ ArmFault(r) \/ BeginCommitCheck(r) \/ Preexisting(r) \/ MutationRaises(r)
           \/ ConnectionBreaks(r) \/ FaultFires(r) \/ Disarm(r)
    PROVE  DrillInv'
  <1>1. /\ TypeOK /\ CheckIsSound(r) /\ DrillShapes
        /\ trace[r] \in Traces /\ fault[r] \in [armed : BOOLEAN, fired : BOOLEAN]
    BY DEF DrillInv, IInv, TypeInv, DrillShapes
  <1>2. stage[r] # "terminate" /\ UNCHANGED vars => ProbesPlainly(r)'
    BY <1>1 DEF CheckIsSound, CertifiesVerified, vars, clientVars, ProbesPlainly
  <1>3. CASE ArmFault(r) \/ BeginCommitCheck(r)
    <2>1. /\ stage[r] = "claim" /\ UNCHANGED <<vars, request, trace, result>>
          /\ stage' = [stage EXCEPT ![r] = "execute"]
      BY <1>3 DEF ArmFault, BeginCommitCheck, Enter
    <2>2. PICK f \in [armed : BOOLEAN, fired : BOOLEAN] :
             /\ f.fired = fault[r].fired
             /\ (UNCHANGED fault /\ f = fault[r]) \/ fault' = [fault EXCEPT ![r] = f]
      <3>1. CASE ArmFault(r)
        <4>1. fault' = [fault EXCEPT ![r] = [fault[r] EXCEPT !.armed = TRUE]]
          BY <1>1, <3>1 DEF ArmFault, DrillShapes
        <4>2. /\ [fault[r] EXCEPT !.armed = TRUE] \in [armed : BOOLEAN, fired : BOOLEAN]
              /\ [fault[r] EXCEPT !.armed = TRUE].fired = fault[r].fired
          BY <1>1
        <4> QED
          BY <4>1, <4>2
      <3>2. CASE BeginCommitCheck(r)
        BY <1>1, <3>2 DEF BeginCommitCheck
      <3> QED
        BY <1>3, <3>1, <3>2
    <2>3. Learned(r, "execute", trace[r], f)
      BY <1>1, <2>1, <2>2, Learning DEF Stages
    <2> QED
      BY <1>1, <1>2, <2>1, <2>2, <2>3, LearnedPreserves
         DEF CheckIsSound, FaultIsKnown, AbsenceIsFinal, Stages
  <1>4. CASE Preexisting(r)
    <2>1. PICK s \in {"probe", "final"} :
             /\ stage[r] = "claim" /\ ~IsDrill(r)
             /\ UNCHANGED <<vars, request, fault, trace, result>>
             /\ stage' = [stage EXCEPT ![r] = s]
      BY <1>4 DEF Preexisting, Enter
    <2>2. Learned(r, s, trace[r], fault[r])
      BY <1>1, <2>1, Learning DEF Stages
    <2> QED
      BY <1>1, <1>2, <2>1, <2>2, LearnedPreserves DEF CheckIsSound, FaultIsKnown, Stages
  <1>5. CASE MutationRaises(r) \/ ConnectionBreaks(r) \/ FaultFires(r)
    <2>1. stage[r] = "execute" /\ UNCHANGED <<request, stage, result>>
      BY <1>5 DEF MutationRaises, ConnectionBreaks, FaultFires
    <2>2. ProbesPlainly(r)'
      BY <1>1, <1>5, QuietSteps DEF MutationRaises, ConnectionBreaks, FaultFires
    <2>3. PICK captureFailed \in BOOLEAN :
             trace' = [trace EXCEPT ![r] = [trace[r] EXCEPT !.raised = TRUE,
                                                            !.captureFailed = captureFailed]]
      <3>1. [trace[r] EXCEPT !.raised = TRUE] =
               [trace[r] EXCEPT !.raised = TRUE, !.captureFailed = trace[r].captureFailed]
        BY <1>1 DEF Traces
      <3>2. trace[r].captureFailed \in BOOLEAN
        BY <1>1, Zenon DEF Traces
      <3> QED
        BY <1>5, <3>1, <3>2 DEF MutationRaises, ConnectionBreaks, FaultFires, Learn
    <2> DEFINE t == [trace[r] EXCEPT !.raised = TRUE, !.captureFailed = captureFailed]
    <2>4. /\ t \in Traces /\ t.verified = trace[r].verified /\ t.identity = trace[r].identity
          /\ t.status = trace[r].status
      BY <1>1 DEF Traces
    <2> HIDE DEF t
    <2>5. PICK f \in [armed : BOOLEAN, fired : BOOLEAN] :
             /\ fault[r].fired => f.fired
             /\ f.fired => fault[r].fired \/ r \in sent
             /\ (UNCHANGED fault /\ f = fault[r]) \/ fault' = [fault EXCEPT ![r] = f]
      <3>1. CASE FaultFires(r)
        <4>1. fault' = [fault EXCEPT ![r] = [fault[r] EXCEPT !.fired = TRUE]]
          BY <1>1, <3>1 DEF FaultFires, DrillShapes
        <4>2. /\ [fault[r] EXCEPT !.fired = TRUE] \in [armed : BOOLEAN, fired : BOOLEAN]
              /\ [fault[r] EXCEPT !.fired = TRUE].fired
          BY <1>1
        <4>3. r \in sent
          BY <1>1, <3>1 DEF FaultFires, CheckIsSound, FaultIsKnown
        <4> QED
          BY <4>1, <4>2, <4>3
      <3>2. CASE MutationRaises(r) \/ ConnectionBreaks(r)
        BY <1>1, <3>2 DEF MutationRaises, ConnectionBreaks
      <3> QED
        BY <1>5, <3>1, <3>2
    <2>6. Learned(r, "execute", t, f)
      BY <1>1, <2>1, <2>3, <2>4, <2>5, Learning DEF Stages, t
    <2> QED
      BY <1>1, <2>1, <2>2, <2>4, <2>5, <2>6, LearnedPreserves
         DEF CheckIsSound, FaultIsKnown, AbsenceIsFinal, Stages
  <1>6. CASE Disarm(r)
    <2>1. PICK failed \in BOOLEAN :
             /\ fault' = [fault EXCEPT ![r].armed = failed]
             /\ trace' = [trace EXCEPT ![r] = [trace[r] EXCEPT !.disarmFailed = failed,
                                                               !.atomic = pc[r] = "acked"]]
      BY <1>6 DEF Disarm, Learn
    <2>2. stage[r] = "execute" /\ UNCHANGED <<vars, request, result>>
          /\ stage' = [stage EXCEPT ![r] = "probe"]
      BY <1>6 DEF Disarm, Enter
    <2> DEFINE f == [fault[r] EXCEPT !.armed = failed]
               t == [trace[r] EXCEPT !.disarmFailed = failed, !.atomic = pc[r] = "acked"]
    <2>3. /\ f \in [armed : BOOLEAN, fired : BOOLEAN] /\ f.fired = fault[r].fired
          /\ f.armed = failed /\ fault' = [fault EXCEPT ![r] = f]
      BY <1>1, <2>1 DEF DrillShapes
    <2>4. /\ t \in Traces /\ t.verified = trace[r].verified /\ t.identity = trace[r].identity
          /\ t.status = trace[r].status /\ t.disarmFailed = failed
      BY <1>1 DEF Traces
    <2>5. trace' = [trace EXCEPT ![r] = t]
      BY <2>1
    <2> HIDE DEF t, f
    <2>6. Learned(r, "probe", t, f)
      BY <1>1, <2>2, <2>3, <2>4, <2>5, Learning DEF Stages
    <2> QED
      BY <1>1, <1>2, <2>2, <2>3, <2>4, <2>6, LearnedPreserves
         DEF CheckIsSound, FaultIsKnown, AbsenceIsFinal, Stages
  <1> QED
    BY <1>3, <1>4, <1>5, <1>6

\* After its execution a driver only observes; the fault stays as it is.
LEMMA ObservingPreserves ==
    ASSUME DrillInv, [Next]_vars, NEW r \in Runs, OthersWait(r),
           stage[r] \notin {"claim", "execute", "end"},
           NEW s \in Stages \ {"claim", "execute", "end"}, NEW t \in Traces,
           stage' = [stage EXCEPT ![r] = s], trace' = [trace EXCEPT ![r] = t],
           UNCHANGED <<request, fault, result>>, t.disarmFailed = trace[r].disarmFailed,
           t.verified /\ t.identity => fault[r].fired,
           s # "terminate" => ProbesPlainly(r)',
           s = "terminate" => /\ request[r].recovery /\ t.verified /\ t.identity
                              /\ ~t.disarmFailed,
           IsDrill(r) /\ t.status = "NOT_COMMITTED" => Gone(r)'
    PROVE  DrillInv'
  <1>1. CheckIsSound(r) /\ DrillShapes /\ fault[r] \in [armed : BOOLEAN, fired : BOOLEAN]
    BY DEF DrillInv, DrillShapes
  <1>2. Learned(r, s, t, fault[r])
    BY <1>1, Learning
  <1> QED
    BY <1>1, <1>2, LearnedPreserves DEF CheckIsSound, FaultIsKnown

\* The steps that read back what a reconciliation wrote.
LEMMA ReconcilingPreserves ==
    ASSUME DrillInv, [Next]_vars, NEW r \in Runs, OthersWait(r),
           \/ PlainProbeReturns(r) \/ CertifierProbeReturns(r) \/ FinalProbeReturns(r)
           \/ FinalRereadRaises(r)
    PROVE  DrillInv'
  <1>1. /\ TypeOK /\ CheckIsSound(r) /\ trace[r] \in Traces /\ res[r] \in Resolutions
        /\ IInv /\ IInv'
    BY SafeStep DEF DrillInv, IInv, TypeInv, TypeOK, DrillShapes
  <1>2. ReconcileReturns(r) /\ UNCHANGED <<request, fault, result>>
    BY DEF PlainProbeReturns, CertifierProbeReturns, FinalProbeReturns, FinalRereadRaises
  <1>3. /\ ProbesPlainly(r)' /\ (Gone(r) => Gone(r)')
        /\ res[r] = "NOT_COMMITTED" => Gone(r)'
    BY <1>1, <1>2, ReconcileFacts, ProtocolStepFacts DEF StepFacts
  <1>4. PICK s \in Stages \ {"claim", "execute", "end", "terminate"} :
           stage[r] \notin {"claim", "execute", "end"} /\ stage' = [stage EXCEPT ![r] = s]
    BY DEF PlainProbeReturns, CertifierProbeReturns, FinalProbeReturns, FinalRereadRaises, Enter,
           Stages
  <1>5. StatusFor(res[r]) \in Statuses
        /\ (StatusFor(res[r]) = "NOT_COMMITTED" => res[r] = "NOT_COMMITTED")
    BY DEF StatusFor, Statuses
  <1>6. PICK t \in Traces :
           /\ trace' = [trace EXCEPT ![r] = t]
           /\ t.verified = trace[r].verified /\ t.identity = trace[r].identity
           /\ t.disarmFailed = trace[r].disarmFailed
           /\ t.status \in {trace[r].status, StatusFor(res[r])}
    <2>1. CASE PlainProbeReturns(r) \/ FinalProbeReturns(r)
      <3> DEFINE t == [Evidence(r) EXCEPT !.atomic = @ \/ res[r] = "COMMITTED"]
      <3>1. trace' = [trace EXCEPT ![r] = t]
        BY <2>1 DEF PlainProbeReturns, FinalProbeReturns, Learn
      <3>2. /\ t \in Traces /\ t.verified = trace[r].verified /\ t.identity = trace[r].identity
            /\ t.disarmFailed = trace[r].disarmFailed /\ t.status = StatusFor(res[r])
        BY <1>1, <1>5 DEF Evidence, Traces
      <3> HIDE DEF t
      <3> QED
        BY <3>1, <3>2
    <2>2. CASE CertifierProbeReturns(r)
      <3> DEFINE t == [Evidence(r) EXCEPT !.safe = res[r] = "NOT_COMMITTED"]
      <3>1. trace' = [trace EXCEPT ![r] = t]
        BY <2>2 DEF CertifierProbeReturns, Learn
      <3>2. /\ t \in Traces /\ t.verified = trace[r].verified /\ t.identity = trace[r].identity
            /\ t.disarmFailed = trace[r].disarmFailed /\ t.status = StatusFor(res[r])
        BY <1>1, <1>5 DEF Evidence, Traces
      <3> HIDE DEF t
      <3> QED
        BY <3>1, <3>2
    <2>3. CASE FinalRereadRaises(r)
      <3> DEFINE t == [trace[r] EXCEPT !.recoveryFailed = TRUE, !.safe = FALSE]
      <3>1. trace' = [trace EXCEPT ![r] = t]
        BY <2>3 DEF FinalRereadRaises, Learn
      <3>2. /\ t \in Traces /\ t.verified = trace[r].verified /\ t.identity = trace[r].identity
            /\ t.disarmFailed = trace[r].disarmFailed /\ t.status = trace[r].status
        BY <1>1 DEF Traces
      <3> HIDE DEF t
      <3> QED
        BY <3>1, <3>2
    <2> QED
      BY <2>1, <2>2, <2>3
  <1>7. IsDrill(r) /\ t.status = "NOT_COMMITTED" => Gone(r)'
    BY <1>1, <1>3, <1>5, <1>6 DEF CheckIsSound, AbsenceIsFinal
  <1>8. t.verified /\ t.identity => fault[r].fired
    BY <1>1, <1>6 DEF CheckIsSound, FaultIsKnown
  <1> QED
    BY <1>2, <1>3, <1>4, <1>6, <1>7, <1>8, ObservingPreserves

\* The steps that decide whether a session may be terminated.
LEMMA DecidingPreserves ==
    ASSUME DrillInv, [Next]_vars, NEW r \in Runs, OthersWait(r),
           \/ DirectProbe(r) \/ VerifyFault(r) \/ SkipRecovery(r) \/ OpenAuthority(r)
           \/ RecoveryRaises(r)
    PROVE  DrillInv'
  <1>1. TypeOK /\ CheckIsSound(r) /\ trace[r] \in Traces /\ DrillShapes /\ KeyOf[r] \in Ops
    BY KeyOfAssumption DEF DrillInv, IInv, TypeInv, DrillShapes
  <1>2. UNCHANGED <<vars, request, fault, result>>
    BY DEF DirectProbe, VerifyFault, SkipRecovery, OpenAuthority, RecoveryRaises
  <1>3. /\ stage[r] # "terminate" \/ pc[r] = "stopped" => ProbesPlainly(r)'
        /\ Gone(r) => Gone(r)'
    BY <1>1, <1>2 DEF CheckIsSound, CertifiesVerified, ProbesPlainly, Certifying, Gone,
                      HasOpenTransaction, vars, clientVars, warehouseVars
  <1>4. IsDrill(r) /\ trace[r].status = "NOT_COMMITTED" => Gone(r)'
    BY <1>1, <1>3 DEF CheckIsSound, AbsenceIsFinal
  <1>5. trace[r].verified /\ trace[r].identity => fault[r].fired
    BY <1>1 DEF CheckIsSound, FaultIsKnown
  <1>6. CASE DirectProbe(r)
    <2>1. PICK readable \in BOOLEAN :
             LET committed == readable /\ markers[KeyOf[r]] # {}
             IN  trace' = [trace EXCEPT ![r] = [trace[r] EXCEPT
                    !.resolution = IF committed THEN "COMMITTED" ELSE "UNRESOLVED",
                    !.status = status[KeyOf[r]],
                    !.atomic = committed]]
      BY <1>6 DEF DirectProbe, Learn
    <2> DEFINE committed == readable /\ markers[KeyOf[r]] # {}
               t == [trace[r] EXCEPT
                        !.resolution = IF committed THEN "COMMITTED" ELSE "UNRESOLVED",
                        !.status = status[KeyOf[r]], !.atomic = committed]
    <2>2. stage[r] = "final" /\ ~IsDrill(r) /\ stage' = [stage EXCEPT ![r] = "assess"]
      BY <1>6 DEF DirectProbe, Enter
    <2>3. status[KeyOf[r]] \in Statuses \cup {"ABSENT"}
      BY <1>1 DEF TypeOK, JournalTypeOK
    <2>4. /\ t \in Traces /\ t.verified = trace[r].verified /\ t.identity = trace[r].identity
          /\ t.disarmFailed = trace[r].disarmFailed
      <3>1. committed \in BOOLEAN
        OBVIOUS
      <3> HIDE DEF committed
      <3> QED
        BY <1>1, <2>3, <3>1 DEF Traces, Resolutions
    <2>5. trace' = [trace EXCEPT ![r] = t]
      BY <2>1, Zenon
    <2> HIDE DEF t
    <2> QED
      BY <1>2, <1>3, <1>5, <2>2, <2>4, <2>5, ObservingPreserves DEF Stages
  <1>7. CASE VerifyFault(r)
    <2>1. stage[r] = "verify" /\ stage' = [stage EXCEPT ![r] = "recover"]
      BY <1>7 DEF VerifyFault, Enter
    <2>2. PICK t \in Traces :
             /\ trace' = [trace EXCEPT ![r] = t]
             /\ t.verified /\ t.identity => fault[r].fired
             /\ t.disarmFailed = trace[r].disarmFailed /\ t.status = trace[r].status
      <3>1. CASE trace' = [trace EXCEPT ![r] = [trace[r] EXCEPT !.verifyFailed = TRUE]]
        <4> DEFINE t == [trace[r] EXCEPT !.verifyFailed = TRUE]
        <4>1. /\ t \in Traces /\ t.verified = trace[r].verified
              /\ t.identity = trace[r].identity
              /\ t.disarmFailed = trace[r].disarmFailed /\ t.status = trace[r].status
          BY <1>1 DEF Traces
        <4> HIDE DEF t
        <4> QED
          BY <1>5, <3>1, <4>1 DEF t
      <3>2. ASSUME NEW v \in Verifications(r),
                   trace' = [trace EXCEPT ![r] = [trace[r] EXCEPT !.verified = v.triggered,
                                                        !.identity = IdentityMatches(v)]]
            PROVE  \E t \in Traces :
                      /\ trace' = [trace EXCEPT ![r] = t]
                      /\ t.verified /\ t.identity => fault[r].fired
                      /\ t.disarmFailed = trace[r].disarmFailed /\ t.status = trace[r].status
        <4>1. /\ v.triggered \in BOOLEAN /\ v.own \in BOOLEAN
              /\ v.own /\ v.triggered => fault[r].fired
          <5>1. fault[r].fired \in BOOLEAN
            BY <1>1 DEF DrillShapes
          <5>2. CASE v = [triggered |-> fault[r].fired, own |-> TRUE]
            BY <5>1, <5>2
          <5>3. ASSUME NEW b \in BOOLEAN, v = [triggered |-> b, own |-> FALSE]
                PROVE  v.triggered = b /\ v.own = FALSE
            BY <5>3
          <5> QED
            BY <3>2, <5>2, <5>3 DEF Verifications
        <4> DEFINE t == [trace[r] EXCEPT !.verified = v.triggered, !.identity = v.own]
        <4>2. /\ t \in Traces /\ t.verified = v.triggered /\ t.identity = v.own
              /\ t.disarmFailed = trace[r].disarmFailed /\ t.status = trace[r].status
          BY <1>1, <4>1 DEF Traces
        <4>3. trace' = [trace EXCEPT ![r] = t]
          BY <3>2 DEF IdentityMatches
        <4> HIDE DEF t
        <4> QED
          BY <4>1, <4>2, <4>3
      <3> QED
        BY <1>7, <3>1, <3>2 DEF VerifyFault, Learn
    <2> QED
      BY <1>2, <1>3, <1>4, <2>1, <2>2, ObservingPreserves DEF Stages
  <1>8. CASE SkipRecovery(r)
    <2>1. /\ stage[r] = "recover" /\ stage' = [stage EXCEPT ![r] = "assess"]
          /\ trace' = [trace EXCEPT ![r] = trace[r]]
      BY <1>1, <1>8 DEF SkipRecovery, Enter, DrillShapes
    <2> QED
      BY <1>1, <1>2, <1>3, <1>4, <1>5, <2>1, ObservingPreserves DEF Stages
  <1>9. CASE OpenAuthority(r)
    <2>1. /\ stage[r] = "recover" /\ request[r].recovery
          /\ trace[r].verified /\ trace[r].identity /\ ~trace[r].disarmFailed
      BY <1>9 DEF OpenAuthority, SessionRecoveryEligible, FaultObserved
    <2>2. PICK failed \in BOOLEAN :
             /\ trace' = [trace EXCEPT ![r] = [trace[r] EXCEPT !.attempted = TRUE,
                                                              !.recoveryFailed = failed]]
             /\ stage' = [stage EXCEPT ![r] = IF failed THEN "assess" ELSE "terminate"]
      BY <1>9 DEF OpenAuthority, Learn, Enter
    <2> DEFINE t == [trace[r] EXCEPT !.attempted = TRUE, !.recoveryFailed = failed]
    <2>3. /\ t \in Traces /\ t.verified = trace[r].verified /\ t.identity = trace[r].identity
          /\ t.disarmFailed = trace[r].disarmFailed /\ t.status = trace[r].status
      BY <1>1 DEF Traces
    <2>4. PICK s \in {"assess", "terminate"} : stage' = [stage EXCEPT ![r] = s]
      BY <2>2
    <2>5. trace' = [trace EXCEPT ![r] = t]
      BY <2>2
    <2> HIDE DEF t
    <2> QED
      BY <1>2, <1>3, <1>4, <1>5, <2>1, <2>3, <2>4, <2>5, ObservingPreserves DEF Stages
  <1>10. CASE RecoveryRaises(r)
    <2> DEFINE t == [trace[r] EXCEPT !.recoveryFailed = TRUE, !.resolution = "UNRESOLVED",
                                     !.status = "UNKNOWN", !.safe = FALSE]
    <2>1. /\ stage[r] \in {"terminate", "final"} /\ pc[r] = "stopped"
          /\ stage' = [stage EXCEPT ![r] = "assess"] /\ trace' = [trace EXCEPT ![r] = t]
      BY <1>10 DEF RecoveryRaises, Learn, Enter
    <2>2. /\ t \in Traces /\ t.verified = trace[r].verified /\ t.identity = trace[r].identity
          /\ t.disarmFailed = trace[r].disarmFailed /\ t.status = "UNKNOWN"
      BY <1>1 DEF Traces, Resolutions, Statuses
    <2> HIDE DEF t
    <2> QED
      BY <1>2, <1>3, <1>5, <2>1, <2>2, ObservingPreserves DEF Stages
  <1> QED
    BY <1>6, <1>7, <1>8, <1>9, <1>10

-----------------------------------------------------------------------------
\* No check has begun: no fault is armed, nothing is certified.
LEMMA DrillInitEstablishes ==
    ASSUME DrillInit PROVE DrillInv
  <1>1. IInv
    BY InitInv DEF DrillInit
  <1>2. DrillShapes
    BY DEF DrillInit, DrillShapes, Stages, NoFault, NoTrace, Traces, Resolutions, Statuses
  <1>3. ASSUME NEW r \in Runs PROVE CheckIsSound(r)
    <2>1. /\ stage[r] = "claim" /\ fault[r] = NoFault /\ trace[r] = NoTrace
          /\ result[r] = NoResult /\ pc[r] = "start"
      BY DEF DrillInit, Init
    <2>2. /\ ~NoFault.armed /\ ~NoFault.fired /\ ~NoTrace.verified
          /\ NoTrace.status = "UNKNOWN"
      BY DEF NoFault, NoTrace
    <2> QED
      BY <2>1, <2>2, NoResultSaysNothing
         DEF CheckIsSound, CertifiesVerified, FaultIsKnown, AbsenceIsFinal, ResultIsTrue,
             ProbesPlainly, Certifying
  <1> QED
    BY <1>1, <1>2, <1>3 DEF DrillInv

\* Every step of a driver keeps the invariant.
LEMMA DriverStepPreserves ==
    ASSUME DrillInv, [Next]_vars, NEW r \in Runs, DriverStep(r)
    PROVE  DrillInv'
  <1>1. ClientStep(r) \/ Crash(r) \/ UNCHANGED vars
    BY ExecutionDrivesRecovery, OutcomeDrivesRecovery, Zenon DEF DriverStep, Dies
  <1>2. OthersWait(r)
    BY <1>1, ClientsAreLocal DEF DrillInv, IInv, TypeInv
  <1> QED
    BY <1>2, WaitingPreserves, EndingPreserves, ExecutingPreserves, ReconcilingPreserves,
       DecidingPreserves DEF DriverStep

\* Every step of the drill, its drivers and the Warehouse keeps the invariant.
LEMMA DrillStepPreserves == DrillInv /\ [DrillNext]_drillVars => DrillInv'
  <1> SUFFICES ASSUME DrillInv, [DrillNext]_drillVars PROVE DrillInv'
    OBVIOUS
  <1>1. [Next]_vars
    BY StepDrivesRecovery
  <1>2. ASSUME NEW r \in Runs, TargetMoves(r) PROVE DrillInv'
    <2>1. OthersWait(r) /\ DriverKeeps /\ UNCHANGED <<pc, bind>>
      BY <1>2, ClientsAreLocal DEF TargetMoves, TargetStep, clientVars, DrillInv, IInv, TypeInv
    <2>2. stage[r] # "terminate" => ProbesPlainly(r)'
      BY <2>1 DEF DrillInv, CheckIsSound, CertifiesVerified, ProbesPlainly
    <2> QED
      BY <1>1, <2>1, <2>2, KeepsPreserves
  <1>3. CASE UNCHANGED drillVars
    <2>1. IInv'
      BY <1>1, SafeStep DEF DrillInv
    <2>2. UNCHANGED <<request, stage, fault, trace, result, pc, bind, sent, markers, session,
                      status>>
      BY <1>3 DEF drillVars, driverVars, vars, clientVars, warehouseVars, journalVars
    <2>3. DrillShapes'
      BY <2>2 DEF DrillInv, DrillShapes
    <2>4. ASSUME NEW r \in Runs PROVE CheckIsSound(r)'
      <3>1. CheckIsSound(r) /\ ProbesPlainly(r)' = ProbesPlainly(r) /\ Gone(r)' = Gone(r)
        BY <2>2 DEF DrillInv, ProbesPlainly, Gone, HasOpenTransaction
      <3> QED
        BY <2>2, <3>1 DEF CheckIsSound, CertifiesVerified, FaultIsKnown, AbsenceIsFinal,
                          ResultIsTrue, IsDrill
    <2> QED
      BY <2>1, <2>3, <2>4 DEF DrillInv
  <1> QED
    BY <1>1, <1>2, <1>3, DriverStepPreserves DEF DrillNext, DrillTerminated

(***************************************************************************)
(* The invariant of the approved checks: what a driver has observed and    *)
(* reported is true of the provider, the journal and the target.           *)
(***************************************************************************)
THEOREM DrillInvariant == DrillSpec => []DrillInv
  <1>1. DrillInit => DrillInv
    BY DrillInitEstablishes
  <1> QED
    BY <1>1, DrillStepPreserves, PTL DEF DrillSpec

(***************************************************************************)
(* A PASS is proven by a real fault of the run's own COMMIT, an effect     *)
(* that took place once and a journal that says so (_assess).              *)
(***************************************************************************)
THEOREM DrillPassIsProven == DrillSpec => []PassIsProven
  <1>1. ASSUME DrillInv PROVE PassIsProven
    <2> SUFFICES ASSUME NEW r \in Runs, result[r].status = "PASS"
                 PROVE  /\ applied[KeyOf[r]] = 1 /\ markers[KeyOf[r]] # {}
                        /\ status[KeyOf[r]] = "SUCCEEDED"
                        /\ IsDrill(r) => fault[r].fired /\ ~fault[r].armed /\ r \in sent
      BY DEF PassIsProven
    <2>1. CheckIsSound(r) /\ KeyOf[r] \in Ops
      BY <1>1, KeyOfAssumption DEF DrillInv
    <2>2. /\ status[KeyOf[r]] = "SUCCEEDED"
          /\ IsDrill(r) => fault[r].fired /\ ~fault[r].armed /\ r \in sent
      BY <2>1 DEF CheckIsSound, ResultIsTrue, FaultIsKnown
    <2>3. markers[KeyOf[r]] # {} /\ applied[KeyOf[r]] = 1
      BY <1>1, <2>1, <2>2
         DEF DrillInv, IInv, Safe, CommittedClaims, SucceededIsCommitted, MarkerCountsEffect
    <2> QED
      BY <2>2, <2>3
  <1>2. DrillInv => PassIsProven
    BY <1>1
  <1> QED
    BY <1>2, DrillInvariant, PTL

(***************************************************************************)
(* Whoever retries what a report calls eligible for retry cannot be        *)
(* overtaken by the reporting run's own commit (absence_safe_to_retry).    *)
(***************************************************************************)
THEOREM DrillRetryIsSafe == DrillSpec => []RetryEligibleIsSafe
  <1>1. DrillInv => RetryEligibleIsSafe
    BY DEF DrillInv, CheckIsSound, ResultIsTrue, RetryEligibleIsSafe, Gone
  <1> QED
    BY <1>1, DrillInvariant, PTL

(***************************************************************************)
(* A session is killed only by a drill whose own fault fired and is        *)
(* disarmed (_session_recovery_eligible).                                  *)
(***************************************************************************)
THEOREM DrillKillsOnlyVerified == DrillSpec => KillOnlyVerified
  <1> DEFINE Verified ==
        \A q \in Runs :
           session[q] # "killed" /\ session'[q] = "killed" =>
              \E r \in Runs : /\ pc[r] = "terminate" /\ pc'[r] # "terminate"
                              /\ request[r].recovery
                              /\ fault[r].fired /\ ~fault[r].armed
  <1>1. ASSUME DrillInv, [DrillNext]_drillVars PROVE Verified
    <2> SUFFICES ASSUME NEW q \in Runs, session[q] # "killed", session'[q] = "killed"
                 PROVE  \E r \in Runs : /\ pc[r] = "terminate" /\ pc'[r] # "terminate"
                                        /\ request[r].recovery
                                        /\ fault[r].fired /\ ~fault[r].armed
      OBVIOUS
    <2>1. TypeOK /\ [Next]_vars
      BY <1>1, StepDrivesRecovery DEF DrillInv, IInv, TypeInv
    <2>2. PICK r \in Runs : Terminate(r)
      BY <2>1, ProtocolStepFacts DEF StepFacts
    <2>3. pc[r] = "terminate" /\ pc'[r] # "terminate"
      BY <2>1, <2>2 DEF Terminate, Resolve, Goto, TypeOK
    <2>4. CheckIsSound(r) /\ stage[r] = "terminate"
      BY <1>1, <2>3 DEF DrillInv, CheckIsSound, CertifiesVerified, ProbesPlainly, Certifying
    <2> QED
      BY <2>3, <2>4 DEF CheckIsSound, CertifiesVerified, FaultIsKnown
  <1>2. DrillInv /\ [DrillNext]_drillVars => [Verified]_drillVars
    BY <1>1
  <1> QED
    BY <1>2, DrillInvariant, PTL DEF DrillSpec, KillOnlyVerified
=============================================================================
