----------------------- MODULE CurrentProjectionProofs -----------------------
(***************************************************************************)
(* Proofs about CurrentProjection for any runs, keys, rows and history     *)
(* bound, with transitions beside the executor and crashes everywhere.     *)
(***************************************************************************)
EXTENDS CurrentProjection, TLAPS

\* The steps between freezing the window and committing the checkpoint, and
\* those of them after the mutation.
Windowed == {"mutate", "verify", "reconcile", "commit"}
Mutated == {"verify", "reconcile", "commit"}

\* A run with a window has frozen a version history has, at or after its lower one.
UpperKnown ==
    \A r \in Runs : pc[r] \in Windowed =>
        up[r] \in 1..Len(history) /\ seen[r].pos <= up[r]

TypeInv == TypeOK /\ UpperKnown

\* Whoever is inside the lease holds the persisted claim.
LeaseHeld == \A r \in Runs : pc[r] \in Locked => holder = r

\* An absent checkpoint has no position; a present one is at a version of history.
CheckpointKnown ==
    /\ cp.version = 0 => cp = NoCheckpoint
    /\ cp.version # 0 => cp.pos \in 1..Len(history)

\* What can happen to the checkpoint under a run's window is a reset, nothing else.
SeenKnown ==
    \A r \in Runs : pc[r] \in Windowed =>
        /\ cp \in {seen[r], NoCheckpoint}
        /\ job[r] = "incremental" => seen[r].version # 0

\* Run r has mutated the table that is still there and may commit its checkpoint.
MayCommit(r) ==
    pc[r] \in Mutated /\ kind = "table" /\ (job[r] = "incremental" => cp = seen[r])

\* Then no key of the table is behind the version r is about to commit.
Pending ==
    \A r \in Runs : MayCommit(r) =>
        \A k \in Keys : AsOf(k, rows[k], up[r], Len(history))

LostInv ==
    TypeInv /\ LeaseHeld /\ CheckpointKnown /\ SeenKnown /\ NothingLost /\ Pending

\* When the latest version is frozen: a table under an open window is not ahead
\* of it, and after the mutation it is exactly the frozen version.
WindowExact ==
    \A r \in Runs : pc[r] = "mutate" /\ kind = "table" /\ cp = seen[r] /\ cp.version # 0 =>
        \A k \in Keys : AsOf(k, rows[k], seen[r].pos, up[r])

MutatedExact ==
    \A r \in Runs : MayCommit(r) => rows = history[up[r]]

ExactInv == LostInv /\ WindowExact /\ MutatedExact

(***************************************************************************)
(* Each group of steps keeps the state well typed, and only a transition   *)
(* reaches the coordinator's own steps.                                    *)
(***************************************************************************)
LEMMA TypeOKStep == TypeInv /\ [Next]_vars => TypeOK'
<1> SUFFICES ASSUME TypeOK, UpperKnown, [Next]_vars PROVE TypeOK'
  BY DEF TypeInv
<1> USE LeaseAssumption, ProjectionAssumption
<1>m. ASSUME NEW r \in Runs, NEW label \in Pcs, Move(r, label),
             label \in TransitionPcs => job[r] \in Transitions
      PROVE  TypeOK'
  BY <1>m DEF Move, Goto, TypeOK, LeaseTypeOK, leaseVars, dataVars
<1>u. ASSUME NEW r \in Runs
      PROVE  /\ Unwind(r) \in Pcs
             /\ Unwind(r) \in TransitionPcs => job[r] \in Transitions
  BY DEF Unwind, Pcs, Ended, TransitionPcs
<1>1. ASSUME NEW r \in Runs, Start(r) \/ Raise(r) \/ Reconcile(r) \/ Verify(r) \/ Crash(r)
      PROVE TypeOK'
  <2>1. PICK label \in {"failed", "acquire", "raise", "commit", "reconcile", "crashed"} :
          Move(r, label)
    BY <1>1, Zenon DEF Start, Raise, Reconcile, Verify, Crash
  <2> QED
    BY <2>1, <1>m DEF Pcs, Ended, Locked, TransitionPcs
<1>2. ASSUME NEW r \in Runs, Acquire(r) PROVE TypeOK'
  <2>1. CASE AcquireLease(r) /\ Goto(r, "window") /\ UNCHANGED <<dataVars, cp, job, seen, up, event>>
    BY <2>1 DEF AcquireLease, Goto, TypeOK, LeaseTypeOK, dataVars, Pcs, Locked, TransitionPcs
  <2>2. CASE AcquireLease(r) /\ Goto(r, Unwind(r)) /\ UNCHANGED <<dataVars, cp, job, seen, up, event>>
    BY <2>2, <1>u DEF AcquireLease, Goto, TypeOK, LeaseTypeOK, dataVars
  <2>3. CASE Move(r, Unwind(r))
    BY <2>3, <1>u, <1>m
  <2> QED
    BY <1>2, <2>1, <2>2, <2>3 DEF Acquire
<1>3. ASSUME NEW r \in Runs, Release(r) PROVE TypeOK'
  <2>1. CASE Move(r, Unwind(r))
    BY <2>1, <1>u, <1>m
  <2>2. CASE ReleaseLease(r)
    <3>1. PICK label \in Pcs : /\ Goto(r, label)
                               /\ label \in TransitionPcs => job[r] \in Transitions
      BY <1>3, <2>2, <1>u DEF Release, Move, ReleaseLease, leaseVars, Pcs, Ended, ToDelta,
         Transitions, TransitionPcs
    <3> QED
      BY <1>3, <2>2, <3>1 DEF Release, Move, ReleaseLease, Goto, TypeOK, LeaseTypeOK,
         leaseVars, dataVars
  <2> QED
    BY <1>3, <2>1, <2>2 DEF Release
<1>4. ASSUME NEW r \in Runs, ResolveWindow(r) PROVE TypeOK'
  <2>1. PICK u \in Uppers :
          /\ seen' = [seen EXCEPT ![r] = cp]
          /\ up' = [up EXCEPT ![r] = u]
    BY <1>4 DEF ResolveWindow
  <2>2. PICK label \in {"raise", "succeed", "mutate"} : Goto(r, label)
    BY <1>4, Zenon DEF ResolveWindow
  <2>3. u \in 0..MaxHistory
    BY DEF Uppers, TypeOK
  <2> QED
    BY <1>4, <2>1, <2>2, <2>3 DEF ResolveWindow, Goto, TypeOK, LeaseTypeOK, leaseVars,
       dataVars, Pcs, Locked, TransitionPcs
<1>5. ASSUME NEW r \in Runs, Mutate(r) PROVE TypeOK'
  <2>1. CASE Move(r, "reconcile")
    BY <2>1, <1>m DEF Pcs, Locked, TransitionPcs
  <2>2. CASE ~Move(r, "reconcile")
    <3>1. up[r] \in 1..Len(history)
      BY <1>5 DEF Mutate, UpperKnown, Windowed
    <3>2. rows' \in Contents
      <4>1. history[up[r]] \in Contents
        BY <3>1 DEF TypeOK
      <4>2. rows' = ApplyCurrentProjection(rows, history[up[r]], Scope(r))
        BY <1>5, <2>2 DEF Mutate
      <4> QED
        BY <4>1, <4>2 DEF ApplyCurrentProjection, TypeOK, Contents
    <3> QED
      BY <1>5, <2>2, <3>2 DEF Mutate, Goto, TypeOK, LeaseTypeOK, leaseVars, Pcs, Locked,
         TransitionPcs
  <2> QED
    BY <2>1, <2>2
<1>6. ASSUME NEW r \in Runs, CommitCheckpoint(r) PROVE TypeOK'
  <2>1. CASE Move(r, "raise")
    BY <2>1, <1>m DEF Pcs, Locked, TransitionPcs
  <2>2. CASE cp' = [version |-> cp.version + 1, pos |-> up[r], by |-> r]
    <3>1. cp' \in Checkpoints
      BY <2>2 DEF TypeOK, Checkpoints
    <3>2. PICK label \in {"succeed", "raise"} : Goto(r, label)
      BY <1>6 DEF CommitCheckpoint, Move
    <3> QED
      BY <1>6, <3>1, <3>2 DEF CommitCheckpoint, Move, Goto, TypeOK, LeaseTypeOK, leaseVars,
         dataVars, Pcs, Locked, TransitionPcs
  <2> QED
    BY <1>6, <2>1, <2>2 DEF CommitCheckpoint
<1>7. ASSUME NEW r \in Runs, StartTransition(r) PROVE TypeOK'
  <2>1. CASE Move(r, "failed")
    BY <2>1, <1>m DEF Pcs, Ended, TransitionPcs
  <2>2. CASE ~Move(r, "failed")
    <3>1. /\ seen' = [seen EXCEPT ![r] = cp]
          /\ event' = [event EXCEPT ![r] = "STARTED"]
          /\ UNCHANGED <<leaseVars, dataVars, cp, job, up>>
          /\ job[r] \in Transitions
      BY <1>7, <2>2 DEF StartTransition
    <3>0. PICK label \in {"drop", "failed"} : pc' = [pc EXCEPT ![r] = label]
      BY <1>7, <2>2, Zenon DEF StartTransition, Goto
    <3>2. pc' \in [Runs -> Pcs]
      BY <3>0 DEF TypeOK, Pcs, Ended, TransitionPcs
    <3>3. seen' \in [Runs -> Checkpoints]
      BY <3>1 DEF TypeOK
    <3>4. event' \in [Runs -> {"none", "STARTED", "FAILED", "COMPLETED"}]
      BY <3>1 DEF TypeOK
    <3>5. \A q \in Runs : pc'[q] \in TransitionPcs => job[q] \in Transitions
      BY <3>0, <3>1 DEF TypeOK
    <3> QED
      BY <3>1, <3>2, <3>3, <3>4, <3>5 DEF TypeOK, LeaseTypeOK, leaseVars, dataVars
  <2> QED
    BY <2>1, <2>2
<1>8. ASSUME NEW r \in Runs, DropPrevious(r) \/ DeployView(r) PROVE TypeOK'
  <2>0. job[r] \in Transitions
    BY <1>8 DEF DropPrevious, DeployView, TypeOK, TransitionPcs
  <2>1. CASE Move(r, "abort")
    BY <2>0, <2>1, <1>m DEF Pcs, TransitionPcs
  <2> QED
    BY <1>8, <2>0, <2>1 DEF DropPrevious, DeployView, Goto, TypeOK, LeaseTypeOK, leaseVars,
       Pcs, TransitionPcs
<1>9. ASSUME NEW r \in Runs, CompleteTransition(r) PROVE TypeOK'
  <2>0. job[r] \in Transitions
    BY <1>9 DEF CompleteTransition, TypeOK, TransitionPcs
  <2>1. CASE Move(r, "abort")
    BY <2>0, <2>1, <1>m DEF Pcs, TransitionPcs
  <2>2. NoCheckpoint \in Checkpoints
    BY DEF NoCheckpoint, Checkpoints
  <2> QED
    BY <1>9, <2>1, <2>2 DEF CompleteTransition, Goto, TypeOK, LeaseTypeOK, leaseVars,
       dataVars, Pcs, Ended, TransitionPcs
<1>10. ASSUME NEW r \in Runs, AbortTransition(r) PROVE TypeOK'
  BY <1>10 DEF AbortTransition, Goto, TypeOK, LeaseTypeOK, leaseVars, dataVars, Pcs, Ended,
     TransitionPcs
<1>11. CASE CommitHistory
  <2>1. PICK c \in Contents : history' = Append(history, c)
    BY <1>11 DEF CommitHistory
  <2> QED
    BY <1>11, <2>1 DEF CommitHistory, TypeOK, LeaseTypeOK, leaseVars, runVars
<1>12. ASSUME NEW r \in Runs, OperatorRecovers(r) PROVE TypeOK'
  BY <1>12 DEF OperatorRecovers, RecoverLease, TypeOK, LeaseTypeOK, dataVars, runVars
<1>13. CASE LeaseAges
  BY <1>13 DEF LeaseAges, DeadlinePasses, TypeOK, LeaseTypeOK, dataVars, runVars
<1>14. CASE UNCHANGED vars
  BY <1>14 DEF vars, TypeOK, LeaseTypeOK, leaseVars, dataVars, runVars
<1> QED
  BY <1>1, <1>2, <1>3, <1>4, <1>5, <1>6, <1>7, <1>8, <1>9, <1>10, <1>11, <1>12, <1>13,
     <1>14 DEF Next, RunStep, Finished

-----------------------------------------------------------------------------
(***************************************************************************)
(* The lease: every run inside it holds the claim, so no two are inside.   *)
(***************************************************************************)
LEMMA LeaseStep == TypeOK /\ LeaseHeld /\ [Next]_vars => LeaseHeld'
<1> SUFFICES ASSUME TypeOK, LeaseHeld, [Next]_vars PROVE LeaseHeld'
  OBVIOUS
<1> USE LeaseAssumption
<1>0. pc \in [Runs -> Pcs]
  BY DEF TypeOK
<1>m. ASSUME NEW r \in Runs, NEW label, Goto(r, label), holder' = holder,
             label \in Locked => holder = r
      PROVE  LeaseHeld'
  BY <1>0, <1>m DEF Goto, LeaseHeld
<1>u. ASSUME NEW r \in Runs PROVE Unwind(r) \notin Locked
  BY DEF Unwind, Locked
<1>1. ASSUME NEW r \in Runs, Acquire(r) PROVE LeaseHeld'
  <2>1. CASE AcquireLease(r)
    <3>1. \A q \in Runs : pc[q] \notin Locked
      BY <2>1 DEF AcquireLease, LeaseHeld
    <3>2. \A q \in Runs : q # r => pc'[q] = pc[q]
      BY <1>0, <1>1 DEF Acquire, Move, Goto
    <3> QED
      BY <2>1, <3>1, <3>2 DEF AcquireLease, LeaseHeld
  <2>2. CASE Move(r, Unwind(r))
    BY <2>2, <1>m, <1>u DEF Move, leaseVars
  <2> QED
    BY <1>1, <2>1, <2>2 DEF Acquire
<1>2. ASSUME NEW r \in Runs, Release(r) PROVE LeaseHeld'
  <2>1. PICK label : Goto(r, label) /\ label \notin Locked
    BY <1>2, <1>u DEF Release, Move, Locked
  <2>2. CASE ReleaseLease(r)
    <3>1. \A q \in Runs : q # r => pc[q] \notin Locked
      BY <2>2 DEF ReleaseLease, LeaseHeld
    <3> QED
      BY <1>0, <2>1, <3>1 DEF Goto, LeaseHeld
  <2>3. CASE Move(r, Unwind(r))
    BY <2>3, <1>m, <1>u DEF Move, leaseVars
  <2> QED
    BY <1>2, <2>2, <2>3 DEF Release
<1>3. ASSUME NEW r \in Runs,
             \/ ResolveWindow(r) \/ Mutate(r) \/ Verify(r) \/ Reconcile(r)
             \/ CommitCheckpoint(r) \/ Raise(r)
      PROVE  LeaseHeld'
  <2>1. holder' = holder /\ holder = r
    BY <1>3 DEF ResolveWindow, Mutate, Verify, Reconcile, CommitCheckpoint, Raise, Move,
       leaseVars, LeaseHeld, Locked
  <2>2. PICK label : Goto(r, label)
    BY <1>3 DEF ResolveWindow, Mutate, Verify, Reconcile, CommitCheckpoint, Raise, Move
  <2> QED
    BY <2>1, <2>2, <1>m
<1>4. ASSUME NEW r \in Runs,
             \/ Start(r) \/ StartTransition(r) \/ DropPrevious(r) \/ DeployView(r)
             \/ CompleteTransition(r) \/ AbortTransition(r) \/ Crash(r)
      PROVE  LeaseHeld'
  <2>1. holder' = holder
    BY <1>4 DEF Start, StartTransition, DropPrevious, DeployView, CompleteTransition,
       AbortTransition, Crash, Move, leaseVars
  <2>2. PICK label \in {"failed", "acquire", "drop", "deploy", "abort", "complete", "done",
                        "crashed"} : Goto(r, label)
    BY <1>4, Zenon DEF Start, StartTransition, DropPrevious, DeployView, CompleteTransition,
       AbortTransition, Crash, Move
  <2> QED
    BY <2>1, <2>2, <1>m DEF Locked
<1>5. ASSUME NEW r \in Runs, OperatorRecovers(r) PROVE LeaseHeld'
  <2>1. pc' = pc /\ holder = r /\ pc[r] \in Ended
    BY <1>5 DEF OperatorRecovers, RecoverLease, runVars
  <2> QED
    BY <2>1 DEF LeaseHeld, Ended, Locked
<1>6. CASE CommitHistory \/ LeaseAges \/ UNCHANGED vars
  BY <1>6 DEF CommitHistory, LeaseAges, DeadlinePasses, vars, leaseVars, runVars, LeaseHeld
<1> QED
  BY <1>1, <1>2, <1>3, <1>4, <1>5, <1>6 DEF Next, RunStep, Finished

(***************************************************************************)
(* A quiet step leaves history, rows and checkpoint alone, makes no table  *)
(* appear, and moves no run into its window or past its mutation.          *)
(***************************************************************************)
Quiet ==
    /\ UNCHANGED <<history, rows, cp, up, job>>
    /\ kind' \in {kind, "none", "view"}
    /\ \A q \in Runs : pc'[q] \in Windowed =>
          /\ pc[q] \in Windowed /\ seen'[q] = seen[q]
          /\ pc'[q] = "mutate" <=> pc[q] = "mutate"

\* Every step is quiet except the five that the invariants are about.
LEMMA StepKinds ==
    ASSUME TypeOK, [Next]_vars
    PROVE  \/ Quiet \/ CommitHistory
           \/ \E r \in Runs : \/ ResolveWindow(r) \/ Mutate(r) \/ CommitCheckpoint(r)
                              \/ CompleteTransition(r)
<1>0. pc \in [Runs -> Pcs] /\ seen \in [Runs -> Checkpoints]
  BY DEF TypeOK
<1>m. ASSUME NEW r \in Runs, NEW label, Goto(r, label), label \notin Windowed,
             UNCHANGED <<history, rows, cp, up, job>>, kind' \in {kind, "none", "view"},
             \A q \in Runs : q # r => seen'[q] = seen[q]
      PROVE  Quiet
  BY <1>0, <1>m DEF Goto, Quiet
<1>u. ASSUME NEW r \in Runs PROVE Unwind(r) \notin Windowed
  BY DEF Unwind, Windowed
<1>1. ASSUME NEW r \in Runs,
             \/ Start(r) \/ Raise(r) \/ Crash(r) \/ StartTransition(r) \/ DropPrevious(r)
             \/ DeployView(r) \/ AbortTransition(r)
      PROVE  Quiet
  <2>1. PICK label \in {"failed", "acquire", "raise", "crashed", "drop", "deploy", "abort",
                        "complete"} : Goto(r, label)
    BY <1>1, Zenon DEF Start, Raise, Crash, StartTransition, DropPrevious, DeployView,
       AbortTransition, Move
  <2>2. /\ UNCHANGED <<history, rows, cp, up, job>>
        /\ kind' \in {kind, "none", "view"}
    BY <1>1 DEF Start, Raise, Crash, StartTransition, DropPrevious, DeployView,
       AbortTransition, Move, dataVars
  <2>3. \A q \in Runs : q # r => seen'[q] = seen[q]
    BY <1>0, <1>1 DEF Start, Raise, Crash, StartTransition, DropPrevious, DeployView,
       AbortTransition, Move
  <2> QED
    BY <2>1, <2>2, <2>3, <1>m DEF Windowed
<1>2. ASSUME NEW r \in Runs, Acquire(r) \/ Release(r) PROVE Quiet
  <2>1. PICK label : Goto(r, label) /\ label \notin Windowed
    BY <1>2, <1>u DEF Acquire, Release, Move, Windowed
  <2>2. UNCHANGED <<history, rows, cp, up, job, kind, seen>>
    BY <1>2 DEF Acquire, Release, Move, dataVars
  <2> QED
    BY <2>1, <2>2, <1>m
<1>3. ASSUME NEW r \in Runs, Verify(r) \/ Reconcile(r) PROVE Quiet
  <2>1. PICK label \in {"reconcile", "commit", "raise"} : Move(r, label)
    BY <1>3, Zenon DEF Verify, Reconcile
  <2>2. pc[r] \in {"verify", "reconcile"}
    BY <1>3 DEF Verify, Reconcile
  <2> QED
    BY <1>0, <2>1, <2>2 DEF Move, Goto, dataVars, Quiet, Windowed
<1>4. ASSUME NEW r \in Runs, OperatorRecovers(r) PROVE Quiet
  BY <1>4 DEF OperatorRecovers, dataVars, runVars, Quiet
<1>5. CASE LeaseAges \/ UNCHANGED vars
  BY <1>5 DEF LeaseAges, vars, dataVars, runVars, Quiet
<1> QED
  BY <1>1, <1>2, <1>3, <1>4, <1>5 DEF Next, RunStep, Finished

-----------------------------------------------------------------------------
(***************************************************************************)
(* The invariant around the checkpoint, one lemma per kind of step.        *)
(***************************************************************************)
LostCore == UpperKnown /\ CheckpointKnown /\ SeenKnown /\ NothingLost /\ Pending

LEMMA QuietStep == LostInv /\ Quiet => LostCore'
<1> SUFFICES ASSUME LostInv, Quiet PROVE LostCore'
  OBVIOUS
<1> USE DEF LostInv, TypeInv, Quiet
<1>1. UpperKnown'
  BY DEF UpperKnown
<1>2. CheckpointKnown' /\ NothingLost'
  BY DEF CheckpointKnown, NoCheckpoint, NothingLost, AsOf
<1>3. SeenKnown'
  BY DEF SeenKnown, NoCheckpoint
<1>4. \A q \in Runs : MayCommit(q)' => MayCommit(q)
  BY DEF MayCommit, Mutated, Windowed
<1>5. Pending'
  BY <1>4 DEF Pending, AsOf
<1> QED
  BY <1>1, <1>2, <1>3, <1>5 DEF LostCore

\* Two runs never have their windows open together.
LEMMA OneWindow ==
    ASSUME LeaseHeld, NEW r \in Runs, pc[r] \in Locked, NEW q \in Runs, q # r
    PROVE  pc[q] \notin Windowed
BY DEF LeaseHeld, Locked, Windowed

LEMMA ResolveWindowStep ==
    ASSUME LostInv, NEW r \in Runs, ResolveWindow(r)
    PROVE  LostCore'
<1> USE DEF LostInv, TypeInv
<1>0. pc \in [Runs -> Pcs] /\ seen \in [Runs -> Checkpoints] /\ up \in [Runs -> 0..MaxHistory]
  BY DEF TypeOK
<1>1. PICK u \in Uppers :
        /\ seen' = [seen EXCEPT ![r] = cp]
        /\ up' = [up EXCEPT ![r] = u]
        /\ Goto(r, IF (cp.version = 0 /\ job[r] = "incremental") \/ u < cp.pos THEN "raise"
                   ELSE IF job[r] = "incremental" /\ u = cp.pos THEN "succeed"
                   ELSE "mutate")
  BY DEF ResolveWindow
<1>2. UNCHANGED <<history, kind, rows, cp, job>>
  BY DEF ResolveWindow, dataVars
<1>3. u \in 1..Len(history) /\ cp.pos \in Nat /\ Len(history) \in Nat
  BY ProjectionAssumption DEF Uppers, TypeOK, Checkpoints
<1>4. \A q \in Runs : q # r => pc'[q] \notin Windowed
  BY <1>0, <1>1, OneWindow DEF ResolveWindow, Goto, Locked
<1>5. pc'[r] \in Windowed => /\ pc'[r] = "mutate" /\ cp.pos <= u
                             /\ job[r] = "incremental" => cp.version # 0
  BY <1>0, <1>1, <1>3 DEF Goto, Windowed
<1>6. seen'[r] = cp /\ up'[r] = u
  BY <1>0, <1>1
<1>7. UpperKnown'
  BY <1>2, <1>3, <1>4, <1>5, <1>6 DEF UpperKnown
<1>8. CheckpointKnown' /\ NothingLost'
  BY <1>2 DEF CheckpointKnown, NoCheckpoint, NothingLost, AsOf
<1>9. SeenKnown'
  BY <1>2, <1>4, <1>5, <1>6 DEF SeenKnown
<1>10. Pending'
  BY <1>4, <1>5 DEF Pending, MayCommit, Mutated, Windowed
<1> QED
  BY <1>7, <1>8, <1>9, <1>10 DEF LostCore

\* What the mutation does to the table, whichever branch it takes.
LEMMA MutateEffect ==
    ASSUME LostInv, NEW r \in Runs, Mutate(r)
    PROVE  /\ pc[r] = "mutate" /\ UNCHANGED <<history, cp, job, seen, up>>
           /\ pc'[r] \in Mutated \cup {"raise"}
           /\ \A q \in Runs : q # r => pc'[q] \notin Windowed
           /\ kind' = "table" =>
                /\ job[r] = "incremental" => kind = "table"
                /\ \A k \in Keys :
                     rows'[k] = IF k \in Scope(r) THEN history[up[r]][k] ELSE rows[k]
<1> USE DEF LostInv, TypeInv
<1>0. pc \in [Runs -> Pcs]
  BY DEF TypeOK
<1>1. \A q \in Runs : q # r => pc[q] \notin Windowed
  BY OneWindow DEF Mutate, Locked
<1>2. CASE Scope(r) # {}
  BY <1>0, <1>1, <1>2 DEF Mutate, Goto, Move, ApplyCurrentProjection, Mutated
<1>3. CASE Scope(r) = {}
  BY <1>0, <1>1, <1>3 DEF Mutate, Goto, Move, dataVars, Mutated
<1> QED
  BY <1>2, <1>3

LEMMA MutateStep ==
    ASSUME LostInv, NEW r \in Runs, Mutate(r)
    PROVE  LostCore'
<1> USE DEF LostInv, TypeInv
<1>1. /\ pc[r] = "mutate" /\ UNCHANGED <<history, cp, job, seen, up>>
      /\ pc'[r] \in Mutated \cup {"raise"}
      /\ \A q \in Runs : q # r => pc'[q] \notin Windowed
  BY MutateEffect
<1>2. /\ pc[r] \in Windowed /\ up[r] \in 1..Len(history) /\ seen[r].pos <= up[r]
      /\ cp \in {seen[r], NoCheckpoint}
      /\ job[r] = "incremental" => seen[r].version # 0
  BY <1>1 DEF Windowed, UpperKnown, SeenKnown
<1>3. /\ up[r] \in Nat /\ Len(history) \in Nat /\ cp.pos \in Nat /\ seen[r].pos \in Nat
      /\ cp.pos <= up[r] /\ up[r] <= Len(history)
  BY <1>2, ProjectionAssumption DEF TypeOK, Checkpoints, NoCheckpoint
<1>4. UpperKnown' /\ SeenKnown' /\ CheckpointKnown'
  <2>1. UpperKnown'
    BY <1>1, <1>2 DEF UpperKnown
  <2>2. SeenKnown'
    BY <1>1, <1>2 DEF SeenKnown, NoCheckpoint
  <2>3. CheckpointKnown'
    BY <1>1 DEF CheckpointKnown, NoCheckpoint
  <2> QED
    BY <2>1, <2>2, <2>3
<1>5. NothingLost'
  <2> SUFFICES ASSUME cp.version # 0, kind' = "table", NEW k \in Keys
               PROVE  \E v \in cp.pos..Len(history) : rows'[k] = history[v][k]
    BY <1>1 DEF NothingLost, AsOf
  <2>1. CASE k \in Scope(r)
    <3>1. rows'[k] = history[up[r]][k]
      BY <2>1, MutateEffect
    <3> QED
      BY <1>3, <3>1
  <2>2. CASE k \notin Scope(r)
    <3>1. rows'[k] = rows[k] /\ kind = "table"
      BY <2>2, MutateEffect DEF Scope
    <3> QED
      BY <3>1 DEF NothingLost, AsOf
  <2> QED
    BY <2>1, <2>2
<1>6. Pending'
  <2> SUFFICES ASSUME kind' = "table", job[r] = "incremental" => cp = seen[r], NEW k \in Keys
               PROVE  \E v \in up[r]..Len(history) : rows'[k] = history[v][k]
    BY <1>1 DEF Pending, MayCommit, AsOf, Mutated, Windowed
  <2>1. CASE k \in Scope(r)
    <3>1. rows'[k] = history[up[r]][k]
      BY <2>1, MutateEffect
    <3> QED
      BY <1>3, <3>1
  <2>2. CASE k \notin Scope(r)
    <3>1. rows'[k] = rows[k] /\ kind = "table" /\ job[r] = "incremental"
      BY <2>2, MutateEffect DEF Scope
    <3>2. PICK v \in seen[r].pos..Len(history) : rows[k] = history[v][k]
      BY <3>1, <1>2 DEF NothingLost, AsOf
    <3>3. CASE v >= up[r]
      BY <1>3, <3>1, <3>2, <3>3
    <3>4. CASE v < up[r]
      <4>1. history[v][k] = history[up[r]][k]
        BY <1>3, <2>2, <3>1, <3>2, <3>4 DEF Scope, Affected
      <4> QED
        BY <1>3, <3>1, <3>2, <4>1
    <3> QED
      BY <1>3, <3>3, <3>4
  <2> QED
    BY <2>1, <2>2
<1> QED
  BY <1>4, <1>5, <1>6 DEF LostCore

\* A failed commit is quiet; a successful one leaves no window open.
LEMMA CommitEffect ==
    ASSUME LostInv, NEW r \in Runs, CommitCheckpoint(r)
    PROVE  \/ Quiet
           \/ /\ pc[r] = "commit" /\ cp.version = seen[r].version
              /\ cp' = [version |-> cp.version + 1, pos |-> up[r], by |-> r]
              /\ UNCHANGED <<history, kind, rows, job>>
              /\ \A q \in Runs : pc'[q] \notin Windowed
<1> USE DEF LostInv, TypeInv
<1>0. pc \in [Runs -> Pcs] /\ pc[r] = "commit"
  BY DEF TypeOK, CommitCheckpoint
<1>1. \A q \in Runs : q # r => pc[q] \notin Windowed
  BY <1>0, OneWindow DEF Locked
<1>2. CASE Move(r, "raise")
  BY <1>0, <1>1, <1>2 DEF Move, Goto, dataVars, Quiet, Windowed
<1>3. CASE ~Move(r, "raise")
  <2>1. \A q \in Runs : pc'[q] \notin Windowed
    BY <1>0, <1>1, <1>3 DEF CommitCheckpoint, Goto, Windowed
  <2> QED
    BY <1>0, <1>3, <2>1 DEF CommitCheckpoint, dataVars
<1> QED
  BY <1>2, <1>3

\* A run whose compare-and-swap succeeds still sees the checkpoint it read, unless
\* it is a rebuild.
LEMMA CommitterMayCommit ==
    ASSUME LostInv, NEW r \in Runs, pc[r] = "commit", cp.version = seen[r].version,
           kind = "table"
    PROVE  MayCommit(r)
<1>1. cp \in {seen[r], NoCheckpoint} /\ (job[r] = "incremental" => seen[r].version # 0)
  BY DEF LostInv, SeenKnown, Windowed
<1> QED
  BY <1>1 DEF MayCommit, Mutated, NoCheckpoint

LEMMA CommitCheckpointStep ==
    ASSUME LostInv, NEW r \in Runs, CommitCheckpoint(r)
    PROVE  LostCore'
<1> USE DEF LostInv, TypeInv
<1>1. CASE Quiet
  BY <1>1, QuietStep
<1>2. CASE ~Quiet
  <2>1. /\ pc[r] = "commit" /\ cp.version = seen[r].version
        /\ cp' = [version |-> cp.version + 1, pos |-> up[r], by |-> r]
        /\ UNCHANGED <<history, kind, rows, job>>
        /\ \A q \in Runs : pc'[q] \notin Windowed
    BY <1>2, CommitEffect
  <2>2. UpperKnown' /\ SeenKnown' /\ Pending'
    BY <2>1 DEF UpperKnown, SeenKnown, Pending, MayCommit, Windowed, Mutated
  <2>3. up[r] \in 1..Len(history) /\ cp.version \in Nat
    BY <2>1 DEF UpperKnown, Windowed, TypeOK, Checkpoints
  <2>4. cp'.version # 0 /\ cp'.pos = up[r]
    BY <2>1, <2>3
  <2>5. CheckpointKnown'
    BY <2>1, <2>3, <2>4 DEF CheckpointKnown
  <2>6. NothingLost'
    <3> SUFFICES ASSUME kind = "table", NEW k \in Keys
                 PROVE  AsOf(k, rows[k], up[r], Len(history))
      BY <2>1, <2>4 DEF NothingLost, AsOf
    <3> QED
      BY <2>1, CommitterMayCommit DEF Pending
  <2> QED
    BY <2>2, <2>5, <2>6 DEF LostCore
<1> QED
  BY <1>1, <1>2

\* A completion is quiet, or resets the checkpoint under whatever runs beside it.
LEMMA CompleteEffect ==
    ASSUME TypeOK, NEW r \in Runs, CompleteTransition(r)
    PROVE  \/ Quiet
           \/ /\ cp' = NoCheckpoint
              /\ UNCHANGED <<history, kind, rows, job, seen, up>>
              /\ \A q \in Runs : pc'[q] \in Windowed => pc'[q] = pc[q]
<1>0. pc \in [Runs -> Pcs]
  BY DEF TypeOK
<1>1. PICK label \in {"done", "abort"} : Goto(r, label)
  BY Zenon DEF CompleteTransition, Move
<1>2. UNCHANGED <<history, kind, rows, job, seen, up>> /\ cp' \in {cp, NoCheckpoint}
  BY DEF CompleteTransition, Move, dataVars
<1>3. \A q \in Runs : pc'[q] \in Windowed => pc'[q] = pc[q]
  BY <1>0, <1>1 DEF Goto, Windowed
<1> QED
  BY <1>2, <1>3 DEF Quiet

LEMMA CompleteTransitionStep ==
    ASSUME LostInv, NEW r \in Runs, CompleteTransition(r)
    PROVE  LostCore'
<1> USE DEF LostInv, TypeInv
<1>1. CASE Quiet
  BY <1>1, QuietStep
<1>2. CASE ~Quiet
  <2>1. /\ cp' = NoCheckpoint
        /\ UNCHANGED <<history, kind, rows, job, seen, up>>
        /\ \A q \in Runs : pc'[q] \in Windowed => pc'[q] = pc[q]
    BY <1>2, CompleteEffect
  <2>2. cp'.version = 0
    BY <2>1 DEF NoCheckpoint
  <2>3. UpperKnown' /\ CheckpointKnown' /\ NothingLost'
    BY <2>1, <2>2 DEF UpperKnown, CheckpointKnown, NothingLost, NoCheckpoint
  <2>4. SeenKnown'
    BY <2>1 DEF SeenKnown, NoCheckpoint
  <2>5. \A q \in Runs : MayCommit(q)' => MayCommit(q)
    BY <2>1, <2>2 DEF MayCommit, Mutated, Windowed, SeenKnown
  <2>6. Pending'
    BY <2>1, <2>5 DEF Pending, AsOf
  <2> QED
    BY <2>3, <2>4, <2>6 DEF LostCore
<1> QED
  BY <1>1, <1>2

\* History only grows.
LEMMA HistoryGrows ==
    ASSUME TypeOK, CommitHistory
    PROVE  /\ UNCHANGED <<kind, rows, cp, job, pc, seen, up>>
           /\ Len(history) \in Nat /\ Len(history') = Len(history) + 1
           /\ \A v \in 1..Len(history) : history'[v] = history[v]
<1>1. PICK c \in Contents : history' = Append(history, c)
  BY DEF CommitHistory
<1>2. history \in Seq(Contents)
  BY DEF TypeOK
<1>3. Len(history) \in Nat /\ Len(history') = Len(history) + 1
  BY <1>1, <1>2
<1>4. \A v \in 1..Len(history) : history'[v] = history[v]
  BY <1>1, <1>2
<1> QED
  BY <1>3, <1>4 DEF CommitHistory, runVars

LEMMA CommitHistoryStep ==
    ASSUME LostInv, CommitHistory
    PROVE  LostCore'
<1> USE DEF LostInv, TypeInv
<1>1. /\ UNCHANGED <<kind, rows, cp, job, pc, seen, up>>
      /\ Len(history) \in Nat /\ Len(history') = Len(history) + 1
      /\ \A v \in 1..Len(history) : history'[v] = history[v]
  BY HistoryGrows
<1>2. ASSUME NEW k \in Keys, NEW from \in Nat \ {0},
             \E v \in from..Len(history) : rows[k] = history[v][k]
      PROVE  \E v \in from..Len(history') : rows'[k] = history'[v][k]
  <2>1. PICK v \in from..Len(history) : rows[k] = history[v][k]
    BY <1>2
  <2>2. v \in 1..Len(history) /\ v \in from..Len(history')
    BY <1>1, <2>1
  <2>3. rows'[k] = history'[v][k]
    BY <1>1, <2>1, <2>2
  <2> QED
    BY <2>2, <2>3
<1>3. UpperKnown' /\ CheckpointKnown'
  BY <1>1 DEF UpperKnown, CheckpointKnown, NoCheckpoint
<1>4. SeenKnown'
  BY <1>1 DEF SeenKnown, NoCheckpoint
<1>5. NothingLost'
  <2> SUFFICES ASSUME cp.version # 0, kind = "table", NEW k \in Keys
               PROVE  \E v \in cp.pos..Len(history') : rows'[k] = history'[v][k]
    BY <1>1 DEF NothingLost, AsOf
  <2>1. cp.pos \in Nat \ {0}
    BY <1>1 DEF CheckpointKnown
  <2> QED
    BY <1>2, <2>1 DEF NothingLost, AsOf
<1>6. Pending'
  <2> SUFFICES ASSUME NEW q \in Runs, MayCommit(q), NEW k \in Keys
               PROVE  \E v \in up[q]..Len(history') : rows'[k] = history'[v][k]
    BY <1>1 DEF Pending, MayCommit, AsOf
  <2>1. up[q] \in Nat \ {0}
    BY <1>1 DEF MayCommit, Mutated, Windowed, UpperKnown
  <2> QED
    BY <1>2, <2>1 DEF Pending, AsOf
<1> QED
  BY <1>3, <1>4, <1>5, <1>6 DEF LostCore

LEMMA LostInvInit == Init => LostInv
<1> SUFFICES ASSUME Init PROVE LostInv
  OBVIOUS
<1> USE LeaseAssumption, ProjectionAssumption
<1>1. PICK c \in Contents : history = <<c>>
  BY DEF Init
<1>2. history \in Seq(Contents) /\ Len(history) = 1 /\ history[1] = c
  BY <1>1
<1>3. cp \in Checkpoints /\ kind \in {"none", "table", "view"}
  BY DEF Init, Checkpoints, NoCheckpoint
<1>4. NoCheckpoint \in Checkpoints
  BY DEF NoCheckpoint, Checkpoints
<1>5. TypeOK
  <2>1. LeaseTypeOK
    BY DEF Init, LeaseInit, LeaseTypeOK
  <2>2. rows \in Contents /\ Len(history) \in 1..MaxHistory
    BY <1>2 DEF Init
  <2>3. job \in [Runs -> Started] /\ pc \in [Runs -> Pcs]
    BY DEF Init, Pcs
  <2>4. seen \in [Runs -> Checkpoints] /\ up \in [Runs -> 0..MaxHistory]
    BY <1>4 DEF Init
  <2>5. event \in [Runs -> {"none", "STARTED", "FAILED", "COMPLETED"}]
    BY DEF Init
  <2>6. \A r \in Runs : pc[r] \notin TransitionPcs
    BY DEF Init, TransitionPcs
  <2> QED
    BY <1>2, <1>3, <2>1, <2>2, <2>3, <2>4, <2>5, <2>6 DEF TypeOK
<1>6. UpperKnown /\ LeaseHeld /\ SeenKnown /\ Pending
  BY DEF Init, UpperKnown, LeaseHeld, SeenKnown, Pending, MayCommit, Windowed, Locked, Mutated
<1>7. CheckpointKnown
  BY <1>2 DEF Init, CheckpointKnown, NoCheckpoint
<1>8. NothingLost
  BY <1>2 DEF Init, NothingLost, AsOf, NoCheckpoint
<1> QED
  BY <1>5, <1>6, <1>7, <1>8 DEF LostInv, TypeInv

LEMMA LostInvStep == LostInv /\ [Next]_vars => LostInv'
<1> SUFFICES ASSUME LostInv, [Next]_vars PROVE LostInv'
  OBVIOUS
<1>1. TypeOK' /\ LeaseHeld'
  BY TypeOKStep, LeaseStep DEF LostInv, TypeInv
<1>2. LostCore'
  BY StepKinds, QuietStep, ResolveWindowStep, MutateStep, CommitCheckpointStep,
     CompleteTransitionStep, CommitHistoryStep DEF LostInv, TypeInv
<1> QED
  BY <1>1, <1>2 DEF LostInv, LostCore, TypeInv

(***************************************************************************)
(* The strengthened invariant holds in every reachable state.              *)
(***************************************************************************)
THEOREM InductiveInvariant == Spec => []LostInv
<1>1. Init => LostInv
  BY LostInvInit
<1>2. LostInv /\ [Next]_vars => LostInv'
  BY LostInvStep
<1> QED
  BY <1>1, <1>2, PTL DEF Spec

(***************************************************************************)
(* The state is well typed, and no execution reaches the steps of the      *)
(* transition coordinator.                                                 *)
(***************************************************************************)
THEOREM TypeCorrect == Spec => []TypeOK
<1>1. LostInv => TypeOK
  BY DEF LostInv, TypeInv
<1> QED
  BY <1>1, InductiveInvariant, PTL

(***************************************************************************)
(* Of any number of runs at most one is between acquiring and releasing    *)
(* the dataset lease (acquire_dataset_lease).                              *)
(***************************************************************************)
THEOREM MutualExclusion == Spec => []OneMutator
<1>1. LostInv => OneMutator
  BY DEF LostInv, LeaseHeld, OneMutator
<1> QED
  BY <1>1, InductiveInvariant, PTL

(***************************************************************************)
(* No committed change of the history is lost by the projection, whatever  *)
(* crashes, failures, requested uppers and transitions do                  *)
(* (_load_affected_keys, commit_cdc_checkpoint).                           *)
(***************************************************************************)
THEOREM NoChangeLost == Spec => []NothingLost
<1>1. LostInv => NothingLost
  BY DEF LostInv
<1> QED
  BY <1>1, InductiveInvariant, PTL

(***************************************************************************)
(* A checkpoint comes into being by a rebuild only, also when a transition *)
(* resets it under a running incremental execution.                        *)
(***************************************************************************)
THEOREM NoSilentBootstrap == Spec => BootstrapIsRebuild
<1>1. ASSUME LostInv, LostInv', [Next]_vars
      PROVE  [cp.version = 0 /\ cp'.version # 0 => job[cp'.by] # "incremental"]_vars
  <2> SUFFICES ASSUME cp.version = 0, cp'.version # 0
               PROVE  job[cp'.by] # "incremental"
    OBVIOUS
  <2> USE <1>1
  <2>1. ~Quiet /\ ~CommitHistory
    BY DEF Quiet, CommitHistory
  <2>2. ASSUME NEW r \in Runs, ResolveWindow(r) \/ Mutate(r) PROVE FALSE
    BY <2>2, MutateEffect DEF ResolveWindow
  <2>3. ASSUME NEW r \in Runs, CompleteTransition(r) PROVE FALSE
    BY <2>1, <2>3, CompleteEffect DEF LostInv, TypeInv, NoCheckpoint
  <2>4. PICK r \in Runs : CommitCheckpoint(r)
    BY <2>1, <2>2, <2>3, StepKinds DEF LostInv, TypeInv
  <2>5. pc[r] = "commit" /\ cp.version = seen[r].version /\ cp'.by = r
    BY <2>1, <2>4, CommitEffect
  <2>6. job[r] = "incremental" => seen[r].version # 0
    BY <2>5 DEF LostInv, SeenKnown, Windowed
  <2> QED
    BY <2>5, <2>6
<1> QED
  BY <1>1, InductiveInvariant, PTL DEF Spec, BootstrapIsRebuild

-----------------------------------------------------------------------------
(***************************************************************************)
(* Runs that freeze the latest version publish exact versions.             *)
(***************************************************************************)
LEMMA ExactStep ==
    ASSUME RequestUpper = FALSE, ExactInv, [Next]_vars
    PROVE  (WindowExact /\ MutatedExact)'
<1> USE DEF ExactInv
<1>t. TypeOK
  BY DEF LostInv, TypeInv
<1>1. CASE Quiet
  <2>1. WindowExact'
    BY <1>1 DEF Quiet, WindowExact, AsOf, Windowed
  <2>2. \A q \in Runs : MayCommit(q)' => MayCommit(q)
    BY <1>1 DEF Quiet, MayCommit, Mutated, Windowed
  <2>3. MutatedExact'
    BY <1>1, <2>2 DEF Quiet, MutatedExact
  <2> QED
    BY <2>1, <2>3
<1>2. CASE CommitHistory
  <2>1. /\ UNCHANGED <<kind, rows, cp, job, pc, seen, up>>
        /\ Len(history) \in Nat /\ Len(history') = Len(history) + 1
        /\ \A v \in 1..Len(history) : history'[v] = history[v]
    BY <1>t, <1>2, HistoryGrows
  <2>2. WindowExact'
    <3> SUFFICES ASSUME NEW r \in Runs, pc[r] = "mutate", kind = "table", cp = seen[r],
                        cp.version # 0, NEW k \in Keys
                 PROVE  \E v \in seen[r].pos..up[r] : rows[k] = history'[v][k]
      BY <2>1 DEF WindowExact, AsOf
    <3>1. up[r] \in 1..Len(history) /\ cp.pos \in 1..Len(history)
      BY DEF LostInv, TypeInv, UpperKnown, CheckpointKnown, Windowed
    <3>2. PICK v \in seen[r].pos..up[r] : rows[k] = history[v][k]
      BY DEF WindowExact, AsOf
    <3>3. v \in 1..Len(history)
      BY <2>1, <3>1, <3>2
    <3> QED
      BY <2>1, <3>2, <3>3
  <2>3. MutatedExact'
    BY <2>1 DEF MutatedExact, MayCommit, LostInv, TypeInv, UpperKnown, Mutated, Windowed
  <2> QED
    BY <2>2, <2>3
<1>3. ASSUME NEW r \in Runs, ResolveWindow(r) PROVE (WindowExact /\ MutatedExact)'
  <2>0. pc \in [Runs -> Pcs] /\ seen \in [Runs -> Checkpoints] /\ up \in [Runs -> 0..MaxHistory]
    BY <1>t DEF TypeOK
  <2>1. seen' = [seen EXCEPT ![r] = cp] /\ up' = [up EXCEPT ![r] = Len(history)]
    BY <1>3 DEF ResolveWindow, Uppers
  <2>2. PICK label \in {"raise", "succeed", "mutate"} : Goto(r, label)
    BY <1>3, Zenon DEF ResolveWindow
  <2>3. UNCHANGED <<history, kind, rows, cp, job>>
    BY <1>3 DEF ResolveWindow, dataVars
  <2>4. \A q \in Runs : q # r => pc'[q] \notin Windowed
    BY <1>3, <2>0, <2>2, OneWindow DEF LostInv, ResolveWindow, Goto, Locked
  <2>5. seen'[r] = cp /\ up'[r] = Len(history) /\ pc'[r] = label
    BY <2>0, <2>1, <2>2 DEF Goto
  <2>6. WindowExact'
    BY <2>3, <2>4, <2>5 DEF WindowExact, AsOf, LostInv, NothingLost, Windowed
  <2>7. MutatedExact'
    BY <2>4, <2>5 DEF MutatedExact, MayCommit, Mutated, Windowed
  <2> QED
    BY <2>6, <2>7
<1>4. ASSUME NEW r \in Runs, Mutate(r) PROVE (WindowExact /\ MutatedExact)'
  <2>0. LostInv
    OBVIOUS
  <2>1. /\ pc[r] = "mutate" /\ UNCHANGED <<history, cp, job, seen, up>>
        /\ pc'[r] \in Mutated \cup {"raise"}
        /\ \A q \in Runs : q # r => pc'[q] \notin Windowed
    BY <1>4, <2>0, MutateEffect
  <2>2. WindowExact'
    BY <2>1 DEF WindowExact, Windowed, Mutated
  <2>3. MutatedExact'
    <3> SUFFICES ASSUME kind' = "table", job[r] = "incremental" => cp = seen[r]
                 PROVE  rows' = history[up[r]]
      BY <2>1 DEF MutatedExact, MayCommit, Mutated, Windowed
    <3>1. up[r] \in 1..Len(history) /\ (job[r] = "incremental" => seen[r].version # 0)
      BY <2>1 DEF LostInv, TypeInv, UpperKnown, SeenKnown, Windowed
    <3>2. \A k \in Keys : rows'[k] = history[up[r]][k]
      <4> SUFFICES ASSUME NEW k \in Keys, k \notin Scope(r)
                   PROVE  rows'[k] = history[up[r]][k]
        BY <1>4, <2>0, MutateEffect
      <4>1. rows'[k] = rows[k] /\ kind = "table" /\ job[r] = "incremental"
        BY <1>4, <2>0, MutateEffect DEF Scope
      <4>2. PICK v \in seen[r].pos..up[r] : rows[k] = history[v][k]
        BY <2>1, <3>1, <4>1 DEF WindowExact, AsOf
      <4> QED
        BY <4>1, <4>2 DEF Scope, Affected
    <3>3. history[up[r]] \in Contents
      BY <1>t, <3>1 DEF TypeOK
    <3>4. rows' \in Contents
      BY <2>0, TypeOKStep DEF LostInv, TypeOK
    <3> QED
      BY <3>2, <3>3, <3>4 DEF Contents
  <2> QED
    BY <2>2, <2>3
<1>5. ASSUME NEW r \in Runs, CommitCheckpoint(r), ~Quiet PROVE (WindowExact /\ MutatedExact)'
  <2>1. \A q \in Runs : pc'[q] \notin Windowed
    BY <1>5, CommitEffect
  <2> QED
    BY <2>1 DEF WindowExact, MutatedExact, MayCommit, Windowed, Mutated
<1>6. ASSUME NEW r \in Runs, CompleteTransition(r), ~Quiet PROVE (WindowExact /\ MutatedExact)'
  <2>1. /\ cp' = NoCheckpoint
        /\ UNCHANGED <<history, kind, rows, job, seen, up>>
        /\ \A q \in Runs : pc'[q] \in Windowed => pc'[q] = pc[q]
    BY <1>t, <1>6, CompleteEffect
  <2>2. cp'.version = 0
    BY <2>1 DEF NoCheckpoint
  <2>3. WindowExact'
    BY <2>2 DEF WindowExact
  <2>4. \A q \in Runs : MayCommit(q)' => MayCommit(q)
    BY <2>1, <2>2 DEF MayCommit, Mutated, Windowed, LostInv, SeenKnown
  <2>5. MutatedExact'
    BY <2>1, <2>4 DEF MutatedExact
  <2> QED
    BY <2>3, <2>5
<1> QED
  BY <1>t, <1>1, <1>2, <1>3, <1>4, <1>5, <1>6, StepKinds

(***************************************************************************)
(* When every run freezes the latest history version (no caller in the     *)
(* repository requests another one), each checkpoint commit publishes the  *)
(* authoritative version on every key (_reconcile_and_commit).             *)
(***************************************************************************)
THEOREM ExactPublication ==
    ASSUME RequestUpper = FALSE
    PROVE  Spec => CommitsExactVersion
<1>1. Init => ExactInv
  <2> SUFFICES ASSUME Init PROVE ExactInv
    OBVIOUS
  <2>1. \A r \in Runs : pc[r] = "start"
    BY DEF Init
  <2>2. WindowExact /\ MutatedExact
    BY <2>1 DEF WindowExact, MutatedExact, MayCommit, Mutated
  <2> QED
    BY <2>2, LostInvInit DEF ExactInv
<1>2. ExactInv /\ [Next]_vars => ExactInv'
  BY ExactStep, LostInvStep DEF ExactInv
<1>3. ASSUME ExactInv, [Next]_vars
      PROVE  [cp'.version > cp.version /\ kind = "table" => rows = history[cp'.pos]]_vars
  <2> SUFFICES ASSUME cp'.version > cp.version, kind = "table"
               PROVE  rows = history[cp'.pos]
    OBVIOUS
  <2> USE <1>3 DEF ExactInv
  <2>0. cp.version \in Nat
    BY DEF LostInv, TypeInv, TypeOK, Checkpoints
  <2>1. ~Quiet /\ ~CommitHistory
    BY <2>0 DEF Quiet, CommitHistory
  <2>2. ASSUME NEW r \in Runs, ResolveWindow(r) \/ Mutate(r) PROVE FALSE
    BY <2>0, <2>2, MutateEffect DEF ResolveWindow
  <2>3. ASSUME NEW r \in Runs, CompleteTransition(r) PROVE FALSE
    BY <2>0, <2>1, <2>3, CompleteEffect DEF LostInv, TypeInv, NoCheckpoint
  <2>4. PICK r \in Runs : CommitCheckpoint(r)
    BY <2>1, <2>2, <2>3, StepKinds DEF LostInv, TypeInv
  <2>5. pc[r] = "commit" /\ cp.version = seen[r].version /\ cp'.pos = up[r]
    BY <2>1, <2>4, CommitEffect
  <2> QED
    BY <2>5, CommitterMayCommit DEF MutatedExact
<1> QED
  BY <1>1, <1>2, <1>3, PTL DEF Spec, CommitsExactVersion

=============================================================================
