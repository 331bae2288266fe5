--------------------------- MODULE CdcStreamProofs ---------------------------
(***************************************************************************)
(* What the committed CDC checkpoint guarantees for every stream, provider *)
(* and apply strategy, and for any number of partitions, items and faults. *)
(***************************************************************************)
EXTENDS CdcStream, TLAPS

-----------------------------------------------------------------------------
(* The inductive invariant. *)

\* The values progress is computed from.
ProgressShapes ==
    /\ setup \in Setups
    /\ pc \in {"idle", "planned", "normalized", "applied", "reconciled", "checkpointed"}
    /\ applied \in [DOMAIN log -> Int]
    /\ gate \in [target_committed : BOOLEAN, reconciliation_passed : BOOLEAN]

\* A planned window ends at an offset of every partition it names, and a Delta
\* window names the table's one partition.
WindowIsPlanned ==
    pc # "idle" =>
        /\ DOMAIN window.upper \subseteq DOMAIN log
        /\ \A p \in DOMAIN window.upper : window.upper[p] \in Nat
        /\ Delta => 0 \in DOMAIN window.upper

\* The batch's upper checkpoint is the window's: what is committed later is what
\* was planned, not what the provider has delivered or committed meanwhile.
BatchEndsTheWindow ==
    pc \in {"normalized", "applied", "reconciled", "checkpointed"} =>
        \A p \in DOMAIN batch.upper :
            p \in DOMAIN window.upper /\ batch.upper[p][1] = window.upper[p]

\* The gate says that the target is committed only when the whole window is in it.
GateIsTrue ==
    gate.target_committed =>
        /\ pc \in {"applied", "reconciled", "checkpointed"}
        /\ \A p \in DOMAIN window.upper : window.upper[p] <= applied[p]

CheckpointIsPlaced ==
    /\ \A p \in DOMAIN checkpoint : p \in DOMAIN log /\ checkpoint[p][1] \in Nat
    /\ CheckpointFollowsTarget

StreamInv ==
    ProgressShapes /\ WindowIsPlanned /\ BatchEndsTheWindow /\ GateIsTrue /\ CheckpointIsPlaced

-----------------------------------------------------------------------------
(* The operators. *)

\* Whatever normalization says of the records, its upper checkpoint is the one it
\* was given.
LEMMA NormalizedUpper ==
    ASSUME NEW records, NEW lower, NEW upper, NEW complete, NEW policy
    PROVE  /\ NormalizeDebezium(records, lower, upper, complete, policy).upper
                  = DebeziumCheckpoint(upper)
           /\ NormalizeDelta(records, lower, upper, complete).upper = DeltaCheckpoint(upper)
<1>1. ASSUME NEW E, NEW u PROVE NormalizeCdcBatch(E, lower, u, complete).upper = u
    BY DEF NormalizeCdcBatch
<1> QED
    BY <1>1 DEF NormalizeDebezium, NormalizeDelta

-----------------------------------------------------------------------------
(* The steps. *)

\* A run that ends, refused, crashed or done, leaves nothing to be committed.
LEMMA EndsPreserves ==
    ASSUME StreamInv, pc' = "idle", gate' = NoGate, UNCHANGED <<setup, checkpoint, applied>>
    PROVE  StreamInv'
BY DEF StreamInv, ProgressShapes, WindowIsPlanned, BatchEndsTheWindow, GateIsTrue,
       CheckpointIsPlaced, CheckpointFollowsTarget, NoGate, log, Delta

\* A step that touches neither the run nor its progress.
LEMMA OutsidePreserves ==
    ASSUME StreamInv, UNCHANGED <<setup, checkpoint, applied, run>>
    PROVE  StreamInv'
BY DEF StreamInv, ProgressShapes, WindowIsPlanned, BatchEndsTheWindow, GateIsTrue,
       CheckpointIsPlaced, CheckpointFollowsTarget, log, Delta, run

\* A window is planned over visible partitions.
LEMMA PlansPreserves ==
    ASSUME StreamInv, pc = "idle", pc' = "planned", UNCHANGED <<setup, checkpoint, applied, gate>>,
           DOMAIN window'.upper \subseteq DOMAIN log,
           \A p \in DOMAIN window'.upper : window'.upper[p] \in Nat,
           Delta => 0 \in DOMAIN window'.upper
    PROVE  StreamInv'
BY DEF StreamInv, ProgressShapes, WindowIsPlanned, BatchEndsTheWindow, GateIsTrue,
       CheckpointIsPlaced, CheckpointFollowsTarget, log, Delta

\* An offset of the log is a natural number, however long the log is.
LEMMA OffsetFacts == Offsets \subseteq Nat
<1> SUFFICES ASSUME NEW o \in Offsets PROVE o \in Nat
    OBVIOUS
<1>1. PICK p \in DOMAIN log : o \in 0..(Len(log[p]) - 1)
    BY DEF Offsets
<1> QED
    BY <1>1

\* What an operator may request as the upper offsets of a window.
LEMMA UpperFacts ==
    ASSUME NEW upper \in Uppers
    PROVE  DOMAIN upper = Visible /\ Visible \subseteq DOMAIN log
           /\ \A p \in DOMAIN upper : upper[p] \in Nat
<1>1. upper \in [Visible -> Offsets]
    BY DEF Uppers
<1> QED
    BY <1>1, OffsetFacts DEF Visible

\* plan_debezium_kafka_resume.
LEMMA PlanDebeziumPreserves ==
    ASSUME StreamInv, NEW upper \in Uppers, NEW allow_new \in BOOLEAN,
           PlanDebezium(upper, allow_new)
    PROVE  StreamInv'
<1>1. UNCHANGED <<setup, checkpoint, applied>> /\ pc = "idle" /\ ~Delta
    BY DEF PlanDebezium
<1> DEFINE plan == PlanDebeziumResume(checkpoint, Earliest, Latest, upper, allow_new)
<1>2. plan.upper = upper
    BY DEF PlanDebeziumResume
<1> HIDE DEF plan
<1>3. \/ pc' = "idle" /\ gate' = NoGate
      \/ /\ pc' = "planned" /\ UNCHANGED gate
         /\ window' = [start |-> plan.start, upper |-> plan.upper,
                       lower |-> checkpoint, version |-> version,
                       seek |-> SeekPartitions(group, plan.start)]
    BY Zenon DEF plan, PlanDebezium, Refuse
<1> QED
    BY <1>1, <1>2, <1>3, EndsPreserves, PlansPreserves, UpperFacts

\* plan_delta_cdf_resume.
LEMMA PlanDeltaPreserves ==
    ASSUME StreamInv, NEW upper \in Offsets, PlanDelta(upper)
    PROVE  StreamInv'
<1>1. UNCHANGED <<setup, checkpoint, applied>> /\ pc = "idle" /\ DOMAIN log = {0}
    BY SetupsAssumption DEF PlanDelta, Delta, log, StreamInv, ProgressShapes
<1> DEFINE lower == IF checkpoint = NoCheckpoint THEN -1 ELSE checkpoint[0][1]
           plan == PlanDeltaResume(lower, earliest[0], avail[0] - 1, upper)
<1>2. plan.upper = [p \in {0} |-> upper]
    BY DEF PlanDeltaResume
<1> HIDE DEF plan
<1>3. \/ pc' = "idle" /\ gate' = NoGate
      \/ /\ pc' = "planned" /\ UNCHANGED gate
         /\ window' = [start |-> plan.start, upper |-> plan.upper,
                       lower |-> checkpoint, version |-> version,
                       seek |-> DOMAIN plan.start]
    BY Zenon DEF plan, PlanDelta, Refuse
<1> QED
    BY <1>1, <1>2, <1>3, EndsPreserves, PlansPreserves, OffsetFacts

\* The first window after a snapshot, which names the snapshot's partitions.
LEMMA PlanBootstrapPreserves ==
    ASSUME StreamInv, NEW upper \in Uppers, PlanBootstrap(upper)
    PROVE  StreamInv'
<1>1. UNCHANGED <<setup, checkpoint, applied>> /\ pc = "idle"
    BY DEF PlanBootstrap
<1>2. CASE BootstrapWindowRefusal(setup.boot.evidence, upper) # ""
    BY <1>1, <1>2, EndsPreserves DEF PlanBootstrap, Refuse
<1>3. CASE BootstrapWindowRefusal(setup.boot.evidence, upper) = ""
    <2>1. /\ pc' = "planned" /\ UNCHANGED gate
          /\ window' = [start |-> Earliest, upper |-> upper,
                        lower |-> setup.boot.evidence.snapshot, version |-> version,
                        seek |-> DOMAIN upper]
        BY <1>3, Zenon DEF PlanBootstrap
    <2>2. DOMAIN upper # {}
        BY <1>3 DEF BootstrapWindowRefusal, BootstrapRefusal
    <2>3. Delta => DOMAIN upper \subseteq {0}
        BY UpperFacts, SetupsAssumption DEF Delta, log, StreamInv, ProgressShapes
    <2> QED
        BY <1>1, <2>1, <2>2, <2>3, UpperFacts, PlansPreserves
<1> QED
    BY <1>2, <1>3

\* The records are read and normalized.
LEMMA ReadAndNormalizePreserves ==
    ASSUME StreamInv, NEW overlap \in BOOLEAN, NEW autocommit \in BOOLEAN,
           NEW to_end \in BOOLEAN, ReadAndNormalize(overlap, to_end, autocommit)
    PROVE  StreamInv'
<1>1. UNCHANGED <<setup, checkpoint, applied>> /\ pc = "planned"
    BY DEF ReadAndNormalize
<1>2. \/ pc' = "idle" /\ gate' = NoGate
      \/ /\ pc' = "normalized" /\ UNCHANGED <<window, gate>>
         /\ batch'.upper = IF Delta THEN DeltaCheckpoint(window.upper[0])
                           ELSE DebeziumCheckpoint(window.upper)
    <2>1. \/ pc' = "idle" /\ gate' = NoGate
          \/ /\ pc' = "normalized" /\ UNCHANGED <<window, gate>>
             /\ \E records, complete :
                    batch' = IF Delta
                             THEN NormalizeDelta(records, window.lower, window.upper[0], complete)
                             ELSE NormalizeDebezium(records, window.lower, window.upper,
                                                    complete, setup.policy)
        BY Zenon DEF ReadAndNormalize, Refuse
    <2> QED
        BY <2>1, NormalizedUpper
<1>3. CASE pc' = "normalized" /\ UNCHANGED <<window, gate>>
           /\ batch'.upper = IF Delta THEN DeltaCheckpoint(window.upper[0])
                             ELSE DebeziumCheckpoint(window.upper)
    <2>1. \A p \in DOMAIN batch'.upper :
              p \in DOMAIN window.upper /\ batch'.upper[p][1] = window.upper[p]
        BY <1>1, <1>3 DEF DeltaCheckpoint, DebeziumCheckpoint, StreamInv, WindowIsPlanned
    <2> QED
        BY <1>1, <1>3, <2>1 DEF StreamInv, ProgressShapes, WindowIsPlanned, BatchEndsTheWindow,
           GateIsTrue, CheckpointIsPlaced, CheckpointFollowsTarget, log, Delta
<1> QED
    BY <1>1, <1>2, <1>3, EndsPreserves

\* The batch reaches the target as a whole, or not at all.
LEMMA ApplyBatchPreserves ==
    ASSUME StreamInv, ApplyBatch
    PROVE  StreamInv'
<1>1. UNCHANGED <<setup, checkpoint>> /\ pc = "normalized"
    BY DEF ApplyBatch
<1>2. \/ pc' = "idle" /\ gate' = NoGate /\ UNCHANGED applied
      \/ /\ pc' = "applied" /\ UNCHANGED <<window, batch>>
         /\ gate' = [gate EXCEPT !.target_committed = TRUE]
         /\ applied' = [p \in DOMAIN applied |->
                          IF p \in DOMAIN window.upper
                          THEN Bigger(applied[p], window.upper[p]) ELSE applied[p]]
    BY DEF ApplyBatch, Refuse
<1>3. CASE /\ pc' = "applied" /\ UNCHANGED <<window, batch>>
           /\ gate' = [gate EXCEPT !.target_committed = TRUE]
           /\ applied' = [p \in DOMAIN applied |->
                            IF p \in DOMAIN window.upper
                            THEN Bigger(applied[p], window.upper[p]) ELSE applied[p]]
    <2>1. /\ applied' \in [DOMAIN log -> Int]
          /\ \A p \in DOMAIN log : applied[p] <= applied'[p]
          /\ \A p \in DOMAIN window.upper : window.upper[p] <= applied'[p]
        BY <1>1, <1>3 DEF StreamInv, ProgressShapes, WindowIsPlanned, Bigger
    <2>2. ProgressShapes' /\ WindowIsPlanned' /\ BatchEndsTheWindow' /\ GateIsTrue'
        BY <1>1, <1>3, <2>1 DEF StreamInv, ProgressShapes, WindowIsPlanned, BatchEndsTheWindow,
           GateIsTrue, log, Delta
    <2>3. CheckpointIsPlaced'
        BY <1>1, <2>1 DEF StreamInv, ProgressShapes, CheckpointIsPlaced, CheckpointFollowsTarget,
           log
    <2> QED
        BY <2>2, <2>3 DEF StreamInv
<1> QED
    BY <1>1, <1>2, <1>3, EndsPreserves

\* The target transaction failed, or the reconciliation gave its verdict.
LEMMA GateStepPreserves ==
    ASSUME StreamInv, TargetWriteFails \/ \E passed \in BOOLEAN : Reconcile(passed)
    PROVE  StreamInv'
<1>1. CASE TargetWriteFails
    BY <1>1 DEF TargetWriteFails, StreamInv, ProgressShapes, WindowIsPlanned, BatchEndsTheWindow,
       GateIsTrue, CheckpointIsPlaced, CheckpointFollowsTarget, log, Delta
<1>2. ASSUME NEW passed \in BOOLEAN, Reconcile(passed) PROVE StreamInv'
    BY <1>2 DEF Reconcile, StreamInv, ProgressShapes, WindowIsPlanned, BatchEndsTheWindow,
       GateIsTrue, CheckpointIsPlaced, CheckpointFollowsTarget, log, Delta
<1> QED
    BY <1>1, <1>2

\* commit_cdc_checkpoint: behind the gate, or without moving.
LEMMA CommitCheckpointPreserves ==
    ASSUME StreamInv, CommitCheckpoint
    PROVE  StreamInv'
<1>1. UNCHANGED <<setup, applied>> /\ pc = "reconciled"
    BY DEF CommitCheckpoint
<1>2. \/ pc' = "idle" /\ gate' = NoGate /\ UNCHANGED checkpoint
      \/ /\ pc' = "checkpointed" /\ UNCHANGED <<window, batch, gate>>
         /\ checkpoint' = batch.upper /\ TransitionIsValid(checkpoint, batch.upper, gate)
    BY DEF CommitCheckpoint, Refuse
<1>3. CASE /\ pc' = "checkpointed" /\ UNCHANGED <<window, batch, gate>>
           /\ checkpoint' = batch.upper /\ TransitionIsValid(checkpoint, batch.upper, gate)
    <2>1. \A p \in DOMAIN checkpoint' : p \in DOMAIN log /\ checkpoint'[p][1] \in Nat
        BY <1>1, <1>3 DEF StreamInv, BatchEndsTheWindow, WindowIsPlanned
    <2>2. \A p \in DOMAIN checkpoint' : checkpoint'[p][1] <= applied[p]
        <3>1. CASE checkpoint' = checkpoint
            BY <3>1 DEF StreamInv, CheckpointIsPlaced, CheckpointFollowsTarget
        <3>2. CASE checkpoint' # checkpoint
            <4>1. gate.target_committed
                BY <1>3, <3>2 DEF TransitionIsValid
            <4> QED
                BY <1>1, <1>3, <4>1 DEF StreamInv, GateIsTrue, BatchEndsTheWindow
        <3> QED
            BY <3>1, <3>2
    <2> QED
        BY <1>1, <1>3, <2>1, <2>2 DEF StreamInv, ProgressShapes, WindowIsPlanned,
           BatchEndsTheWindow, GateIsTrue, CheckpointIsPlaced, CheckpointFollowsTarget, log, Delta
<1> QED
    BY <1>1, <1>2, <1>3, EndsPreserves

\* A dataset starts at its snapshot, or before its first item.
LEMMA InitEstablishes == Init => StreamInv
<1> SUFFICES ASSUME Init PROVE StreamInv
    OBVIOUS
<1>1. \A p \in DOMAIN log : SnapshotOf(p) \in Int
    <2>1. setup \in Setups
        BY DEF Init
    <2> QED
        BY <2>1, SetupsAssumption DEF SnapshotOf, log
<1>2. DOMAIN checkpoint = {}
    BY DEF Init, NoCheckpoint
<1> QED
    BY <1>1, <1>2 DEF Init, StreamInv, ProgressShapes, WindowIsPlanned, BatchEndsTheWindow,
       GateIsTrue, CheckpointIsPlaced, CheckpointFollowsTarget, NoGate

\* Every step of the provider and of a run keeps the invariant.
LEMMA NextPreserves == StreamInv /\ [Next]_vars => StreamInv'
<1> SUFFICES ASSUME StreamInv, [Next]_vars PROVE StreamInv'
    OBVIOUS
<1>1. ASSUME NEW p \in DOMAIN log, Produce(p) \/ Expire(p) \/ LoseCursor(p) PROVE StreamInv'
    BY <1>1, OutsidePreserves DEF Produce, Expire, LoseCursor
<1>2. CASE CommitGroupOffsets \/ Crash
    BY <1>2, EndsPreserves DEF CommitGroupOffsets, Crash
<1>3. CASE UNCHANGED vars
    BY <1>3, OutsidePreserves DEF vars, run
<1> QED
    BY <1>1, <1>2, <1>3, PlanDebeziumPreserves, PlanDeltaPreserves, PlanBootstrapPreserves,
       ReadAndNormalizePreserves, ApplyBatchPreserves, GateStepPreserves,
       CommitCheckpointPreserves DEF Next

(***************************************************************************)
(* The invariant of a CDC run: what is committed as progress is the        *)
(* planned window, and the gate stands for the whole window in the target. *)
(***************************************************************************)
THEOREM StreamInvariant == Spec => []StreamInv
BY InitEstablishes, NextPreserves, PTL DEF Spec

(***************************************************************************)
(* commit_cdc_checkpoint: whatever crashes, expires, is delivered twice or *)
(* is read through a moved cursor, the checkpoint never passes what        *)
(* reached the target, loses no partition and never regresses.             *)
(***************************************************************************)
THEOREM CdcCheckpointIsSound == Spec => CheckpointIsSound
<1>1. ASSUME StreamInv', [Next]_vars
      PROVE  [/\ CheckpointFollowsTarget'
              /\ \A p \in DOMAIN checkpoint :
                    p \in DOMAIN checkpoint' /\ AtOrBefore(checkpoint[p], checkpoint'[p])]_vars
    <2>1. CheckpointFollowsTarget'
        BY <1>1 DEF StreamInv, CheckpointIsPlaced
    <2>2. UNCHANGED checkpoint \/ TransitionIsValid(checkpoint, checkpoint', gate)
        <3>1. ASSUME NEW overlap, NEW to_end, NEW autocommit,
                     ReadAndNormalize(overlap, to_end, autocommit)
              PROVE  UNCHANGED checkpoint
            BY <3>1 DEF ReadAndNormalize
        <3>2. ASSUME NEW upper, NEW allow_new,
                     PlanDebezium(upper, allow_new) \/ PlanDelta(upper) \/ PlanBootstrap(upper)
              PROVE  UNCHANGED checkpoint
            BY <3>2 DEF PlanDebezium, PlanDelta, PlanBootstrap
        <3> QED
            BY <1>1, <3>1, <3>2 DEF Next, vars, Produce, Expire, LoseCursor, ApplyBatch,
               TargetWriteFails, Reconcile, CommitCheckpoint, CommitGroupOffsets, Crash
    <2>3. \A p \in DOMAIN checkpoint :
              p \in DOMAIN checkpoint' /\ AtOrBefore(checkpoint[p], checkpoint'[p])
        BY <2>2 DEF TransitionIsValid, AtOrBefore
    <2> QED
        BY <2>1, <2>3
<1> QED
    BY <1>1, StreamInvariant, PTL DEF Spec, CheckpointIsSound
=============================================================================
