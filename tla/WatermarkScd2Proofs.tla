------------------------- MODULE WatermarkScd2Proofs -------------------------
(***************************************************************************)
(* What execute_watermark_scd2 guarantees for every number of runs,        *)
(* overlapping or not, rows and configurations.                            *)
(***************************************************************************)
EXTENDS WatermarkScd2, FiniteSetTheorems, WellFoundedInduction, TLAPS

-----------------------------------------------------------------------------
(* Positions. *)

\* A bounded set of naturals has a greatest element.
LEMMA GreatestNat ==
    ASSUME NEW N \in Nat, NEW T \in SUBSET (0 .. N), T # {}
    PROVE  \E m \in T : \A k \in T : k <= m
<1> DEFINE U == {N - t : t \in T}
           R == {ss \in Nat \X Nat : ss[1] < ss[2]}
<1>1. U \in SUBSET Nat /\ U # {}
    <2>1. \A t \in T : N - t \in Nat
        OBVIOUS
    <2>2. U \in SUBSET Nat
        BY <2>1
    <2>3. PICK t \in T : TRUE
        OBVIOUS
    <2>4. N - t \in U
        OBVIOUS
    <2> QED
        BY <2>2, <2>4
<1>2. PICK u \in U : \A v \in U : ~ (<<v, u>> \in R)
    <2>1. IsWellFoundedOn(R, Nat)
        BY NatLessThanWellFounded, Zenon DEF OpToRel
    <2> HIDE DEF U, R
    <2> QED
        BY <1>1, <2>1, WFMin
<1>3. \A v \in U : u <= v
    <2> SUFFICES ASSUME NEW v \in U PROVE u <= v
        OBVIOUS
    <2>1. v \in Nat /\ u \in Nat
        BY <1>1
    <2>2. ~(v < u)
        BY <1>2, <2>1
    <2> QED
        BY <2>1, <2>2
<1>4. PICK m \in T : u = N - m
    BY <1>1
<1>5. \A k \in T : k <= m
    <2> SUFFICES ASSUME NEW k \in T PROVE k <= m
        OBVIOUS
    <2>1. u <= N - k
        BY <1>3
    <2> QED
        BY <2>1, <1>4
<1> QED
    BY <1>5

\* Two positions are comparable: value first, then tie-breaker.
LEMMA PositionsTotal ==
    ASSUME NEW p \in Positions, NEW q \in Positions
    PROVE  p = q \/ Precedes(p, q) \/ Precedes(q, p)
BY DEF Positions, Precedes

\* Not preceding is transitive.
LEMMA PositionsTransitive ==
    ASSUME NEW p \in Positions, NEW q \in Positions, NEW s \in Positions,
           ~Precedes(p, q), ~Precedes(q, s)
    PROVE  ~Precedes(p, s)
BY DEF Positions, Precedes

\* A bounded set of positions has a last one.
LEMMA LastPosition ==
    ASSUME NEW N \in Nat, NEW M \in Nat, NEW T \in SUBSET Positions, T # {},
           \A p \in T : p.value <= N /\ p.tie <= M
    PROVE  \E p \in T : \A q \in T : ~Precedes(p, q)
<1> DEFINE V == {p.value : p \in T}
<1>1. V \in SUBSET (0 .. N) /\ V # {}
    BY DEF Positions
<1>2. PICK v \in V : \A w \in V : w <= v
    BY <1>1, GreatestNat
<1> DEFINE W == {p \in T : p.value = v}
           Ties == {p.tie : p \in W}
<1>3. Ties \in SUBSET (0 .. M) /\ Ties # {}
    BY DEF Positions
<1>4. PICK t \in Ties : \A u \in Ties : u <= t
    BY <1>3, GreatestNat
<1>5. PICK p \in W : p.tie = t
    OBVIOUS
<1>6. ASSUME NEW q \in T PROVE ~Precedes(p, q)
    <2>1. q.value <= p.value
        BY <1>2
    <2>2. q.value = p.value => q.tie <= p.tie
        BY <1>4, <1>5
    <2>3. q \in Positions /\ p \in Positions
        OBVIOUS
    <2> QED
        BY <2>1, <2>2, <2>3 DEF Precedes, Positions
<1> QED
    BY <1>6

\* The positions of rows.
LEMMA PositionType ==
    ASSUME NEW row \in SourceRows
    PROVE  /\ PositionOf(row) \in Positions
           /\ PositionOf(row).value = row.value /\ PositionOf(row).tie = row.tie
           /\ row.value \in 1 .. MaxValue /\ row.tie \in 1 .. MaxRows
BY DEF SourceRows, PositionOf, Positions

\* plan_watermark_batch returns the position before or that of a selected row.
LEMMA AfterIsKnown ==
    ASSUME NEW rows \in SUBSET SourceRows, NEW before \in Positions, NEW overlap
    PROVE  /\ After(rows, before, overlap) \in Positions
           /\ \/ After(rows, before, overlap) = before
              \/ \E row \in Selected(rows, before, overlap) :
                    After(rows, before, overlap) = PositionOf(row)
<1> DEFINE T == {before} \cup {PositionOf(row) : row \in Selected(rows, before, overlap)}
           N == MaxValue + before.value
           M == MaxRows + before.tie
<1>1. Selected(rows, before, overlap) \in SUBSET SourceRows
    BY DEF Selected
<1>2. /\ MaxValue \in Nat /\ MaxRows \in Nat
      /\ before.value \in Nat /\ before.tie \in Nat
    BY WatermarkScd2Assumption DEF Positions
<1>3. T \in SUBSET Positions /\ T # {}
    BY <1>1, PositionType
<1>4. N \in Nat /\ M \in Nat
    BY <1>2
<1>5. ASSUME NEW p \in T PROVE p.value <= N /\ p.tie <= M
    <2>1. CASE p = before
        BY <2>1, <1>2
    <2>2. CASE \E row \in Selected(rows, before, overlap) : p = PositionOf(row)
        BY <2>2, <1>1, <1>2, PositionType
    <2> QED
        BY <2>1, <2>2
<1>6. PICK p \in T : \A q \in T : ~Precedes(p, q)
    <2> HIDE DEF T, N, M
    <2> QED
        BY <1>3, <1>4, <1>5, LastPosition
<1>7. PositionOf(before) = before
    BY DEF PositionOf, Positions
<1>8. \A row \in Selected(rows, before, overlap) \cup {before} : ~Precedes(p, PositionOf(row))
    BY <1>6, <1>7
<1>9. After(rows, before, overlap) \in T
    BY <1>8 DEF After
<1> QED
    BY <1>9, <1>3

-----------------------------------------------------------------------------
(* The inductive invariant. *)

Types ==
    /\ config \in Configs
    /\ source \in SUBSET SourceRows /\ IsFiniteSet(source)
    /\ watermark \in WatermarkStates
    /\ audit \in [Runs -> {"none", "SUCCEEDED", "FAILED"}]
    /\ run \in [Runs -> RunStates]

FreshTies == \A row \in source : row.tie <= Cardinality(source)

Known(p) == p = NoPosition \/ \E row \in source : p = PositionOf(row)

\* Rows that became visible since the source was read.
SnapshotOK(r) ==
    /\ run[r].snapshot \subseteq source
    /\ \A z \in run[r].snapshot, row \in source \ run[r].snapshot :
        z.value <= row.value + config.overlap /\ z.tie < row.tie

\* What a run read is the watermark, or behind it.
BeforeOK(r) ==
    /\ run[r].before.version <= watermark.version
    /\ run[r].before.version = watermark.version => run[r].before = watermark
    /\ ~Precedes(watermark.position, run[r].before.position)

\* What the batch does not hold is still selectable past its end.
BatchOK(r) ==
    run[r].step \in {"quarantine", "plan", "reconcile", "publish", "commit"} =>
        \A row \in source :
            Selectable(row, run[r].before.position, config.overlap) =>
                row \in run[r].batch \/ Selectable(row, run[r].after, config.overlap)

\* What a run has done before the steps that depend on it.
GateOK(r) ==
    /\ run[r].step \in {"plan", "reconcile", "publish", "commit"} =>
        (config.quality = "quarantine" => Invalid(r) \subseteq quarantine)
    /\ run[r].step \in {"publish", "commit"} => ~HardFailure(r)
    /\ run[r].step = "commit" => run[r].published
    /\ run[r].published => run[r].step \in {"commit", "audit", "raised", "done"}
    /\ run[r].step = "audit" /\ run[r].passed => ~Precedes(watermark.position, run[r].after)
    /\ audit[r] = "SUCCEEDED" => run[r].step = "done"

IInv ==
    /\ Types
    /\ FreshTies
    /\ Known(watermark.position)
    /\ \A r \in Runs : Known(run[r].after)
    /\ \A r \in Runs : SnapshotOK(r)
    /\ \A r \in Runs : BeforeOK(r)
    /\ \A r \in Runs : BatchOK(r)
    /\ \A r \in Runs : GateOK(r)
    /\ SuccessIsCovered
    /\ EveryRowHandedOver

\* The initial states satisfy it: nothing is read, committed or selected yet.
LEMMA InitIInv == Init => IInv
<1> SUFFICES ASSUME Init PROVE IInv
    OBVIOUS
<1> USE DEF Init
<1>1. NoPosition \in Positions /\ NoWatermark \in WatermarkStates
    BY DEF NoPosition, NoWatermark, Positions, WatermarkStates
<1>2. NotStarted \in RunStates
    BY <1>1 DEF NotStarted, RunStates, Steps
<1>3. Types
    BY <1>1, <1>2, FS_EmptySet DEF Types
<1>4. ASSUME NEW r \in Runs
      PROVE  /\ run[r].step = "idle" /\ run[r].snapshot = {} /\ run[r].before = NoWatermark
             /\ run[r].after = NoPosition /\ audit[r] = "none" /\ ~run[r].published
    BY DEF NotStarted
<1>5. ~Precedes(NoPosition, NoPosition)
    BY DEF Precedes, NoPosition
<1>6. watermark.position = NoPosition /\ watermark.version = 0
    BY DEF NoWatermark
<1>7. FreshTies /\ Known(watermark.position) /\ EveryRowHandedOver
    BY <1>6 DEF FreshTies, Known, EveryRowHandedOver
<1>8. ASSUME NEW r \in Runs
      PROVE  Known(run[r].after) /\ SnapshotOK(r) /\ BatchOK(r) /\ GateOK(r)
    BY <1>4 DEF Known, SnapshotOK, BatchOK, GateOK
<1>9. ASSUME NEW r \in Runs PROVE BeforeOK(r)
    BY <1>4, <1>5, <1>6 DEF BeforeOK
<1>10. SuccessIsCovered
    BY <1>4 DEF SuccessIsCovered
<1> QED
    BY <1>3, <1>7, <1>8, <1>9, <1>10 DEF IInv

\* A row that becomes visible now is selectable past every known position.
LEMMA NewRowSelectable ==
    ASSUME Types, FreshTies, NEW p \in Positions, Known(p),
           NEW row \in SourceRows, row.tie = Cardinality(source) + 1,
           \A z \in source : z.value <= row.value + config.overlap
    PROVE  Selectable(row, p, config.overlap)
<1>1. /\ row.value \in Nat /\ row.value > 0 /\ row.tie \in Nat /\ Cardinality(source) \in Nat
      /\ PositionOf(row).value = row.value /\ PositionOf(row).tie = row.tie
    BY PositionType, FS_CardinalityType DEF Types
<1>2. config.overlap \in Nat
    BY WatermarkScd2Assumption DEF Types, DatasetConfigs
<1>3. CASE p = NoPosition
    BY <1>1, <1>2, <1>3 DEF Selectable, NoPosition, Precedes
<1>4. CASE \E z \in source : p = PositionOf(z)
    <2>1. PICK z \in source : p = PositionOf(z)
        BY <1>4
    <2>2. z \in SourceRows
        BY DEF Types
    <2>3. /\ p.value = z.value /\ p.tie = z.tie /\ z.value \in Nat /\ z.tie \in Nat
        BY <2>1, <2>2, PositionType
    <2>4. z.value <= row.value + config.overlap /\ z.tie < row.tie
        BY <1>1, <2>3 DEF FreshTies
    <2> QED
        BY <1>1, <1>2, <2>3, <2>4 DEF Selectable, Precedes
<1> QED
    BY <1>3, <1>4 DEF Known

\* Arrive adds a row that every run and the watermark still have before them.
LEMMA ArriveIInv == IInv /\ Arrive => IInv'
<1> SUFFICES ASSUME IInv, Arrive PROVE IInv'
    OBVIOUS
<1> USE DEF IInv
<1>1. PICK value \in 1 .. MaxValue, key \in Keys, data \in Data, ok \in BOOLEAN :
        /\ \A row \in source : row.value <= value + config.overlap
        /\ source' = source \cup {[value |-> value, tie |-> Cardinality(source) + 1,
                                   key |-> key, data |-> data, ok |-> ok]}
    BY DEF Arrive
<1> DEFINE new == [value |-> value, tie |-> Cardinality(source) + 1,
                   key |-> key, data |-> data, ok |-> ok]
<1>2. UNCHANGED <<config, watermark, target, quarantine, audit, run, proposed>>
    BY DEF Arrive
<1>3. Cardinality(source) \in Nat /\ Cardinality(source) < MaxRows /\ MaxRows \in Nat
    BY FS_CardinalityType, WatermarkScd2Assumption DEF Types, Arrive
<1>4. new \in SourceRows
    BY <1>3 DEF SourceRows
<1>5. new.tie = Cardinality(source) + 1 /\ new.value = value
    OBVIOUS
<1> HIDE DEF new
<1>6. source' = source \cup {new} /\ \A row \in source : row.value <= new.value + config.overlap
    BY <1>1, <1>5 DEF new
<1>7. \A row \in source : row.tie \in Nat /\ row.tie < new.tie
    BY <1>3, <1>5, PositionType DEF FreshTies, Types
<1>8. Cardinality(source') = Cardinality(source) + 1 /\ IsFiniteSet(source')
    BY <1>6, <1>7, FS_AddElement DEF Types
<1>9. Types'
    BY <1>2, <1>4, <1>6, <1>8 DEF Types
<1>10. FreshTies'
    BY <1>3, <1>5, <1>6, <1>7, <1>8 DEF FreshTies
<1>11. \A p : Known(p) => Known(p)'
    BY <1>6 DEF Known
<1>12. ASSUME NEW p \in Positions, Known(p) PROVE Selectable(new, p, config.overlap)
    BY <1>4, <1>5, <1>6, <1>12, NewRowSelectable
<1>13. ASSUME NEW r \in Runs
       PROVE  run[r].after \in Positions /\ run[r].snapshot \in SUBSET SourceRows
    BY DEF Types, RunStates
<1>14. watermark.position \in Positions
    BY DEF Types, WatermarkStates
<1>15. ASSUME NEW r \in Runs PROVE SnapshotOK(r)'
    <2>1. SnapshotOK(r)
        OBVIOUS
    <2> QED
        BY <1>2, <1>6, <1>7, <2>1 DEF SnapshotOK
<1>16. ASSUME NEW r \in Runs PROVE BatchOK(r)'
    BY <1>2, <1>6, <1>12, <1>13 DEF BatchOK
<1>17. ASSUME NEW r \in Runs PROVE BeforeOK(r)' /\ GateOK(r)'
    BY <1>2 DEF BeforeOK, GateOK, Invalid, HardFailure, Breached
<1>18. SuccessIsCovered'
    BY <1>2 DEF SuccessIsCovered
<1>19. EveryRowHandedOver'
    BY <1>2, <1>6, <1>12, <1>14 DEF EveryRowHandedOver, Accepted, Invalid
<1>20. Known(watermark.position)' /\ \A r \in Runs : Known(run[r].after)'
    BY <1>2, <1>11
<1> QED
    BY <1>9, <1>10, <1>15, <1>16, <1>17, <1>18, <1>19, <1>20

\* A step of run r that leaves the source, the watermark and what r captured
\* alone, and loses no quarantine evidence.
LocalStep(r) ==
    /\ UNCHANGED <<config, source, watermark>>
    /\ quarantine \subseteq quarantine'
    /\ \A s \in Runs \ {r} : run'[s] = run[s] /\ audit'[s] = audit[s]
    /\ run'[r].before = run[r].before
    /\ run'[r].batch = run[r].batch
    /\ run'[r].after = run[r].after
    /\ run[r].published => run'[r].published

\* Such a step keeps the invariant when the run itself has earned its next step.
LEMMA LocalStepIInv ==
    ASSUME IInv, NEW r \in Runs, LocalStep(r), Types',
           SnapshotOK(r)', BatchOK(r)', GateOK(r)',
           audit'[r] = "SUCCEEDED" => ~Precedes(watermark.position, run[r].after)
    PROVE  IInv'
<1> USE DEF IInv
<1>1. \A s \in Runs : /\ run'[s].before = run[s].before
                      /\ run'[s].batch = run[s].batch
                      /\ run'[s].after = run[s].after
                      /\ run[s].published => run'[s].published
    BY DEF LocalStep
<1>2. UNCHANGED <<config, source, watermark>> /\ quarantine \subseteq quarantine'
    BY DEF LocalStep
<1>3. \A s \in Runs \ {r} : run'[s] = run[s] /\ audit'[s] = audit[s]
    BY DEF LocalStep
<1>4. FreshTies' /\ Known(watermark.position)'
    BY <1>2 DEF FreshTies, Known
<1>5. ASSUME NEW s \in Runs PROVE Known(run[s].after)' /\ BeforeOK(s)'
    BY <1>1, <1>2 DEF Known, BeforeOK
<1>6. ASSUME NEW s \in Runs \ {r} PROVE SnapshotOK(s)' /\ BatchOK(s)'
    BY <1>2, <1>3 DEF SnapshotOK, BatchOK
<1>7. ASSUME NEW s \in Runs \ {r} PROVE GateOK(s)'
    <2>1. Invalid(s)' = Invalid(s)
        BY <1>2, <1>3 DEF Invalid
    <2>2. HardFailure(s)' = HardFailure(s)
        BY <1>2, <2>1 DEF HardFailure, Breached
    <2>3. GateOK(s)
        OBVIOUS
    <2> QED
        BY <1>2, <1>3, <2>1, <2>2, <2>3 DEF GateOK
<1>8. SuccessIsCovered'
    BY <1>1, <1>2, <1>3 DEF SuccessIsCovered
<1>9. EveryRowHandedOver'
    <2>1. \A s \in Runs : Accepted(s)' = Accepted(s)
        BY <1>1, <1>2 DEF Accepted, Invalid
    <2> QED
        BY <1>1, <1>2, <2>1 DEF EveryRowHandedOver
<1> QED
    BY <1>4, <1>5, <1>6, <1>7, <1>8, <1>9

\* Start reads the whole source.
LEMMA StartIInv == ASSUME IInv, NEW r \in Runs, Start(r) PROVE IInv'
<1> USE DEF IInv
<1>1. /\ run' = [run EXCEPT ![r].step = "capture", ![r].snapshot = source]
      /\ UNCHANGED <<config, source, watermark, target, quarantine, audit, proposed>>
      /\ run[r].step = "idle"
    BY DEF Start
<1>2. run \in [Runs -> RunStates] /\ source \in SUBSET SourceRows
    BY DEF Types
<1>3. /\ LocalStep(r) /\ run'[r].step = "capture" /\ run'[r].snapshot = source
      /\ run'[r].published = run[r].published
    BY <1>1, <1>2 DEF LocalStep, RunStates
<1>4. Types'
    <2> DEFINE new == [run[r] EXCEPT !.step = "capture", !.snapshot = source]
    <2>1. new \in RunStates
        BY <1>2 DEF RunStates, Steps
    <2>2. run' = [run EXCEPT ![r] = new]
        BY <1>1, <1>2
    <2>3. run' \in [Runs -> RunStates]
        BY <1>2, <2>1, <2>2
    <2> QED
        BY <1>1, <2>3 DEF Types
<1>5. SnapshotOK(r)' /\ BatchOK(r)'
    BY <1>1, <1>3 DEF SnapshotOK, BatchOK
<1>6. audit[r] # "SUCCEEDED" /\ ~run[r].published
    BY <1>1 DEF GateOK
<1>7. GateOK(r)'
    BY <1>1, <1>3, <1>6 DEF GateOK
<1> QED
    BY <1>1, <1>3, <1>4, <1>5, <1>6, <1>7, LocalStepIInv

\* Steps that only move run r to a step with no demands: r ends, or is audited
\* as not passed.
LEMMA EndIInv ==
    ASSUME IInv, NEW r \in Runs, LocalStep(r), Types',
           run'[r].step \in {"raised", "done"},
           run'[r].snapshot \in {{}, run[r].snapshot},
           \/ audit'[r] # "SUCCEEDED"
           \/ run'[r].step = "done" /\ ~Precedes(watermark.position, run[r].after)
    PROVE  IInv'
<1> USE DEF IInv
<1>1. UNCHANGED <<config, source>>
    BY DEF LocalStep
<1>2. SnapshotOK(r)'
    <2>1. SnapshotOK(r)
        OBVIOUS
    <2> QED
        BY <1>1, <2>1 DEF SnapshotOK
<1>3. BatchOK(r)' /\ GateOK(r)'
    BY DEF BatchOK, GateOK
<1> QED
    BY <1>2, <1>3, LocalStepIInv

\* A run that dies, or whose control-plane call raises, disturbs nothing.
LEMMA RaiseIInv == ASSUME IInv, NEW r \in Runs, Raise(r) PROVE IInv'
<1> USE DEF IInv
<1>1. /\ run' = [run EXCEPT ![r].step = "raised", ![r].snapshot = {}]
      /\ UNCHANGED <<config, source, watermark, quarantine, audit>>
      /\ run[r].step # "done"
    BY DEF Raise, Active, Ended
<1>2. run \in [Runs -> RunStates]
    BY DEF Types
<1>3. LocalStep(r) /\ run'[r].step = "raised" /\ run'[r].snapshot = {}
    BY <1>1, <1>2 DEF LocalStep, RunStates
<1>4. Types'
    <2> DEFINE new == [run[r] EXCEPT !.step = "raised", !.snapshot = {}]
    <2>1. new \in RunStates
        BY <1>2 DEF RunStates, Steps, Ended
    <2>2. run' = [run EXCEPT ![r] = new]
        BY <1>1, <1>2
    <2>3. run' \in [Runs -> RunStates]
        BY <1>2, <2>1, <2>2
    <2> QED
        BY <1>1, <2>3 DEF Types
<1>5. audit[r] # "SUCCEEDED"
    BY <1>1 DEF GateOK
<1> QED
    BY <1>1, <1>3, <1>4, <1>5, EndIInv

\* So does a commit that lost the compare-and-set.
LEMMA ConflictIInv == ASSUME IInv, NEW r \in Runs, CommitConflicts(r) PROVE IInv'
<1> USE DEF IInv
<1>1. /\ run' = [run EXCEPT ![r].step = "raised"]
      /\ UNCHANGED <<config, source, watermark, quarantine, audit>>
      /\ run[r].step = "commit"
    BY DEF CommitConflicts, Goto
<1>2. run \in [Runs -> RunStates]
    BY DEF Types
<1>3. /\ LocalStep(r) /\ run'[r].step = "raised"
      /\ run'[r].snapshot = run[r].snapshot
    BY <1>1, <1>2 DEF LocalStep, RunStates
<1>4. Types'
    BY <1>1, <1>2 DEF Types, RunStates, Steps, Ended
<1>5. audit[r] # "SUCCEEDED"
    BY <1>1 DEF GateOK
<1> QED
    BY <1>1, <1>3, <1>4, <1>5, EndIInv

\* The audit of a passed run follows its commit.
LEMMA AuditIInv == ASSUME IInv, NEW r \in Runs, Audit(r) PROVE IInv'
<1> USE DEF IInv
<1>1. /\ run' = [run EXCEPT ![r].step = "done"]
      /\ audit' = [audit EXCEPT ![r] = IF run[r].passed THEN "SUCCEEDED" ELSE "FAILED"]
      /\ UNCHANGED <<config, source, watermark, quarantine>>
      /\ run[r].step = "audit"
    BY DEF Audit
<1>2. /\ run \in [Runs -> RunStates]
      /\ audit \in [Runs -> {"none", "SUCCEEDED", "FAILED"}]
    BY DEF Types
<1>3. /\ LocalStep(r) /\ run'[r].step = "done"
      /\ run'[r].snapshot = run[r].snapshot
    BY <1>1, <1>2 DEF LocalStep, RunStates
<1>4. Types'
    BY <1>1, <1>2 DEF Types, RunStates, Steps, Ended
<1>5. audit'[r] = "SUCCEEDED" => ~Precedes(watermark.position, run[r].after)
    BY <1>1, <1>2 DEF GateOK
<1> QED
    BY <1>1, <1>3, <1>4, <1>5, EndIInv

\* Capture takes every row it could, of the source as it was read: what became
\* visible since is past the end of the batch.
LEMMA CaptureIInv == ASSUME IInv, NEW r \in Runs, Capture(r) PROVE IInv'
<1> USE DEF IInv
<1> DEFINE from == watermark.position
           rows == run[r].snapshot
           batch == Selected(rows, from, config.overlap)
           after == After(rows, from, config.overlap)
           new == [run[r] EXCEPT !.step = "quarantine", !.snapshot = {}, !.before = watermark,
                                 !.batch = batch, !.after = after]
<1>1. /\ UNCHANGED <<config, source, watermark, quarantine, audit>>
      /\ run[r].step = "capture"
    BY DEF Capture
<1>2. /\ run \in [Runs -> RunStates] /\ run[r] \in RunStates
      /\ source \in SUBSET SourceRows /\ watermark \in WatermarkStates
      /\ from \in Positions /\ rows \in SUBSET SourceRows
    BY DEF Types, RunStates, WatermarkStates
<1>3. run' = [run EXCEPT ![r] = new]
    BY <1>2 DEF Capture
<1>4. /\ after \in Positions
      /\ \/ after = from
         \/ \E row \in batch : after = PositionOf(row)
    BY <1>2, AfterIsKnown
<1>5. batch \in SUBSET SourceRows /\ batch \subseteq rows
    BY <1>2 DEF Selected
<1>6. new \in RunStates
    BY <1>2, <1>4, <1>5 DEF RunStates, Steps
<1>7. /\ new.step = "quarantine" /\ new.snapshot = {} /\ new.before = watermark
      /\ new.batch = batch /\ new.after = after
      /\ new.published = run[r].published
    BY <1>2 DEF RunStates
<1> HIDE DEF new
<1>8. run'[r] = new /\ \A s \in Runs \ {r} : run'[s] = run[s]
    BY <1>2, <1>3
<1>9. Types'
    BY <1>1, <1>2, <1>3, <1>6 DEF Types
<1>10. FreshTies' /\ Known(watermark.position)'
    BY <1>1 DEF FreshTies, Known
<1>11. Known(after)
    BY <1>4, <1>5 DEF Known, SnapshotOK
<1>12. ASSUME NEW s \in Runs PROVE Known(run[s].after)'
    <2>1. CASE s = r
        BY <2>1, <1>1, <1>7, <1>8, <1>11 DEF Known
    <2>2. CASE s # r
        BY <2>2, <1>1, <1>8 DEF Known
    <2> QED
        BY <2>1, <2>2
<1>13. ASSUME NEW s \in Runs PROVE SnapshotOK(s)'
    <2>1. CASE s = r
        BY <2>1, <1>1, <1>7, <1>8 DEF SnapshotOK
    <2>2. CASE s # r
        BY <2>2, <1>1, <1>8 DEF SnapshotOK
    <2> QED
        BY <2>1, <2>2
<1>14. ASSUME NEW s \in Runs PROVE BeforeOK(s)'
    <2>1. CASE s = r
        <3>1. watermark.version <= watermark.version /\ ~Precedes(from, from)
            BY <1>2 DEF WatermarkStates, Precedes, Positions
        <3> QED
            BY <2>1, <3>1, <1>1, <1>7, <1>8 DEF BeforeOK
    <2>2. CASE s # r
        BY <2>2, <1>1, <1>8 DEF BeforeOK
    <2> QED
        BY <2>1, <2>2
<1>15. ASSUME NEW row \in source, Selectable(row, from, config.overlap), row \notin batch
       PROVE  Selectable(row, after, config.overlap)
    <2>1. CASE after = from
        BY <2>1, <1>15
    <2>2. CASE \E z \in batch : after = PositionOf(z)
        <3>1. PICK z \in batch : after = PositionOf(z)
            BY <2>2
        <3>2. row \notin rows
            BY <1>15 DEF Selected
        <3>3. z.value <= row.value + config.overlap /\ z.tie < row.tie
            BY <1>5, <3>2 DEF SnapshotOK
        <3>4. row \in SourceRows /\ z \in SourceRows
            BY <1>2, <1>5
        <3>5. /\ row.value \in Nat /\ row.tie \in Nat /\ z.value \in Nat /\ z.tie \in Nat
              /\ PositionOf(row).value = row.value /\ PositionOf(row).tie = row.tie
              /\ PositionOf(z).value = z.value /\ PositionOf(z).tie = z.tie
            BY <3>4, PositionType
        <3>6. config.overlap \in Nat
            BY WatermarkScd2Assumption DEF Types, DatasetConfigs
        <3> QED
            BY <3>1, <3>3, <3>5, <3>6 DEF Selectable, Precedes
    <2> QED
        BY <1>4, <2>1, <2>2
<1>16. ASSUME NEW s \in Runs PROVE BatchOK(s)'
    <2>1. CASE s = r
        BY <2>1, <1>1, <1>7, <1>8, <1>15 DEF BatchOK
    <2>2. CASE s # r
        BY <2>2, <1>1, <1>8 DEF BatchOK
    <2> QED
        BY <2>1, <2>2
<1>17. audit[r] # "SUCCEEDED" /\ ~run[r].published
    BY <1>1 DEF GateOK
<1>18. ASSUME NEW s \in Runs PROVE GateOK(s)'
    <2>1. CASE s = r
        BY <2>1, <1>1, <1>7, <1>8, <1>17 DEF GateOK
    <2>2. CASE s # r
        BY <2>2, <1>1, <1>8 DEF GateOK, Invalid, HardFailure, Breached
    <2> QED
        BY <2>1, <2>2
<1>19. SuccessIsCovered'
    BY <1>1, <1>8, <1>17 DEF SuccessIsCovered
<1>20. EveryRowHandedOver'
    <2>1. \A s \in Runs \ {r} : Accepted(s)' = Accepted(s)
        BY <1>1, <1>8 DEF Accepted, Invalid
    <2> QED
        BY <1>1, <1>8, <1>17, <2>1 DEF EveryRowHandedOver
<1> QED
    BY <1>9, <1>10, <1>12, <1>13, <1>14, <1>16, <1>18, <1>19, <1>20

\* A step of r that moves it within the run and keeps what it captured.
LEMMA MoveIInv ==
    ASSUME IInv, NEW r \in Runs, LocalStep(r), Types', GateOK(r)',
           run[r].step \in {"quarantine", "plan", "reconcile", "publish"},
           run'[r].snapshot = run[r].snapshot, audit' = audit
    PROVE  IInv'
<1> USE DEF IInv
<1>1. UNCHANGED source
    BY DEF LocalStep
<1>2. SnapshotOK(r)' /\ BatchOK(r)'
    <2>1. SnapshotOK(r) /\ BatchOK(r)
        OBVIOUS
    <2> QED
        BY <1>1, <2>1 DEF SnapshotOK, BatchOK, LocalStep
<1>3. audit'[r] # "SUCCEEDED"
    BY DEF GateOK
<1> QED
    BY <1>2, <1>3, LocalStepIInv

\* Quarantine records the evidence the later steps rely on.
LEMMA QuarantineIInv == ASSUME IInv, NEW r \in Runs, Quarantine(r) PROVE IInv'
<1> USE DEF IInv
<1>1. /\ run' = [run EXCEPT ![r].step = "plan"]
      /\ UNCHANGED <<config, source, watermark, audit>>
      /\ run[r].step = "quarantine"
      /\ quarantine' = quarantine \cup
                        (IF config.quality = "quarantine" THEN Invalid(r) ELSE {})
    BY DEF Quarantine, Goto
<1>2. run \in [Runs -> RunStates]
    BY DEF Types
<1>3. /\ LocalStep(r) /\ run'[r].step = "plan" /\ run'[r].snapshot = run[r].snapshot
      /\ run'[r].batch = run[r].batch /\ run'[r].published = run[r].published
    BY <1>1, <1>2 DEF LocalStep, RunStates
<1>4. Types'
    BY <1>1, <1>2 DEF Types, RunStates, Steps
<1>5. Invalid(r)' = Invalid(r)
    BY <1>1, <1>3 DEF Invalid
<1>6. GateOK(r)'
    BY <1>1, <1>3, <1>5 DEF GateOK
<1> QED
    BY <1>1, <1>3, <1>4, <1>6, MoveIInv

\* Evidence of some of the rows does no harm.
LEMMA QuarantineFailsIInv == ASSUME IInv, NEW r \in Runs, QuarantineFails(r) PROVE IInv'
<1> USE DEF IInv
<1>1. /\ run' = [run EXCEPT ![r].step = "raised"]
      /\ UNCHANGED <<config, source, watermark, audit>>
      /\ run[r].step = "quarantine"
      /\ quarantine \subseteq quarantine'
    BY DEF QuarantineFails, Goto
<1>2. run \in [Runs -> RunStates]
    BY DEF Types
<1>3. LocalStep(r) /\ run'[r].step = "raised" /\ run'[r].snapshot = run[r].snapshot
    BY <1>1, <1>2 DEF LocalStep, RunStates
<1>4. Types'
    BY <1>1, <1>2 DEF Types, RunStates, Steps, Ended
<1>5. audit[r] # "SUCCEEDED"
    BY <1>1 DEF GateOK
<1> QED
    BY <1>1, <1>3, <1>4, <1>5, EndIInv

\* Whatever apply_scd2 answers, the run goes on or raises.
LEMMA PlanIInv == ASSUME IInv, NEW r \in Runs, Plan(r) PROVE IInv'
<1> USE DEF IInv
<1> DEFINE refused == ApplyScd2(target, Accepted(r)).refused
           step == IF refused THEN "raised" ELSE "reconcile"
           new == [run[r] EXCEPT !.step = step, !.refused = refused]
<1>1. /\ UNCHANGED <<config, source, watermark, quarantine, audit>>
      /\ run[r].step = "plan"
    BY DEF Plan
<1>2. run \in [Runs -> RunStates] /\ run[r] \in RunStates
    BY DEF Types
<1>3. refused \in BOOLEAN
    BY DEF ApplyScd2
<1>4. new \in RunStates
    BY <1>2, <1>3 DEF RunStates, Steps, Ended
<1>5. run' = [run EXCEPT ![r] = new]
    BY <1>2 DEF Plan
<1>6. /\ new.step = step /\ new.snapshot = run[r].snapshot /\ new.before = run[r].before
      /\ new.batch = run[r].batch /\ new.after = run[r].after
      /\ new.published = run[r].published
    BY <1>2 DEF RunStates
<1>7. step \in {"raised", "reconcile"}
    OBVIOUS
<1> HIDE DEF new, step, refused
<1>8. run'[r] = new /\ \A s \in Runs \ {r} : run'[s] = run[s]
    BY <1>2, <1>5
<1>9. LocalStep(r)
    BY <1>1, <1>6, <1>8 DEF LocalStep
<1>10. Types'
    BY <1>1, <1>2, <1>4, <1>5 DEF Types
<1>11. GateOK(r) /\ Invalid(r)' = Invalid(r)
    BY <1>1, <1>6, <1>8 DEF Invalid
<1>12. GateOK(r)'
    BY <1>1, <1>6, <1>7, <1>8, <1>11 DEF GateOK
<1> QED
    BY <1>1, <1>6, <1>8, <1>9, <1>10, <1>12, MoveIInv

\* A run passes only without a hard data-quality failure.
LEMMA ReconcileIInv == ASSUME IInv, NEW r \in Runs, Reconcile(r) PROVE IInv'
<1> USE DEF IInv
<1>1. /\ UNCHANGED <<config, source, watermark, quarantine, audit>>
      /\ run[r].step = "reconcile"
    BY DEF Reconcile
<1>2. run \in [Runs -> RunStates] /\ run[r] \in RunStates
    BY DEF Types
<1>3. PICK passed \in BOOLEAN :
        /\ passed => ~HardFailure(r)
        /\ run' = [run EXCEPT ![r].step = IF passed THEN "publish" ELSE "audit",
                              ![r].passed = passed]
    BY DEF Reconcile
<1> DEFINE step == IF passed THEN "publish" ELSE "audit"
           new == [run[r] EXCEPT !.step = step, !.passed = passed]
<1>4. new \in RunStates
    BY <1>2 DEF RunStates, Steps
<1>5. run' = [run EXCEPT ![r] = new]
    BY <1>2, <1>3
<1>6. /\ new.step = step /\ new.snapshot = run[r].snapshot /\ new.before = run[r].before
      /\ new.batch = run[r].batch /\ new.after = run[r].after
      /\ new.published = run[r].published /\ new.passed = passed
    BY <1>2 DEF RunStates
<1> HIDE DEF new
<1>7. run'[r] = new /\ \A s \in Runs \ {r} : run'[s] = run[s]
    BY <1>2, <1>5
<1>8. LocalStep(r)
    BY <1>1, <1>6, <1>7 DEF LocalStep
<1>9. Types'
    BY <1>1, <1>2, <1>4, <1>5 DEF Types
<1>10. GateOK(r) /\ Invalid(r)' = Invalid(r)
    BY <1>1, <1>6, <1>7 DEF Invalid
<1>11. HardFailure(r)' = HardFailure(r)
    BY <1>1, <1>10 DEF HardFailure, Breached
<1>12. GateOK(r)'
    BY <1>1, <1>3, <1>6, <1>7, <1>10, <1>11 DEF GateOK
<1> QED
    BY <1>1, <1>6, <1>7, <1>8, <1>9, <1>12, MoveIInv

\* Publishing without a commit means there was nothing past the position read.
LEMMA PublishIInv == ASSUME IInv, NEW r \in Runs, Publish(r) PROVE IInv'
<1> USE DEF IInv
<1> DEFINE step == IF Precedes(run[r].before.position, run[r].after) THEN "commit" ELSE "audit"
           new == [run[r] EXCEPT !.step = step, !.published = TRUE]
<1>1. /\ UNCHANGED <<config, source, watermark, quarantine, audit>>
      /\ run[r].step = "publish"
    BY DEF Publish
<1>2. /\ run \in [Runs -> RunStates] /\ run[r] \in RunStates
      /\ run[r].after \in Positions /\ run[r].before.position \in Positions
      /\ watermark.position \in Positions
    BY DEF Types, RunStates, WatermarkStates
<1>3. new \in RunStates
    BY <1>2 DEF RunStates, Steps
<1>4. run' = [run EXCEPT ![r] = new]
    BY <1>2 DEF Publish
<1>5. /\ new.step = step /\ new.snapshot = run[r].snapshot /\ new.before = run[r].before
      /\ new.batch = run[r].batch /\ new.after = run[r].after
      /\ new.published = TRUE
    BY <1>2 DEF RunStates
<1>6. step \in {"commit", "audit"}
    OBVIOUS
<1>7. step = "audit" => ~Precedes(watermark.position, run[r].after)
    <2>1. step = "audit" => ~Precedes(run[r].before.position, run[r].after)
        OBVIOUS
    <2>2. ~Precedes(watermark.position, run[r].before.position)
        BY DEF BeforeOK
    <2> QED
        BY <1>2, <2>1, <2>2, PositionsTransitive
<1> HIDE DEF new, step
<1>8. run'[r] = new /\ \A s \in Runs \ {r} : run'[s] = run[s]
    BY <1>2, <1>4
<1>9. LocalStep(r)
    BY <1>1, <1>5, <1>8 DEF LocalStep
<1>10. Types'
    BY <1>1, <1>2, <1>3, <1>4 DEF Types
<1>11. GateOK(r) /\ Invalid(r)' = Invalid(r)
    BY <1>1, <1>5, <1>8 DEF Invalid
<1>12. HardFailure(r)' = HardFailure(r)
    BY <1>1, <1>11 DEF HardFailure, Breached
<1>13. GateOK(r)'
    BY <1>1, <1>5, <1>6, <1>7, <1>8, <1>11, <1>12 DEF GateOK
<1> QED
    BY <1>1, <1>5, <1>8, <1>9, <1>10, <1>13, MoveIInv

\* What a commit writes: the end of the batch, not behind what was there.
LEMMA CommitEffect ==
    ASSUME IInv, NEW r \in Runs, CommitWatermark(r)
    PROVE  /\ run[r].before = watermark
           /\ watermark.position \in Positions /\ run[r].after \in Positions
           /\ watermark' \in WatermarkStates
           /\ watermark'.position = run[r].after
           /\ ~Precedes(run[r].after, watermark.position)
           /\ \/ watermark' = watermark
              \/ /\ watermark'.version = watermark.version + 1
                 /\ Precedes(watermark.position, run[r].after)
<1> USE DEF IInv
<1>1. /\ watermark \in WatermarkStates /\ watermark.position \in Positions
      /\ watermark.version \in Nat /\ run[r].after \in Positions
    BY DEF Types, RunStates, WatermarkStates
<1>2. /\ watermark.version = run[r].before.version
      /\ ~Precedes(run[r].after, watermark.position)
      /\ watermark' = Committed(watermark, run[r].after)
    BY DEF CommitWatermark, MayCommit
<1>3. run[r].before = watermark
    BY <1>2 DEF BeforeOK
<1>4. CASE run[r].after = watermark.position
    <2>1. watermark' = watermark
        BY <1>2, <1>4 DEF Committed
    <2> QED
        BY <1>1, <1>2, <1>3, <1>4, <2>1
<1>5. CASE run[r].after # watermark.position
    <2>1. watermark' = [version |-> watermark.version + 1, position |-> run[r].after]
        BY <1>2, <1>5 DEF Committed
    <2>2. Precedes(watermark.position, run[r].after)
        BY <1>1, <1>2, <1>5, PositionsTotal
    <2> QED
        BY <1>1, <1>2, <1>3, <2>1, <2>2 DEF WatermarkStates
<1> QED
    BY <1>4, <1>5

\* A commit leaves no row behind: what the new position excludes was excluded
\* before, or is in a batch that is published and has its evidence.
LEMMA CommitIInv == ASSUME IInv, NEW r \in Runs, CommitWatermark(r) PROVE IInv'
<1> USE DEF IInv
<1> DEFINE new == run[r].after
<1>1. /\ run' = [run EXCEPT ![r].step = "audit"]
      /\ UNCHANGED <<config, source, quarantine, audit>>
      /\ run[r].step = "commit"
    BY DEF CommitWatermark, Goto
<1>2. run \in [Runs -> RunStates]
    BY DEF Types
<1>3. /\ run[r].before = watermark
      /\ watermark.position \in Positions /\ new \in Positions
      /\ watermark' \in WatermarkStates
      /\ watermark'.position = new
      /\ ~Precedes(new, watermark.position)
      /\ \/ watermark' = watermark
         \/ watermark'.version = watermark.version + 1
    BY CommitEffect
<1>4. /\ run'[r].step = "audit"
      /\ \A s \in Runs : /\ run'[s].snapshot = run[s].snapshot
                         /\ run'[s].before = run[s].before
                         /\ run'[s].batch = run[s].batch
                         /\ run'[s].after = run[s].after
                         /\ run'[s].passed = run[s].passed
                         /\ run'[s].published = run[s].published
      /\ \A s \in Runs \ {r} : run'[s].step = run[s].step
    BY <1>1, <1>2 DEF RunStates
<1>5. Types'
    BY <1>1, <1>2, <1>3 DEF Types, RunStates, Steps
<1>6. FreshTies' /\ Known(watermark.position)'
    BY <1>1, <1>3 DEF FreshTies, Known
<1>7. ASSUME NEW s \in Runs PROVE Known(run[s].after)' /\ SnapshotOK(s)'
    BY <1>1, <1>4 DEF Known, SnapshotOK
<1>8. ASSUME NEW s \in Runs PROVE BeforeOK(s)'
    <2>1. /\ watermark.version \in Nat /\ run[s].before.version \in Nat
          /\ run[s].before.position \in Positions
        BY DEF Types, RunStates, WatermarkStates
    <2>2. BeforeOK(s)
        OBVIOUS
    <2>3. ~Precedes(new, run[s].before.position)
        BY <1>3, <2>1, <2>2, PositionsTransitive DEF BeforeOK
    <2> QED
        BY <1>3, <1>4, <2>1, <2>2, <2>3 DEF BeforeOK
<1>9. ASSUME NEW s \in Runs PROVE BatchOK(s)'
    <2>1. BatchOK(s)
        OBVIOUS
    <2> QED
        BY <1>1, <1>4, <2>1 DEF BatchOK
<1>10. ASSUME NEW s \in Runs, ~Precedes(watermark.position, run[s].after)
       PROVE  ~Precedes(new, run[s].after)
    <2>1. run[s].after \in Positions
        BY DEF Types, RunStates
    <2> QED
        BY <1>3, <1>10, <2>1, PositionsTransitive
<1>11. ASSUME NEW s \in Runs PROVE GateOK(s)'
    <2>1. Invalid(s)' = Invalid(s) /\ GateOK(s)
        BY <1>1, <1>4 DEF Invalid
    <2>2. HardFailure(s)' = HardFailure(s)
        BY <1>1, <2>1 DEF HardFailure, Breached
    <2>3. ~Precedes(new, new)
        BY <1>3 DEF Precedes, Positions
    <2>4. CASE s = r
        BY <1>1, <1>3, <1>4, <2>1, <2>3, <2>4 DEF GateOK
    <2>5. CASE s # r
        BY <1>1, <1>3, <1>4, <1>10, <2>1, <2>2, <2>5 DEF GateOK
    <2> QED
        BY <2>4, <2>5
<1>12. SuccessIsCovered'
    BY <1>1, <1>3, <1>4, <1>10 DEF SuccessIsCovered
<1>13. ASSUME NEW row \in source, ~Selectable(row, new, config.overlap)
       PROVE  row \in quarantine \/ \E s \in Runs : run[s].published /\ row \in Accepted(s)
    <2>1. CASE ~Selectable(row, watermark.position, config.overlap)
        BY <2>1 DEF EveryRowHandedOver
    <2>2. CASE Selectable(row, watermark.position, config.overlap)
        <3>1. row \in run[r].batch
            BY <1>1, <1>3, <1>13, <2>2 DEF BatchOK
        <3>2. CASE row \in Invalid(r)
            <4>1. ~HardFailure(r) /\ (config.quality = "quarantine" => Invalid(r) \subseteq quarantine)
                BY <1>1 DEF GateOK
            <4>2. config.quality # "off" /\ config.quality # "fail"
                BY <3>2, <4>1 DEF Invalid, HardFailure
            <4>3. config.quality \in {"off", "quarantine", "fail"}
                BY WatermarkScd2Assumption DEF Types, DatasetConfigs
            <4> QED
                BY <3>2, <4>1, <4>2, <4>3
        <3>3. CASE row \notin Invalid(r)
            <4>1. run[r].published
                BY <1>1 DEF GateOK
            <4> QED
                BY <3>1, <3>3, <4>1 DEF Accepted
        <3> QED
            BY <3>2, <3>3
    <2> QED
        BY <2>1, <2>2
<1>14. EveryRowHandedOver'
    <2>1. \A s \in Runs : Accepted(s)' = Accepted(s)
        BY <1>1, <1>4 DEF Accepted, Invalid
    <2> QED
        BY <1>1, <1>3, <1>4, <1>13, <2>1 DEF EveryRowHandedOver
<1> QED
    BY <1>5, <1>6, <1>7, <1>8, <1>9, <1>11, <1>12, <1>14

-----------------------------------------------------------------------------
(* The theorems. *)

\* Every step, and every stutter, keeps the invariant.
LEMMA NextIInv == IInv /\ [Next]_vars => IInv'
<1> SUFFICES ASSUME IInv, [Next]_vars PROVE IInv'
    OBVIOUS
<1>1. CASE Arrive
    BY <1>1, ArriveIInv
<1>2. ASSUME NEW r \in Runs,
             \/ Start(r) \/ Capture(r) \/ Quarantine(r) \/ QuarantineFails(r)
             \/ Plan(r) \/ Reconcile(r) \/ Publish(r) \/ CommitWatermark(r)
             \/ CommitConflicts(r) \/ Audit(r) \/ Raise(r)
      PROVE  IInv'
    BY <1>2, StartIInv, CaptureIInv, QuarantineIInv, QuarantineFailsIInv, PlanIInv,
       ReconcileIInv, PublishIInv, CommitIInv, ConflictIInv, AuditIInv, RaiseIInv
<1>3. CASE UNCHANGED vars
    BY <1>3 DEF vars, IInv, Types, FreshTies, Known, SnapshotOK, BeforeOK, BatchOK, GateOK,
                SuccessIsCovered, EveryRowHandedOver, Accepted, Invalid, HardFailure, Breached
<1> QED
    BY <1>1, <1>2, <1>3 DEF Next

\* So it holds in every reachable state.
LEMMA IInvHolds == Spec => []IInv
BY InitIInv, NextIInv, PTL DEF Spec

\* However runs overlap, die or lose the compare-and-set, a row that no later run
\* selects was in a published batch or has quarantine evidence.
THEOREM NoRowLeftBehind == Spec => []EveryRowHandedOver
<1>1. IInv => EveryRowHandedOver
    BY DEF IInv
<1> QED
    BY <1>1, IInvHolds, PTL

\* A run audited SUCCEEDED stays covered by the committed watermark.
THEOREM SuccessStaysCovered == Spec => []SuccessIsCovered
<1>1. IInv => SuccessIsCovered
    BY DEF IInv
<1> QED
    BY <1>1, IInvHolds, PTL

\* commit_watermark advances one version at a time, strictly forward.
THEOREM CheckpointMonotone == Spec => WatermarkMonotone
<1>1. IInv /\ [Next]_vars =>
        [/\ watermark'.version = watermark.version + 1
         /\ Precedes(watermark.position, watermark'.position)]_watermark
    <2> SUFFICES ASSUME IInv, [Next]_vars, watermark' # watermark
                 PROVE  /\ watermark'.version = watermark.version + 1
                        /\ Precedes(watermark.position, watermark'.position)
        OBVIOUS
    <2>1. PICK r \in Runs : CommitWatermark(r)
        BY DEF Next, vars, Arrive, Start, Capture, Quarantine, QuarantineFails, Plan,
               Reconcile, Publish, CommitConflicts, Audit, Raise
    <2> QED
        BY <2>1, CommitEffect
<1> QED
    BY <1>1, IInvHolds, PTL DEF Spec, WatermarkMonotone
=============================================================================
