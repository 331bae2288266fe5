---------------------------- MODULE WatermarkScd2 ----------------------------
(***************************************************************************)
(* execute_watermark_scd2: runs of one dataset that capture the rows past  *)
(* the committed watermark, validate and quarantine them, plan the SCD2    *)
(* history, reconcile it, publish it and advance the watermark             *)
(* (execution/watermark_scd2.py).                                          *)
(*                                                                         *)
(* The caller reads the source before the run reads the watermark; the     *)
(* target and the control plane are separate stores, so a run may die, or  *)
(* a control-plane write may raise, between any two steps.                 *)
(***************************************************************************)
EXTENDS Naturals, FiniteSets, Scd2Apply

CONSTANTS Keys, Data,       \* business keys and tracked attributes
          MaxValue,         \* bound: largest watermark value
          MaxRows,          \* bound: rows the source ever holds
          MaxRuns,          \* bound: number of runs
          Configs           \* deployed configurations to choose from

\* quality: rules off, invalid rows quarantined up to maxQuarantine (the row and
\* the fraction limit), or invalid rows failing the run.  required is
\* reconciliation.required_for_state_commit, overlap is overlap_window_seconds in
\* units of the watermark.  serialized: does the caller run one at a time?
DatasetConfigs ==
    [quality : {"off", "quarantine", "fail"}, maxQuarantine : Nat, required : BOOLEAN,
     overlap : Nat, serialized : BOOLEAN]

ASSUME WatermarkScd2Assumption ==
    /\ MaxValue \in Nat /\ MaxRows \in Nat /\ MaxRuns \in Nat
    /\ Configs \subseteq DatasetConfigs

Runs == 1 .. MaxRuns

VARIABLES config,           \* the deployed dataset configuration
          source,           \* rows of the source
          watermark,        \* WatermarkState of the dataset
          target,           \* versions of the SCD2 target
          quarantine,       \* rows with durable quarantine evidence
          audit,            \* Runs -> status of its dataset_run row
          run,              \* Runs -> its local state
          proposed          \* Runs -> the versions apply_scd2 proposed to it

vars == <<config, source, watermark, target, quarantine, audit, run, proposed>>

SourceRows == [value : 1 .. MaxValue, tie : 1 .. MaxRows,
               key : Keys, data : Data, ok : BOOLEAN]
Versions == [key : Keys, data : Data, from : 1 .. MaxValue, to : 0 .. MaxValue]

Ended == {"done", "raised"}
Steps == {"idle", "capture", "quarantine", "plan", "reconcile",
          "publish", "commit", "audit"} \cup Ended
Active(r) == run[r].step \notin Ended \cup {"idle"}

RunStates ==
    [step : Steps,
     snapshot : SUBSET SourceRows,      \* source_rows
     before : WatermarkStates,          \* watermark_state
     batch : SUBSET SourceRows,         \* capture.rows
     after : Positions,                 \* capture.after
     passed : BOOLEAN,
     published : BOOLEAN,               \* has target.replace returned
     refused : BOOLEAN]                 \* did apply_scd2 raise

NotStarted ==
    [step |-> "idle", snapshot |-> {}, before |-> NoWatermark, batch |-> {},
     after |-> NoPosition, passed |-> FALSE, published |-> FALSE, refused |-> FALSE]

TypeOK ==
    /\ config \in Configs
    /\ source \subseteq SourceRows
    /\ watermark \in WatermarkStates
    /\ target \subseteq Versions
    /\ quarantine \subseteq SourceRows
    /\ audit \in [Runs -> {"none", "SUCCEEDED", "FAILED"}]
    /\ run \in [Runs -> RunStates]
    /\ proposed \in [Runs -> SUBSET Versions]

Init ==
    /\ config \in Configs
    /\ source = {}
    /\ watermark = NoWatermark
    /\ target = {}
    /\ quarantine = {}
    /\ audit = [r \in Runs |-> "none"]
    /\ run = [r \in Runs |-> NotStarted]
    /\ proposed = [r \in Runs |-> {}]

Goto(r, step) == run' = [run EXCEPT ![r].step = step]

-----------------------------------------------------------------------------
(* The source. *)

\* A row becomes visible.  Tie-breakers grow in the order rows become visible, and
\* a value is at most the overlap behind the newest: what the capture relies on.
Arrive ==
    /\ Cardinality(source) < MaxRows
    /\ \E value \in 1 .. MaxValue, key \in Keys, data \in Data, ok \in BOOLEAN :
        /\ \A row \in source : row.value <= value + config.overlap
        /\ source' = source \cup {[value |-> value, tie |-> Cardinality(source) + 1,
                                   key |-> key, data |-> data, ok |-> ok]}
    /\ UNCHANGED <<config, watermark, target, quarantine, audit, run, proposed>>

-----------------------------------------------------------------------------
(* The steps of a run. *)

\* The caller reads source_rows and calls execute_watermark_scd2.
Start(r) ==
    /\ run[r].step = "idle"
    /\ \A s \in 1 .. r - 1 : run[s].step # "idle"
    /\ config.serialized => \A s \in Runs : ~Active(s)
    /\ run' = [run EXCEPT ![r].step = "capture", ![r].snapshot = source]
    /\ UNCHANGED <<config, source, watermark, target, quarantine, audit, proposed>>

\* get_watermark_state and plan_watermark_batch.
Capture(r) ==
    /\ run[r].step = "capture"
    /\ run' = [run EXCEPT ![r].step = "quarantine",
                          ![r].snapshot = {},
                          ![r].before = watermark,
                          ![r].batch = Selected(run[r].snapshot, watermark.position,
                                                     config.overlap),
                          ![r].after = After(run[r].snapshot, watermark.position,
                                                  config.overlap)]
    /\ UNCHANGED <<config, source, watermark, target, quarantine, audit, proposed>>

\* validate_records
Invalid(r) == {row \in run[r].batch : config.quality # "off" /\ ~row.ok}
Accepted(r) == run[r].batch \ Invalid(r)

\* _quarantine_threshold_breaches, and hard_dq_failure.
Breached(r) ==
    config.quality = "quarantine" /\ Cardinality(Invalid(r)) > config.maxQuarantine
HardFailure(r) ==
    Invalid(r) # {} /\ (config.quality = "fail" \/ Breached(r))

\* _record_row_quarantine: evidence of the invalid rows, breached or not.
Quarantine(r) ==
    /\ run[r].step = "quarantine"
    /\ quarantine' = quarantine \cup
                        (IF config.quality = "quarantine" THEN Invalid(r) ELSE {})
    /\ Goto(r, "plan")
    /\ UNCHANGED <<config, source, watermark, target, audit, proposed>>

\* record_quarantine raises after some of the rows.
QuarantineFails(r) ==
    /\ run[r].step = "quarantine"
    /\ config.quality = "quarantine"
    /\ \E written \in SUBSET Invalid(r) :
        /\ written # Invalid(r)
        /\ quarantine' = quarantine \cup written
    /\ Goto(r, "raised")
    /\ UNCHANGED <<config, source, watermark, target, audit, proposed>>

\* target.read and apply_scd2, whose exceptions end the run without an audit.
Plan(r) ==
    LET result == ApplyScd2(target, Accepted(r)) IN
    /\ run[r].step = "plan"
    /\ run' = [run EXCEPT ![r].step = IF result.refused THEN "raised" ELSE "reconcile",
                          ![r].refused = result.refused]
    /\ proposed' = [proposed EXCEPT ![r] = IF result.refused THEN {} ELSE result.versions]
    /\ UNCHANGED <<config, source, watermark, target, quarantine, audit>>

\* reconcile_scd2_batch over the observations, and the state gate.
Reconcile(r) ==
    /\ run[r].step = "reconcile"
    /\ \E failed \in BOOLEAN :
        LET blocked == config.required /\ (failed \/ ~OneCurrentRow(proposed[r]))
            passed == ~HardFailure(r) /\ ~blocked
        IN  run' = [run EXCEPT ![r].step = IF passed THEN "publish" ELSE "audit",
                               ![r].passed = passed]
    /\ UNCHANGED <<config, source, watermark, target, quarantine, audit, proposed>>

\* target.replace: an equal after needs no commit.
Publish(r) ==
    /\ run[r].step = "publish"
    /\ target' = proposed[r]
    /\ run' = [run EXCEPT ![r].step = IF Precedes(run[r].before.position, run[r].after)
                                      THEN "commit" ELSE "audit",
                          ![r].published = TRUE]
    /\ proposed' = [proposed EXCEPT ![r] = {}]
    /\ UNCHANGED <<config, source, watermark, quarantine, audit>>

\* repository.commit_watermark(after, expected_version = the version read)
CommitWatermark(r) ==
    /\ run[r].step = "commit"
    /\ MayCommit(watermark, run[r].after, run[r].before.version)
    /\ watermark' = Committed(watermark, run[r].after)
    /\ Goto(r, "audit")
    /\ UNCHANGED <<config, source, target, quarantine, audit, proposed>>

\* Mutant of CommitConflicts: the conflict is swallowed.
CommitConflictsIgnored(r) ==
    /\ run[r].step = "commit"
    /\ ~MayCommit(watermark, run[r].after, run[r].before.version)
    /\ Goto(r, "audit")
    /\ UNCHANGED <<config, source, watermark, target, quarantine, audit, proposed>>

\* WatermarkConflictError: the target has been replaced all the same.
CommitConflicts(r) ==
    /\ run[r].step = "commit"
    /\ ~MayCommit(watermark, run[r].after, run[r].before.version)
    /\ Goto(r, "raised")
    /\ UNCHANGED <<config, source, watermark, target, quarantine, audit, proposed>>

\* record_dataset_run
Audit(r) ==
    /\ run[r].step = "audit"
    /\ audit' = [audit EXCEPT ![r] = IF run[r].passed THEN "SUCCEEDED" ELSE "FAILED"]
    /\ run' = [run EXCEPT ![r].step = "done"]
    /\ proposed' = [proposed EXCEPT ![r] = {}]
    /\ UNCHANGED <<config, source, watermark, target, quarantine>>

\* The process dies, or a step-audit or control-plane call raises.
Raise(r) ==
    /\ Active(r)
    /\ run' = [run EXCEPT ![r].step = "raised", ![r].snapshot = {}]
    /\ proposed' = [proposed EXCEPT ![r] = {}]
    /\ UNCHANGED <<config, source, watermark, target, quarantine, audit>>

Next ==
    \/ Arrive
    \/ \E r \in Runs :
        \/ Start(r) \/ Capture(r)
        \/ Quarantine(r) \/ QuarantineFails(r)
        \/ Plan(r) \/ Reconcile(r) \/ Publish(r)
        \/ CommitWatermark(r) \/ CommitConflicts(r)
        \/ Audit(r) \/ Raise(r)

Spec == Init /\ [][Next]_vars

-----------------------------------------------------------------------------
(* Properties. *)

\* The target has the row, or one of the same key and time that came after it.
Accounted(row) ==
    \E s \in source :
        /\ s.key = row.key /\ s.value = row.value
        /\ ~Precedes(PositionOf(s), PositionOf(row))
        /\ Reflects(target, s)

\* Serialized runs: a row that no later run will select is in the target's
\* history as of its time, or has quarantine evidence.  Whatever step a run died
\* at, and with rows that appear up to the overlap behind the watermark,
\* plan_watermark_batch leaves nothing behind.
NothingSkipped ==
    \A row \in source :
        config.serialized /\ ~Selectable(row, watermark.position, config.overlap) =>
            \/ Accounted(row)
            \/ config.quality = "quarantine" /\ row \in quarantine

\* Serialized runs: however the rows were cut into batches, reread, or replayed
\* after a crash, the target is the history of the rows published so far, as if
\* apply_scd2 had been given them all at once.
TargetIsReplay ==
    config.serialized =>
        target = HistoryOf(UNION {Accepted(r) : r \in {s \in Runs : run[s].published}})

\* Overlapping runs too: a row that no later run will select was in the accepted
\* rows of a run that replaced the target, or has quarantine evidence.
EveryRowHandedOver ==
    \A row \in source :
        ~Selectable(row, watermark.position, config.overlap) =>
            \/ row \in quarantine
            \/ \E r \in Runs : run[r].published /\ row \in Accepted(r)

\* Whoever published last, the versions of a key follow each other without gap
\* or overlap, differ, and end in exactly one current row.
HistoryIsChain ==
    \A v \in target :
        /\ ~IsCurrent(v) =>
            /\ v.from < v.to
            /\ \E w \in target : w.key = v.key /\ w.from = v.to /\ w.data # v.data
        /\ \A w \in target :
            v.key = w.key /\ v # w =>
                \/ ~IsCurrent(v) /\ v.to <= w.from
                \/ ~IsCurrent(w) /\ w.to <= v.from

\* Overlapping runs too: a run audited SUCCEEDED has its position covered by the
\* committed watermark, now and ever after.
SuccessIsCovered ==
    \A r \in Runs :
        audit[r] = "SUCCEEDED" => ~Precedes(watermark.position, run[r].after)

\* Serialized runs: publishing never rewrites history.  A closed version stays as
\* it is, and a current one stays or is closed.
HistoryPreserved ==
    [][config.serialized =>
        \A v \in target :
            \E w \in target' :
                \/ w = v
                \/ IsCurrent(v) /\ ~IsCurrent(w) /\ w = [v EXCEPT !.to = w.to]]_target

\* The target is sound through crashes, rereads and late rows: it is the replay of
\* what was published, skips nothing the watermark has passed, its versions form
\* chains, and no publication rewrites history (apply_scd2, plan_watermark_batch).
TargetIsSound ==
    [](TargetIsReplay /\ NothingSkipped /\ HistoryIsChain) /\ HistoryPreserved

\* Overlapping runs too: every commit of the watermark is one version and
\* strictly forward.
WatermarkMonotone ==
    [][/\ watermark'.version = watermark.version + 1
       /\ Precedes(watermark.position, watermark'.position)]_watermark
=============================================================================
