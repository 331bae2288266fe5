------------------------------ MODULE CdcStream ------------------------------
(***************************************************************************)
(* One dataset fed by a change stream, end to end: plan the bounded        *)
(* replay from the framework's checkpoint, seek and read the provider,     *)
(* normalize, apply to the target, pass the state-commit gate, commit the  *)
(* checkpoint, then the consumer group's offsets.  One run at a time (the  *)
(* dataset lease); a run may crash between any two of these steps and only *)
(* the target, the checkpoint and the provider survive.                    *)
(*                                                                         *)
(* log is everything the source will ever emit; avail says how much of it  *)
(* exists, earliest what retention still keeps.  Every key stays in its    *)
(* partition.  Nothing expires from a partition before the first           *)
(* checkpoint covers it.                                                   *)
(***************************************************************************)
EXTENDS CdcApply, CdcResume

CONSTANTS Setups,            \* the datasets explored
          MaxVersion,        \* bound on checkpoint versions
          MaxFaults          \* bound on crashes, failed writes, expiries and cursor moves

\* A Delta table is one partition, numbered 0, and a snapshot taken as the base of a
\* stream has an offset in every partition.
ASSUME SetupsAssumption ==
    \A s \in Setups :
        /\ s.provider = "DELTA" => DOMAIN s.log = {0}
        /\ s.boot.used => \A p \in DOMAIN s.log : s.boot.evidence.snapshot[p][1] \in Nat

VARIABLES setup,             \* [provider, strategy, delete_action, policy, log, boot,
                           \*  home, cursor]: cursor is what the group starts with
          avail,             \* items the source has produced, per partition
          earliest,          \* first retained offset, per partition
          group,             \* consumer-group next offsets
          checkpoint,        \* committed CDC checkpoint
          version,           \* its row version
          rows, history,     \* the target: current state or SCD2 versions
          pc, window, batch, \* the run in progress
          gate,              \* StateCommitGate of the run
          error,             \* why the last run was refused
          applied,           \* ghost: highest offset ever applied, per partition
          faults

source == <<avail, earliest>>
target == <<rows, history>>
run == <<pc, window, batch, gate>>
vars == <<setup, avail, earliest, group, checkpoint, version, rows, history,
          pc, window, batch, gate, error, applied, faults>>

log == setup.log
Delta == setup.provider = "DELTA"
Visible == {p \in DOMAIN log : avail[p] > 0}
Latest == [p \in Visible |-> avail[p] - 1]
Earliest == [p \in Visible |-> earliest[p]]
Bootstraps == setup.boot.used /\ checkpoint = NoCheckpoint

NoWindow == [start |-> NoCheckpoint, upper |-> NoCheckpoint, lower |-> NoCheckpoint,
             version |-> 0, seek |-> {}]
NoBatch == [error |-> "", lower |-> NoCheckpoint, upper |-> NoCheckpoint, events |-> <<>>]
NoGate == [target_committed |-> FALSE, reconciliation_passed |-> FALSE]

\* What item says about key k.
Effect(item, k) ==
    IF "op" \in DOMAIN item
    THEN CASE item.key # k \/ item.op = "t" -> Untouched
           [] item.key = k /\ item.op = "d" -> Deleted
           [] OTHER -> item.val
    ELSE IF item.changes[k] = {} THEN Untouched
         ELSE DeltaEvent(0, item, k).val

\* The value key k has in the source after the first n items of its partition.
HomeOf(k) == IF Delta THEN 0 ELSE setup.home[k]
SnapshotOf(p) == IF setup.boot.used THEN setup.boot.evidence.snapshot[p][1] ELSE -1

Touches(k, o, ignored_after) ==
    LET effect == Effect(log[HomeOf(k)][o + 1], k)
    IN effect # Untouched /\ (effect = Deleted => o <= ignored_after)

LastTouch(k, o, ignored_after) ==
    {i \in 0..o : Touches(k, i, ignored_after)
                  /\ \A j \in (i + 1)..o : ~Touches(k, j, ignored_after)}

ValueAt(k, o, ignored_after) ==
    LET last == LastTouch(k, o, ignored_after)
    IN IF last = {} THEN Deleted
       ELSE Effect(log[HomeOf(k)][(CHOOSE i \in last : TRUE) + 1], k)

SourceValue(k, o) == ValueAt(k, o, o)

BootVersion(k, val) ==
    [ n |-> 0, key |-> k, val |-> val, from |-> 0, to |-> OpenEnd, part |-> NoPart,
      pos |-> NoPos, cpart |-> NoPart, cpos |-> NoPos ]

\* The rows an (in)complete snapshot loaded into the target.
SnapshotValue(s, k) ==
    LET e == s.boot.evidence
    IN IF s.boot.used /\ e.complete_snapshot /\ e.snapshot_consistent
       THEN SourceValue(k, e.snapshot[HomeOf(k)][1]) ELSE Deleted

Init ==
    /\ setup \in Setups
    /\ avail = [p \in DOMAIN log |-> IF setup.boot.used THEN SnapshotOf(p) + 1 ELSE 0]
    /\ earliest = [p \in DOMAIN log |->
                     IF setup.boot.used THEN setup.boot.evidence.start[p][1] ELSE 0]
    /\ group = [p \in DOMAIN log |-> setup.cursor]
    /\ checkpoint = NoCheckpoint
    /\ version = 0
    /\ rows = [k \in Keys |->
                 IF setup.strategy = "CURRENT"
                 THEN [Absent EXCEPT !.val = SnapshotValue(setup, k)] ELSE Absent]
    /\ history = IF setup.strategy = "SCD2"
                 THEN {BootVersion(k, SnapshotValue(setup, k)) :
                          k \in {j \in Keys : SnapshotValue(setup, j) # Deleted}}
                 ELSE {}
    /\ pc = "idle" /\ window = NoWindow /\ batch = NoBatch /\ gate = NoGate
    /\ error = ""
    /\ applied = [p \in DOMAIN log |-> SnapshotOf(p)]
    /\ faults = 0

----------------------------------------------------------------------------
Refuse(reason) ==
    /\ error' = reason
    /\ pc' = "idle" /\ window' = NoWindow /\ batch' = NoBatch /\ gate' = NoGate

Fault == faults < MaxFaults /\ faults' = faults + 1

\* The provider produces, expires, and its group cursor moves by itself.
Produce(p) ==
    /\ avail[p] < Len(log[p])
    /\ avail' = [avail EXCEPT ![p] = @ + 1]
    /\ UNCHANGED <<setup, earliest, group, checkpoint, version, rows, history, run,
                   error, applied, faults>>

Expire(p) ==
    /\ Fault
    /\ p \in DOMAIN checkpoint /\ earliest[p] < avail[p]
    /\ earliest' = [earliest EXCEPT ![p] = @ + 1]
    /\ UNCHANGED <<setup, avail, group, checkpoint, version, rows, history, run,
                   error, applied>>

LoseCursor(p) ==
    /\ Fault /\ ~Delta
    /\ group[p] # NoCursor
    /\ group' = [group EXCEPT ![p] = NoCursor]
    /\ UNCHANGED <<setup, source, checkpoint, version, rows, history, run,
                   error, applied>>

\* Planning reads the checkpoint, the provider's evidence and the group's cursors
\* once; which partitions to seek is decided here, before anything is read.
PlanDebezium(upper, allow_new) ==
    /\ pc = "idle" /\ version < MaxVersion /\ ~Delta /\ ~Bootstraps
    /\ LET plan == PlanDebeziumResume(checkpoint, Earliest, Latest, upper, allow_new)
           cursor == CursorError(group, Latest)
       IN IF plan.error # "" THEN Refuse(plan.error)
          ELSE IF cursor # "" THEN Refuse(cursor)
          ELSE /\ window' = [start |-> plan.start, upper |-> plan.upper,
                             lower |-> checkpoint, version |-> version,
                             seek |-> SeekPartitions(group, plan.start)]
               /\ pc' = "planned" /\ error' = ""
               /\ UNCHANGED <<batch, gate>>
    /\ UNCHANGED <<setup, source, group, checkpoint, version, target, applied, faults>>

PlanDelta(upper) ==
    /\ pc = "idle" /\ version < MaxVersion /\ Delta /\ ~Bootstraps
    /\ LET lower == IF checkpoint = NoCheckpoint THEN -1 ELSE checkpoint[0][1]
           plan == PlanDeltaResume(lower, earliest[0], avail[0] - 1, upper)
       IN IF plan.error # "" THEN Refuse(plan.error)
          ELSE /\ window' = [start |-> plan.start, upper |-> plan.upper,
                             lower |-> checkpoint, version |-> version,
                             seek |-> DOMAIN plan.start]
               /\ pc' = "planned" /\ error' = ""
               /\ UNCHANGED <<batch, gate>>
    /\ UNCHANGED <<setup, source, group, checkpoint, version, target, applied, faults>>

\* The first window after a snapshot starts where the stream was buffered.
PlanBootstrap(upper) ==
    /\ pc = "idle" /\ Bootstraps
    /\ LET refusal == BootstrapWindowRefusal(setup.boot.evidence, upper)
       IN IF refusal # "" THEN Refuse(refusal)
          ELSE /\ window' = [start |-> Earliest, upper |-> upper,
                             lower |-> setup.boot.evidence.snapshot, version |-> version,
                             seek |-> DOMAIN upper]
               /\ pc' = "planned" /\ error' = ""
               /\ UNCHANGED <<batch, gate>>
    /\ UNCHANGED <<setup, source, group, checkpoint, version, target, applied, faults>>

\* Records through the frozen upper, normalized.  A partition planned as aligned
\* is not seeked: it is read from the group's cursor as it is now and, if that has
\* been lost since, from where the client resets to, the first retained offset or
\* the end.  The transport claims completeness when every record from the planned
\* start was retained and read; it may deliver earlier retained records again; the
\* client may auto-commit.
Smaller(a, b) == IF a < b THEN a ELSE b

Delivered(from, upper) ==
    UNION {{[part |-> p, offset |-> o, item |-> log[p][o + 1]] : o \in from[p]..upper[p]} :
              p \in DOMAIN upper}

ReadPosition(p, to_end) ==
    CASE p \in window.seek -> window.start[p]
      [] p \notin window.seek /\ group[p] # NoCursor -> group[p]
      [] OTHER -> IF to_end THEN avail[p] ELSE earliest[p]

ReadAndNormalize(overlap, to_end, autocommit) ==
    /\ pc = "planned"
    /\ LET from == [p \in DOMAIN window.upper |->
                       IF overlap THEN Smaller(earliest[p], ReadPosition(p, to_end))
                       ELSE ReadPosition(p, to_end)]
           complete == \A p \in DOMAIN window.upper :
                          earliest[p] <= from[p] /\ from[p] <= window.start[p]
           records == Delivered(from, window.upper)
           normalized == IF Delta
                         THEN NormalizeDelta(records, window.lower, window.upper[0], complete)
                         ELSE NormalizeDebezium(records, window.lower, window.upper,
                                                complete, setup.policy)
       IN /\ IF normalized.error # "" THEN Refuse(normalized.error)
             ELSE /\ batch' = normalized
                  /\ pc' = "normalized"
                  /\ UNCHANGED <<window, gate, error>>
          /\ group' = IF autocommit /\ ~Delta
                      THEN [p \in DOMAIN group |->
                              IF p \in DOMAIN window.upper THEN window.upper[p] + 1
                              ELSE group[p]]
                      ELSE group
    /\ UNCHANGED <<setup, source, checkpoint, version, target, applied, faults>>

\* The batch is applied and the target transaction commits, or it does not.
ApplyBatch ==
    /\ pc = "normalized"
    /\ LET current == ApplyCurrentState(rows, batch, setup.delete_action)
           scd2 == ApplyHistory(history, batch)
           result == IF setup.strategy = "CURRENT" THEN current ELSE scd2
       IN IF result.error # "" THEN Refuse(result.error) /\ UNCHANGED <<target, applied>>
          ELSE /\ pc' = "applied"
               /\ UNCHANGED <<window, batch, error>>
               /\ gate' = [gate EXCEPT !.target_committed = TRUE]
               /\ IF setup.strategy = "CURRENT"
                  THEN rows' = result.rows /\ UNCHANGED history
                  ELSE history' = result.rows /\ UNCHANGED rows
               /\ applied' = [p \in DOMAIN applied |->
                                IF p \in DOMAIN window.upper
                                THEN Bigger(applied[p], window.upper[p]) ELSE applied[p]]
    /\ UNCHANGED <<setup, source, group, checkpoint, version, faults>>

TargetWriteFails ==
    /\ pc = "normalized" /\ Fault
    /\ pc' = "applied"
    /\ gate' = [gate EXCEPT !.target_committed = FALSE]
    /\ UNCHANGED <<setup, source, group, checkpoint, version, target, window, batch,
                   error, applied>>

Reconcile(passed) ==
    /\ pc = "applied"
    /\ passed \/ faults < MaxFaults
    /\ faults' = IF passed THEN faults ELSE faults + 1
    /\ gate' = [gate EXCEPT !.reconciliation_passed = passed]
    /\ pc' = "reconciled"
    /\ UNCHANGED <<setup, source, group, checkpoint, version, target, window, batch,
                   error, applied>>

\* Mutant: the transition does not ask for the gate.
TransitionUngated(before, after, g) ==
    \A p \in DOMAIN before : p \in DOMAIN after /\ AtOrBefore(before[p], after[p])

\* CDCCheckpointTransition
TransitionIsValid(before, after, g) ==
    /\ \A p \in DOMAIN before : p \in DOMAIN after /\ AtOrBefore(before[p], after[p])
    /\ (before = NoCheckpoint \/ after # before) =>
          g.target_committed /\ g.reconciliation_passed

\* commit_cdc_checkpoint: expected version, transition, one transaction.
CommitCheckpoint ==
    /\ pc = "reconciled"
    /\ IF version = window.version /\ TransitionIsValid(checkpoint, batch.upper, gate)
       THEN /\ checkpoint' = batch.upper
            /\ version' = version + 1
            /\ pc' = "checkpointed"
            /\ UNCHANGED <<window, batch, gate, error>>
       ELSE Refuse("gate") /\ UNCHANGED <<checkpoint, version>>
    /\ UNCHANGED <<setup, source, group, target, applied, faults>>

\* commit_next_offsets_after_downstream_success
CommitGroupOffsets ==
    /\ pc = "checkpointed"
    /\ group' = IF Delta THEN group
                ELSE [p \in DOMAIN group |->
                        IF p \in DOMAIN window.upper THEN CommitNextOffsets(window.upper)[p]
                        ELSE group[p]]
    /\ pc' = "idle" /\ window' = NoWindow /\ batch' = NoBatch /\ gate' = NoGate
    /\ UNCHANGED <<setup, source, checkpoint, version, target, error, applied, faults>>

Crash ==
    /\ Fault /\ pc # "idle"
    /\ pc' = "idle" /\ window' = NoWindow /\ batch' = NoBatch /\ gate' = NoGate
    /\ UNCHANGED <<setup, source, group, checkpoint, version, target, error, applied>>

----------------------------------------------------------------------------
\* requested_upper_offsets: every provider partition, nothing beyond the latest
Offsets == UNION {0..(Len(log[p]) - 1) : p \in DOMAIN log}
Uppers == {u \in [Visible -> Offsets] : \A p \in Visible : u[p] <= Latest[p]}

Next ==
    \/ \E p \in DOMAIN log : Produce(p) \/ Expire(p) \/ LoseCursor(p)
    \/ \E upper \in Uppers, allow_new \in BOOLEAN : PlanDebezium(upper, allow_new)
    \/ \E upper \in Offsets : PlanDelta(upper)
    \/ \E upper \in Uppers : PlanBootstrap(upper)
    \/ \E overlap, to_end, autocommit \in BOOLEAN :
          ReadAndNormalize(overlap, to_end, autocommit)
    \/ ApplyBatch \/ TargetWriteFails
    \/ \E passed \in BOOLEAN : Reconcile(passed)
    \/ CommitCheckpoint \/ CommitGroupOffsets \/ Crash

Spec == Init /\ [][Next]_vars

----------------------------------------------------------------------------
Covered(p) == IF p \in DOMAIN checkpoint THEN checkpoint[p][1] ELSE SnapshotOf(p)

\* Nothing was applied that the checkpoint does not cover.
Settled == \A p \in DOMAIN log : applied[p] <= Covered(p)

Positions(p) == IF Delta THEN {<<o, MaxRowSequence>> : o \in 0..(Len(log[p]) - 1)}
                ELSE {<<o>> : o \in 0..(Len(log[p]) - 1)}

\* The variables keep their shapes: checkpoints hold positions of the log with
\* the provider's arity, and SCD2 keeps at most one current version per key.
TypeOK ==
    /\ pc \in {"idle", "planned", "normalized", "applied", "reconciled", "checkpointed"}
    /\ DOMAIN checkpoint \subseteq DOMAIN log
    /\ \A p \in DOMAIN checkpoint : checkpoint[p] \in Positions(p)
    /\ version \in Nat
    /\ \A k \in Keys : rows[k].val \in Vals \cup {Deleted}
    /\ \A k \in Keys : Cardinality(CurrentOf(history, k)) <= 1
    /\ \A p \in DOMAIN log : earliest[p] \in Nat /\ group[p] \in Nat \cup {NoCursor}

\* Whatever crashed, expired, was delivered twice or was read through a cursor
\* that had moved on: once the checkpoint covers all that was ever applied, a
\* current-state target holds exactly the source's values at the checkpoint
\* (with delete_action IGNORE, the last value before the ignored deletes).
CurrentIsReplay ==
    setup.strategy = "CURRENT" /\ Settled =>
        \A k \in Keys :
            LET p == HomeOf(k)
                o == Covered(p)
                ignored_after == IF setup.delete_action = "IGNORE" THEN SnapshotOf(p) ELSE o
            IN setup.boot.evidence.complete_snapshot =>
                 rows[k].val = ValueAt(k, o, ignored_after)

\* The versions an SCD2 target must hold: one per maximal stretch of items that
\* leave a key at one value, from the item that set it to the one that ended it.
PointValue(k, o) == IF o = SnapshotOf(HomeOf(k)) THEN SourceValue(k, o)
                    ELSE Effect(log[HomeOf(k)][o + 1], k)
PointTime(k, o) == IF o = SnapshotOf(HomeOf(k)) THEN 0 ELSE log[HomeOf(k)][o + 1].time

ExpectedVersions(k) ==
    LET base == SnapshotOf(HomeOf(k))
        points == {o \in (IF base < 0 THEN 0 ELSE base)..Covered(HomeOf(k)) :
                      PointValue(k, o) # Untouched}
        Before(o) == LET earlier == {i \in points : i < o}
                     IN IF earlier = {} THEN Deleted
                        ELSE PointValue(k, CHOOSE i \in earlier : \A j \in earlier : j <= i)
        Ends(o) == {i \in points : i > o /\ PointValue(k, i) # PointValue(k, o)}
        starts == {o \in points : PointValue(k, o) # Deleted /\ Before(o) # PointValue(k, o)}
    IN {[ val |-> PointValue(k, o), from |-> PointTime(k, o),
          to |-> IF Ends(o) = {} THEN OpenEnd
                 ELSE PointTime(k, CHOOSE i \in Ends(o) : \A j \in Ends(o) : i <= j) ] :
          o \in starts}

\* The same for SCD2: no replay resurrects a deleted key, repeats a version or
\* shifts an interval; the history is the one the source's changes spell out.
HistoryIsReplay ==
    setup.strategy = "SCD2" /\ Settled =>
        \A k \in Keys :
            setup.boot.evidence.complete_snapshot =>
              LET held == {r \in history : r.key = k}
              IN /\ {[val |-> r.val, from |-> r.from, to |-> r.to] : r \in held}
                       = ExpectedVersions(k)
                 /\ Cardinality(held) = Cardinality(ExpectedVersions(k))

\* A partition's checkpoint never passes what reached the target, although the
\* provider's own cursor may: progress is written after the target, behind the gate.
CheckpointFollowsTarget ==
    \A p \in DOMAIN checkpoint : checkpoint[p][1] <= applied[p]

\* A replay after a crash meets its own rows and never takes them for a conflict,
\* an unordered baseline or a moved key: the stream cannot block itself.
ReplayNeverConflicts == error \notin {"conflict", "unordered", "moved", "window", "range"}

\* Whatever the strategy, the target is the replay of the source up to the
\* checkpoint.
TargetIsReplay == CurrentIsReplay /\ HistoryIsReplay

\* The checkpoint never passes the target, is never lost, loses no partition and
\* never regresses, over any sequence of runs with any requested upper offsets.
CheckpointIsSound ==
    [][/\ CheckpointFollowsTarget'
       /\ \A p \in DOMAIN checkpoint :
             p \in DOMAIN checkpoint' /\ AtOrBefore(checkpoint[p], checkpoint'[p])]_vars
=============================================================================
