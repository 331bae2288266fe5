----------------------------- MODULE BatchApply -----------------------------
(***************************************************************************)
(* The batch apply algorithms: apply/append.py, apply/replace.py and       *)
(* apply/snapshot_diff.py.  Each plans a new target without touching the   *)
(* live one, or refuses.  A row is [key, data]; a target is a sequence of  *)
(* rows.  policy is the guard policy of the strategy, fractions in         *)
(* percent, and policy.view the part of a row's data that is compared (the *)
(* tracked columns).                                                       *)
(***************************************************************************)
EXTENDS Integers, FiniteSets, Sequences, SequencesExt

CONSTANTS NullKey,       \* a null identity or merge key
          NoLimit        \* max_..._fraction is not configured

KeysOf(rows) == {row.key : row \in ToSet(rows)}

Refused == [ok |-> FALSE]

Planned(rows, inserted, updated, deleted, replayed, duplicates) ==
    [ok |-> TRUE, rows |-> rows, inserted |-> inserted, updated |-> updated,
     deleted |-> deleted, replayed |-> replayed, duplicates |-> duplicates]

RepeatsKey(rows) == Cardinality(KeysOf(rows)) # Len(rows)

\* Two different payloads under one identity.
Conflict(rows) == \E x, y \in rows : x.key = y.key /\ x.data # y.data

FirstOccurrences(rows) ==
    FoldLeft(LAMBDA seen, row : IF row \in ToSet(seen) THEN seen ELSE Append(seen, row),
             <<>>, rows)

\* apply_append: new identities are appended in arrival order, exact repeats
\* are collapsed or replayed, and any conflict or null identity refuses all.
ApplyAppend(existing, incoming) ==
    LET unique == FirstOccurrences(incoming)
        fresh == SelectSeq(unique, LAMBDA row : row.key \notin KeysOf(existing))
    IN  IF \/ NullKey \in KeysOf(existing) \cup KeysOf(incoming)
           \/ RepeatsKey(existing)
           \/ Conflict(ToSet(existing) \cup ToSet(incoming))
        THEN Refused
        ELSE Planned(existing \o fresh, Len(fresh), 0, 0, Len(unique) - Len(fresh),
                     Len(incoming) - Len(unique))

Exceeds(part, whole, percent) == percent # NoLimit /\ 100 * part > percent * whole

\* A mutant: only an empty source is refused, not an empty candidate.
ReplaceRefusedOnSource(before, candidate, evidence, policy) ==
    \/ policy.requireComplete /\ ~evidence.complete
    \/ before > 0 /\ evidence.count = 0 /\ ~policy.allowEmptySource
    \/ candidate < before /\ Exceeds(before - candidate, before, policy.maxDrop)

\* The guards of plan_replace.
ReplaceRefused(before, candidate, evidence, policy) ==
    \/ policy.requireComplete /\ ~evidence.complete
    \/ before > 0 /\ evidence.count = 0 /\ ~policy.allowEmptySource
    \/ before > 0 /\ candidate = 0 /\ ~policy.allowEmptyCandidate
    \/ candidate < before /\ Exceeds(before - candidate, before, policy.maxDrop)

\* plan_replace: what would empty or shrink a live target is refused.
PlanReplace(current, staged, evidence, policy) ==
    IF ReplaceRefused(Len(current), Len(staged), evidence, policy)
    THEN Refused
    ELSE Planned(staged, Len(staged), 0, Len(current), 0, 0)

RowOf(rows, k) == CHOOSE row \in ToSet(rows) : row.key = k

\* What stops the propagation of deletes.
DeletesRefused(old, deleted, quarantined, policy) ==
    \/ quarantined > 0 /\ ~policy.allowDeleteWithQuarantine
    \/ old # {} /\ deleted = old /\ ~policy.allowDeleteAll
    \/ Exceeds(Cardinality(deleted), Cardinality(old), policy.maxDelete)

\* plan_snapshot_diff: a key missing from the source is deleted only when
\* deletes are propagated, and then only within the configured limits.
PlanSnapshotDiff(current, candidate, evidence, quarantined, policy) ==
    LET old == KeysOf(current)
        new == KeysOf(candidate)
        updated == {k \in old \cap new :
                       policy.view[RowOf(current, k).data] # policy.view[RowOf(candidate, k).data]}
        deleted == IF policy.propagateDeletes THEN old \ new ELSE {}
        kept == {row \in ToSet(current) : row.key \notin new \cup deleted}
    IN  IF \/ policy.requireComplete /\ ~evidence.complete
           \/ NullKey \in old \cup new
           \/ RepeatsKey(current) \/ RepeatsKey(candidate)
           \/ policy.propagateDeletes /\ DeletesRefused(old, deleted, quarantined, policy)
        THEN Refused
        ELSE Planned(SetToSeq(ToSet(candidate) \cup kept), Cardinality(new \ old),
                     Cardinality(updated), Cardinality(deleted), 0, 0)
=============================================================================
