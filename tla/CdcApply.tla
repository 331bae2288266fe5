------------------------------ MODULE CdcApply ------------------------------
(***************************************************************************)
(* Semantic apply of a normalized CDC batch: current state (apply/cdc.py)  *)
(* and SCD2 history (apply/cdc_scd2.py).  Payloads are full rows reduced   *)
(* to one value.  A row that no CDC event has touched has part = NoPart.   *)
(***************************************************************************)
EXTENDS CdcNormalize

NoPart == -1
NoPos == <<>>
Absent == [val |-> Deleted, part |-> NoPart, pos |-> NoPos]
OpenEnd == 0                 \* valid_to of a current version

\* _assert_event_newer_than_target: STALE, EQUAL, NEWER or an ordering error.
OrderAgainst(part, pos, e, lower) ==
    IF part = NoPart
    THEN IF e.part \in DOMAIN lower /\ SourceOrder(e.pos, lower[e.part]) = "NEWER"
         THEN "NEWER" ELSE "unordered"
    ELSE IF part # e.part THEN "moved"
    ELSE SourceOrder(e.pos, pos)

Relations == {"STALE", "EQUAL", "NEWER"}

Raise(st, error) == [st EXCEPT !.error = error]

\* apply_cdc_current_state, one event; st = [rows, error].
ApplyCurrentEvent(st, e, lower, delete_action) ==
    LET row == st.rows[e.key]
        exists == row # Absent
        order == IF exists THEN OrderAgainst(row.part, row.pos, e, lower) ELSE "NEWER"
        candidate == [val |-> e.val, part |-> e.part, pos |-> e.pos]
        Put(r) == [st EXCEPT !.rows[e.key] = r]
    IN IF st.error # "" THEN st
       ELSE IF order \notin Relations THEN Raise(st, order)
       ELSE IF order = "STALE" THEN st
       ELSE IF e.op = "DELETE"
       THEN CASE delete_action = "IGNORE" -> st
              [] delete_action = "ERROR" -> Raise(st, "delete")
              [] delete_action = "APPLY" /\ ~exists -> st
              [] delete_action = "APPLY" /\ exists ->
                    IF order = "EQUAL" THEN Raise(st, "conflict") ELSE Put(Absent)
       ELSE IF exists /\ order = "EQUAL"
       THEN IF candidate = row THEN st ELSE Raise(st, "conflict")
       ELSE Put(candidate)

ApplyCurrentState(rows, batch, delete_action) ==
    LET st[n \in 0..Len(batch.events)] ==
            IF n = 0 THEN [rows |-> rows, error |-> ""]
            ELSE ApplyCurrentEvent(st[n - 1], batch.events[n], batch.lower, delete_action)
    IN st[Len(batch.events)]

----------------------------------------------------------------------------
\* SCD2 versions: [n, key, val, from, to, part, pos, cpart, cpos]; n tells equal
\* rows of the list apart, to = OpenEnd while current, cpart and cpos say which
\* event closed it.

CurrentOf(rows, k) == {r \in rows : r.key = k /\ r.to = OpenEnd}

ClosedWithEvidence(rows, k) == {r \in rows : r.key = k /\ r.cpart # NoPart}

\* _latest_closed_row
LatestClosed(rows, k) ==
    CHOOSE r \in ClosedWithEvidence(rows, k) :
        \A s \in ClosedWithEvidence(rows, k) : AtOrBefore(s.cpos, r.cpos)

ClosedSpansPartitions(rows, k) ==
    \E r, s \in ClosedWithEvidence(rows, k) : r.cpart # s.cpart

\* Mutant: the positions that closed earlier versions are not consulted.
ForgetClosed(rows, e, lower) == "NEWER"

\* _ordering_when_current_absent: a key without history is simply new.
OrderWhenAbsent(rows, e, lower) ==
    IF {r \in rows : r.key = e.key} = {} THEN "NEWER"
    ELSE IF ClosedWithEvidence(rows, e.key) = {}
    THEN OrderAgainst(NoPart, NoPos, e, lower)
    ELSE IF ClosedSpansPartitions(rows, e.key) THEN "moved"
    ELSE LET c == LatestClosed(rows, e.key) IN OrderAgainst(c.cpart, c.cpos, e, lower)

\* _close_current
CloseCurrent(r, e) == [r EXCEPT !.to = e.time, !.cpart = e.part, !.cpos = e.pos]

OpenVersion(rows, e) ==
    [ n |-> Cardinality({r \in rows : r.key = e.key}), key |-> e.key, val |-> e.val, from |-> e.time, to |-> OpenEnd,
      part |-> e.part, pos |-> e.pos, cpart |-> NoPart, cpos |-> NoPos ]

\* _assert_reinsert_valid_time
ReinsertTooEarly(rows, e) ==
    /\ ClosedWithEvidence(rows, e.key) # {}
    /\ EventTime(e.time, LatestClosed(rows, e.key).to) = "EARLIER"

\* apply_cdc_scd2, one event; the business key has a current version r.
ApplyToCurrentVersion(st, e, r, lower) ==
    LET order == OrderAgainst(r.part, r.pos, e, lower)
        late == EventTime(e.time, r.from) = "EARLIER"
        Rows(S) == [st EXCEPT !.rows = (st.rows \ {r}) \cup S]
    IN IF order \notin Relations THEN Raise(st, order)
       ELSE IF order = "STALE" THEN st
       ELSE IF e.op = "DELETE"
       THEN IF order = "EQUAL" THEN Raise(st, "conflict")
            ELSE IF late THEN Raise(st, "late") ELSE Rows({CloseCurrent(r, e)})
       ELSE IF order = "EQUAL"
       THEN IF e.val = r.val THEN st ELSE Raise(st, "conflict")
       ELSE IF e.val = r.val
       THEN Rows({[r EXCEPT !.part = e.part, !.pos = e.pos]})
       ELSE IF late THEN Raise(st, "late")
       ELSE Rows({CloseCurrent(r, e), OpenVersion(st.rows, e)})

\* The same when no version of the key is current.
ApplyWithoutCurrent(st, e, lower) ==
    LET order == OrderWhenAbsent(st.rows, e, lower)
    IN IF order \notin Relations THEN Raise(st, order)
       ELSE IF order # "NEWER" \/ e.op = "DELETE" THEN st
       ELSE IF ReinsertTooEarly(st.rows, e) THEN Raise(st, "late")
       ELSE [st EXCEPT !.rows = @ \cup {OpenVersion(st.rows, e)}]

ApplyHistory(rows, batch) ==
    LET st[n \in 0..Len(batch.events)] ==
            IF n = 0 THEN [rows |-> rows, error |-> ""]
            ELSE LET e == batch.events[n]
                     current == CurrentOf(st[n - 1].rows, e.key)
                 IN IF st[n - 1].error # "" THEN st[n - 1]
                    ELSE IF current # {}
                    THEN ApplyToCurrentVersion(st[n - 1], e,
                                               CHOOSE r \in current : TRUE, batch.lower)
                    ELSE ApplyWithoutCurrent(st[n - 1], e, batch.lower)
    IN st[Len(batch.events)]
=============================================================================
