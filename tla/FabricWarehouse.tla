--------------------------- MODULE FabricWarehouse ---------------------------
(***************************************************************************)
(* The Fabric Warehouse target as recovery/fabric_warehouse.py and         *)
(* recovery/fabric_warehouse_session_absence.py see it: one session per    *)
(* attempt, whose transaction holds the business mutation and the marker   *)
(* row; the committed marker rows; and KILL by numeric session id.         *)
(*                                                                         *)
(* The Warehouse itself is not part of the repository; it is modelled from *)
(* what the code relies on: a transaction commits its mutation and its     *)
(* marker together or not at all, marker uniqueness is NOT enforced, a     *)
(* marker read sees committed rows only, KILL ends a session by rolling    *)
(* back unless its COMMIT wins the race, and a closed session's number may *)
(* be given to a new session.                                              *)
(***************************************************************************)
EXTENDS Integers, OperationIdentity

CONSTANT Sids           \* the numeric session ids the Warehouse hands out

ASSUME SidsAssumption == Sids \subseteq Nat \ {0}

VARIABLES session,      \* Runs -> state of the run's target session
          sid,          \* Runs -> session id of the run's session, 0 before it opens one
          sent,         \* runs whose client sent COMMIT
          markers,      \* Ops -> runs whose marker row is committed
          applied       \* Ops -> number of committed business mutations

warehouseVars == <<session, sid, sent, markers, applied>>

\* "open": transaction in progress.  "idle": connected, no open transaction.
\* "killed": rolling back after KILL, still listed.  "closed": gone.
SessionStates == {"none", "open", "idle", "killed", "closed"}

\* A row of sys.dm_exec_sessions joined with its connection exists.
Observable(r) == session[r] \in {"open", "idle", "killed"}

\* open_transaction_count >= 1.
HasOpenTransaction(r) == session[r] \in {"open", "killed"}

WarehouseInit ==
    /\ session = [r \in Runs |-> "none"]
    /\ sid = [r \in Runs |-> 0]
    /\ sent = {}
    /\ markers = [o \in Ops |-> {}]
    /\ applied = [o \in Ops |-> 0]

\* engine.begin(): a new connection gets a number no listed session holds.
OpenSession(r) ==
    \E s \in Sids :
        /\ \A q \in Runs : Observable(q) => sid[q] # s
        /\ sid' = [sid EXCEPT ![r] = s]
        /\ session' = [session EXCEPT ![r] = "open"]
        /\ UNCHANGED <<sent, markers, applied>>

\* The server completes a COMMIT it has received: mutation and marker at once.
\* The client may have lost the connection, or died, long before, and a COMMIT
\* under way may win over a KILL.
ServerCommit(r) ==
    /\ HasOpenTransaction(r) /\ r \in sent
    /\ session' = [session EXCEPT ![r] = IF @ = "open" THEN "idle" ELSE "closed"]
    /\ markers' = [markers EXCEPT ![KeyOf[r]] = @ \cup {r}]
    /\ applied' = [applied EXCEPT ![KeyOf[r]] = @ + 1]
    /\ UNCHANGED <<sid, sent>>

\* The connection ends and what was not committed rolls back: the server
\* noticed a lost client, the pool disposed of it, or a KILL completed.
SessionEnds(r) ==
    /\ Observable(r)
    /\ session' = [session EXCEPT ![r] = "closed"]
    /\ UNCHANGED <<sid, sent, markers, applied>>

\* The client rolls its own transaction back and keeps the connection.
ClientRollback(r) ==
    /\ session' = [session EXCEPT ![r] = IF @ = "open" THEN "idle" ELSE @]
    /\ UNCHANGED <<sid, sent, markers, applied>>

\* The sessions a KILL of number s reaches (at most one, as numbers of listed
\* sessions are distinct).
KillTargets(s) == {q \in Runs : Observable(q) /\ sid[q] = s}

\* KILL <session_id>: an open transaction starts to roll back.
KillSession(s) ==
    /\ KillTargets(s) # {}
    /\ session' = [q \in Runs |->
          IF q \in KillTargets(s)
            THEN IF HasOpenTransaction(q) THEN "killed" ELSE "closed"
            ELSE session[q]]
    /\ UNCHANGED <<sid, sent, markers, applied>>

WarehouseTypeOK ==
    /\ session \in [Runs -> SessionStates]
    /\ sid \in [Runs -> Sids \cup {0}]
    /\ sent \subseteq Runs
    /\ markers \in [Ops -> SUBSET Runs]
    /\ applied \in [Ops -> Nat]

=============================================================================
