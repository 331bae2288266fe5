----------------------- MODULE ControlPlaneCertification -----------------------
(***************************************************************************)
(* The control-plane database as the certification meets it:               *)
(* apply_baseline_schema (control_plane/schema.py) and                     *)
(* certify_control_plane_backend (control_plane/certification.py).         *)
(*                                                                         *)
(* A database is a record                                                  *)
(*   tables    0: no history table, else the schema version whose tables   *)
(*             are all present,                                            *)
(*   version   the highest migration recorded (migrations are recorded in  *)
(*             order, so it stands for the whole history),                 *)
(*   dialect   of its engine,                                              *)
(*   rollsBack whether ROLLBACK removes what the transaction wrote,        *)
(*   cas       whether an UPDATE with a stale expected version is refused, *)
(*   deployed  the input bundle whose dataset configs it serves,           *)
(*   projection, checkpoint   the deployed current-projection mode and     *)
(*             whether a CDC checkpoint is stored under it.                *)
(* The certifier has to find rollsBack and cas out by its probes.          *)
(***************************************************************************)
EXTENDS Naturals

RequiredVersion == 8     \* CONTROL_PLANE_SCHEMA_VERSION
CreateAllBelow == 7      \* older installations are completed by create_all

HasHistory(db) == db.tables > 0

\* First half of apply_baseline_schema: a new or old database gets all tables.
CreateAll(db) ==
    IF ~HasHistory(db) \/ db.version < CreateAllBelow
    THEN [db EXCEPT !.tables = RequiredVersion]
    ELSE db

\* Second half, one transaction: the pending migrations and their records.
RecordMigrations(db) ==
    IF db.version < RequiredVersion
    THEN [db EXCEPT !.version = RequiredVersion, !.tables = RequiredVersion]
    ELSE db

\* A newer schema is refused at once; a database that claims the latest
\* version without its tables is refused after the fact.
MigrationRaises(db) ==
    \/ db.version > RequiredVersion
    \/ RecordMigrations(CreateAll(db)).tables < RequiredVersion

Migrate(db) == IF db.version > RequiredVersion THEN db ELSE RecordMigrations(CreateAll(db))

\* materialize_semantic_metadata: the mode of a data set may not enter or
\* leave DELTA_PROJECTION under a runtime checkpoint.
DeployRaises(db, projection) ==
    db.checkpoint /\ (db.projection = "delta") # (projection = "delta")

\* One transaction: every definition replaced, runtime state kept, data sets
\* that are not in the snapshot disabled.
Deploy(db, hash, projection) == [db EXCEPT !.deployed = hash, !.projection = projection]

-----------------------------------------------------------------------------
Profiles == {"sqlite_reference_v1", "fabric_sql_database_v1"}
ProductionEligible(profile) == profile = "fabric_sql_database_v1"
AllowedDialects(profile) == IF ProductionEligible(profile) THEN {"mssql"} ELSE {"sqlite"}

ExternalFields == {"service_identity", "access_control", "network_security",
                   "backup_restore", "availability", "monitoring", "retention"}

ExternalComplete(evidence) == evidence = ExternalFields

Verdict(ok) == IF ok THEN "PASS" ELSE "FAIL"

StaticChecks(db, profile) ==
    [dialect_profile |-> Verdict(db.dialect \in AllowedDialects(profile)),
     schema_version |-> Verdict(db.version = RequiredVersion),
     required_tables |-> Verdict(db.tables >= RequiredVersion),
     migration_history |-> Verdict(1..RequiredVersion \subseteq 1..db.version)]

\* A write that expects one version of a row and finds another.
VersionConflict(db, expected, found) == db.cas /\ expected # found

\* A row inserted and rolled back must be gone.
TransactionRollbackProbe(db) == db.rollsBack

\* Claim (version 1), UNKNOWN (version 2), then a success that still expects
\* version 1 must be refused and the reconciliation that expects 2 accepted.
TargetOperationCasProbe(db) ==
    /\ VersionConflict(db, 1, 2)
    /\ ~VersionConflict(db, 2, 2)

\* Checkpoints 1 and 2, then a third one that still expects version 1.
CdcCheckpointCasProbe(db) ==
    /\ ~VersionConflict(db, 0, 0)
    /\ ~VersionConflict(db, 1, 1)
    /\ VersionConflict(db, 1, 2)

\* The probe rows are deleted in a finally block; a failing delete fails the probe.
RunProbe(ok, cleaned) == Verdict(ok /\ cleaned)

Probes(db, profile, cleaned) ==
    LET static == StaticChecks(db, profile)
        run(verdict) == IF \A c \in DOMAIN static : static[c] = "PASS"
                        THEN verdict ELSE "NOT_RUN"
    IN [transaction_rollback |-> run(Verdict(TransactionRollbackProbe(db))),
        target_operation_cas |-> run(RunProbe(TargetOperationCasProbe(db), cleaned)),
        cdc_checkpoint_cas |-> run(RunProbe(CdcCheckpointCasProbe(db), cleaned))]

Report(db, profile, evidence, cleaned) ==
    [static |-> StaticChecks(db, profile),
     probes |-> Probes(db, profile, cleaned),
     external |-> [f \in ExternalFields |->
                       IF ProductionEligible(profile) /\ f \in evidence
                       THEN "PASS" ELSE "EXTERNAL_REQUIRED"]]

\* automated_checks_passed and conformance_passed: an EXTERNAL_REQUIRED check
\* is left out, a probe that did not run is not.
ReferenceCertified(report) ==
    /\ \A c \in DOMAIN report.static : report.static[c] = "PASS"
    /\ \A c \in DOMAIN report.probes : report.probes[c] = "PASS"

ProductionCertified(report, profile) ==
    /\ ProductionEligible(profile)
    /\ ReferenceCertified(report)
    /\ \A f \in ExternalFields : report.external[f] = "PASS"
=============================================================================
