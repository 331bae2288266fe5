-------------------------- MODULE UnifiedCertification --------------------------
(***************************************************************************)
(* The unified certification of a release candidate                        *)
(* (certification/installed.py, simple.py, bounded.py, unified_stages.py), *)
(* the approved integration checks and business paths it runs, and the     *)
(* release decision taken over what it retained.                           *)
(*                                                                         *)
(* One certification runs at a time, stage after stage; every provider     *)
(* call, database probe, driver call and file write of it may fail, at     *)
(* most MaxFaults times in a behaviour, and the process may die anywhere.  *)
(* Whatever was written stays and can be merged with the evidence of a     *)
(* later run.  `truth` records what really happened, independently of      *)
(* what any result says.                                                   *)
(***************************************************************************)
EXTENDS ControlPlaneCertification, ReleaseReadiness, BusinessPaths

CONSTANTS Wheels,        \* candidate wheels, by SHA256
          Hashes,        \* integration-input bundles, by hash
          Requests,      \* certification calls an operator may make
          Databases,     \* control-plane databases that may be found
          MaxRuns,       \* bound on certification runs
          MaxFaults      \* bound on failures and deviations

Grants == {"migration", "writes", "pipeline", "capture", "warehouse", "fault",
           "terminate", "business", "scenario"}

Bundles == [hash : Hashes, wheel : Wheels,
            config : [wheel : Wheels, inputs : Hashes, bindings : SUBSET FabricItemKinds],
            releaseWheel : Wheels, environ : SUBSET {"token", "control", "warehouse", "admin"},
            profile : Profiles \cup {None}, external : SUBSET ExternalFields,
            blockers : SUBSET {"external", "controller"}, recovery : BOOLEAN,
            unfit : SUBSET (CheckIds \cup BusinessGates \cup {"configs"}), copyRecipe : CheckIds,
            projection : {"delta", "other"}]

ASSUME RequestsAssumption ==
    \A q \in Requests :
        /\ q.entry \in {"installed", "direct"}
        /\ {q.wheel, q.installed, q.manifestWheel} \subseteq Wheels
        /\ q.broken \subseteq {"acceptance", "probes"}
        /\ q.flags \subseteq Grants \cup {"live"}
        /\ q.bundle = None \/ q.bundle \in Bundles

ASSUME BoundsAssumption == MaxRuns \in Nat /\ MaxFaults \in Nat

VARIABLES runs,      \* the certification calls made so far
          c,         \* the running certification's own state
          world,     \* the data set of the gate under way
          db,        \* the control-plane database
          shelf,     \* manifests written to disk: [run, key, manifest]
          proofs,    \* business-path proof bundles written to disk
          truth,     \* <<run, check>>: what really held
          calls,     \* <<run, call>>: state-changing provider calls made
          issued,    \* certification reports
          releases,  \* candidates certified for release
          faults     \* failures so far

vars == <<runs, c, world, db, shelf, proofs, truth, calls, issued, releases, faults>>

retained == <<shelf, proofs, issued, releases>>

NoStates == [before |-> Baseline, first |-> Baseline, final |-> Baseline]

Idle == [pc |-> "idle", checks |-> <<>>, blockers |-> {}, partials |-> <<>>,
         base |-> None, manifest |-> None, gate |-> 1, step |-> 1, seen |-> NoStates,
         reports |-> <<>>, parents |-> <<>>, raised |-> FALSE, quiet |-> TRUE,
         real |-> FALSE, made |-> {}]

Init ==
    /\ runs = <<>>
    /\ c = Idle
    /\ world = [state |-> Baseline, pending |-> FALSE, landings |-> 0]
    /\ db \in Databases
    /\ shelf = {} /\ proofs = {} /\ truth = {} /\ calls = {}
    /\ issued = {} /\ releases = {} /\ faults = 0

Run == Len(runs)
Req == runs[Run]
Bundle == Req.bundle
Environ == Bundle.environ
Spec0 == [wheel |-> Req.wheel, inputs |-> Bundle.hash]

\* simple.certify spreads one live-mutation flag over the authorizations.
Authorizations(q) ==
    IF q.entry = "direct" THEN q.flags
    ELSE (q.flags \cap {"migration", "terminate"}) \cup
         (IF "live" \in q.flags THEN Grants \ {"migration", "terminate"} ELSE {})

Allowed(g) == g \in Authorizations(Req)

Budget == MaxFaults - faults
Cost(n) == n <= Budget /\ faults' = faults + n
Costs(ok) == IF ok THEN 0 ELSE 1

Goes(pc) == c' = [c EXCEPT !.pc = pc]

\* The call returns or raises: nothing of its own state survives.
Ends == c' = Idle

\* A dict after dict[key] = value.
Put(dict, key, value) ==
    [k \in DOMAIN dict \cup {key} |-> IF k = key THEN value ELSE dict[k]]

Noted(checks, check, status) == Put(checks, check, status)

AppendNotRun(checks, names) ==
    [n \in DOMAIN checks \cup names |-> IF n \in DOMAIN checks THEN checks[n] ELSE "NOT_RUN"]

Called(names) == calls' = calls \cup {<<Run, n>> : n \in names}

Witness(check, real) == truth' = IF real THEN truth \cup {<<Run, check>>} ELSE truth

-----------------------------------------------------------------------------
(* Entry: certify_installed, simple.certify and the bounded checks.        *)

Start(q) ==
    /\ c.pc = "idle" /\ Run < MaxRuns /\ releases = {}
    /\ runs' = Append(runs, q)
    /\ c' = [Idle EXCEPT !.pc = IF q.entry = "installed" THEN "attest" ELSE "bounded"]
    /\ UNCHANGED <<world, db, truth, calls, faults, retained>>

\* The bytes of the installed package are compared with the wheel's; then its own
\* semantic acceptance runs and raises if the package breaks its contracts.
Attest ==
    /\ c.pc = "attest"
    /\ IF Req.installed # Req.wheel \/ "acceptance" \in Req.broken THEN Ends
       ELSE Goes(IF Bundle # None /\ {"live", "migration"} \subseteq Req.flags
                 THEN "bootstrap" ELSE "bounded")
    /\ UNCHANGED <<runs, world, db, truth, calls, faults, retained>>

\* identity_probe of run_bounded_certification: the wheel against its manifest; of
\* what is installed only the version is compared.
IdentityExact == Req.wheel = Req.manifestWheel

\* The five probes of the package's own semantics: a function of the package.
SemanticsHold == "probes" \notin Req.broken

\* _bootstrap_control_plane_after_bounded_preflight.
Bootstrap ==
    /\ c.pc = "bootstrap"
    /\ \E smoke \in BOOLEAN :
        /\ Cost(Costs(smoke))
        /\ IF ~IdentityExact \/ ~smoke \/ ~SemanticsHold
           THEN Goes("bounded") /\ UNCHANGED <<db, calls>>
           ELSE IF Bundle.wheel # Req.wheel
           THEN Ends /\ UNCHANGED <<db, calls>>
           ELSE IF "control" \notin Environ \/ Bundle.profile = None
           THEN Goes("bounded") /\ UNCHANGED <<db, calls>>
           ELSE /\ Called({"migration"})
                /\ db' = IF MigrationRaises(db) \/ DeployRaises(db, Bundle.projection)
                         THEN Migrate(db)
                         ELSE Deploy(Migrate(db), Bundle.hash, Bundle.projection)
                /\ IF \/ MigrationRaises(db)
                      \/ DeployRaises(db, Bundle.projection)
                      \/ "configs" \in Bundle.unfit
                   THEN Ends ELSE Goes("bounded")
    /\ UNCHANGED <<runs, world, truth, retained>>

Bounded ==
    /\ c.pc = "bounded"
    /\ \E smoke \in BOOLEAN :
        /\ Cost(Costs(smoke))
        /\ smoke \/ IdentityExact
        /\ Witness("bounded", IdentityExact /\ smoke /\ SemanticsHold)
        /\ c' = [c EXCEPT !.pc = "load",
                     !.checks = [identity |-> Verdict(IdentityExact),
                                 smoke |-> IF IdentityExact THEN Verdict(smoke) ELSE "NOT_RUN",
                                 semantics |-> IF IdentityExact THEN Verdict(SemanticsHold)
                                               ELSE "NOT_RUN"]]
    /\ UNCHANGED <<runs, world, db, calls, retained>>

\* The check business.<gate> goes by the name of its gate.
BusinessChecks == {Gates[i] : i \in 1..Len(Gates)}
LiveChecks == RequiredChecks \cup BusinessChecks

\* preintegration_outcome.
Preintegration ==
    /\ c.pc = "load"
    /\ Bundle = None \/ \E n \in DOMAIN c.checks : c.checks[n] = "FAIL"
    /\ c' = [c EXCEPT !.pc = "report", !.checks = AppendNotRun(@, LiveChecks),
                 !.blockers = {"preintegration"}]
    /\ UNCHANGED <<runs, world, db, truth, calls, faults, retained>>

LoadRaises(q) ==
    \/ q.bundle.wheel # q.wheel
    \/ q.bundle.config.wheel # q.wheel
    \/ q.bundle.config.inputs # q.bundle.hash
    \/ q.bundle.releaseWheel # q.wheel

\* load_integration_context.
Load ==
    /\ c.pc = "load"
    /\ Bundle # None
    /\ \A n \in DOMAIN c.checks : c.checks[n] # "FAIL"
    /\ IF LoadRaises(Req) THEN Ends
       ELSE c' = [c EXCEPT !.pc = "reference", !.checks = Noted(@, "fixtures", "PASS")]
    /\ UNCHANGED <<runs, world, db, truth, calls, faults, retained>>

-----------------------------------------------------------------------------
(* run_prerequisite_stage.                                                 *)

ReferenceReady == Bundle.profile # None /\ "control" \in Environ

\* What INPUTS.json declares about the bundle's own prerequisites.
Declared(checks) ==
    LET status(blocker) == IF blocker \in Bundle.blockers THEN "BLOCKED" ELSE "PASS"
    IN Noted(Noted(checks, "control.external_evidence", status("external")),
             "warehouse.fault_controller", status("controller"))

Reference ==
    /\ c.pc = "reference"
    /\ \E cleaned \in BOOLEAN :
        LET ran == ReferenceReady /\ Allowed("writes")
            migrates == ran /\ Allowed("migration")
            after == IF migrates THEN Migrate(db) ELSE db
            passed == /\ ~(migrates /\ MigrationRaises(db))
                      /\ ReferenceCertified(Report(after, Bundle.profile, {}, cleaned))
            status == IF ~ReferenceReady THEN "BLOCKED"
                      ELSE IF ~Allowed("writes") THEN "NOT_RUN"
                      ELSE Verdict(passed)
        IN /\ Cost(Costs(cleaned))
           /\ ran \/ cleaned
           /\ db' = after
           /\ Called({x \in {"writes", "migration"} :
                         ran /\ (x = "migration" => migrates)})
           /\ Witness("reference", ran /\ after.rollsBack /\ after.cas
                                       /\ after.version = RequiredVersion)
           /\ c' = [c EXCEPT !.pc = "item", !.blockers = @ \cup Bundle.blockers,
                        !.checks = Noted(Declared(@), "reference", status)]
    /\ UNCHANGED <<runs, world, retained>>

\* A check whose handler raised: FAIL, a blocker, no partial.
Failed(check) ==
    [c EXCEPT !.checks = Noted(@, check, "FAIL"), !.blockers = @ \cup {check}]

Skipped(check) == [c EXCEPT !.checks = Noted(@, check, "NOT_RUN")]

WrittenIf(ok, key, manifest) ==
    shelf' = IF ok THEN shelf \cup {[run |-> Run, key |-> key, manifest |-> manifest]}
             ELSE shelf

\* A runner's manifest file is written first, its report file after it.
Retained == {"none", "manifest", "all"}

\* The item-read partial is kept in memory before it is written.
ItemRead ==
    /\ c.pc = "item"
    /\ IF ~PlanReady(Bundle.config, Spec0, "fabric.item.read", Environ, FALSE)
       THEN /\ c' = [Failed("fabric.item.read") EXCEPT !.pc = "control"]
            /\ UNCHANGED <<truth, faults, shelf>>
       ELSE \E read \in {"exact", "other"}, written \in BOOLEAN :
              LET status == ItemReadStatus(read)
                  m == RunEvidence(Spec0, "fabric.item.read",
                                   Result(status, <<Run, "fabric.item.read">>))
                  kept == [c EXCEPT !.partials = Put(@, "fabric.item.read", m)]
              IN /\ Cost(Costs(read = "exact") + Costs(written))
                 /\ Witness("fabric.item.read", read = "exact")
                 /\ WrittenIf(written, "fabric.item.read", m)
                 /\ c' = [kept EXCEPT !.pc = "control",
                              !.checks = Noted(@, "fabric.item.read",
                                             IF written THEN status ELSE "FAIL"),
                              !.blockers = @ \cup (IF written THEN {} ELSE {"fabric.item.read"})]
    /\ UNCHANGED <<runs, world, db, calls, proofs, issued, releases>>

\* A check whose runner was called: its manifest, and what is kept of it.
Executed(check, manifest, kept) ==
    IF kept = "all"
    THEN [c EXCEPT !.checks = Noted(@, check, manifest.results[check].status),
                   !.partials = Put(@, check, manifest)]
    ELSE Failed(check)

\* _run_approved_control and execute_approved_control_plane_certification.
ControlCanRun ==
    /\ "external" \notin Bundle.blockers
    /\ Allowed("writes")
    /\ "fabric.item.read" \in DOMAIN c.partials

ControlPreflight ==
    /\ PlanReady(Bundle.config, Spec0, "control.cert", Environ, TRUE)
    /\ Bundle.profile # None
    /\ ProductionEligible(Bundle.profile)
    /\ ExternalComplete(Bundle.external)

Control ==
    /\ c.pc = "control"
    /\ IF ~ControlCanRun \/ ~ControlPreflight
       THEN /\ c' = [(IF ControlCanRun THEN Failed("control.cert") ELSE Skipped("control.cert"))
                        EXCEPT !.pc = "base"]
            /\ UNCHANGED <<truth, calls, faults, shelf>>
       ELSE \E cleaned \in BOOLEAN, kept \in Retained :
              LET report == Report(db, Bundle.profile, Bundle.external, cleaned)
                  status == Verdict(ProductionCertified(report, Bundle.profile))
                  m == RunEvidence(Spec0, "control.cert", Result(status, <<Run, "control.cert">>))
              IN /\ Cost(Costs(cleaned) + Costs(kept = "all"))
                 /\ Called({"writes"})
                 /\ Witness("control.cert",
                            /\ db.rollsBack /\ db.cas
                            /\ db.version = RequiredVersion /\ db.tables >= RequiredVersion
                            /\ Bundle.external = ExternalFields)
                 /\ WrittenIf(kept # "none", "control.cert", m)
                 /\ c' = [Executed("control.cert", m, kept) EXCEPT !.pc = "base"]
    /\ UNCHANGED <<runs, world, db, proofs, issued, releases>>

\* Both partials merged into the prerequisite of every later check.
MergeBase ==
    /\ c.pc = "base"
    /\ LET parts == {c.partials[k] : k \in DOMAIN c.partials}
           ready == {"fabric.item.read", "control.cert"} \subseteq DOMAIN c.partials
       IN \E written \in BOOLEAN :
            LET merged == ready /\ written /\ ~MergeRaises(Spec0, parts)
            IN /\ Cost(Costs(written))
               /\ ready \/ written
               /\ WrittenIf(merged, "base", Merge(Spec0, parts))
               /\ c' = [c EXCEPT !.pc = "pipeline",
                            !.base = IF merged THEN Merge(Spec0, parts) ELSE None,
                            !.blockers = @ \cup (IF ready /\ ~merged THEN {"base"} ELSE {})]
    /\ UNCHANGED <<runs, world, db, truth, calls, proofs, issued, releases>>

-----------------------------------------------------------------------------
(* The approved runners.                                                   *)

\* Data set, engine and extensions named by a recipe are those of the exact
\* release, fingerprinted in its manifest.
ReleaseFits(check) == Bundle.unfit \cap {check, "configs"} = {}

ProductionProfile == Bundle.profile # None /\ ProductionEligible(Bundle.profile)

Planned(selected) == PlanReady(Bundle.config, Spec0, selected, Environ, TRUE)

PipelinePreflight(check, prerequisite) ==
    /\ Planned("fabric.pipeline")
    /\ PipelinePrerequisites(Spec0, prerequisite, "fabric.pipeline")
    /\ ReleaseFits(check)
    /\ ProductionProfile

CaptureFits(check) == ReleaseFits(check)

CapturePreflight(check, selected) ==
    /\ Planned(selected)
    /\ selected \in {"fabric.copy", "fabric.spark"}
    /\ CapturePrerequisites(Spec0, c.base, selected)
    /\ CaptureFits(check)

WarehouseFits == ReleaseFits("warehouse.commit")

WarehousePreflight ==
    /\ Planned("warehouse.commit")
    /\ WarehousePrerequisites(Spec0, c.base, "warehouse.commit")
    /\ WarehouseFits
    /\ ProductionProfile

DrillFits == ReleaseFits("warehouse.ambiguous_commit")

\* Terminating the session takes its own authorization and admin connection.
TerminationReady == Bundle.recovery => Allowed("terminate") /\ "admin" \in Environ

DrillPreflight ==
    /\ Planned("warehouse.ambiguous_commit")
    /\ DrillPrerequisites(Spec0, c.manifest, "warehouse.ambiguous_commit")
    /\ DrillFits
    /\ TerminationReady
    /\ ProductionProfile

NotCalled(next, state) ==
    /\ c' = [state EXCEPT !.pc = next]
    /\ UNCHANGED <<truth, calls, faults, shelf>>

\* The manifest of a finished runner, kept when its files are written.
Finished(check, selected, status, real, kept, call, next) ==
    LET m == RunEvidence(Spec0, selected, Result(status, <<Run, selected>>))
    IN /\ Called({call})
       /\ Witness(selected, real)
       /\ WrittenIf(kept # "none", check, m)
       /\ c' = [Executed(check, m, kept) EXCEPT !.pc = next]

\* What a Pipeline attempt may answer and do.  An error code and the retryable
\* flag belong to a failure; an attempt that raises early does nothing else.
Attempts ==
    {o \in [remote : {"Completed", "Failed"}, framework : {"SUCCEEDED", "FAILED"},
            code : {"expected", "other"}, retryable : BOOLEAN, root : BOOLEAN,
            raise : {"no", "before", "during", "after"},
            effect : {"none", "once", "target", "twice", "overlap", "late"}] :
        o.framework = "SUCCEEDED" => o.code = "expected" /\ o.retryable}

HonestSuccess == [remote |-> "Completed", framework |-> "SUCCEEDED", code |-> "expected",
                  retryable |-> TRUE, root |-> TRUE, raise |-> "no", effect |-> "once"]

HonestFailure == [HonestSuccess EXCEPT !.framework = "FAILED", !.effect = "none"]

Deviations(o, honest) == Cardinality({f \in DOMAIN o : o[f] # honest[f]})

\* The outcomes within n deviations of the intended one.
Outcomes ==
    [honest \in {HonestSuccess, HonestFailure} |->
        [n \in 0..MaxFaults |->
            {o \in Attempts : /\ Deviations(o, honest) <= n
                              /\ o.raise = "before" => Deviations(o, honest) = 1}]]

\* The runner compares the deployed config with the release's first.
Deployed(o) == IF db.deployed = Bundle.hash THEN o ELSE [o EXCEPT !.raise = "before"]

\* The check's own Pipeline run; its data set is none of the gates'.
Pipeline ==
    /\ c.pc = "pipeline"
    /\ IF \/ c.base = None
          \/ ~Allowed("pipeline")
          \/ "fabric.pipeline" \notin Bundle.config.bindings
       THEN NotCalled("fabric.copy", Skipped("fabric.pipeline"))
       ELSE IF ~PipelinePreflight("fabric.pipeline", c.base)
       THEN NotCalled("fabric.copy", Failed("fabric.pipeline"))
       ELSE \E o \in Outcomes[HonestSuccess][Budget], kept \in {"none", "all"}, lost \in BOOLEAN :
              LET p == Deployed(o)
                  m == RunEvidence(Spec0, "fabric.pipeline",
                                   Result(PipelineStatus(p), <<Run, "fabric.pipeline">>))
              IN /\ o.effect = "once"
                 /\ lost => PipelineRaises(p)
                 /\ Cost(Deviations(o, HonestSuccess) + Costs(kept = "all") + Costs(~lost))
                 /\ Called(IF p.raise = "before" THEN {} ELSE {"pipeline"})
                 /\ Witness("fabric.pipeline",
                            p.raise # "before" /\ p.framework = "SUCCEEDED" /\ p.remote = "Completed")
                 /\ WrittenIf(kept # "none", "fabric.pipeline", m)
                 /\ c' = [Executed("fabric.pipeline", m, kept) EXCEPT
                              !.pc = "fabric.copy", !.parents = @ \o ParentRows(p, lost)]
    /\ UNCHANGED <<runs, world, db, proofs, issued, releases>>

\* Submission and polling, the observer's answer, the correlation of both.
CaptureOutcomes ==
    [succeeded : BOOLEAN, correlated : BOOLEAN, remote : {"Completed", "Failed"}]

\* _run_capture: the recipe file says which check it runs.
Capture(check, selected, next) ==
    /\ c.pc = check
    /\ IF c.base = None \/ ~Allowed("capture")
       THEN NotCalled(next, Skipped(check))
       ELSE IF ~CapturePreflight(check, selected)
       THEN NotCalled(next, Failed(check))
       ELSE \E o \in CaptureOutcomes, kept \in Retained :
              /\ Cost(Costs(o.succeeded) + Costs(o.correlated) + Costs(o.remote = "Completed")
                      + Costs(kept = "all"))
              /\ Finished(check, selected, CaptureStatus(o),
                          o.succeeded /\ o.remote = "Completed", kept, "capture", next)
    /\ UNCHANGED <<runs, world, db, proofs, issued, releases>>

Copy == Capture("fabric.copy", Bundle.copyRecipe, "fabric.spark")
Spark == Capture("fabric.spark", "fabric.spark", "warehouse")

\* The Warehouse runners; WarehouseDrill models what happens inside them.
WarehouseAnswers(check, call, next) ==
    \E o \in [held : BOOLEAN, shown : BOOLEAN], kept \in Retained :
        /\ Cost(Costs(o.held) + Costs(o.shown) + Costs(kept = "all"))
        /\ Finished(check, check, Verdict(o.held /\ o.shown), o.held, kept, call, next)

Warehouse ==
    /\ c.pc = "warehouse"
    /\ IF c.base = None \/ ~Allowed("warehouse")
       THEN NotCalled("fault", Skipped("warehouse.commit"))
       ELSE IF ~WarehousePreflight
       THEN NotCalled("fault", Failed("warehouse.commit"))
       ELSE WarehouseAnswers("warehouse.commit", "warehouse", "fault")
    /\ UNCHANGED <<runs, world, db, proofs, issued, releases>>

\* _merge_fault_prerequisite: a failure here is swallowed.
FaultMerge ==
    /\ c.pc = "fault"
    /\ LET parts == {c.base, c.partials["warehouse.commit"]}
           ready == c.base # None /\ "warehouse.commit" \in DOMAIN c.partials
       IN \E written \in BOOLEAN :
            LET merged == ready /\ written /\ ~MergeRaises(Spec0, parts)
            IN /\ Cost(Costs(written))
               /\ ready \/ written
               /\ WrittenIf(merged, "fault-prerequisites", Merge(Spec0, parts))
               /\ c' = [c EXCEPT !.pc = "drill",
                            !.manifest = IF merged THEN Merge(Spec0, parts) ELSE None]
    /\ UNCHANGED <<runs, world, db, truth, calls, proofs, issued, releases>>

Drill ==
    /\ c.pc = "drill"
    /\ IF \/ c.manifest = None
          \/ "controller" \in Bundle.blockers
          \/ ~Allowed("fault")
       THEN NotCalled("merge", Skipped("warehouse.ambiguous_commit"))
       ELSE IF ~DrillPreflight
       THEN NotCalled("merge", Failed("warehouse.ambiguous_commit"))
       ELSE WarehouseAnswers("warehouse.ambiguous_commit", "fault", "merge")
    /\ UNCHANGED <<runs, world, db, proofs, issued, releases>>

\* merge_integration_stage over every partial of the run.
MergeIntegration ==
    /\ c.pc = "merge"
    /\ LET parts == {c.partials[k] : k \in DOMAIN c.partials}
       IN \E written \in BOOLEAN :
            LET merged == parts # {} /\ written /\ ~MergeRaises(Spec0, parts)
            IN /\ Cost(Costs(written))
               /\ parts # {} \/ written
               /\ WrittenIf(merged, "integration", Merge(Spec0, parts))
               /\ c' = [c EXCEPT !.pc = "business",
                            !.manifest = IF merged THEN Merge(Spec0, parts) ELSE None,
                            !.blockers = @ \cup (IF parts # {} /\ ~merged THEN {"merge"} ELSE {})]
    /\ UNCHANGED <<runs, world, db, truth, calls, proofs, issued, releases>>

-----------------------------------------------------------------------------
(* The business paths, gate after gate.                                    *)

GateName == Gates[c.gate]
Phase == Steps(GateName)[c.step]

\* An exception leaves this gate and the remaining ones NOT_RUN.
BusinessStops ==
    c' = [c EXCEPT !.pc = "report", !.checks = AppendNotRun(@, BusinessChecks),
              !.blockers = @ \cup {"business"}]

Business ==
    /\ c.pc = "business"
    /\ IF \/ c.manifest = None
          \/ ~Certified(c.manifest)
          \/ ~({"business", "scenario", "pipeline"} \subseteq Authorizations(Req))
       THEN /\ c' = [c EXCEPT !.pc = "report", !.checks = AppendNotRun(@, BusinessChecks)]
            /\ UNCHANGED faults
       ELSE \E plan \in BOOLEAN :
              /\ Cost(Costs(plan))
              /\ IF plan THEN Goes("enter") ELSE BusinessStops
    /\ UNCHANGED <<runs, world, db, truth, calls, retained>>

PathPreflight(prerequisite) ==
    /\ ~RerunRaises(Spec0, c.manifest)
    /\ PipelinePreflight(GateName, prerequisite)

\* Before the try block: nothing to clean up yet.  The data set holds what an
\* earlier certification left there; each gate's scenario is taken to name a
\* data set of its own, so what an earlier gate left pending is not its concern.
Enter ==
    /\ c.pc = "enter"
    /\ IF PathPreflight(RerunPrerequisite(c.manifest))
       THEN c' = [c EXCEPT !.pc = "path", !.step = 1, !.seen = NoStates, !.reports = <<>>,
                      !.raised = FALSE, !.quiet = TRUE, !.real = FALSE]
       ELSE BusinessStops
    /\ world' = [state |-> [Baseline EXCEPT !.target = 1, !.progress = 1],
                 pending |-> FALSE, landings |-> 0]
    /\ UNCHANGED <<runs, db, truth, calls, faults, retained>>

Raises == c' = [c EXCEPT !.pc = "cleanup", !.raised = TRUE]

\* The driver extension restores the baseline, says so without doing it, or fails.
Drive ==
    /\ c.pc = "path"
    /\ Phase \in {"PREPARE_BASELINE", "PREPARE_ATTEMPT_1", "PREPARE_ATTEMPT_2"}
    /\ \E d \in {"done", "stale", "refused"} :
        /\ d = "stale" => Phase = "PREPARE_BASELINE"
        /\ Cost(Costs(d = "done"))
        /\ Called({"drive"})
        /\ world' = IF d = "done" /\ Phase = "PREPARE_BASELINE"
                    THEN [world EXCEPT !.state = Baseline] ELSE world
        /\ IF d = "refused" THEN Raises ELSE c' = [c EXCEPT !.step = @ + 1]
    /\ UNCHANGED <<runs, db, truth, retained>>

\* What the gate is about, whatever the observer and the reports say.  It is a
\* statement of the path up to its final observation: the code does not wait for
\* a Pipeline it gave up, whose effect may still land during or after CLEANUP.
GateHeld(g) ==
    LET last == c.reports[Len(c.reports)]
    IN IF g = "reconciliation.fail_closed"
       THEN world.landings = 0 /\ last.framework = "FAILED"
       ELSE /\ world.landings > 0
            /\ world.state.target = 1 /\ world.state.progress = 1
            /\ g = "watermark.scd2" => ~world.state.overlap
            /\ last.framework = "SUCCEEDED"
            /\ IsRetry(g) => c.quiet /\ c.reports[1].framework = "FAILED"

Observe(phase, key) ==
    /\ c.pc = "path" /\ Phase = phase
    /\ \E answered \in BOOLEAN :
        /\ Cost(Costs(answered))
        /\ IF ~answered THEN Raises
           ELSE LET seen == [c.seen EXCEPT ![key] = world.state]
                IN c' = IF phase # "AFTER_FINAL_ATTEMPT"
                        THEN [c EXCEPT !.seen = seen, !.step = @ + 1, !.quiet = world.landings = 0]
                        ELSE [c EXCEPT !.seen = seen, !.pc = "cleanup", !.real = GateHeld(GateName),
                                       !.raised = ~Evaluates(GateName, seen, c.reports)]
    /\ UNCHANGED <<runs, world, db, truth, calls, retained>>

ObserveBefore == Observe("BEFORE", "before")
ObserveFirst == Observe("AFTER_FIRST_ATTEMPT", "first")
ObserveFinal == Observe("AFTER_FINAL_ATTEMPT", "final")

After(s, effect) ==
    CASE effect \in {"once", "overlap"} ->
             [target |-> IF s.target = 0 THEN 1 ELSE s.target, progress |-> 1,
              overlap |-> s.overlap \/ effect = "overlap"]
      [] effect = "target" -> [s EXCEPT !.target = 1]
      [] effect = "twice"  -> [s EXCEPT !.target = 2, !.progress = 1]
      [] OTHER             -> s

Land(w, effect) ==
    LET s == After(w.state, effect)
    IN [state |-> s, pending |-> w.pending \/ effect = "late",
        landings |-> IF s = w.state THEN w.landings ELSE w.landings + 1]

Intended(g, n) ==
    IF g = "reconciliation.fail_closed" \/ (IsRetry(g) /\ n = 1)
    THEN HonestFailure ELSE HonestSuccess

\* _pipeline_attempt: an attempt without a report raises.
Attempt ==
    /\ c.pc = "path" /\ Phase = "PIPELINE"
    /\ LET n == Len(c.reports) + 1
           honest == Intended(GateName, n)
       IN \E o \in Outcomes[honest][Budget], lost \in BOOLEAN :
            LET p == Deployed(o)
                parents == c.parents \o ParentRows(p, lost)
                report == [run |-> <<Run, GateName, n>>, remote |-> p.remote,
                           framework |-> p.framework, code |-> p.code, retryable |-> p.retryable]
            IN /\ lost => PipelineRaises(p)
               /\ Cost(Deviations(o, honest) + Costs(~lost))
               /\ Called(IF p.raise = "before" THEN {} ELSE {"business-pipeline"})
               /\ world' = IF p.raise = "before" THEN world ELSE Land(world, p.effect)
               /\ c' = IF PipelineReported(p)
                       THEN [c EXCEPT !.reports = Append(@, report), !.step = @ + 1,
                                      !.parents = parents]
                       ELSE [c EXCEPT !.pc = "cleanup", !.raised = TRUE, !.parents = parents]
    /\ UNCHANGED <<runs, db, truth, retained>>

GateProof(g) ==
    [wheel |-> Req.wheel, inputs |-> Bundle.hash, results |-> [x \in {g} |-> Result("PASS", <<Run, g>>)]]

\* The finally block, then the path's report and proof files.
Cleanup ==
    /\ c.pc = "cleanup"
    /\ \E driven, written \in BOOLEAN :
        LET passed == ~c.raised /\ driven /\ written
        IN /\ Cost(Costs(driven) + Costs(written))
           /\ written \/ (~c.raised /\ driven)
           /\ Called({"drive"})
           /\ Witness(GateName, c.real)
           /\ proofs' = IF passed THEN proofs \cup {[run |-> Run, key |-> GateName,
                                                     bundle |-> GateProof(GateName)]}
                        ELSE proofs
           /\ IF ~passed THEN BusinessStops
              ELSE c' = [c EXCEPT !.checks = Noted(@, GateName, "PASS"),
                             !.made = @ \cup {GateProof(GateName)},
                             !.gate = IF @ < Len(Gates) THEN @ + 1 ELSE @,
                             !.pc = IF c.gate < Len(Gates) THEN "enter" ELSE "proofs"]
    /\ UNCHANGED <<runs, world, db, shelf, issued, releases>>

\* The proofs merged into one file; the checks have passed already.
Proofs ==
    /\ c.pc = "proofs"
    /\ \E written \in BOOLEAN :
        /\ Cost(Costs(written))
        /\ IF written /\ ~ProofMergeRaises(c.made)
           THEN /\ Goes("report")
                /\ proofs' = proofs \cup {[run |-> Run, key |-> "merged",
                                           bundle |-> MergeProofs(c.made)]}
           ELSE BusinessStops /\ UNCHANGED proofs
    /\ UNCHANGED <<runs, world, db, truth, calls, shelf, issued, releases>>

-----------------------------------------------------------------------------
\* Mutant: checks that did not run are not required ones.
StatusOfChecksRun(checks) ==
    IF \E n \in DOMAIN checks : checks[n] = "FAIL" THEN "FAIL"
    ELSE IF \E n \in DOMAIN checks : checks[n] = "BLOCKED" THEN "PARTIAL" ELSE "PASS"

OverallStatus(checks) ==
    LET has(status) == \E n \in DOMAIN checks : checks[n] = status
    IN IF has("FAIL") THEN "FAIL"
       ELSE IF has("BLOCKED") THEN IF has("PASS") THEN "PARTIAL" ELSE "BLOCKED"
       ELSE IF has("NOT_RUN") THEN "PARTIAL" ELSE "PASS"

\* assemble_report: the report file is written, or the call raises.
AssembleReport ==
    /\ c.pc = "report"
    /\ \E written \in BOOLEAN :
        /\ Cost(Costs(written))
        /\ issued' = IF written
                     THEN issued \cup {[run |-> Run, status |-> OverallStatus(c.checks)]}
                     ELSE issued
    /\ Ends
    /\ UNCHANGED <<runs, world, db, shelf, proofs, truth, calls, releases>>

\* A Pipeline that was given up changes its data set after all.
LateEffect ==
    /\ world.pending /\ c.pc \in {"path", "cleanup"}
    /\ world' = [Land(world, "once") EXCEPT !.pending = FALSE]
    /\ UNCHANGED <<runs, c, db, truth, calls, faults, retained>>

\* The certifying process dies between two steps.
Crash ==
    /\ c.pc # "idle"
    /\ Cost(1) /\ Ends
    /\ UNCHANGED <<runs, world, db, truth, calls, retained>>

\* ... or inside apply_baseline_schema, between the tables and their record.
MigrationInterrupted ==
    /\ \/ c.pc = "bootstrap" /\ IdentityExact /\ SemanticsHold /\ Bundle.wheel = Req.wheel /\ ReferenceReady
       \/ c.pc = "reference" /\ ReferenceReady /\ Allowed("writes") /\ Allowed("migration")
    /\ Cost(1) /\ Ends
    /\ db.version <= RequiredVersion
    /\ db' = CreateAll(db)
    /\ Called({"migration"})
    /\ UNCHANGED <<runs, world, truth, retained>>

-----------------------------------------------------------------------------
(* The release decision over files of one or several runs.                 *)

\* Source tests, wheel integrity and input packaging, proved elsewhere.
OutsideProof(wheel, inputs) ==
    [wheel |-> wheel, inputs |-> inputs,
     results |-> [g \in OutsideGates |-> Result("PASS", None)]]

Kept(key) == {x.manifest : x \in {y \in shelf : y.key = key}}
KeptProofs(key) == {x.bundle : x \in {y \in proofs : y.key = key}}

Specs == [wheel : Wheels, inputs : Hashes]

\* The integration evidence and release proofs are merged, then certified.
Certify(manifests, bundles) ==
    \E spec \in Specs :
        LET all == bundles \cup {OutsideProof(spec.wheel, spec.inputs)}
        IN /\ ~MergeRaises(spec, manifests)
           /\ ~ProofMergeRaises(all)
           /\ CandidateCertified(spec.wheel, MergeProofs(all), Merge(spec, manifests))
           /\ releases' = {[spec |-> spec, used |-> manifests,
                            manifest |-> Merge(spec, manifests), proofs |-> MergeProofs(all)]}
           /\ UNCHANGED <<runs, c, world, db, shelf, proofs, truth, calls, issued, faults>>

CanCertify == c.pc = "idle" /\ releases = {}

\* The manifests and proofs whole runs left.
CertifyRuns ==
    /\ CanCertify
    /\ \E A \in SUBSET Kept("integration"), B \in SUBSET KeptProofs("merged") : Certify(A, B)

\* One partial per check, whichever run it is from.
CertifyPartials ==
    /\ CanCertify
    /\ \E B \in SUBSET KeptProofs("merged") \ {{}}, from \in [RequiredChecks -> 1..Run] :
           Certify({x.manifest : x \in {y \in shelf : y.key \in RequiredChecks
                                                      /\ y.run = from[y.key]}}, B)

\* One proof per gate, whichever run it is from.
CertifyGates ==
    /\ CanCertify
    /\ \E A \in SUBSET Kept("integration") \ {{}}, from \in [BusinessGates -> 1..Run] :
           Certify(A, {x.bundle : x \in {y \in proofs : y.key \in BusinessGates
                                                        /\ y.run = from[y.key]}})

-----------------------------------------------------------------------------
Stages ==
    \/ Attest \/ Bootstrap \/ Bounded \/ Preintegration \/ Load
    \/ Reference \/ ItemRead \/ Control \/ MergeBase
    \/ Pipeline \/ Copy \/ Spark \/ Warehouse \/ FaultMerge \/ Drill \/ MergeIntegration
    \/ Business \/ Enter \/ Drive \/ ObserveBefore \/ ObserveFirst \/ ObserveFinal
    \/ Attempt \/ Cleanup \/ Proofs \/ AssembleReport

Next ==
    \/ \E q \in Requests : Start(q)
    \/ Stages
    \/ LateEffect
    \/ Crash \/ MigrationInterrupted
    \/ CertifyRuns \/ CertifyPartials \/ CertifyGates

Spec == Init /\ [][Next]_vars

-----------------------------------------------------------------------------
Statuses == {"PASS", "FAIL", "NOT_RUN", "BLOCKED"}

(* Every check of a certification has one of the four statuses, the path   *)
(* under way is one of the gates, what is on disk is finitely much, and no  *)
(* proof bundle answers for a gate that integration evidence owns.          *)
CertTypeOK ==
    /\ runs \in Seq(Requests)
    /\ DOMAIN c = DOMAIN Idle /\ DOMAIN world = {"state", "pending", "landings"}
    /\ \A n \in DOMAIN c.checks : c.checks[n] \in Statuses
    /\ c.gate \in 1..Len(Gates)
    /\ IsFiniteSet(shelf)
    /\ \A x \in proofs : ValidPartial(x.bundle)

\* The run behind a result really did what the result says, for this candidate.
ProvenFor(by, what, spec) ==
    /\ by \in truth
    /\ by[2] = what
    /\ runs[by[1]].wheel = spec.wheel
    /\ runs[by[1]].bundle.hash = spec.inputs

(* certify_release_candidate: whatever files of whatever runs an operator   *)
(* merges, a certified candidate has for every required check and every     *)
(* business gate an execution, for exactly this wheel and these inputs,     *)
(* in which the thing certified really happened.                            *)
ReleaseIsProven ==
    \A r \in releases :
        /\ \A k \in RequiredChecks : ProvenFor(r.manifest.results[k].by, k, r.spec)
        /\ \A g \in BusinessGates : ProvenFor(r.proofs.results[g].by, g, r.spec)

(* merge_integration_evidence_manifests: a failure that is in the evidence  *)
(* a release was made from cannot disappear behind another run's success.   *)
ReleaseHidesNothing ==
    \A r \in releases : \A m \in r.used : \A k \in RequiredChecks :
        m.results[k].status \in {"PASS", "NOT_RUN"}

GrantsOf(call, q) ==
    CASE call \in {"drive", "business-pipeline"} -> {"business", "scenario", "pipeline"}
      [] call = "fault" -> {"fault"} \cup (IF q.bundle.recovery THEN {"terminate"} ELSE {})
      [] OTHER -> {call}

PrerequisitesOf(call) ==
    CASE call \in {"migration", "writes"} -> {}
      [] call \in {"drive", "business-pipeline"} -> RequiredChecks
      [] call = "fault" -> BasePrerequisites \cup {"warehouse.commit"}
      [] OTHER -> BasePrerequisites

(* Nothing that changes a provider, a database or business data is called   *)
(* without its own authorization, for another candidate than the one whose  *)
(* wheel and input bundle were presented, or before the checks it rests on  *)
(* really held in the same run.                                             *)
NothingUnauthorized ==
    [][\A x \in calls' \ calls :
           LET q == runs[x[1]]
           IN /\ GrantsOf(x[2], q) \subseteq Authorizations(q)
              /\ \A k \in PrerequisitesOf(x[2]) : <<x[1], k>> \in truth
              /\ {q.manifestWheel, q.bundle.wheel} = {q.wheel}
              /\ q.entry = "installed" => q.installed = q.wheel]_vars

(* UnifiedCertificationReport.overall_status: a PASS report means that      *)
(* every stage of that run really held, the reference database probes, the  *)
(* seven live checks and the five business gates.                           *)
ReportIsHonest ==
    \A r \in issued : r.status = "PASS" =>
        \A k \in {"bounded", "reference"} \cup RequiredChecks \cup BusinessGates :
            <<r.run, k>> \in truth

(* evaluate_business_path_evidence: a retained PASS proof of a gate means   *)
(* that the path did what it stands for, however the Pipeline's answers,    *)
(* its late effects and the driver's receipts are combined.                 *)
BusinessPassIsReal ==
    \A p \in proofs : \A g \in DOMAIN p.bundle.results :
        p.bundle.results[g].status = "PASS" => p.bundle.results[g].by \in truth
=============================================================================
