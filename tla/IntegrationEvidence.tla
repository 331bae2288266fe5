-------------------------- MODULE IntegrationEvidence --------------------------
(***************************************************************************)
(* Integration evidence (evidence/integration): check results, manifests,  *)
(* their validation and merge, the rerun projection, the run plan and the  *)
(* gates every approved runner passes before it calls a provider.          *)
(*                                                                         *)
(* A spec is [wheel, inputs], the identities it binds; environment, domain *)
(* and framework version are the same everywhere and left out.  A result   *)
(* is [status, by], where by names the execution the evidence refers to,   *)
(* so two results are model-identical exactly when they are equal.  A      *)
(* manifest has one result for every check of its spec.                    *)
(***************************************************************************)
EXTENDS Naturals, Sequences, FiniteSets

CONSTANT None    \* the absent value

CheckIds == {"fabric.item.read", "control.cert", "fabric.pipeline", "fabric.copy",
             "fabric.spark", "warehouse.commit", "warehouse.ambiguous_commit",
             "kafka.live"}

RequiredChecks == CheckIds \ {"kafka.live"}

NotRun == [status |-> "NOT_RUN", by |-> None]

Result(status, by) == [status |-> status, by |-> by]

\* run_integration_evidence with one runner: its result for its own check,
\* NOT_RUN for every other.  A runner that raises is a FAIL result.
RunEvidence(spec, check, result) ==
    [spec |-> spec, results |-> [c \in CheckIds |-> IF c = check THEN result ELSE NotRun]]

\* Mutant: the input bundle's hash is not compared.
ValidateWheel(spec, manifest) == manifest.spec.wheel = spec.wheel

Validate(spec, manifest) == manifest.spec = spec

Certified(manifest) ==
    \A c \in RequiredChecks : manifest.results[c].status = "PASS"

-----------------------------------------------------------------------------
\* merge_integration_evidence_manifests.
Substantive(manifests, c) ==
    {m.results[c] : m \in {n \in manifests : n.results[c].status # "NOT_RUN"}}

\* Mutant: one of two different results wins.
MergeAnyRaises(spec, manifests) ==
    \/ manifests = {}
    \/ \E m \in manifests : ~Validate(spec, m)

MergeRaises(spec, manifests) ==
    \/ manifests = {}
    \/ \E m \in manifests : ~Validate(spec, m)
    \/ \E c \in CheckIds : Cardinality(Substantive(manifests, c)) > 1

Merge(spec, manifests) ==
    [spec |-> spec,
     results |-> [c \in CheckIds |->
                     IF Substantive(manifests, c) = {} THEN NotRun
                     ELSE CHOOSE r \in Substantive(manifests, c) : TRUE]]

\* prepare_explicit_pipeline_rerun_prerequisite.
RerunRaises(spec, manifest) == ~Validate(spec, manifest) \/ ~Certified(manifest)

RerunPrerequisite(manifest) == [manifest EXCEPT !.results["fabric.pipeline"] = NotRun]

-----------------------------------------------------------------------------
\* The run plan.  config is the runner config of an input bundle.
FabricItemKinds == {"fabric.item.read", "fabric.pipeline", "fabric.copy", "fabric.spark"}
WarehouseKinds == {"warehouse.commit", "warehouse.ambiguous_commit"}
ControlKinds == WarehouseKinds \cup {"control.cert", "fabric.pipeline"}
MutatingKinds == CheckIds \ {"fabric.item.read"}

SameRelease(config, spec) ==
    /\ config.wheel = spec.wheel
    /\ config.inputs = spec.inputs

BindingsValid(config, check) == check \in FabricItemKinds => check \in config.bindings

RuntimeRequirements(check) ==
    {v \in {"token", "control", "warehouse"} :
        \/ v = "token" /\ check \in FabricItemKinds
        \/ v = "control" /\ check \in ControlKinds
        \/ v = "warehouse" /\ check \in WarehouseKinds}

PlanReady(config, spec, check, environ, authorized) ==
    /\ SameRelease(config, spec)
    /\ BindingsValid(config, check)
    /\ RuntimeRequirements(check) \subseteq environ
    /\ check \in MutatingKinds => authorized

-----------------------------------------------------------------------------
\* What each approved runner demands of the prerequisite manifest.
BasePrerequisites == {"fabric.item.read", "control.cert"}

\* Mutant: the prerequisite has a result, whatever it is.
PrerequisitesPresent(spec, manifest, check, needed) ==
    /\ Validate(spec, manifest)
    /\ manifest.results[check].status = "NOT_RUN"
    /\ \A c \in needed : manifest.results[c].status # "NOT_RUN"

RequirePrerequisites(spec, manifest, check, needed) ==
    /\ Validate(spec, manifest)
    /\ manifest.results[check].status = "NOT_RUN"
    /\ \A c \in needed : manifest.results[c].status = "PASS"

PipelinePrerequisites(spec, manifest, check) ==
    RequirePrerequisites(spec, manifest, check, BasePrerequisites)

CapturePrerequisites(spec, manifest, check) ==
    RequirePrerequisites(spec, manifest, check, BasePrerequisites)

WarehousePrerequisites(spec, manifest, check) ==
    RequirePrerequisites(spec, manifest, check, BasePrerequisites)

\* The drill also rests on the normal Warehouse commit.
DrillPrerequisites(spec, manifest, check) ==
    RequirePrerequisites(spec, manifest, check, BasePrerequisites \cup {"warehouse.commit"})

\* The Fabric item whose identity the read returned.
ItemReadStatus(read) == IF read = "exact" THEN "PASS" ELSE "FAIL"

\* An approved Pipeline attempt o ends by itself or raises before its parent
\* row is written, while the backend runs, or at the parent row's last write.
\* A report is retained as soon as the native job and its root activity are
\* known: a failing last write keeps it.
PipelineReported(o) == o.raise \in {"no", "after"} /\ o.root

\* build_fabric_pipeline_check_result: framework success, provider Completed,
\* native job with its root activity.
PipelineStatus(o) ==
    IF /\ o.raise = "no"
       /\ o.framework = "SUCCEEDED"
       /\ o.remote = "Completed"
       /\ o.root
    THEN "PASS" ELSE "FAIL"

\* The runner raises where it was told to, and when a framework success has
\* no completed job with a root activity behind it.
PipelineRaises(o) ==
    \/ o.raise \in {"during", "after"}
    \/ o.raise = "no" /\ o.framework = "SUCCEEDED" /\ PipelineStatus(o) = "FAIL"

\* The parent row after the attempt.  A runner that raises writes FAILED over
\* it; when that write is lost too it stays as it was.
ParentRows(o, lost) ==
    IF o.raise = "before" THEN <<>>
    ELSE IF PipelineRaises(o)
    THEN IF ~lost THEN <<"FAILED">>
         ELSE IF o.raise = "no" THEN <<"SUCCESS">> ELSE <<"RUNNING">>
    ELSE IF o.framework = "SUCCEEDED" THEN <<"SUCCESS">> ELSE <<"FAILED">>

\* build_fabric_capture_check_result: receipt, native evidence and provider agree.
CaptureStatus(o) ==
    IF o.succeeded /\ o.correlated /\ o.remote = "Completed" THEN "PASS" ELSE "FAIL"
=============================================================================
