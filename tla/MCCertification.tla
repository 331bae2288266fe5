---------------------------- MODULE MCCertification ----------------------------
(***************************************************************************)
(* Two certification runs over two wheels and two input bundles.  The      *)
(* requests differ in one thing or two from a complete one.                *)
(***************************************************************************)
EXTENDS UnifiedCertification

CONSTANTS w1, w2, h1, h2

MCWheels == {w1, w2}
MCHashes == {h1, h2}

Exact(h) ==
    [hash |-> h, wheel |-> w1,
     config |-> [wheel |-> w1, inputs |-> h, bindings |-> FabricItemKinds],
     releaseWheel |-> w1, environ |-> {"token", "control", "warehouse", "admin"},
     profile |-> "fabric_sql_database_v1", external |-> ExternalFields,
     blockers |-> {}, recovery |-> h = h1, unfit |-> {}, copyRecipe |-> "fabric.copy",
     projection |-> "other"]

Installed == [entry |-> "installed", wheel |-> w1, installed |-> w1, manifestWheel |-> w1,
              flags |-> {"live", "migration", "terminate"}, bundle |-> Exact(h1),
              broken |-> {}]

Direct == [Installed EXCEPT !.entry = "direct", !.flags = Grants]

\* Requests that must stop before anything live.
Refused == {[Installed EXCEPT !.installed = w2],
            [Installed EXCEPT !.broken = {"acceptance"}],
            [Installed EXCEPT !.broken = {"probes"}],
            [Direct EXCEPT !.manifestWheel = w2],
            [Installed EXCEPT !.bundle.wheel = w2],
            [Direct EXCEPT !.bundle.config.inputs = h2],
            [Direct EXCEPT !.bundle = None]}

\* Requests that must stop somewhere on the way.
Partial == {[Direct EXCEPT !.flags = @ \ {"scenario"}],
            [Direct EXCEPT !.flags = @ \ {"terminate"}],
            [Direct EXCEPT !.flags = @ \ {"capture"}],
            [Direct EXCEPT !.bundle.copyRecipe = "fabric.spark",
                           !.bundle.unfit = {"fabric.spark"}],
            [Direct EXCEPT !.bundle.blockers = {"controller"}],
            [Direct EXCEPT !.bundle.external = ExternalFields \ {"retention"}]}

Complete == {[Installed EXCEPT !.bundle = Exact(h)] : h \in MCHashes}

MCRequests == Refused \cup Partial \cup Complete

Healthy == [tables |-> 8, version |-> 8, dialect |-> "mssql", rollsBack |-> TRUE,
            cas |-> TRUE, deployed |-> h1,
            projection |-> "other", checkpoint |-> FALSE]

\* No installation yet, and one old enough to be completed by create_all: what an
\* interrupted migration leaves of either is the input of the next one.
Fresh == [Healthy EXCEPT !.tables = 0, !.version = 0, !.deployed = None]
Old == [Healthy EXCEPT !.tables = 6, !.version = 6]

MCDatabases == {Healthy, Fresh, Old,
                [Healthy EXCEPT !.tables = 7, !.version = 7],
                [Healthy EXCEPT !.cas = FALSE],
                [Healthy EXCEPT !.tables = 7],
                [Healthy EXCEPT !.projection = "delta", !.checkpoint = TRUE]}
=============================================================================
