---------------------------- MODULE ReleaseReadiness ----------------------------
(***************************************************************************)
(* Release proofs (evidence/release): partial proof bundles, their merge   *)
(* and certify_release_candidate.  A bundle is [wheel, inputs, results]    *)
(* where results is a function from gates to results; a gate that is not   *)
(* in its domain has no proof.  The candidate's git SHA is a function of   *)
(* its wheel here, so the wheel stands for both.                           *)
(***************************************************************************)
EXTENDS IntegrationEvidence

\* Gates proved outside this system, by source verification and packaging.
OutsideGates == {"source.tests", "wheel.integrity", "integration.inputs"}

BusinessGates == {"full.replace", "watermark.scd1", "watermark.scd2",
                  "retry.idempotency", "reconciliation.fail_closed"}

ProofGates == OutsideGates \cup BusinessGates

IntegrationGates == RequiredChecks

\* A partial bundle may not answer for a gate that integration evidence owns.
ValidPartial(bundle) == DOMAIN bundle.results \subseteq ProofGates

ProofsOf(bundles, g) ==
    {b.results[g] : b \in {x \in bundles : g \in DOMAIN x.results /\ x.results[g].status # "NOT_RUN"}}

ProofMergeRaises(bundles) ==
    \/ bundles = {}
    \/ \E b \in bundles : ~ValidPartial(b)
    \/ \E a, b \in bundles : <<a.wheel, a.inputs>> # <<b.wheel, b.inputs>>
    \/ \E g \in ProofGates : Cardinality(ProofsOf(bundles, g)) > 1

MergeProofs(bundles) ==
    LET first == CHOOSE b \in bundles : TRUE
    IN [wheel |-> first.wheel, inputs |-> first.inputs,
        results |-> [g \in {h \in ProofGates : ProofsOf(bundles, h) # {}} |->
                        CHOOSE r \in ProofsOf(bundles, g) : TRUE]]

\* The status of every gate of the readiness spec, required ones never
\* OUT_OF_SCOPE, missing ones NOT_RUN.
GateStatus(g, proofs, manifest) ==
    IF g \in IntegrationGates THEN manifest.results[g].status
    ELSE IF g \notin DOMAIN proofs.results THEN "NOT_RUN"
    ELSE IF proofs.results[g].status = "OUT_OF_SCOPE" THEN "FAIL"
    ELSE proofs.results[g].status

ReadinessBlockers(proofs, manifest) ==
    {g \in ProofGates \cup IntegrationGates : GateStatus(g, proofs, manifest) # "PASS"}

\* evaluate_release_readiness refuses proofs or evidence of another candidate.
EvaluationRaises(wheel, proofs, manifest) ==
    \/ proofs.wheel # wheel
    \/ manifest.spec.wheel # wheel
    \/ proofs.inputs # manifest.spec.inputs

CandidateCertified(wheel, proofs, manifest) ==
    /\ proofs.inputs = manifest.spec.inputs
    /\ Validate([wheel |-> wheel, inputs |-> proofs.inputs], manifest)
    /\ Certified(manifest)
    /\ ~EvaluationRaises(wheel, proofs, manifest)
    /\ ReadinessBlockers(proofs, manifest) = {}
=============================================================================
