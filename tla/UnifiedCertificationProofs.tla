----------------------- MODULE UnifiedCertificationProofs -----------------------
(***************************************************************************)
(* Proofs about UnifiedCertification: what a release, a report and a proof *)
(* on disk say really happened, and every call that changed something was  *)
(* granted.  CertInv is the inductive invariant; a step is proved in two   *)
(* parts, the run's own state (CertOK, PathOK) and what is on disk         *)
(* (DiskOK), and InvKept joins them.  The definitions take calls and truth *)
(* as arguments so that they can be said of the state after a step.        *)
(***************************************************************************)
EXTENDS UnifiedCertification, FiniteSetTheorems, TLAPS

\* The fields of a certification's own state.
Fields == {"pc", "checks", "blockers", "partials", "base", "manifest", "gate", "step",
           "seen", "reports", "parents", "raised", "quiet", "real", "made"}

\* The call a certification serves, and the candidate it is about.
ReqOf(rs) == rs[Len(rs)]
SpecOf(rs) == [wheel |-> ReqOf(rs).wheel, inputs |-> ReqOf(rs).bundle.hash]

\* ProvenFor, of calls rs and of what held in them.
Backed(rs, held, by, what, spec) ==
    /\ by \in held
    /\ by[1] \in 1..Len(rs)
    /\ by[2] = what
    /\ rs[by[1]].wheel = spec.wheel
    /\ rs[by[1]].bundle.hash = spec.inputs

\* A manifest on disk: a PASS in it is backed for the candidate it names.
Sound(rs, held, m) ==
    \A k \in CheckIds : m.results[k].status = "PASS" =>
        Backed(rs, held, m.results[k].by, k, m.spec)

\* Evidence of the run under way: a PASS in it is that run's own.
Own(rs, held, m) ==
    /\ m.spec = SpecOf(rs)
    /\ \A k \in CheckIds : m.results[k].status = "PASS" =>
           m.results[k].by = <<Len(rs), k>> /\ <<Len(rs), k>> \in held

\* A bundle of business-path proofs: a PASS in it is backed likewise.
SoundBundle(rs, held, b) ==
    /\ DOMAIN b.results \subseteq BusinessGates
    /\ \A g \in DOMAIN b.results : b.results[g].status = "PASS" =>
           Backed(rs, held, b.results[g].by, g, [wheel |-> b.wheel, inputs |-> b.inputs])

\* The stages after which the drill, the Warehouse commit, ... the reference
\* database have a status.
WhenDrilled == {"merge", "business", "enter", "path", "cleanup", "proofs"}
WhenCommitted == {"fault", "drill"} \cup WhenDrilled
WhenSparked == {"warehouse"} \cup WhenCommitted
WhenCopied == {"fabric.spark"} \cup WhenSparked
WhenPiped == {"fabric.copy"} \cup WhenCopied
WhenControlled == {"base", "pipeline"} \cup WhenPiped
WhenRead == {"control"} \cup WhenControlled
WhenReferred == {"item"} \cup WhenRead
\* The stages that may call providers, those of the gates, those before them.
Live == {"reference"} \cup WhenReferred
InBusiness == {"enter", "path", "cleanup", "proofs"}
BeforeGates == {"idle", "attest", "bootstrap", "bounded", "load"} \cup (Live \ InBusiness)

\* The live checks that have a status once a stage is reached.
StageChecks(pc) ==
    {k \in {"reference"} \cup RequiredChecks :
        \/ k = "reference" /\ pc \in WhenReferred
        \/ k = "fabric.item.read" /\ pc \in WhenRead
        \/ k = "control.cert" /\ pc \in WhenControlled
        \/ k = "fabric.pipeline" /\ pc \in WhenPiped
        \/ k = "fabric.copy" /\ pc \in WhenCopied
        \/ k = "fabric.spark" /\ pc \in WhenSparked
        \/ k = "warehouse.commit" /\ pc \in WhenCommitted
        \/ k = "warehouse.ambiguous_commit" /\ pc \in WhenDrilled}

\* The checks whose PASS the properties speak of.
Tracked == {"reference"} \cup RequiredChecks \cup BusinessGates

\* Partials, prerequisites and proofs kept in memory are the run's own.
EvidenceOK(rs, held, cc) ==
    /\ \A k \in DOMAIN cc.partials : Own(rs, held, cc.partials[k])
    /\ cc.base # None => Own(rs, held, cc.base)
    /\ cc.manifest # None => Own(rs, held, cc.manifest)
    /\ \A b \in cc.made : SoundBundle(rs, held, b)

\* What a stage rests on: the installed package is the wheel, manifest and bundle are of
\* that wheel, and a gate has its authorizations and every required check behind it.
StageOK(rs, held, cc) ==
    /\ cc.pc # "idle" => Len(rs) > 0
    /\ cc.pc \notin {"idle", "attest"} /\ ReqOf(rs).entry = "installed" =>
           ReqOf(rs).installed = ReqOf(rs).wheel
    /\ cc.pc = "bootstrap" => "migration" \in ReqOf(rs).flags
    /\ cc.pc \in Live => /\ ReqOf(rs).manifestWheel = ReqOf(rs).wheel
                         /\ ReqOf(rs).bundle.wheel = ReqOf(rs).wheel
    /\ cc.pc \in InBusiness =>
           /\ {"business", "scenario", "pipeline"} \subseteq Authorizations(ReqOf(rs))
           /\ \A k \in RequiredChecks : <<Len(rs), k>> \in held

\* A PASS of a check stands for what held.
TrueChecks(rs, held, checks) ==
    /\ \A n \in DOMAIN checks : checks[n] \in Statuses
    /\ \A k \in Tracked \cap DOMAIN checks : checks[k] = "PASS" => <<Len(rs), k>> \in held

BoundedChecks == {"identity", "smoke", "semantics"}

\* Identity, smoke and semantics all passed only if the bounded checks really held.
BoundedOK(rs, held, checks) ==
    /\ BoundedChecks \subseteq DOMAIN checks
    /\ (\A n \in BoundedChecks : checks[n] = "PASS") => <<Len(rs), "bounded">> \in held

\* No check is missing where a report is about to say PASS: each stage has given its own
\* check a status, each finished gate too.
CompleteOK(cc) ==
    /\ StageChecks(cc.pc) \subseteq DOMAIN cc.checks
    /\ cc.pc \in InBusiness =>
           \A i \in 1..Len(Gates) : i < cc.gate \/ cc.pc = "proofs" => Gates[i] \in DOMAIN cc.checks
    /\ cc.pc = "report" => \/ \E n \in DOMAIN cc.checks : cc.checks[n] = "NOT_RUN"
                           \/ Tracked \subseteq DOMAIN cc.checks

\* The checks as a whole.
ChecksOK(rs, held, cc) ==
    /\ TrueChecks(rs, held, cc.checks)
    /\ cc.pc \in {"load", "report"} \cup Live => BoundedOK(rs, held, cc.checks)
    /\ cc.pc = "load" => /\ DOMAIN cc.checks = BoundedChecks
                         /\ cc.checks["identity"] = Verdict(ReqOf(rs).wheel = ReqOf(rs).manifestWheel)
    /\ CompleteOK(cc)

\* The path under way and its data set.  Until the first attempt nothing has landed and
\* nothing is pending; nothing landed means the state is the one observed before; a first
\* attempt that landed changed the state for good, so that an unchanged state observed
\* after it means that nothing had landed by then.
PathOK(w, cc) ==
    /\ DOMAIN w = {"state", "pending", "landings"}
    /\ cc.gate \in 1..5
    /\ cc.pc \in BeforeGates => cc.gate = 1
    /\ DOMAIN cc.seen = {"before", "first", "final"}
    /\ cc.pc = "path" =>
        /\ cc.step \in 1..(IF cc.gate = 4 THEN 8 ELSE 5)
        /\ w.landings \in Nat
        /\ cc.step <= 4 => ~w.pending /\ w.landings = 0
        /\ cc.step > 2 /\ w.landings = 0 => w.state = cc.seen.before
        /\ cc.step \in 3..5 /\ w.landings # 0 => ~w.pending /\ w.state # cc.seen.before
        /\ cc.step > 5 /\ cc.seen.first = cc.seen.before => cc.quiet
    /\ cc.pc = "cleanup" /\ ~cc.raised => cc.real

\* A certification in progress.
CertOK(rs, held, cc) ==
    /\ DOMAIN cc = Fields
    /\ EvidenceOK(rs, held, cc)
    /\ StageOK(rs, held, cc)
    /\ ChecksOK(rs, held, cc)

\* A release is backed for its candidate, check by check and gate by gate.
ReleaseOK(rs, held, r) ==
    /\ \A k \in RequiredChecks : Backed(rs, held, r.manifest.results[k].by, k, r.spec)
    /\ \A g \in BusinessGates : Backed(rs, held, r.proofs.results[g].by, g, r.spec)

\* What outlives a run.
DiskOK ==
    /\ IsFiniteSet(shelf)
    /\ \A x \in shelf : Sound(runs, truth, x.manifest)
    /\ \A x \in proofs : SoundBundle(runs, truth, x.bundle)
    /\ \A r \in releases : ReleaseOK(runs, truth, r)
    /\ ReleaseHidesNothing
    /\ ReportIsHonest

\* The inductive invariant.
CertInv ==
    /\ runs \in Seq(Requests)
    /\ CertOK(runs, truth, c)
    /\ PathOK(world, c)
    /\ DiskOK

\* Later calls leave the earlier ones as they were.
Continues(rs, later) ==
    /\ rs \in Seq(Requests) /\ later \in Seq(Requests)
    /\ Len(rs) <= Len(later)
    /\ \A i \in 1..Len(rs) : later[i] = rs[i]

\* Calls continue themselves.
LEMMA ContinuesItself ==
    ASSUME NEW rs \in Seq(Requests)
    PROVE  Continues(rs, rs)
  BY DEF Continues

\* ... and are continued by one more call (Start).
LEMMA ContinuesAppended ==
    ASSUME NEW rs \in Seq(Requests), NEW q \in Requests
    PROVE  Continues(rs, Append(rs, q)) /\ Len(Append(rs, q)) > 0
  BY DEF Continues

\* What backs a result stays: runs and truth only grow.
LEMMA BackedStays ==
    ASSUME NEW rs, NEW later, Continues(rs, later), NEW held, NEW more, held \subseteq more,
           NEW by, NEW what, NEW spec, Backed(rs, held, by, what, spec)
    PROVE  Backed(later, more, by, what, spec)
  BY DEF Continues, Backed

\* A sound manifest stays sound, whatever later runs do.
LEMMA SoundStays ==
    ASSUME NEW rs, NEW later, Continues(rs, later), NEW held, NEW more, held \subseteq more,
           NEW m, Sound(rs, held, m)
    PROVE  Sound(later, more, m)
  BY BackedStays DEF Sound

\* A sound proof bundle stays sound.
LEMMA SoundBundleStays ==
    ASSUME NEW rs, NEW later, Continues(rs, later), NEW held, NEW more, held \subseteq more,
           NEW b, SoundBundle(rs, held, b)
    PROVE  SoundBundle(later, more, b)
  BY BackedStays DEF SoundBundle

\* Evidence stays the run's own while more turns out to hold.
LEMMA OwnStays ==
    ASSUME NEW rs, NEW held, NEW more, held \subseteq more, NEW m, Own(rs, held, m)
    PROVE  Own(rs, more, m)
  BY DEF Own

\* Evidence of the run under way may be written to disk.
LEMMA OwnIsSound ==
    ASSUME NEW rs \in Seq(Requests), Len(rs) > 0, NEW held, NEW m, Own(rs, held, m)
    PROVE  Sound(rs, held, m)
<1> SUFFICES ASSUME NEW k \in CheckIds, m.results[k].status = "PASS"
             PROVE  Backed(rs, held, m.results[k].by, k, m.spec)
  BY DEF Sound
<1>1. m.results[k].by = <<Len(rs), k>> /\ <<Len(rs), k>> \in held /\ m.spec = SpecOf(rs)
  BY DEF Own
<1>2. Len(rs) \in 1..Len(rs)
  OBVIOUS
<1> QED  BY <1>1, <1>2 DEF Backed, SpecOf, ReqOf

\* A check that has not run has not passed.
LEMMA NotRunIsNoPass == NotRun.status # "PASS"
  BY DEF NotRun

\* run_integration_evidence: the manifest of one runner is the run's own.
LEMMA RunEvidenceOwn ==
    ASSUME NEW rs, NEW held, NEW check, NEW status,
           status = "PASS" => <<Len(rs), check>> \in held
    PROVE  Own(rs, held, RunEvidence(SpecOf(rs), check, Result(status, <<Len(rs), check>>)))
  BY NotRunIsNoPass DEF Own, RunEvidence, Result

\* ... with the runner's result for its check, NOT_RUN for the others.
LEMMA RunEvidenceStatus ==
    ASSUME NEW spec, NEW check \in CheckIds, NEW other \in CheckIds, NEW result
    PROVE  RunEvidence(spec, check, result).results[other]
               = IF other = check THEN result ELSE NotRun
  BY DEF RunEvidence

\* merge_integration_evidence_manifests invents no PASS: some manifest has it.
LEMMA MergedResult ==
    ASSUME NEW spec, NEW M, NEW k \in CheckIds,
           Merge(spec, M).results[k].status = "PASS"
    PROVE  \E m \in M : m.results[k] = Merge(spec, M).results[k]
<1>1. Substantive(M, k) # {}
  BY NotRunIsNoPass DEF Merge
<1>2. Merge(spec, M).results[k] \in Substantive(M, k)
  BY <1>1 DEF Merge
<1> QED  BY <1>2 DEF Substantive

\* Merging evidence of one run gives evidence of that run.
LEMMA MergeOwn ==
    ASSUME NEW rs, NEW held, NEW M, \A m \in M : Own(rs, held, m)
    PROVE  Own(rs, held, Merge(SpecOf(rs), M))
<1>1. Merge(SpecOf(rs), M).spec = SpecOf(rs)
  BY DEF Merge
<1>2. ASSUME NEW k \in CheckIds, Merge(SpecOf(rs), M).results[k].status = "PASS"
      PROVE  /\ Merge(SpecOf(rs), M).results[k].by = <<Len(rs), k>>
             /\ <<Len(rs), k>> \in held
  <2>1. PICK m \in M : m.results[k] = Merge(SpecOf(rs), M).results[k]
    BY <1>2, MergedResult
  <2> QED  BY <1>2, <2>1 DEF Own
<1> QED  BY <1>1, <1>2 DEF Own

\* Merging evidence of several runs for one candidate keeps it sound; that the merge
\* validates each manifest against the candidate is what it takes.
LEMMA MergeSound ==
    ASSUME NEW rs, NEW held, NEW spec, NEW M, \A m \in M : Sound(rs, held, m),
           ~MergeRaises(spec, M)
    PROVE  Sound(rs, held, Merge(spec, M))
<1>1. Merge(spec, M).spec = spec
  BY DEF Merge
<1>2. ASSUME NEW k \in CheckIds, Merge(spec, M).results[k].status = "PASS"
      PROVE  Backed(rs, held, Merge(spec, M).results[k].by, k, spec)
  <2>1. PICK m \in M : m.results[k] = Merge(spec, M).results[k]
    BY <1>2, MergedResult
  <2>2. m.spec = spec
    BY DEF MergeRaises, Validate
  <2> QED  BY <1>2, <2>1, <2>2 DEF Sound
<1> QED  BY <1>1, <1>2 DEF Sound

\* A certified merge leaves no failure behind: two substantive results of one check would
\* have raised.
LEMMA MergeHidesNothing ==
    ASSUME NEW spec, NEW M, IsFiniteSet(M), ~MergeRaises(spec, M), Certified(Merge(spec, M)),
           NEW m \in M, NEW k \in RequiredChecks
    PROVE  m.results[k].status \in {"PASS", "NOT_RUN"}
<1> DEFINE S == Substantive(M, k)
           P == {n \in M : n.results[k].status # "NOT_RUN"}
<1> SUFFICES ASSUME m.results[k].status # "NOT_RUN" PROVE m.results[k].status = "PASS"
  OBVIOUS
<1>1. k \in CheckIds /\ Merge(spec, M).results[k].status = "PASS"
  BY DEF RequiredChecks, Certified
<1>2. m.results[k] \in S
  BY DEF Substantive
<1>3. Merge(spec, M).results[k] \in S
  BY <1>1, <1>2 DEF Merge
<1>4. IsFiniteSet(S)
  <2>1. IsFiniteSet(P)
    BY FS_Subset
  <2>2. [n \in P |-> n.results[k]] \in Surjection(P, S)
    BY DEF Surjection, Substantive
  <2> QED  BY <2>1, <2>2, FS_Surjection
<1>5. ~(Cardinality(S) > 1)
  BY <1>1 DEF MergeRaises
<1>6. ASSUME m.results[k] # Merge(spec, M).results[k] PROVE FALSE
  <2> DEFINE two == {m.results[k]} \cup {Merge(spec, M).results[k]}
  <2>1. IsFiniteSet({m.results[k]}) /\ Cardinality({m.results[k]}) = 1
    BY FS_Singleton
  <2>2. Cardinality(two) = 2
    <3>1. Cardinality(two) = IF Merge(spec, M).results[k] \in {m.results[k]}
                             THEN Cardinality({m.results[k]}) ELSE Cardinality({m.results[k]}) + 1
      BY <2>1, FS_AddElement
    <3>2. Merge(spec, M).results[k] \notin {m.results[k]}
      BY <1>6
    <3> QED  BY <2>1, <3>1, <3>2
  <2>3. two \in SUBSET S
    BY <1>2, <1>3
  <2>4. Cardinality(two) <= Cardinality(S)
    BY <1>4, <2>3, FS_Subset
  <2>5. Cardinality(S) \in Nat
    BY <1>4, FS_CardinalityType
  <2> HIDE DEF two, S
  <2> QED  BY <1>5, <2>2, <2>4, <2>5
<1> QED  BY <1>1, <1>6

\* merge_release_proofs invents no proof: some bundle has it.
LEMMA ProofChosen ==
    ASSUME NEW B, NEW g \in DOMAIN MergeProofs(B).results
    PROVE  /\ g \in ProofGates
           /\ \E b \in B : g \in DOMAIN b.results /\ b.results[g] = MergeProofs(B).results[g]
<1>1. g \in ProofGates /\ ProofsOf(B, g) # {}
  BY DEF MergeProofs
<1>2. MergeProofs(B).results[g] \in ProofsOf(B, g)
  BY <1>1 DEF MergeProofs
<1> QED  BY <1>1, <1>2 DEF ProofsOf

\* ... and gives the one candidate all bundles name.
LEMMA MergedIdentity ==
    ASSUME NEW B, ~ProofMergeRaises(B), NEW b \in B
    PROVE  MergeProofs(B).wheel = b.wheel /\ MergeProofs(B).inputs = b.inputs
<1> DEFINE first == CHOOSE x \in B : TRUE
<1>1. first \in B
  OBVIOUS
<1>2. <<first.wheel, first.inputs>> = <<b.wheel, b.inputs>>
  BY <1>1 DEF ProofMergeRaises
<1>3. MergeProofs(B).wheel = first.wheel /\ MergeProofs(B).inputs = first.inputs
  BY DEF MergeProofs
<1> QED  BY <1>2, <1>3

\* Merged proofs are as sound as the bundles.
LEMMA MergeProofsSound ==
    ASSUME NEW rs, NEW held, NEW B, \A b \in B : SoundBundle(rs, held, b), ~ProofMergeRaises(B)
    PROVE  SoundBundle(rs, held, MergeProofs(B))
<1> DEFINE M == MergeProofs(B)
<1>1. ASSUME NEW g \in DOMAIN M.results
      PROVE  /\ g \in BusinessGates
             /\ M.results[g].status = "PASS" =>
                    Backed(rs, held, M.results[g].by, g, [wheel |-> M.wheel, inputs |-> M.inputs])
  <2>1. PICK b \in B : g \in DOMAIN b.results /\ b.results[g] = M.results[g]
    BY ProofChosen
  <2>2. M.wheel = b.wheel /\ M.inputs = b.inputs
    BY MergedIdentity
  <2>3. SoundBundle(rs, held, b)
    OBVIOUS
  <2> HIDE DEF M
  <2> QED  BY <2>1, <2>2, <2>3 DEF SoundBundle
<1> HIDE DEF M
<1>2. SoundBundle(rs, held, M)
  BY <1>1 DEF SoundBundle
<1> QED  BY <1>2 DEF M

\* Between two calls nothing is claimed.
LEMMA IdleOK ==
    ASSUME NEW rs, NEW held, NEW w, DOMAIN w = {"state", "pending", "landings"}
    PROVE  CertOK(rs, held, Idle) /\ PathOK(w, Idle)
<1>1. DOMAIN Idle = Fields /\ Idle.pc = "idle" /\ Idle.gate = 1
      /\ DOMAIN Idle.seen = {"before", "first", "final"}
  BY DEF Idle, Fields, NoStates
<1>2. DOMAIN Idle.checks = {} /\ DOMAIN Idle.partials = {} /\ Idle.made = {}
      /\ Idle.base = None /\ Idle.manifest = None
  BY DEF Idle
<1>3. EvidenceOK(rs, held, Idle)
  BY <1>2 DEF EvidenceOK
<1>4. StageOK(rs, held, Idle)
  BY <1>1 DEF StageOK, Live, InBusiness, WhenReferred, WhenRead, WhenControlled, WhenPiped,
              WhenCopied, WhenSparked, WhenCommitted, WhenDrilled
<1>5. ChecksOK(rs, held, Idle)
  BY <1>1, <1>2 DEF ChecksOK, TrueChecks, CompleteOK, StageChecks, Live, InBusiness,
              WhenReferred, WhenRead, WhenControlled, WhenPiped,
              WhenCopied, WhenSparked, WhenCommitted, WhenDrilled
<1> QED  BY <1>1, <1>3, <1>4, <1>5 DEF CertOK, PathOK

\* What is on disk stays sound when runs, truth and files grow by sound ones.
LEMMA DiskGrows ==
    ASSUME DiskOK, Continues(runs, runs'), truth \subseteq truth', releases' = releases,
           shelf' = shelf \/ \E x : shelf' = shelf \cup {x} /\ Sound(runs', truth', x.manifest),
           proofs' = proofs \/ \E x : proofs' = proofs \cup {x}
                                      /\ SoundBundle(runs', truth', x.bundle),
           \/ issued' = issued
           \/ \E r : /\ issued' = issued \cup {r}
                     /\ r.status = "PASS" =>
                            \A k \in {"bounded", "reference"} \cup RequiredChecks \cup BusinessGates :
                                <<r.run, k>> \in truth'
    PROVE  DiskOK'
<1>1. IsFiniteSet(shelf')
  BY FS_AddElement DEF DiskOK
<1>2. \A x \in shelf' : Sound(runs', truth', x.manifest)
  BY SoundStays DEF DiskOK
<1>3. \A x \in proofs' : SoundBundle(runs', truth', x.bundle)
  BY SoundBundleStays DEF DiskOK
<1>4. \A r \in releases' : ReleaseOK(runs', truth', r)
  BY BackedStays DEF DiskOK, ReleaseOK
<1>5. ReleaseHidesNothing'
  BY DEF DiskOK, ReleaseHidesNothing
<1>6. ReportIsHonest'
  <2> SUFFICES ASSUME NEW r \in issued', r.status = "PASS",
                      NEW k \in {"bounded", "reference"} \cup RequiredChecks \cup BusinessGates
               PROVE  <<r.run, k>> \in truth'
    BY DEF ReportIsHonest
  <2> QED  BY DEF DiskOK, ReportIsHonest
<1> QED  BY <1>1, <1>2, <1>3, <1>4, <1>5, <1>6 DEF DiskOK

\* A step inside a run: only the run's own state has to be looked at.
LEMMA InvKept ==
    ASSUME CertInv, runs' = runs, truth \subseteq truth', releases' = releases,
           CertOK(runs, truth', c'), PathOK(world', c'),
           shelf' = shelf \/ \E x : shelf' = shelf \cup {x} /\ Sound(runs, truth', x.manifest),
           proofs' = proofs \/ \E x : proofs' = proofs \cup {x}
                                      /\ SoundBundle(runs, truth', x.bundle),
           issued' = issued
    PROVE  CertInv'
<1>1. Continues(runs, runs') /\ runs' \in Seq(Requests)
  BY ContinuesItself DEF CertInv
<1>2. DiskOK'
  BY <1>1, DiskGrows DEF CertInv
<1> QED  BY <1>1, <1>2 DEF CertInv

\* A call that returns or raises forgets its own state.
LEMMA Ended ==
    ASSUME CertInv, Ends, UNCHANGED <<runs, world, truth, retained>>
    PROVE  CertInv'
<1>1. CertOK(runs, truth', c') /\ PathOK(world', c')
  BY IdleOK DEF Ends, CertInv, PathOK
<1> QED  BY <1>1, InvKept DEF retained

\* Noting a status of a check that is true.
LEMMA NotedTrue ==
    ASSUME NEW rs, NEW held, NEW more, NEW checks, NEW check, NEW status,
           held \subseteq more, TrueChecks(rs, held, checks), status \in Statuses,
           check \in Tracked /\ status = "PASS" => <<Len(rs), check>> \in more
    PROVE  TrueChecks(rs, more, Noted(checks, check, status))
<1>1. DOMAIN Noted(checks, check, status) = DOMAIN checks \cup {check}
  BY DEF Noted, Put
<1>2. \A n \in DOMAIN checks \cup {check} :
          Noted(checks, check, status)[n] = IF n = check THEN status ELSE checks[n]
  BY DEF Noted, Put
<1> QED  BY <1>1, <1>2 DEF TrueChecks

\* Noting a later check leaves the bounded ones alone.
LEMMA NotedBounded ==
    ASSUME NEW rs, NEW held, NEW more, NEW checks, NEW check, NEW status,
           held \subseteq more, BoundedOK(rs, held, checks), check \notin BoundedChecks
    PROVE  BoundedOK(rs, more, Noted(checks, check, status))
  BY DEF BoundedOK, BoundedChecks, Noted, Put

\* Checks that did not run are NOT_RUN, which claims nothing.
LEMMA AppendedTrue ==
    ASSUME NEW rs, NEW held, NEW checks, NEW names, TrueChecks(rs, held, checks)
    PROVE  TrueChecks(rs, held, AppendNotRun(checks, names))
<1>1. DOMAIN AppendNotRun(checks, names) = DOMAIN checks \cup names
  BY DEF AppendNotRun
<1>2. \A n \in DOMAIN checks \cup names :
          AppendNotRun(checks, names)[n] = IF n \in DOMAIN checks THEN checks[n] ELSE "NOT_RUN"
  BY DEF AppendNotRun
<1> QED  BY <1>1, <1>2 DEF TrueChecks, Statuses

\* ... and leaves the bounded checks alone.
LEMMA AppendedBounded ==
    ASSUME NEW rs, NEW held, NEW checks, NEW names, BoundedOK(rs, held, checks)
    PROVE  BoundedOK(rs, held, AppendNotRun(checks, names))
  BY DEF BoundedOK, AppendNotRun

\* From one live stage to the next.
LEMMA StageAdvances ==
    ASSUME NEW rs, NEW held, NEW more, NEW cc, NEW dd, held \subseteq more,
           CertOK(rs, held, cc), DOMAIN dd = Fields, EvidenceOK(rs, more, dd),
           cc.pc \in Live, dd.pc \in Live \ InBusiness,
           TrueChecks(rs, more, dd.checks), BoundedOK(rs, more, dd.checks),
           StageChecks(dd.pc) \subseteq DOMAIN dd.checks
    PROVE  CertOK(rs, more, dd)
<1> USE DEF Live, InBusiness, WhenReferred, WhenRead, WhenControlled, WhenPiped,
              WhenCopied, WhenSparked, WhenCommitted, WhenDrilled
<1>1. StageOK(rs, more, dd)
  BY DEF StageOK, CertOK
<1>2. ChecksOK(rs, more, dd)
  BY DEF ChecksOK, CompleteOK
<1> QED  BY <1>1, <1>2 DEF CertOK

\* A stage that gives one check its status.
LEMMA StageNotes ==
    ASSUME NEW rs, NEW held, NEW more, NEW cc, NEW dd, NEW check, NEW status,
           check \in RequiredChecks, status \in Statuses, held \subseteq more,
           CertOK(rs, held, cc), DOMAIN dd = Fields, EvidenceOK(rs, more, dd),
           cc.pc \in Live, dd.pc \in Live \ InBusiness,
           status = "PASS" => <<Len(rs), check>> \in more,
           dd.checks = Noted(cc.checks, check, status),
           StageChecks(dd.pc) \subseteq StageChecks(cc.pc) \cup {check}
    PROVE  CertOK(rs, more, dd)
<1>1. /\ TrueChecks(rs, held, cc.checks) /\ BoundedOK(rs, held, cc.checks)
      /\ StageChecks(cc.pc) \subseteq DOMAIN cc.checks
  BY DEF CertOK, ChecksOK, CompleteOK
<1>2. /\ TrueChecks(rs, more, dd.checks)
      /\ DOMAIN dd.checks = DOMAIN cc.checks \cup {check}
  <2>1. TrueChecks(rs, more, dd.checks)
    BY <1>1, NotedTrue
  <2>2. DOMAIN dd.checks = DOMAIN cc.checks \cup {check}
    BY DEF Noted, Put
  <2> QED  BY <2>1, <2>2
<1>3. check \notin BoundedChecks
  BY DEF BoundedChecks, RequiredChecks, CheckIds
<1>4. BoundedOK(rs, more, dd.checks)
  BY <1>1, <1>3, NotedBounded
<1> QED  BY <1>1, <1>2, <1>4, StageAdvances

\* Leaving the data set of the gates alone.
LEMMA OffPath ==
    ASSUME NEW w, NEW cc, NEW dd, PathOK(w, cc), dd.gate = cc.gate, dd.seen = cc.seen,
           dd.pc \notin {"path", "cleanup"}, dd.pc \in BeforeGates => cc.pc \in BeforeGates
    PROVE  PathOK(w, dd)
  BY DEF PathOK

\* A step that keeps its evidence keeps it its own.
LEMMA EvidenceStays ==
    ASSUME NEW rs, NEW held, NEW more, NEW cc, NEW dd, held \subseteq more, EvidenceOK(rs, held, cc),
           rs \in Seq(Requests),
           dd.partials = cc.partials, dd.base = cc.base, dd.manifest = cc.manifest,
           dd.made = cc.made
    PROVE  EvidenceOK(rs, more, dd)
  BY OwnStays, SoundBundleStays, ContinuesItself DEF EvidenceOK

\* A call: certify_installed or simple.certify.
LEMMA StartKeeps ==
    ASSUME CertInv, NEW q \in Requests, Start(q)
    PROVE  CertInv'
<1> DEFINE rs == Append(runs, q)
<1>1. Continues(runs, rs) /\ rs \in Seq(Requests) /\ Len(rs) > 0 /\ ReqOf(rs) = q
  BY ContinuesAppended DEF CertInv, ReqOf
<1>2. DiskOK'
  BY <1>1, DiskGrows DEF CertInv, Start, retained
<1>3. CertOK(rs, truth, Idle) /\ PathOK(world, Idle)
  BY IdleOK DEF CertInv, PathOK
<1>4. /\ DOMAIN c' = Fields /\ c'.pc \in {"attest", "bounded"}
      /\ q.entry = "installed" => c'.pc = "attest"
      /\ c'.partials = Idle.partials /\ c'.base = Idle.base /\ c'.manifest = Idle.manifest
      /\ c'.made = Idle.made /\ c'.checks = Idle.checks /\ c'.gate = Idle.gate
      /\ c'.seen = Idle.seen
  BY <1>3 DEF Start, CertOK, Fields
<1> HIDE DEF rs
<1>5. EvidenceOK(rs, truth, c')
  BY <1>1, <1>3, <1>4, EvidenceStays DEF CertOK
<1>6. StageOK(rs, truth, c')
  BY <1>1, <1>4 DEF StageOK, Live, InBusiness, WhenReferred, WhenRead, WhenControlled, WhenPiped,
              WhenCopied, WhenSparked, WhenCommitted, WhenDrilled
<1>7. ChecksOK(rs, truth, c')
  <2>1. TrueChecks(rs, truth, c'.checks)
    BY <1>3, <1>4 DEF CertOK, ChecksOK
  <2> QED  BY <1>4, <2>1 DEF ChecksOK, CompleteOK, StageChecks, Live, InBusiness,
              WhenReferred, WhenRead, WhenControlled, WhenPiped,
              WhenCopied, WhenSparked, WhenCommitted, WhenDrilled
<1>8. PathOK(world, c')
  BY <1>3, <1>4, OffPath DEF BeforeGates, Idle
<1>9. runs' = rs /\ truth' = truth /\ world' = world
  BY DEF Start, rs
<1> QED  BY <1>1, <1>2, <1>4, <1>5, <1>6, <1>7, <1>8, <1>9 DEF CertInv, CertOK

\* The steps before the bounded checks.
LEMMA EarlyGoes ==
    ASSUME CertInv, UNCHANGED <<runs, world, truth, retained>>,
           NEW pc \in {"bootstrap", "bounded"}, Goes(pc), c.pc \in {"attest", "bootstrap"},
           Req.entry = "installed" => Req.installed = Req.wheel,
           pc = "bootstrap" => "migration" \in Req.flags
    PROVE  CertInv'
<1>1. /\ DOMAIN c' = Fields /\ c'.pc = pc
      /\ c'.partials = c.partials /\ c'.base = c.base /\ c'.manifest = c.manifest
      /\ c'.made = c.made /\ c'.checks = c.checks /\ c'.gate = c.gate
      /\ c'.seen = c.seen
  BY DEF Goes, CertInv, CertOK, Fields
<1>2. EvidenceOK(runs, truth, c')
  BY <1>1, EvidenceStays DEF CertInv, CertOK
<1>3. StageOK(runs, truth, c')
  BY <1>1 DEF CertInv, CertOK, StageOK, Req, Run, ReqOf, Live, InBusiness, WhenReferred, WhenRead,
              WhenControlled, WhenPiped, WhenCopied, WhenSparked, WhenCommitted, WhenDrilled
<1>4. TrueChecks(runs, truth, c'.checks)
  BY <1>1 DEF CertInv, CertOK, ChecksOK
<1>5. ChecksOK(runs, truth, c')
  BY <1>1, <1>4 DEF ChecksOK, CompleteOK, StageChecks, Live, InBusiness,
              WhenReferred, WhenRead, WhenControlled, WhenPiped,
              WhenCopied, WhenSparked, WhenCommitted, WhenDrilled
<1>6. PathOK(world, c')
  BY <1>1, OffPath DEF CertInv, BeforeGates
<1>7. CertOK(runs, truth, c')
  BY <1>1, <1>2, <1>3, <1>5 DEF CertOK
<1> QED  BY <1>6, <1>7, InvKept DEF retained

\* The installed package is compared with the wheel.
LEMMA AttestKeeps ==
    ASSUME CertInv, Attest
    PROVE  CertInv'
<1>1. UNCHANGED <<runs, world, truth, retained>> /\ c.pc = "attest"
  BY DEF Attest
<1>2. CASE Req.installed # Req.wheel \/ "acceptance" \in Req.broken
  BY <1>1, <1>2, Ended DEF Attest
<1>3. CASE Req.installed = Req.wheel /\ "acceptance" \notin Req.broken
  <2>1. CASE Bundle # None /\ {"live", "migration"} \subseteq Req.flags
    <3>1. Goes("bootstrap")
      BY <1>3, <2>1 DEF Attest
    <3> QED  BY <1>1, <1>3, <2>1, <3>1, EarlyGoes
  <2>2. CASE ~(Bundle # None /\ {"live", "migration"} \subseteq Req.flags)
    <3>1. Goes("bounded")
      BY <1>3, <2>2 DEF Attest
    <3> QED  BY <1>1, <1>3, <3>1, EarlyGoes
  <2> QED  BY <2>1, <2>2
<1> QED  BY <1>2, <1>3

\* The control plane is migrated and deployed after a bounded preflight.
LEMMA BootstrapKeeps ==
    ASSUME CertInv, Bootstrap
    PROVE  CertInv'
<1>1. UNCHANGED <<runs, world, truth, retained>> /\ c.pc = "bootstrap"
  BY DEF Bootstrap
<1>2. Ends \/ Goes("bounded")
  BY Zenon DEF Bootstrap
<1>3. Req.entry = "installed" => Req.installed = Req.wheel
  BY <1>1 DEF CertInv, CertOK, StageOK, Req, Run, ReqOf
<1> QED  BY <1>1, <1>2, <1>3, Ended, EarlyGoes

\* The bounded checks.
LEMMA BoundedKeeps ==
    ASSUME CertInv, Bounded
    PROVE  CertInv'
<1>1. PICK smoke \in BOOLEAN :
        /\ Witness("bounded", IdentityExact /\ smoke /\ SemanticsHold)
        /\ c' = [c EXCEPT !.pc = "load",
                     !.checks = [identity |-> Verdict(IdentityExact),
                                 smoke |-> IF IdentityExact THEN Verdict(smoke) ELSE "NOT_RUN",
                                 semantics |-> IF IdentityExact THEN Verdict(SemanticsHold)
                                               ELSE "NOT_RUN"]]
  BY Zenon DEF Bounded
<1>2. UNCHANGED <<runs, world, retained>> /\ c.pc = "bounded"
  BY DEF Bounded
<1>3. /\ truth \subseteq truth'
      /\ IdentityExact /\ smoke /\ SemanticsHold => <<Len(runs), "bounded">> \in truth'
  BY <1>1 DEF Witness, Run
<1>4. /\ DOMAIN c' = Fields /\ c'.pc = "load"
      /\ c'.partials = c.partials /\ c'.base = c.base /\ c'.manifest = c.manifest
      /\ c'.made = c.made /\ c'.gate = c.gate /\ c'.seen = c.seen
      /\ c'.checks = [identity |-> Verdict(IdentityExact),
                      smoke |-> IF IdentityExact THEN Verdict(smoke) ELSE "NOT_RUN",
                      semantics |-> IF IdentityExact THEN Verdict(SemanticsHold)
                                    ELSE "NOT_RUN"]
  BY <1>1 DEF CertInv, CertOK, Fields
<1>5. /\ DOMAIN c'.checks = BoundedChecks
      /\ c'.checks["identity"] = Verdict(IdentityExact)
      /\ c'.checks["smoke"] = IF IdentityExact THEN Verdict(smoke) ELSE "NOT_RUN"
      /\ c'.checks["semantics"] = IF IdentityExact THEN Verdict(SemanticsHold)
                                   ELSE "NOT_RUN"
  BY <1>4 DEF BoundedChecks
<1>6. EvidenceOK(runs, truth', c')
  BY <1>3, <1>4, EvidenceStays DEF CertInv, CertOK
<1>7. StageOK(runs, truth', c')
  BY <1>2, <1>4 DEF CertInv, CertOK, StageOK, Live, InBusiness, WhenReferred, WhenRead,
              WhenControlled, WhenPiped, WhenCopied, WhenSparked, WhenCommitted, WhenDrilled
<1>8. ChecksOK(runs, truth', c')
  <2>1. TrueChecks(runs, truth', c'.checks)
    BY <1>5 DEF BoundedChecks, TrueChecks, Statuses, Verdict, Tracked, RequiredChecks,
                CheckIds, BusinessGates
  <2>2. BoundedOK(runs, truth', c'.checks)
    BY <1>1, <1>3, <1>5 DEF BoundedChecks, BoundedOK, Verdict
  <2>3. CompleteOK(c')
    BY <1>4 DEF CompleteOK, StageChecks, InBusiness,
              WhenReferred, WhenRead, WhenControlled, WhenPiped,
              WhenCopied, WhenSparked, WhenCommitted, WhenDrilled
  <2>4. c'.checks["identity"] = Verdict(ReqOf(runs).wheel = ReqOf(runs).manifestWheel)
    BY <1>5 DEF IdentityExact, Req, Run, ReqOf
  <2> QED  BY <1>5, <2>1, <2>2, <2>3, <2>4 DEF ChecksOK
<1>9. PathOK(world, c')
  BY <1>2, <1>4, OffPath DEF CertInv, BeforeGates
<1>10. CertOK(runs, truth', c')
  BY <1>4, <1>6, <1>7, <1>8 DEF CertOK
<1> QED  BY <1>2, <1>3, <1>9, <1>10, InvKept DEF retained

\* No bundle, or a failed bounded check: everything live is NOT_RUN.
LEMMA PreintegrationKeeps ==
    ASSUME CertInv, Preintegration
    PROVE  CertInv'
<1>1. UNCHANGED <<runs, world, truth, retained>> /\ c.pc = "load"
  BY DEF Preintegration
<1>2. /\ DOMAIN c' = Fields /\ c'.pc = "report"
      /\ c'.partials = c.partials /\ c'.base = c.base /\ c'.manifest = c.manifest
      /\ c'.made = c.made /\ c'.gate = c.gate /\ c'.seen = c.seen
      /\ c'.checks = AppendNotRun(c.checks, LiveChecks)
  BY DEF Preintegration, CertInv, CertOK, Fields
<1>3. EvidenceOK(runs, truth, c')
  BY <1>2, EvidenceStays DEF CertInv, CertOK
<1>4. StageOK(runs, truth, c')
  BY <1>1, <1>2 DEF CertInv, CertOK, StageOK, Live, InBusiness, WhenReferred, WhenRead,
              WhenControlled, WhenPiped, WhenCopied, WhenSparked, WhenCommitted, WhenDrilled
<1>5. ChecksOK(runs, truth, c')
  <2>1. /\ TrueChecks(runs, truth, c.checks) /\ BoundedOK(runs, truth, c.checks)
        /\ DOMAIN c.checks = BoundedChecks
    BY <1>1 DEF CertInv, CertOK, ChecksOK
  <2>2. TrueChecks(runs, truth, c'.checks) /\ BoundedOK(runs, truth, c'.checks)
    BY <1>2, <2>1, AppendedTrue, AppendedBounded
  <2>3. "control.cert" \in LiveChecks \ DOMAIN c.checks
    BY <2>1 DEF BoundedChecks, LiveChecks, RequiredChecks, CheckIds
  <2>4. "control.cert" \in DOMAIN c'.checks /\ c'.checks["control.cert"] = "NOT_RUN"
    BY <1>2, <2>3 DEF AppendNotRun
  <2>5. CompleteOK(c')
    BY <1>2, <2>4 DEF CompleteOK, StageChecks, InBusiness,
              WhenReferred, WhenRead, WhenControlled, WhenPiped,
              WhenCopied, WhenSparked, WhenCommitted, WhenDrilled
  <2> QED  BY <1>2, <2>2, <2>5 DEF ChecksOK
<1>6. PathOK(world, c')
  BY <1>1, <1>2, OffPath DEF CertInv, BeforeGates
<1>7. CertOK(runs, truth, c')
  BY <1>2, <1>3, <1>4, <1>5 DEF CertOK
<1> QED  BY <1>1, <1>6, <1>7, InvKept DEF retained

\* load_integration_context binds bundle, config and release to the wheel.
LEMMA LoadKeeps ==
    ASSUME CertInv, Load
    PROVE  CertInv'
<1>1. UNCHANGED <<runs, world, truth, retained>> /\ c.pc = "load"
  BY DEF Load
<1>2. CASE LoadRaises(Req)
  BY <1>1, <1>2, Ended DEF Load
<1>3. CASE ~LoadRaises(Req)
  <2>1. c' = [c EXCEPT !.pc = "reference", !.checks = Noted(@, "fixtures", "PASS")]
    BY <1>3 DEF Load
  <2>2. /\ DOMAIN c' = Fields /\ c'.pc = "reference"
        /\ c'.partials = c.partials /\ c'.base = c.base /\ c'.manifest = c.manifest
        /\ c'.made = c.made /\ c'.gate = c.gate /\ c'.seen = c.seen
        /\ c'.checks = Noted(c.checks, "fixtures", "PASS")
    BY <2>1 DEF CertInv, CertOK, Fields
  <2>3. EvidenceOK(runs, truth, c')
    BY <2>2, EvidenceStays DEF CertInv, CertOK
  <2>4. /\ TrueChecks(runs, truth, c.checks) /\ BoundedOK(runs, truth, c.checks)
        /\ DOMAIN c.checks = BoundedChecks
        /\ c.checks["identity"] = Verdict(ReqOf(runs).wheel = ReqOf(runs).manifestWheel)
    BY <1>1 DEF CertInv, CertOK, ChecksOK
  <2>5. c.checks["identity"] # "FAIL"
    BY <2>4 DEF BoundedChecks, Load
  <2>6. /\ ReqOf(runs).wheel = ReqOf(runs).manifestWheel
        /\ ReqOf(runs).bundle.wheel = ReqOf(runs).wheel
    BY <1>3, <2>4, <2>5 DEF Verdict, LoadRaises, Req, Run, ReqOf
  <2>7. StageOK(runs, truth, c')
    BY <1>1, <2>2, <2>6 DEF CertInv, CertOK, StageOK, InBusiness
  <2>8. "fixtures" \notin Tracked \cup BoundedChecks /\ "PASS" \in Statuses
    BY DEF BoundedChecks, Tracked, RequiredChecks, CheckIds, BusinessGates, Statuses
  <2>9. TrueChecks(runs, truth, c'.checks)
    <3>1. /\ TrueChecks(runs, truth, c.checks) /\ truth \subseteq truth
          /\ "fixtures" \notin Tracked /\ "PASS" \in Statuses
      BY <2>4, <2>8
    <3>2. TrueChecks(runs, truth, Noted(c.checks, "fixtures", "PASS"))
      BY <3>1, NotedTrue
    <3> QED  BY <2>2, <3>2
  <2>10. BoundedOK(runs, truth, c'.checks)
    BY <2>2, <2>4, <2>8, NotedBounded
  <2>11. CompleteOK(c')
    BY <2>2 DEF CompleteOK, StageChecks, InBusiness,
              WhenReferred, WhenRead, WhenControlled, WhenPiped,
              WhenCopied, WhenSparked, WhenCommitted, WhenDrilled
  <2>12. ChecksOK(runs, truth, c')
    BY <2>2, <2>9, <2>10, <2>11 DEF ChecksOK
  <2>13. PathOK(world, c')
    BY <1>1, <2>2, OffPath DEF CertInv, BeforeGates
  <2>14. CertOK(runs, truth, c')
    BY <2>2, <2>3, <2>7, <2>12 DEF CertOK
  <2> QED  BY <1>1, <2>13, <2>14, InvKept DEF retained
<1> QED  BY <1>2, <1>3

\* A certified reference report says what the database really does.
LEMMA ReferenceMeans ==
    ASSUME NEW d, NEW profile, NEW evidence, NEW cleaned,
           ReferenceCertified(Report(d, profile, evidence, cleaned))
    PROVE  /\ d.rollsBack /\ d.cas
           /\ d.version = RequiredVersion /\ d.tables >= RequiredVersion
<1> DEFINE s == StaticChecks(d, profile)
           p == Probes(d, profile, cleaned)
<1>1. /\ \A k \in DOMAIN s : s[k] = "PASS"
      /\ \A k \in DOMAIN p : p[k] = "PASS"
  BY DEF ReferenceCertified, Report
<1>2. /\ "schema_version" \in DOMAIN s /\ s["schema_version"] = Verdict(d.version = RequiredVersion)
      /\ "required_tables" \in DOMAIN s /\ s["required_tables"] = Verdict(d.tables >= RequiredVersion)
  BY DEF StaticChecks
<1>3. d.version = RequiredVersion /\ d.tables >= RequiredVersion
  <2> HIDE DEF s, p
  <2> QED  BY <1>1, <1>2 DEF Verdict
<1>4. /\ "transaction_rollback" \in DOMAIN p
      /\ p["transaction_rollback"] = Verdict(d.rollsBack)
      /\ "target_operation_cas" \in DOMAIN p
      /\ p["target_operation_cas"] = RunProbe(TargetOperationCasProbe(d), cleaned)
  BY <1>1 DEF Probes, TransactionRollbackProbe
<1>5. d.rollsBack
  <2> HIDE DEF s, p
  <2> QED  BY <1>1, <1>4 DEF Verdict
<1>6. TargetOperationCasProbe(d)
  <2> HIDE DEF s, p
  <2> QED  BY <1>1, <1>4 DEF Verdict, RunProbe
<1> QED  BY <1>3, <1>5, <1>6 DEF TargetOperationCasProbe, VersionConflict

\* What INPUTS.json declares is none of the tracked checks.
LEMMA DeclaredTrue ==
    ASSUME NEW checks, TrueChecks(runs, truth, checks), BoundedOK(runs, truth, checks)
    PROVE  /\ TrueChecks(runs, truth, Declared(checks))
           /\ BoundedOK(runs, truth, Declared(checks))
<1> DEFINE status(blocker) == IF blocker \in Bundle.blockers THEN "BLOCKED" ELSE "PASS"
           one == Noted(checks, "control.external_evidence", status("external"))
<1>1. Declared(checks) = Noted(one, "warehouse.fault_controller", status("controller"))
  BY DEF Declared
<1>2. status("external") \in Statuses /\ status("controller") \in Statuses
  BY DEF Statuses
<1>3. {"control.external_evidence", "warehouse.fault_controller"}
          \cap (Tracked \cup BoundedChecks) = {}
  BY DEF BoundedChecks, Tracked, RequiredChecks, CheckIds, BusinessGates
<1> HIDE DEF status
<1>4. TrueChecks(runs, truth, one) /\ BoundedOK(runs, truth, one)
  BY <1>2, <1>3, NotedTrue, NotedBounded
<1> HIDE DEF one
<1> QED  BY <1>1, <1>2, <1>3, <1>4, NotedTrue, NotedBounded

\* The reference database certification of the prerequisite stage.
LEMMA ReferenceKeeps ==
    ASSUME CertInv, Reference
    PROVE  CertInv'
<1> DEFINE ran == ReferenceReady /\ Allowed("writes")
           migrates == ran /\ Allowed("migration")
           after == IF migrates THEN Migrate(db) ELSE db
           passed(cleaned) ==
               /\ ~(migrates /\ MigrationRaises(db))
               /\ ReferenceCertified(Report(after, Bundle.profile, {}, cleaned))
           status(cleaned) == IF ~ReferenceReady THEN "BLOCKED"
                              ELSE IF ~Allowed("writes") THEN "NOT_RUN"
                              ELSE Verdict(passed(cleaned))
           real == ran /\ after.rollsBack /\ after.cas /\ after.version = RequiredVersion
<1>1. UNCHANGED <<runs, world, retained>> /\ c.pc = "reference"
  BY DEF Reference
<1>2. PICK cleaned \in BOOLEAN :
         /\ Witness("reference", real)
         /\ c' = [c EXCEPT !.pc = "item", !.blockers = @ \cup Bundle.blockers,
                        !.checks = Noted(Declared(@), "reference", status(cleaned))]
  BY Zenon DEF Reference
<1>3. status(cleaned) = "PASS" => real
  <2> SUFFICES ASSUME status(cleaned) = "PASS" PROVE real
    OBVIOUS
  <2>1. ran /\ passed(cleaned)
    BY DEF Verdict
  <2>2. after.rollsBack /\ after.cas /\ after.version = RequiredVersion
    <3> HIDE DEF after
    <3> QED  BY <2>1, ReferenceMeans
  <2> QED  BY <2>1, <2>2
<1>4. status(cleaned) \in Statuses
  BY DEF Statuses, Verdict
<1> HIDE DEF status, real
<1>5. truth \subseteq truth' /\ (status(cleaned) = "PASS" => <<Len(runs), "reference">> \in truth')
  BY <1>2, <1>3 DEF Witness, Run
<1>6. /\ DOMAIN c' = Fields /\ c'.pc = "item"
      /\ c'.partials = c.partials /\ c'.base = c.base /\ c'.manifest = c.manifest
      /\ c'.made = c.made /\ c'.gate = c.gate /\ c'.seen = c.seen
      /\ c'.checks = Noted(Declared(c.checks), "reference", status(cleaned))
  BY <1>2 DEF CertInv, CertOK, Fields
<1>7. EvidenceOK(runs, truth', c')
  BY <1>5, <1>6, EvidenceStays DEF CertInv, CertOK
<1>8. TrueChecks(runs, truth, Declared(c.checks)) /\ BoundedOK(runs, truth, Declared(c.checks))
  BY <1>1, DeclaredTrue DEF CertInv, CertOK, ChecksOK, Live
<1>9. TrueChecks(runs, truth', c'.checks)
  BY <1>4, <1>5, <1>6, <1>8, NotedTrue
<1>10. BoundedOK(runs, truth', c'.checks)
  BY <1>5, <1>6, <1>8, NotedBounded DEF BoundedChecks
<1>11. StageChecks(c'.pc) \subseteq DOMAIN c'.checks
  <2>1. "reference" \in DOMAIN c'.checks
    BY <1>6 DEF Noted, Put
  <2> QED  BY <1>6, <2>1 DEF StageChecks, 
              WhenReferred, WhenRead, WhenControlled, WhenPiped,
              WhenCopied, WhenSparked, WhenCommitted, WhenDrilled
<1>12. c.pc \in Live /\ c'.pc \in Live \ InBusiness
  BY <1>1, <1>6 DEF Live, InBusiness, WhenReferred
<1>13. CertOK(runs, truth', c')
  BY <1>5, <1>6, <1>7, <1>9, <1>10, <1>11, <1>12, StageAdvances DEF CertInv
<1>14. PathOK(world, c')
  BY <1>1, <1>6, OffPath DEF CertInv, BeforeGates, Live, InBusiness
<1> QED  BY <1>1, <1>5, <1>13, <1>14, InvKept DEF retained

\* Every runner is given the candidate of its own call.
LEMMA SpecIsOwn == Spec0 = SpecOf(runs)
  BY DEF Spec0, SpecOf, Req, Run, Bundle, ReqOf

\* Which check each stage gives its status.
LEMMA StageOrder ==
    /\ StageChecks("control") \subseteq StageChecks("item") \cup {"fabric.item.read"}
    /\ StageChecks("base") \subseteq StageChecks("control") \cup {"control.cert"}
    /\ StageChecks("pipeline") \subseteq StageChecks("base")
    /\ StageChecks("fabric.copy") \subseteq StageChecks("pipeline") \cup {"fabric.pipeline"}
    /\ StageChecks("fabric.spark") \subseteq StageChecks("fabric.copy") \cup {"fabric.copy"}
    /\ StageChecks("warehouse") \subseteq StageChecks("fabric.spark") \cup {"fabric.spark"}
    /\ StageChecks("fault") \subseteq StageChecks("warehouse") \cup {"warehouse.commit"}
    /\ StageChecks("drill") \subseteq StageChecks("fault")
    /\ StageChecks("merge") \subseteq StageChecks("drill") \cup {"warehouse.ambiguous_commit"}
    /\ StageChecks("business") \subseteq StageChecks("merge")
  BY DEF StageChecks, WhenReferred, WhenRead, WhenControlled, WhenPiped,
         WhenCopied, WhenSparked, WhenCommitted, WhenDrilled

\* The stages between the reference database and the gates.
LEMMA StagesAreLive ==
    {"item", "control", "base", "pipeline", "fabric.copy", "fabric.spark", "warehouse", "fault",
     "drill", "merge", "business"} \subseteq Live \ InBusiness
  BY DEF Live, InBusiness, WhenReferred, WhenRead, WhenControlled, WhenPiped,
         WhenCopied, WhenSparked, WhenCommitted, WhenDrilled

\* A partial that is kept.
LEMMA PutOwn ==
    ASSUME NEW rs, NEW held, NEW more, NEW f, NEW key, NEW m, held \subseteq more,
           \A k \in DOMAIN f : Own(rs, held, f[k]), Own(rs, more, m)
    PROVE  \A k \in DOMAIN Put(f, key, m) : Own(rs, more, Put(f, key, m)[k])
<1> SUFFICES ASSUME NEW k \in DOMAIN Put(f, key, m) PROVE Own(rs, more, Put(f, key, m)[k])
  OBVIOUS
<1>1. CASE k = key
  BY <1>1 DEF Put
<1>2. CASE k # key
  <2>1. k \in DOMAIN f /\ Put(f, key, m)[k] = f[k]
    BY <1>2 DEF Put
  <2> QED  BY <2>1, OwnStays
<1> QED  BY <1>1, <1>2

\* A check that is skipped, or whose preflight fails.
LEMMA NotRanKeeps ==
    ASSUME CertInv, UNCHANGED <<runs, world, truth, retained>>,
           NEW check \in RequiredChecks, NEW next \in Live \ InBusiness, c.pc \in Live \ InBusiness,
           StageChecks(next) \subseteq StageChecks(c.pc) \cup {check},
           \/ c' = [Failed(check) EXCEPT !.pc = next]
           \/ c' = [Skipped(check) EXCEPT !.pc = next]
    PROVE  CertInv'
<1>1. PICK status \in {"FAIL", "NOT_RUN"} :
      /\ DOMAIN c' = Fields /\ c'.pc = next
      /\ c'.partials = c.partials /\ c'.base = c.base /\ c'.manifest = c.manifest
      /\ c'.made = c.made /\ c'.gate = c.gate /\ c'.seen = c.seen
      /\ c'.checks = Noted(c.checks, check, status)
  <2>1. CASE c' = [Failed(check) EXCEPT !.pc = next]
    <3>1. /\ DOMAIN c' = Fields /\ c'.pc = next
          /\ c'.partials = c.partials /\ c'.base = c.base /\ c'.manifest = c.manifest
          /\ c'.made = c.made /\ c'.gate = c.gate /\ c'.seen = c.seen
          /\ c'.checks = Noted(c.checks, check, "FAIL")
      BY <2>1 DEF Failed, CertInv, CertOK, Fields
    <3> QED  BY <3>1
  <2>2. CASE c' = [Skipped(check) EXCEPT !.pc = next]
    <3>1. /\ DOMAIN c' = Fields /\ c'.pc = next
          /\ c'.partials = c.partials /\ c'.base = c.base /\ c'.manifest = c.manifest
          /\ c'.made = c.made /\ c'.gate = c.gate /\ c'.seen = c.seen
          /\ c'.checks = Noted(c.checks, check, "NOT_RUN")
      BY <2>2 DEF Skipped, CertInv, CertOK, Fields
    <3> QED  BY <3>1
  <2> QED  BY <2>1, <2>2
<1>2. EvidenceOK(runs, truth, c')
  BY <1>1, EvidenceStays DEF CertInv, CertOK
<1>3. status \in Statuses /\ status # "PASS"
  BY DEF Statuses
<1>4. CertOK(runs, truth, c')
  BY <1>1, <1>2, <1>3, StageNotes DEF CertInv
<1>5. PathOK(world, c')
  BY <1>1, OffPath DEF CertInv, InBusiness, BeforeGates
<1> QED  BY <1>4, <1>5, InvKept DEF retained

\* A runner was called: its manifest tells of its own check what held.
LEMMA RanKeeps ==
    ASSUME CertInv, UNCHANGED <<runs, world, proofs, issued, releases>>,
           NEW check \in RequiredChecks, NEW selected \in CheckIds, NEW next \in Live \ InBusiness,
           c.pc \in Live \ InBusiness, StageChecks(next) \subseteq StageChecks(c.pc) \cup {check},
           NEW status \in {"PASS", "FAIL"}, NEW kept, NEW real \in BOOLEAN, NEW m, NEW ok, NEW key,
           status = "PASS" => real, Witness(selected, real),
           m = RunEvidence(Spec0, selected, Result(status, <<Run, selected>>)),
           WrittenIf(ok, key, m),
           DOMAIN c' = Fields, c'.pc = next, c'.checks = Executed(check, m, kept).checks,
           c'.partials = Executed(check, m, kept).partials,
           c'.base = c.base, c'.manifest = c.manifest, c'.made = c.made, c'.gate = c.gate,
           c'.seen = c.seen
    PROVE  CertInv'
<1>1. truth \subseteq truth' /\ (status = "PASS" => <<Len(runs), selected>> \in truth')
  BY DEF Witness, Run
<1>2. Own(runs, truth', m)
  BY <1>1, SpecIsOwn, RunEvidenceOwn DEF Run
<1>3. Len(runs) > 0 /\ runs \in Seq(Requests)
  BY StagesAreLive DEF CertInv, CertOK, StageOK, Live, InBusiness, WhenReferred, WhenRead,
         WhenControlled, WhenPiped, WhenCopied, WhenSparked, WhenCommitted, WhenDrilled
<1>4. Sound(runs, truth', m)
  BY <1>2, <1>3, OwnIsSound
<1>5. shelf' = shelf \/ \E x : shelf' = shelf \cup {x} /\ Sound(runs, truth', x.manifest)
  <2>1. [run |-> Run, key |-> key, manifest |-> m].manifest = m
    OBVIOUS
  <2> QED  BY <1>4, <2>1 DEF WrittenIf
<1>6. check \in CheckIds
  BY DEF RequiredChecks
<1>7. /\ m.results[check].status \in Statuses
      /\ m.results[check].status = "PASS" => check = selected /\ status = "PASS"
  <2>1. m.results[check] = IF check = selected THEN Result(status, <<Run, selected>>) ELSE NotRun
    BY <1>6, RunEvidenceStatus
  <2> QED  BY <2>1 DEF Result, NotRun, Statuses
<1>8. CertOK(runs, truth', c')
  <2>1. CASE kept = "all"
    <3>1. /\ c'.checks = Noted(c.checks, check, m.results[check].status)
          /\ c'.partials = Put(c.partials, check, m)
      BY <2>1 DEF Executed, CertInv, CertOK, Fields
    <3>2. EvidenceOK(runs, truth', c')
      <4>1. EvidenceOK(runs, truth, c) /\ runs \in Seq(Requests)
        BY DEF CertInv, CertOK
      <4>2. truth \subseteq truth'
        BY <1>1
      <4>3. \A k \in DOMAIN c.partials : Own(runs, truth, c.partials[k])
        BY <4>1 DEF EvidenceOK
      <4>4. \A k \in DOMAIN Put(c.partials, check, m) :
                Own(runs, truth', Put(c.partials, check, m)[k])
        BY <1>2, <4>2, <4>3, PutOwn
      <4> QED  BY <3>1, <4>1, <4>2, <4>4, OwnStays, SoundBundleStays, ContinuesItself
               DEF EvidenceOK
    <3> DEFINE st == m.results[check].status
    <3>3. /\ c'.checks = Noted(c.checks, check, st) /\ st \in Statuses
          /\ st = "PASS" => <<Len(runs), check>> \in truth'
      BY <1>1, <1>7, <3>1
    <3> HIDE DEF st
    <3>4. CertOK(runs, truth, c)
      BY DEF CertInv
    <3> QED  BY <1>1, <3>2, <3>3, <3>4, StageNotes
  <2>2. CASE kept # "all"
    <3>1. /\ c'.checks = Noted(c.checks, check, "FAIL")
          /\ c'.partials = c.partials
      BY <2>2 DEF Executed, Failed, CertInv, CertOK, Fields
    <3>2. EvidenceOK(runs, truth', c')
      BY <1>1, <3>1, EvidenceStays DEF CertInv, CertOK
    <3>3. "FAIL" \in Statuses
      BY DEF Statuses
    <3> QED  BY <1>1, <3>1, <3>2, <3>3, StageNotes DEF CertInv
  <2> QED  BY <2>1, <2>2
<1>9. PathOK(world, c')
  BY OffPath DEF CertInv, InBusiness, BeforeGates
<1> QED  BY <1>1, <1>5, <1>8, <1>9, InvKept

\* A runner that was called leaves prerequisites, proofs and gate alone.
LEMMA ExecutedFields ==
    ASSUME DOMAIN c = Fields, NEW check, NEW m, NEW kept
    PROVE  LET e == Executed(check, m, kept)
           IN /\ DOMAIN e = Fields
              /\ e.base = c.base /\ e.manifest = c.manifest /\ e.made = c.made
              /\ e.gate = c.gate /\ e.seen = c.seen /\ e.parents = c.parents
<1>1. CASE kept = "all"
  BY <1>1 DEF Executed, Fields
<1>2. CASE kept # "all"
  BY <1>2 DEF Executed, Failed, Fields
<1> QED  BY <1>1, <1>2

\* The item read, kept in memory before it is written.
LEMMA ItemReadKeeps ==
    ASSUME CertInv, ItemRead
    PROVE  CertInv'
<1>1. UNCHANGED <<runs, world, proofs, issued, releases>> /\ c.pc = "item"
  BY DEF ItemRead
<1>2. /\ c.pc \in Live \ InBusiness /\ "control" \in Live \ InBusiness
      /\ StageChecks("control") \subseteq StageChecks(c.pc) \cup {"fabric.item.read"}
      /\ "fabric.item.read" \in RequiredChecks \cap CheckIds
  BY <1>1, StagesAreLive, StageOrder DEF RequiredChecks, CheckIds
<1>3. CASE ~PlanReady(Bundle.config, Spec0, "fabric.item.read", Environ, FALSE)
  <2>1. /\ c' = [Failed("fabric.item.read") EXCEPT !.pc = "control"]
        /\ UNCHANGED <<truth, shelf>>
    BY <1>3 DEF ItemRead
  <2> QED  BY <1>1, <1>2, <2>1, NotRanKeeps DEF retained
<1>4. CASE PlanReady(Bundle.config, Spec0, "fabric.item.read", Environ, FALSE)
  <2> DEFINE m(read) == RunEvidence(Spec0, "fabric.item.read",
                            Result(ItemReadStatus(read), <<Run, "fabric.item.read">>))
             kept(read) == [c EXCEPT !.partials = Put(@, "fabric.item.read", m(read))]
  <2>1. PICK read \in {"exact", "other"}, written \in BOOLEAN :
          /\ Witness("fabric.item.read", read = "exact")
          /\ WrittenIf(written, "fabric.item.read", m(read))
          /\ c' = [kept(read) EXCEPT !.pc = "control",
                       !.checks = Noted(@, "fabric.item.read",
                                      IF written THEN ItemReadStatus(read) ELSE "FAIL"),
                       !.blockers = @ \cup (IF written THEN {} ELSE {"fabric.item.read"})]
    BY <1>4, Zenon DEF ItemRead
  <2> DEFINE e == m(read)
             st == IF written THEN ItemReadStatus(read) ELSE "FAIL"
  <2>2. /\ truth \subseteq truth'
        /\ ItemReadStatus(read) = "PASS" => <<Len(runs), "fabric.item.read">> \in truth'
    BY <2>1 DEF Witness, ItemReadStatus, Run
  <2>3. Own(runs, truth', e)
    BY <2>2, SpecIsOwn, RunEvidenceOwn DEF Run
  <2>4. Len(runs) > 0 /\ runs \in Seq(Requests)
    BY <1>1 DEF CertInv, CertOK, StageOK
  <2>5. Sound(runs, truth', e)
    BY <2>3, <2>4, OwnIsSound
  <2>6. shelf' = shelf \/ \E x : shelf' = shelf \cup {x} /\ Sound(runs, truth', x.manifest)
    <3>1. [run |-> Run, key |-> "fabric.item.read", manifest |-> e].manifest = e
      OBVIOUS
    <3>2. shelf' = IF written
                   THEN shelf \cup {[run |-> Run, key |-> "fabric.item.read", manifest |-> e]}
                   ELSE shelf
      BY <2>1 DEF WrittenIf
    <3> HIDE DEF e
    <3> QED  BY <2>5, <3>1, <3>2
  <2>7. /\ st \in Statuses
        /\ st = "PASS" => <<Len(runs), "fabric.item.read">> \in truth'
    BY <2>2 DEF Statuses, ItemReadStatus
  <2> HIDE DEF e, st
  <2>8. /\ DOMAIN c' = Fields /\ c'.pc = "control"
        /\ c'.partials = Put(c.partials, "fabric.item.read", e)
        /\ c'.base = c.base /\ c'.manifest = c.manifest
        /\ c'.made = c.made /\ c'.gate = c.gate /\ c'.seen = c.seen
        /\ c'.checks = Noted(c.checks, "fabric.item.read", st)
    <3>1. c' = [[c EXCEPT !.partials = Put(@, "fabric.item.read", e)] EXCEPT !.pc = "control",
                       !.checks = Noted(@, "fabric.item.read", st),
                       !.blockers = @ \cup (IF written THEN {} ELSE {"fabric.item.read"})]
      BY <2>1 DEF e, st
    <3> QED  BY <3>1 DEF CertInv, CertOK, Fields
  <2>9. EvidenceOK(runs, truth', c')
    <3>1. EvidenceOK(runs, truth, c)
      BY DEF CertInv, CertOK
    <3>2. \A k \in DOMAIN c.partials : Own(runs, truth, c.partials[k])
      BY <3>1 DEF EvidenceOK
    <3>3. \A k \in DOMAIN Put(c.partials, "fabric.item.read", e) :
              Own(runs, truth', Put(c.partials, "fabric.item.read", e)[k])
      BY <2>2, <2>3, <3>2, PutOwn
    <3> QED  BY <2>2, <2>4, <2>8, <3>1, <3>3, OwnStays, SoundBundleStays, ContinuesItself
             DEF EvidenceOK
  <2>10. CertOK(runs, truth', c')
    <3>1. CertOK(runs, truth, c)
      BY DEF CertInv
    <3>2. /\ "fabric.item.read" \in RequiredChecks
          /\ c'.pc \in Live \ InBusiness
          /\ StageChecks(c'.pc) \subseteq StageChecks(c.pc) \cup {"fabric.item.read"}
      BY <1>2, <2>8
    <3>3. truth \subseteq truth' /\ DOMAIN c' = Fields
          /\ c'.checks = Noted(c.checks, "fabric.item.read", st)
      BY <2>2, <2>8
    <3> QED  BY <1>2, <2>7, <2>9, <3>1, <3>2, <3>3, StageNotes
  <2>11. PathOK(world, c')
    BY <1>2, <2>8, OffPath DEF CertInv, BeforeGates
  <2> QED  BY <1>1, <2>2, <2>6, <2>10, <2>11, InvKept
<1> QED  BY <1>3, <1>4

\* The approved control-plane certification.
LEMMA ControlKeeps ==
    ASSUME CertInv, Control
    PROVE  CertInv'
<1>1. UNCHANGED <<runs, world, proofs, issued, releases>> /\ c.pc = "control"
  BY DEF Control
<1>2. /\ c.pc \in Live \ InBusiness /\ "base" \in Live \ InBusiness
      /\ StageChecks("base") \subseteq StageChecks(c.pc) \cup {"control.cert"}
      /\ "control.cert" \in RequiredChecks /\ "control.cert" \in CheckIds
  BY <1>1, StagesAreLive, StageOrder DEF RequiredChecks, CheckIds
<1>3. CASE ~ControlCanRun \/ ~ControlPreflight
  <2>1. /\ \/ c' = [Failed("control.cert") EXCEPT !.pc = "base"]
           \/ c' = [Skipped("control.cert") EXCEPT !.pc = "base"]
        /\ UNCHANGED <<truth, shelf>>
    BY <1>3, Zenon DEF Control
  <2> QED  BY <1>1, <1>2, <2>1, NotRanKeeps DEF retained
<1>4. CASE ~(~ControlCanRun \/ ~ControlPreflight)
  <2> DEFINE report(cleaned) == Report(db, Bundle.profile, Bundle.external, cleaned)
             status(cleaned) == Verdict(ProductionCertified(report(cleaned), Bundle.profile))
             m(cleaned) == RunEvidence(Spec0, "control.cert",
                                       Result(status(cleaned), <<Run, "control.cert">>))
             real == /\ db.rollsBack /\ db.cas
                     /\ db.version = RequiredVersion /\ db.tables >= RequiredVersion
                     /\ Bundle.external = ExternalFields
  <2>1. PICK cleaned \in BOOLEAN, kept \in Retained :
          /\ Witness("control.cert", real)
          /\ WrittenIf(kept # "none", "control.cert", m(cleaned))
          /\ c' = [Executed("control.cert", m(cleaned), kept) EXCEPT !.pc = "base"]
    BY <1>4, Zenon DEF Control
  <2>2. status(cleaned) = "PASS" => real
    <3> SUFFICES ASSUME ProductionCertified(report(cleaned), Bundle.profile) PROVE real
      BY DEF Verdict
    <3>1. ReferenceCertified(report(cleaned))
      BY DEF ProductionCertified
    <3>2. Bundle.external = ExternalFields
      BY <1>4 DEF ControlPreflight, ExternalComplete
    <3> QED  BY <3>1, <3>2, ReferenceMeans
  <2>3. status(cleaned) \in {"PASS", "FAIL"}
    BY DEF Verdict
  <2>4. real \in BOOLEAN
    <3>1. real = TRUE \/ real = FALSE
      BY <2>1, Zenon
    <3> QED  BY <3>1
  <2> DEFINE e == m(cleaned)
             st == status(cleaned)
             ok == kept # "none"
  <2>5. e = RunEvidence(Spec0, "control.cert", Result(st, <<Run, "control.cert">>))
    OBVIOUS
  <2>6. /\ st \in {"PASS", "FAIL"} /\ (st = "PASS" => real) /\ Witness("control.cert", real)
        /\ WrittenIf(ok, "control.cert", e)
        /\ c' = [Executed("control.cert", e, kept) EXCEPT !.pc = "base"]
    BY <2>1, <2>2, <2>3
  <2> HIDE DEF e, st, real, ok
  <2>7. /\ DOMAIN c' = Fields /\ c'.pc = "base"
        /\ c'.checks = Executed("control.cert", e, kept).checks
        /\ c'.partials = Executed("control.cert", e, kept).partials
        /\ c'.base = c.base /\ c'.manifest = c.manifest /\ c'.made = c.made /\ c'.gate = c.gate
        /\ c'.seen = c.seen
    BY <2>6, ExecutedFields DEF CertInv, CertOK, Fields
  <2> QED  BY <1>1, <1>2, <2>4, <2>5, <2>6, <2>7, RanKeeps
<1> QED  BY <1>3, <1>4

\* A merge of the run's partials, written and kept, or neither.
LEMMA MergedKeeps ==
    ASSUME CertInv, UNCHANGED <<runs, world, truth, proofs, issued, releases>>,
           NEW next \in Live \ InBusiness, c.pc \in Live \ InBusiness, StageChecks(next) \subseteq StageChecks(c.pc),
           NEW parts, NEW merged, NEW key,
           merged => \A m \in parts : Own(runs, truth, m),
           WrittenIf(merged, key, Merge(Spec0, parts)),
           DOMAIN c' = Fields, c'.pc = next, c'.checks = c.checks, c'.partials = c.partials,
           c'.made = c.made, c'.gate = c.gate, c'.seen = c.seen,
           c'.base \in {c.base, None} \/ (merged /\ c'.base = Merge(Spec0, parts)),
           c'.manifest \in {c.manifest, None} \/ (merged /\ c'.manifest = Merge(Spec0, parts))
    PROVE  CertInv'
<1>1. merged => Own(runs, truth, Merge(Spec0, parts))
  BY SpecIsOwn, MergeOwn
<1>2. Len(runs) > 0 /\ runs \in Seq(Requests)
  BY DEF CertInv, CertOK, StageOK, Live, InBusiness, WhenReferred, WhenRead,
         WhenControlled, WhenPiped, WhenCopied, WhenSparked, WhenCommitted, WhenDrilled
<1>3. shelf' = shelf \/ \E x : shelf' = shelf \cup {x} /\ Sound(runs, truth, x.manifest)
  <2> DEFINE x == [run |-> Run, key |-> key, manifest |-> Merge(Spec0, parts)]
  <2>1. x.manifest = Merge(Spec0, parts)
    OBVIOUS
  <2>2. shelf' = shelf \/ (merged /\ shelf' = shelf \cup {x})
    BY DEF WrittenIf
  <2>3. merged => Sound(runs, truth, Merge(Spec0, parts))
    BY <1>1, <1>2, OwnIsSound
  <2> HIDE DEF x
  <2> QED  BY <2>1, <2>2, <2>3
<1>4. EvidenceOK(runs, truth, c')
  BY <1>1 DEF CertInv, CertOK, EvidenceOK
<1>5. /\ TrueChecks(runs, truth, c'.checks) /\ BoundedOK(runs, truth, c'.checks)
      /\ StageChecks(c'.pc) \subseteq DOMAIN c'.checks
  BY DEF CertInv, CertOK, ChecksOK, CompleteOK
<1>6. CertOK(runs, truth, c')
  BY <1>4, <1>5, StageAdvances DEF CertInv
<1>7. PathOK(world, c')
  BY OffPath DEF CertInv, InBusiness, BeforeGates
<1> QED  BY <1>3, <1>6, <1>7, InvKept

\* Item read and control plane merged into the base prerequisite.
LEMMA MergeBaseKeeps ==
    ASSUME CertInv, MergeBase
    PROVE  CertInv'
<1> DEFINE parts == {c.partials[k] : k \in DOMAIN c.partials}
           ready == {"fabric.item.read", "control.cert"} \subseteq DOMAIN c.partials
           merged(written) == ready /\ written /\ ~MergeRaises(Spec0, parts)
<1>1. UNCHANGED <<runs, world, truth, proofs, issued, releases>> /\ c.pc = "base"
  BY DEF MergeBase
<1>2. PICK written \in BOOLEAN :
         /\ WrittenIf(merged(written), "base", Merge(Spec0, parts))
         /\ c' = [c EXCEPT !.pc = "pipeline",
                     !.base = IF merged(written) THEN Merge(Spec0, parts) ELSE None,
                     !.blockers = @ \cup (IF ready /\ ~merged(written) THEN {"base"} ELSE {})]
  BY Zenon DEF MergeBase
<1>3. \A m \in parts : Own(runs, truth, m)
  BY DEF CertInv, CertOK, EvidenceOK
<1>4. c.pc \in Live \ InBusiness /\ "pipeline" \in Live \ InBusiness /\ StageChecks("pipeline") \subseteq StageChecks(c.pc)
  BY <1>1, StagesAreLive, StageOrder
<1> DEFINE mg == merged(written)
<1>5. WrittenIf(mg, "base", Merge(Spec0, parts))
  BY <1>2
<1>6. /\ DOMAIN c' = Fields /\ c'.pc = "pipeline" /\ c'.checks = c.checks
      /\ c'.partials = c.partials /\ c'.made = c.made /\ c'.gate = c.gate /\ c'.seen = c.seen
      /\ c'.manifest = c.manifest
      /\ c'.base = IF mg THEN Merge(Spec0, parts) ELSE None
  <2>1. c' = [c EXCEPT !.pc = "pipeline", !.base = IF mg THEN Merge(Spec0, parts) ELSE None,
                     !.blockers = @ \cup (IF ready /\ ~mg THEN {"base"} ELSE {})]
    BY <1>2
  <2> HIDE DEF mg, parts, ready
  <2> QED  BY <2>1 DEF CertInv, CertOK, Fields
<1> HIDE DEF mg, parts, ready
<1> QED  BY <1>1, <1>3, <1>4, <1>5, <1>6, MergedKeeps

\* _merge_fault_prerequisite.
LEMMA FaultMergeKeeps ==
    ASSUME CertInv, FaultMerge
    PROVE  CertInv'
<1> DEFINE parts == {c.base, c.partials["warehouse.commit"]}
           ready == c.base # None /\ "warehouse.commit" \in DOMAIN c.partials
           merged(written) == ready /\ written /\ ~MergeRaises(Spec0, parts)
<1>1. UNCHANGED <<runs, world, truth, proofs, issued, releases>> /\ c.pc = "fault"
  BY DEF FaultMerge
<1>2. PICK written \in BOOLEAN :
         /\ WrittenIf(merged(written), "fault-prerequisites", Merge(Spec0, parts))
         /\ c' = [c EXCEPT !.pc = "drill",
                     !.manifest = IF merged(written) THEN Merge(Spec0, parts) ELSE None]
  BY Zenon DEF FaultMerge
<1>3. merged(written) => \A m \in parts : Own(runs, truth, m)
  BY DEF CertInv, CertOK, EvidenceOK
<1>4. c.pc \in Live \ InBusiness /\ "drill" \in Live \ InBusiness /\ StageChecks("drill") \subseteq StageChecks(c.pc)
  BY <1>1, StagesAreLive, StageOrder
<1> DEFINE mg == merged(written)
<1>5. WrittenIf(mg, "fault-prerequisites", Merge(Spec0, parts)) /\ (mg => \A m \in parts : Own(runs, truth, m))
  BY <1>2, <1>3
<1>6. /\ DOMAIN c' = Fields /\ c'.pc = "drill" /\ c'.checks = c.checks
      /\ c'.partials = c.partials /\ c'.made = c.made /\ c'.gate = c.gate /\ c'.seen = c.seen
      /\ c'.base = c.base
      /\ c'.manifest = IF mg THEN Merge(Spec0, parts) ELSE None
  <2>1. c' = [c EXCEPT !.pc = "drill", !.manifest = IF mg THEN Merge(Spec0, parts) ELSE None]
    BY <1>2
  <2> HIDE DEF mg, parts, ready
  <2> QED  BY <2>1 DEF CertInv, CertOK, Fields
<1> HIDE DEF mg, parts, ready
<1> QED  BY <1>1, <1>4, <1>5, <1>6, MergedKeeps

\* merge_integration_stage.
LEMMA MergeIntegrationKeeps ==
    ASSUME CertInv, MergeIntegration
    PROVE  CertInv'
<1> DEFINE parts == {c.partials[k] : k \in DOMAIN c.partials}
           merged(written) == parts # {} /\ written /\ ~MergeRaises(Spec0, parts)
<1>1. UNCHANGED <<runs, world, truth, proofs, issued, releases>> /\ c.pc = "merge"
  BY DEF MergeIntegration
<1>2. PICK written \in BOOLEAN :
         /\ WrittenIf(merged(written), "integration", Merge(Spec0, parts))
         /\ c' = [c EXCEPT !.pc = "business",
                     !.manifest = IF merged(written) THEN Merge(Spec0, parts) ELSE None,
                     !.blockers = @ \cup (IF parts # {} /\ ~merged(written) THEN {"merge"} ELSE {})]
  BY Zenon DEF MergeIntegration
<1>3. \A m \in parts : Own(runs, truth, m)
  BY DEF CertInv, CertOK, EvidenceOK
<1>4. c.pc \in Live \ InBusiness /\ "business" \in Live \ InBusiness /\ StageChecks("business") \subseteq StageChecks(c.pc)
  BY <1>1, StagesAreLive, StageOrder
<1> DEFINE mg == merged(written)
<1>5. WrittenIf(mg, "integration", Merge(Spec0, parts))
  BY <1>2
<1>6. /\ DOMAIN c' = Fields /\ c'.pc = "business" /\ c'.checks = c.checks
      /\ c'.partials = c.partials /\ c'.made = c.made /\ c'.gate = c.gate /\ c'.seen = c.seen
      /\ c'.base = c.base
      /\ c'.manifest = IF mg THEN Merge(Spec0, parts) ELSE None
  <2>1. c' = [c EXCEPT !.pc = "business", !.manifest = IF mg THEN Merge(Spec0, parts) ELSE None,
                     !.blockers = @ \cup (IF parts # {} /\ ~mg THEN {"merge"} ELSE {})]
    BY <1>2
  <2> HIDE DEF mg, parts
  <2> QED  BY <2>1 DEF CertInv, CertOK, Fields
<1> HIDE DEF mg, parts
<1> QED  BY <1>1, <1>3, <1>4, <1>5, <1>6, MergedKeeps

\* A runner that finished: its check, its manifest, its files.
LEMMA FinishedKeeps ==
    ASSUME CertInv, UNCHANGED <<runs, world, proofs, issued, releases>>,
           NEW check \in RequiredChecks, NEW selected \in CheckIds, NEW next \in Live \ InBusiness,
           c.pc \in Live \ InBusiness, StageChecks(next) \subseteq StageChecks(c.pc) \cup {check},
           NEW status \in {"PASS", "FAIL"}, NEW real \in BOOLEAN, NEW kept, NEW call,
           status = "PASS" => real, Finished(check, selected, status, real, kept, call, next)
    PROVE  CertInv'
<1> DEFINE e == RunEvidence(Spec0, selected, Result(status, <<Run, selected>>))
           ok == kept # "none"
<1>1. /\ Witness(selected, real)
      /\ WrittenIf(ok, check, e)
      /\ c' = [Executed(check, e, kept) EXCEPT !.pc = next]
  BY Zenon DEF Finished
<1>2. e = RunEvidence(Spec0, selected, Result(status, <<Run, selected>>))
  OBVIOUS
<1> HIDE DEF e, ok
<1>3. /\ DOMAIN c' = Fields /\ c'.pc = next
      /\ c'.checks = Executed(check, e, kept).checks
      /\ c'.partials = Executed(check, e, kept).partials
      /\ c'.base = c.base /\ c'.manifest = c.manifest /\ c'.made = c.made /\ c'.gate = c.gate
      /\ c'.seen = c.seen
  BY <1>1, ExecutedFields DEF CertInv, CertOK, Fields
<1> QED  BY <1>1, <1>2, <1>3, RanKeeps

\* The answer of a Warehouse runner.
LEMMA WarehouseAnswersKeeps ==
    ASSUME CertInv, UNCHANGED <<runs, world, proofs, issued, releases>>,
           NEW check \in RequiredChecks, NEW next \in Live \ InBusiness,
           c.pc \in Live \ InBusiness, StageChecks(next) \subseteq StageChecks(c.pc) \cup {check},
           NEW call, WarehouseAnswers(check, call, next)
    PROVE  CertInv'
<1>1. PICK o \in [held : BOOLEAN, shown : BOOLEAN], kept \in Retained :
         Finished(check, check, Verdict(o.held /\ o.shown), o.held, kept, call, next)
  BY Zenon DEF WarehouseAnswers
<1>2. /\ Verdict(o.held /\ o.shown) \in {"PASS", "FAIL"} /\ o.held \in BOOLEAN
      /\ Verdict(o.held /\ o.shown) = "PASS" => o.held
  BY DEF Verdict
<1>3. check \in CheckIds
  BY DEF RequiredChecks
<1> QED  BY <1>1, <1>2, <1>3, FinishedKeeps

\* The normal Warehouse commit check.
LEMMA WarehouseKeeps ==
    ASSUME CertInv, Warehouse
    PROVE  CertInv'
<1>1. UNCHANGED <<runs, world, proofs, issued, releases>> /\ c.pc = "warehouse"
  BY DEF Warehouse
<1>2. /\ c.pc \in Live \ InBusiness /\ "fault" \in Live \ InBusiness
      /\ StageChecks("fault") \subseteq StageChecks(c.pc) \cup {"warehouse.commit"}
      /\ "warehouse.commit" \in RequiredChecks
  BY <1>1, StagesAreLive, StageOrder DEF RequiredChecks, CheckIds
<1>3. \/ NotCalled("fault", Skipped("warehouse.commit"))
      \/ NotCalled("fault", Failed("warehouse.commit"))
      \/ WarehouseAnswers("warehouse.commit", "warehouse", "fault")
  BY Zenon DEF Warehouse
<1>4. CASE WarehouseAnswers("warehouse.commit", "warehouse", "fault")
  BY <1>1, <1>2, <1>4, WarehouseAnswersKeeps
<1>5. CASE \/ NotCalled("fault", Skipped("warehouse.commit"))
           \/ NotCalled("fault", Failed("warehouse.commit"))
  BY <1>1, <1>2, <1>5, NotRanKeeps DEF NotCalled, retained
<1> QED  BY <1>3, <1>4, <1>5

\* The Warehouse fault drill.
LEMMA DrillKeeps ==
    ASSUME CertInv, Drill
    PROVE  CertInv'
<1>1. UNCHANGED <<runs, world, proofs, issued, releases>> /\ c.pc = "drill"
  BY DEF Drill
<1>2. /\ c.pc \in Live \ InBusiness /\ "merge" \in Live \ InBusiness
      /\ StageChecks("merge") \subseteq StageChecks(c.pc) \cup {"warehouse.ambiguous_commit"}
      /\ "warehouse.ambiguous_commit" \in RequiredChecks
  BY <1>1, StagesAreLive, StageOrder DEF RequiredChecks, CheckIds
<1>3. \/ NotCalled("merge", Skipped("warehouse.ambiguous_commit"))
      \/ NotCalled("merge", Failed("warehouse.ambiguous_commit"))
      \/ WarehouseAnswers("warehouse.ambiguous_commit", "fault", "merge")
  BY Zenon DEF Drill
<1>4. CASE WarehouseAnswers("warehouse.ambiguous_commit", "fault", "merge")
  BY <1>1, <1>2, <1>4, WarehouseAnswersKeeps
<1>5. CASE \/ NotCalled("merge", Skipped("warehouse.ambiguous_commit"))
           \/ NotCalled("merge", Failed("warehouse.ambiguous_commit"))
  BY <1>1, <1>2, <1>5, NotRanKeeps DEF NotCalled, retained
<1> QED  BY <1>3, <1>4, <1>5

\* _run_capture, whichever check its recipe names.
LEMMA CaptureKeeps ==
    ASSUME CertInv, NEW check \in RequiredChecks, NEW selected, NEW next \in Live \ InBusiness,
           check \in Live \ InBusiness, StageChecks(next) \subseteq StageChecks(check) \cup {check},
           Capture(check, selected, next)
    PROVE  CertInv'
<1>1. UNCHANGED <<runs, world, proofs, issued, releases>> /\ c.pc = check
  BY DEF Capture
<1>2. \/ NotCalled(next, Skipped(check)) \/ NotCalled(next, Failed(check))
      \/ /\ CapturePreflight(check, selected)
         /\ \E o \in CaptureOutcomes, kept \in Retained :
                Finished(check, selected, CaptureStatus(o),
                         o.succeeded /\ o.remote = "Completed", kept, "capture", next)
  BY Zenon DEF Capture
<1>3. CASE NotCalled(next, Skipped(check)) \/ NotCalled(next, Failed(check))
  BY <1>1, <1>3, NotRanKeeps DEF NotCalled, retained
<1>4. CASE /\ CapturePreflight(check, selected)
           /\ \E o \in CaptureOutcomes, kept \in Retained :
                Finished(check, selected, CaptureStatus(o),
                         o.succeeded /\ o.remote = "Completed", kept, "capture", next)
  <2>1. PICK o \in CaptureOutcomes, kept \in Retained :
                Finished(check, selected, CaptureStatus(o),
                         o.succeeded /\ o.remote = "Completed", kept, "capture", next)
    BY <1>4
  <2>2. selected \in CheckIds
    BY <1>4 DEF CapturePreflight, CheckIds
  <2>3. /\ CaptureStatus(o) \in {"PASS", "FAIL"}
        /\ CaptureStatus(o) = "PASS" => o.succeeded /\ o.remote = "Completed"
        /\ (o.succeeded /\ o.remote = "Completed") \in BOOLEAN
    BY DEF CaptureStatus, CaptureOutcomes
  <2> QED  BY <1>1, <2>1, <2>2, <2>3, FinishedKeeps
<1> QED  BY <1>2, <1>3, <1>4

\* Copy and Spark capture.
LEMMA CapturesKeep ==
    ASSUME CertInv, Copy \/ Spark
    PROVE  CertInv'
<1>1. /\ {"fabric.copy", "fabric.spark"} \subseteq RequiredChecks
      /\ {"fabric.copy", "fabric.spark", "warehouse"} \subseteq Live \ InBusiness
  BY StagesAreLive DEF RequiredChecks, CheckIds
<1>2. CASE Copy
  BY <1>1, <1>2, StageOrder, CaptureKeeps DEF Copy
<1>3. CASE Spark
  BY <1>1, <1>3, StageOrder, CaptureKeeps DEF Spark
<1> QED  BY <1>2, <1>3

\* The approved Pipeline check.
LEMMA PipelineKeeps ==
    ASSUME CertInv, Pipeline
    PROVE  CertInv'
<1>1. UNCHANGED <<runs, world, proofs, issued, releases>> /\ c.pc = "pipeline"
  BY DEF Pipeline
<1>2. /\ c.pc \in Live \ InBusiness /\ "fabric.copy" \in Live \ InBusiness
      /\ StageChecks("fabric.copy") \subseteq StageChecks(c.pc) \cup {"fabric.pipeline"}
      /\ "fabric.pipeline" \in RequiredChecks /\ "fabric.pipeline" \in CheckIds
  BY <1>1, StagesAreLive, StageOrder DEF RequiredChecks, CheckIds
<1> DEFINE m(o) == RunEvidence(Spec0, "fabric.pipeline",
                       Result(PipelineStatus(Deployed(o)), <<Run, "fabric.pipeline">>))
           real(o) == /\ Deployed(o).raise # "before" /\ Deployed(o).framework = "SUCCEEDED"
                      /\ Deployed(o).remote = "Completed"
           ran(o, kept, lost) ==
               /\ Witness("fabric.pipeline", real(o))
               /\ WrittenIf(kept # "none", "fabric.pipeline", m(o))
               /\ c' = [Executed("fabric.pipeline", m(o), kept) EXCEPT
                            !.pc = "fabric.copy", !.parents = @ \o ParentRows(Deployed(o), lost)]
<1>3. \/ NotCalled("fabric.copy", Skipped("fabric.pipeline"))
      \/ NotCalled("fabric.copy", Failed("fabric.pipeline"))
      \/ \E o \in Outcomes[HonestSuccess][Budget], kept \in {"none", "all"}, lost \in BOOLEAN :
             ran(o, kept, lost)
  BY Zenon DEF Pipeline
<1>4. CASE \/ NotCalled("fabric.copy", Skipped("fabric.pipeline"))
           \/ NotCalled("fabric.copy", Failed("fabric.pipeline"))
  BY <1>1, <1>2, <1>4, NotRanKeeps DEF NotCalled, retained
<1>5. ASSUME NEW o, NEW kept, NEW lost, ran(o, kept, lost)
      PROVE  CertInv'
  <2> DEFINE e == m(o)
             st == PipelineStatus(Deployed(o))
             did == real(o)
             ok == kept # "none"
  <2>1. /\ st \in {"PASS", "FAIL"} /\ (st = "PASS" => did) /\ did \in BOOLEAN
    BY DEF PipelineStatus
  <2>2. e = RunEvidence(Spec0, "fabric.pipeline", Result(st, <<Run, "fabric.pipeline">>))
    OBVIOUS
  <2>3. /\ Witness("fabric.pipeline", did)
        /\ WrittenIf(ok, "fabric.pipeline", e)
        /\ c' = [Executed("fabric.pipeline", e, kept) EXCEPT
                     !.pc = "fabric.copy", !.parents = @ \o ParentRows(Deployed(o), lost)]
    BY <1>5
  <2> HIDE DEF e, st, did, ok
  <2>4. /\ DOMAIN c' = Fields /\ c'.pc = "fabric.copy"
        /\ c'.checks = Executed("fabric.pipeline", e, kept).checks
        /\ c'.partials = Executed("fabric.pipeline", e, kept).partials
        /\ c'.base = c.base /\ c'.manifest = c.manifest /\ c'.made = c.made /\ c'.gate = c.gate
        /\ c'.seen = c.seen
    BY <2>3, ExecutedFields DEF CertInv, CertOK, Fields
  <2> QED  BY <1>1, <1>2, <2>1, <2>2, <2>3, <2>4, RanKeeps
<1> QED  BY <1>3, <1>4, <1>5, Zenon

\* The gates run one after the other are the business gates of the release.
LEMMA GatesAreBusiness ==
    /\ Len(Gates) = 5
    /\ BusinessChecks = BusinessGates
    /\ \A i \in 1..5 : Gates[i] \in BusinessGates
<1>1. Len(Gates) = 5
  BY DEF Gates
<1>2. \A i \in 1..5 : Gates[i] \in BusinessGates
  BY DEF Gates, BusinessGates
<1>3. \A g \in BusinessGates : \E i \in 1..5 : Gates[i] = g
  <2>1. /\ Gates[1] = "full.replace" /\ Gates[2] = "watermark.scd1" /\ Gates[3] = "watermark.scd2"
        /\ Gates[4] = "retry.idempotency" /\ Gates[5] = "reconciliation.fail_closed"
    BY DEF Gates
  <2>2. 1 \in 1..5 /\ 2 \in 1..5 /\ 3 \in 1..5 /\ 4 \in 1..5 /\ 5 \in 1..5
    OBVIOUS
  <2> QED  BY <2>1, <2>2, Zenon DEF BusinessGates
<1> QED  BY <1>1, <1>2, <1>3 DEF BusinessChecks

\* True checks stay true.
LEMMA TrueStays ==
    ASSUME NEW rs, NEW held, NEW more, NEW checks, held \subseteq more,
           TrueChecks(rs, held, checks)
    PROVE  TrueChecks(rs, more, checks)
  BY DEF TrueChecks

\* ... the bounded ones too.
LEMMA BoundedStays ==
    ASSUME NEW rs, NEW held, NEW more, NEW checks, held \subseteq more,
           BoundedOK(rs, held, checks)
    PROVE  BoundedOK(rs, more, checks)
  BY DEF BoundedOK

\* All live checks have a status once the drill is over.
LEMMA DrilledIsComplete ==
    ASSUME NEW pc \in WhenDrilled
    PROVE  StageChecks(pc) = {"reference"} \cup RequiredChecks
  BY DEF StageChecks, WhenReferred, WhenRead, WhenControlled, WhenPiped,
         WhenCopied, WhenSparked, WhenCommitted, WhenDrilled, RequiredChecks, CheckIds

\* Leaving the gates: what is left of them is NOT_RUN.
LEMMA StoppedKeeps ==
    ASSUME CertInv, UNCHANGED <<runs, shelf, proofs, issued, releases>>, truth \subseteq truth',
           c.pc \in {"business"} \cup InBusiness, DOMAIN world' = {"state", "pending", "landings"},
           DOMAIN c' = Fields, c'.pc = "report",
           c'.checks = AppendNotRun(c.checks, BusinessChecks),
           c'.partials = c.partials, c'.base = c.base, c'.manifest = c.manifest,
           c'.made = c.made, c'.gate = c.gate, c'.seen = c.seen
    PROVE  CertInv'
<1>1. c.pc \in WhenDrilled /\ c.pc \in Live /\ c'.pc \notin Live \cup InBusiness
  BY DEF InBusiness, Live, WhenReferred, WhenRead, WhenControlled, WhenPiped,
         WhenCopied, WhenSparked, WhenCommitted, WhenDrilled
<1>2. EvidenceOK(runs, truth', c')
  BY EvidenceStays DEF CertInv, CertOK
<1>3. StageOK(runs, truth', c')
  BY <1>1 DEF CertInv, CertOK, StageOK, InBusiness
<1>4. ChecksOK(runs, truth', c')
  <2>1. /\ TrueChecks(runs, truth, c.checks) /\ BoundedOK(runs, truth, c.checks)
        /\ StageChecks(c.pc) \subseteq DOMAIN c.checks
    BY <1>1 DEF CertInv, CertOK, ChecksOK, CompleteOK
  <2>2. TrueChecks(runs, truth', c.checks) /\ BoundedOK(runs, truth', c.checks)
    BY <2>1, TrueStays, BoundedStays
  <2>3. TrueChecks(runs, truth', c'.checks) /\ BoundedOK(runs, truth', c'.checks)
    BY <2>2, AppendedTrue, AppendedBounded
  <2>4. DOMAIN c'.checks = DOMAIN c.checks \cup BusinessGates
    BY GatesAreBusiness DEF AppendNotRun
  <2>5. Tracked \subseteq DOMAIN c'.checks
    BY <1>1, <2>1, <2>4, DrilledIsComplete DEF Tracked
  <2>6. StageChecks(c'.pc) = {}
    BY DEF StageChecks, WhenReferred, WhenRead, WhenControlled, WhenPiped,
         WhenCopied, WhenSparked, WhenCommitted, WhenDrilled
  <2> QED  BY <1>1, <2>3, <2>5, <2>6 DEF ChecksOK, CompleteOK
<1>5. PathOK(world', c')
  BY <1>1 DEF CertInv, PathOK, BeforeGates
<1>6. CertOK(runs, truth', c')
  BY <1>2, <1>3, <1>4 DEF CertOK
<1> QED  BY <1>5, <1>6, InvKept

\* What an exception among the gates leaves of the run's state.
LEMMA StopsFields ==
    ASSUME DOMAIN c = Fields, BusinessStops
    PROVE  /\ DOMAIN c' = Fields /\ c'.pc = "report"
           /\ c'.checks = AppendNotRun(c.checks, BusinessChecks)
           /\ c'.partials = c.partials /\ c'.base = c.base /\ c'.manifest = c.manifest
           /\ c'.made = c.made /\ c'.gate = c.gate /\ c'.seen = c.seen
  BY DEF BusinessStops, Fields

\* Moving within the gates.
LEMMA GateStep ==
    ASSUME CertInv, c.pc \in InBusiness, c'.pc \in InBusiness \ {"proofs"}, DOMAIN c' = Fields,
           c'.checks = c.checks, c'.partials = c.partials, c'.base = c.base,
           c'.manifest = c.manifest, c'.made = c.made, c'.gate = c.gate
    PROVE  CertOK(runs, truth, c')
<1>1. c.pc \in WhenDrilled /\ c.pc \in Live /\ c'.pc \in WhenDrilled /\ c'.pc \in Live
      /\ c'.pc \notin {"idle", "attest", "bootstrap", "load", "report"}
      /\ c.pc \notin {"idle", "attest"}
  BY DEF InBusiness, Live, WhenReferred, WhenRead, WhenControlled, WhenPiped,
         WhenCopied, WhenSparked, WhenCommitted, WhenDrilled
<1>2. EvidenceOK(runs, truth, c')
  BY EvidenceStays DEF CertInv, CertOK
<1>3. StageOK(runs, truth, c')
  BY <1>1 DEF CertInv, CertOK, StageOK
<1>4. StageChecks(c'.pc) \subseteq DOMAIN c'.checks
  BY <1>1, DrilledIsComplete DEF CertInv, CertOK, ChecksOK, CompleteOK
<1>5. CompleteOK(c')
  BY <1>1, <1>4 DEF CertInv, CertOK, ChecksOK, CompleteOK
<1>6. ChecksOK(runs, truth, c')
  BY <1>1, <1>5 DEF CertInv, CertOK, ChecksOK
<1> QED  BY <1>2, <1>3, <1>6 DEF CertOK

\* The gates are entered with a certified manifest and three authorizations, or not.
LEMMA BusinessKeeps ==
    ASSUME CertInv, Business
    PROVE  CertInv'
<1>1. UNCHANGED <<runs, world, truth, shelf, proofs, issued, releases>> /\ c.pc = "business"
  BY DEF Business, retained
<1>2. DOMAIN c = Fields /\ DOMAIN world = {"state", "pending", "landings"}
  BY DEF CertInv, CertOK, PathOK
<1>3. \/ c' = [c EXCEPT !.pc = "report", !.checks = AppendNotRun(@, BusinessChecks)]
      \/ BusinessStops
      \/ /\ Goes("enter") /\ c.manifest # None /\ Certified(c.manifest)
         /\ {"business", "scenario", "pipeline"} \subseteq Authorizations(Req)
  BY Zenon DEF Business
<1>4. CASE c' = [c EXCEPT !.pc = "report", !.checks = AppendNotRun(@, BusinessChecks)]
  <2>1. /\ DOMAIN c' = Fields /\ c'.pc = "report"
        /\ c'.checks = AppendNotRun(c.checks, BusinessChecks)
        /\ c'.partials = c.partials /\ c'.base = c.base /\ c'.manifest = c.manifest
        /\ c'.made = c.made /\ c'.gate = c.gate /\ c'.seen = c.seen
    BY <1>2, <1>4 DEF Fields
  <2> QED  BY <1>1, <1>2, <2>1, StoppedKeeps
<1>5. CASE BusinessStops
  BY <1>1, <1>2, <1>5, StopsFields, StoppedKeeps
<1>6. CASE /\ Goes("enter") /\ c.manifest # None /\ Certified(c.manifest)
           /\ {"business", "scenario", "pipeline"} \subseteq Authorizations(Req)
  <2>1. /\ DOMAIN c' = Fields /\ c'.pc = "enter" /\ c'.checks = c.checks
        /\ c'.partials = c.partials /\ c'.base = c.base /\ c'.manifest = c.manifest
        /\ c'.made = c.made /\ c'.gate = c.gate /\ c'.seen = c.seen
    BY <1>2, <1>6 DEF Goes, Fields
  <2>2. \A k \in RequiredChecks : <<Len(runs), k>> \in truth
    <3>1. Own(runs, truth, c.manifest)
      BY <1>6 DEF CertInv, CertOK, EvidenceOK
    <3> QED  BY <1>6, <3>1 DEF Own, Certified, RequiredChecks
  <2>3. EvidenceOK(runs, truth, c')
    BY <2>1, EvidenceStays DEF CertInv, CertOK
  <2>4. StageOK(runs, truth, c')
    BY <1>1, <1>6, <2>1, <2>2 DEF CertInv, CertOK, StageOK, Req, Run, ReqOf, Live, InBusiness,
         WhenReferred, WhenRead, WhenControlled, WhenPiped,
         WhenCopied, WhenSparked, WhenCommitted, WhenDrilled
  <2>5. c.pc \in WhenDrilled /\ c'.pc \in WhenDrilled /\ c.pc \in Live /\ c'.pc \in Live
    BY <1>1, <2>1 DEF Live, WhenReferred, WhenRead, WhenControlled, WhenPiped,
         WhenCopied, WhenSparked, WhenCommitted, WhenDrilled
  <2>6. StageChecks(c'.pc) \subseteq DOMAIN c'.checks
    BY <2>1, <2>5, DrilledIsComplete DEF CertInv, CertOK, ChecksOK, CompleteOK
  <2>7. c.gate = 1
    BY <1>1 DEF CertInv, PathOK, BeforeGates, Live, InBusiness, WhenReferred, WhenRead,
         WhenControlled, WhenPiped, WhenCopied, WhenSparked, WhenCommitted, WhenDrilled
  <2>8. CompleteOK(c')
    BY <2>1, <2>6, <2>7 DEF CompleteOK
  <2>9. ChecksOK(runs, truth, c')
    BY <2>1, <2>5, <2>8 DEF CertInv, CertOK, ChecksOK
  <2>10. CertOK(runs, truth, c')
    BY <2>1, <2>3, <2>4, <2>9 DEF CertOK
  <2>11. PathOK(world, c')
    BY <2>1, <2>7 DEF CertInv, PathOK
  <2> QED  BY <1>1, <2>10, <2>11, InvKept
<1> QED  BY <1>3, <1>4, <1>5, <1>6

-----------------------------------------------------------------------------
(* The path of one gate.                                                   *)

\* Which step of a path each phase is.
LEMMA PhaseAt ==
    ASSUME PathOK(world, c), c.pc = "path"
    PROVE  /\ Phase = "PREPARE_BASELINE" => c.step = 1
           /\ Phase = "BEFORE" => c.step = 2
           /\ Phase = "PREPARE_ATTEMPT_1" => c.step = 3
           /\ Phase = "PIPELINE" => c.step = 4 \/ (c.gate = 4 /\ c.step = 7)
           /\ Phase = "AFTER_FIRST_ATTEMPT" => c.gate = 4 /\ c.step = 5
           /\ Phase = "PREPARE_ATTEMPT_2" => c.gate = 4 /\ c.step = 6
           /\ Phase = "AFTER_FINAL_ATTEMPT" => IF c.gate = 4 THEN c.step = 8 ELSE c.step = 5
<1>1. c.gate \in 1..5 /\ (GateName = "retry.idempotency" <=> c.gate = 4)
  BY DEF PathOK, GateName, Gates
<1>2. CASE c.gate = 4
  <2>1. c.step \in 1..8
    BY <1>2 DEF PathOK
  <2> QED  BY <1>1, <1>2, <2>1 DEF Phase, Steps, IsRetry
<1>3. CASE c.gate # 4
  <2>1. c.step \in 1..5
    BY <1>3 DEF PathOK
  <2> QED  BY <1>1, <1>3, <2>1 DEF Phase, Steps, IsRetry
<1> QED  BY <1>2, <1>3

\* A path starts over a data set that an earlier one used.
LEMMA EnterKeeps ==
    ASSUME CertInv, Enter
    PROVE  CertInv'
<1>1. /\ UNCHANGED <<runs, truth, shelf, proofs, issued, releases>> /\ c.pc = "enter"
      /\ world' = [state |-> [Baseline EXCEPT !.target = 1, !.progress = 1],
                   pending |-> FALSE, landings |-> 0]
  BY DEF Enter, retained
<1>2. DOMAIN c = Fields /\ DOMAIN world' = {"state", "pending", "landings"}
      /\ ~world'.pending /\ world'.landings = 0
  BY <1>1 DEF CertInv, CertOK
<1>3. CASE BusinessStops
  BY <1>1, <1>2, <1>3, StopsFields, StoppedKeeps DEF InBusiness
<1>4. CASE c' = [c EXCEPT !.pc = "path", !.step = 1, !.seen = NoStates, !.reports = <<>>,
                      !.raised = FALSE, !.quiet = TRUE, !.real = FALSE]
  <2>1. /\ DOMAIN c' = Fields /\ c'.pc = "path" /\ c'.checks = c.checks
        /\ c'.partials = c.partials /\ c'.base = c.base /\ c'.manifest = c.manifest
        /\ c'.made = c.made /\ c'.gate = c.gate /\ c'.seen = NoStates /\ c'.step = 1
    BY <1>2, <1>4 DEF Fields
  <2>2. CertOK(runs, truth, c')
    BY <1>1, <2>1, GateStep DEF InBusiness
  <2>3. DOMAIN c'.seen = {"before", "first", "final"}
    BY <2>1 DEF NoStates
  <2>4. c'.pc \notin BeforeGates
    BY <2>1 DEF BeforeGates, InBusiness
  <2>5. PathOK(world', c')
    BY <1>2, <2>1, <2>3, <2>4 DEF CertInv, PathOK
  <2> QED  BY <1>1, <2>2, <2>5, InvKept
<1> QED  BY <1>3, <1>4, Zenon DEF Enter

\* A step inside a path leaves everything but the path's own notes alone.
LEMMA PathStepKeeps ==
    ASSUME CertInv, UNCHANGED <<runs, truth, shelf, proofs, issued, releases>>,
           c.pc = "path", c'.pc \in {"path", "cleanup"}, DOMAIN c' = Fields, c'.checks = c.checks,
           c'.partials = c.partials, c'.base = c.base, c'.manifest = c.manifest,
           c'.made = c.made, c'.gate = c.gate,
           DOMAIN c'.seen = {"before", "first", "final"}, PathOK(world', c')
    PROVE  CertInv'
  BY GateStep, InvKept DEF InBusiness

\* A path that raises goes to its finally block.
LEMMA RaisedKeeps ==
    ASSUME CertInv, UNCHANGED <<runs, truth, shelf, proofs, issued, releases>>, c.pc = "path",
           DOMAIN world' = {"state", "pending", "landings"},
           DOMAIN c' = Fields, c'.pc = "cleanup", c'.raised = TRUE, c'.checks = c.checks,
           c'.partials = c.partials, c'.base = c.base, c'.manifest = c.manifest,
           c'.made = c.made, c'.gate = c.gate, c'.seen = c.seen
    PROVE  CertInv'
<1>1. c'.pc \notin BeforeGates
  BY DEF BeforeGates, InBusiness
<1>2. PathOK(world', c')
  BY <1>1 DEF CertInv, PathOK
<1> QED  BY <1>2, PathStepKeeps DEF CertInv, PathOK

\* The driver prepares, pretends to, or refuses.
LEMMA DriveKeeps ==
    ASSUME CertInv, Drive
    PROVE  CertInv'
<1>1. /\ UNCHANGED <<runs, truth, shelf, proofs, issued, releases>> /\ c.pc = "path"
      /\ Phase \in {"PREPARE_BASELINE", "PREPARE_ATTEMPT_1", "PREPARE_ATTEMPT_2"}
  BY DEF Drive, retained
<1>2. PICK d \in {"done", "stale", "refused"} :
        /\ world' = IF d = "done" /\ Phase = "PREPARE_BASELINE"
                    THEN [world EXCEPT !.state = Baseline] ELSE world
        /\ IF d = "refused" THEN Raises ELSE c' = [c EXCEPT !.step = @ + 1]
  BY Zenon DEF Drive
<1>3. DOMAIN c = Fields /\ DOMAIN world = {"state", "pending", "landings"} /\ PathOK(world, c)
  BY DEF CertInv, CertOK, PathOK
<1>4. /\ DOMAIN world' = {"state", "pending", "landings"}
      /\ world'.pending = world.pending /\ world'.landings = world.landings
      /\ Phase # "PREPARE_BASELINE" => world'.state = world.state
  BY <1>2, <1>3
<1>5. CASE d = "refused"
  <2>1. /\ DOMAIN c' = Fields /\ c'.pc = "cleanup" /\ c'.raised = TRUE /\ c'.checks = c.checks
        /\ c'.partials = c.partials /\ c'.base = c.base /\ c'.manifest = c.manifest
        /\ c'.made = c.made /\ c'.gate = c.gate /\ c'.seen = c.seen
    BY <1>2, <1>3, <1>5 DEF Raises, Fields
  <2> QED  BY <1>1, <1>4, <2>1, RaisedKeeps
<1>6. CASE d # "refused"
  <2>1. c' = [c EXCEPT !.step = @ + 1]
    BY <1>2, <1>6
  <2>2. /\ DOMAIN c' = Fields /\ c'.pc = "path" /\ c'.checks = c.checks
        /\ c'.partials = c.partials /\ c'.base = c.base /\ c'.manifest = c.manifest
        /\ c'.made = c.made /\ c'.gate = c.gate /\ c'.seen = c.seen /\ c'.step = c.step + 1
        /\ c'.quiet = c.quiet
    BY <1>1, <1>3, <2>1 DEF Fields
  <2>3. c'.pc \notin BeforeGates
    BY <2>2 DEF BeforeGates, InBusiness
  <2>4. \/ c.step = 1
        \/ c.step = 3 /\ Phase # "PREPARE_BASELINE"
        \/ c.gate = 4 /\ c.step = 6 /\ Phase # "PREPARE_BASELINE"
    BY <1>1, <1>3, PhaseAt
  <2>5. PathOK(world', c')
    BY <1>1, <1>3, <1>4, <2>2, <2>3, <2>4 DEF PathOK
  <2> QED  BY <1>1, <1>3, <2>2, <2>5, PathStepKeeps DEF PathOK
<1> QED  BY <1>5, <1>6

\* evaluate_business_path_evidence accepts only what really happened.
LEMMA EvaluatedIsHeld ==
    ASSUME PathOK(world, c), c.pc = "path", Phase = "AFTER_FINAL_ATTEMPT",
           Evaluates(GateName, [c.seen EXCEPT !["final"] = world.state], c.reports)
    PROVE  GateHeld(GateName)
<1> DEFINE seen == [c.seen EXCEPT !["final"] = world.state]
<1>1. seen.before = c.seen.before /\ seen.first = c.seen.first /\ seen.final = world.state
  BY DEF PathOK
<1>2. IF c.gate = 4 THEN c.step = 8 ELSE c.step = 5
  BY PhaseAt
<1>3. c.gate \in 1..5 /\ (IsRetry(GateName) <=> c.gate = 4)
  BY DEF PathOK, GateName, Gates, IsRetry
<1>4. Len(c.reports) = ReportCount(GateName)
  BY DEF Evaluates, ReportIdentity
<1> HIDE DEF seen
<1>5. CASE c.gate = 4
  <2>1. GateName # "reconciliation.fail_closed" /\ GateName # "watermark.scd2"
    BY <1>3, <1>5 DEF IsRetry
  <2>2. Len(c.reports) = 2
    BY <1>3, <1>4, <1>5 DEF ReportCount
  <2>3. RetryPath(GateName, seen.before, seen.first, seen.final, c.reports)
    BY <1>3, <1>5 DEF Evaluates, seen
  <2>4. /\ c.reports[1].framework = "FAILED" /\ seen.first = seen.before
        /\ c.reports[2].framework = "SUCCEEDED"
        /\ seen.final.target = 1 /\ seen.final.progress = 1 /\ seen.final # seen.before
    BY <2>3 DEF RetryPath, StateUnchanged, SuccessPath, CompletedSuccess, ExpectedSuccessState,
                MeaningfulChange
  <2>5. c.quiet /\ world.landings # 0 /\ world.landings \in Nat
    BY <1>1, <1>2, <1>5, <2>4 DEF PathOK
  <2> QED  BY <1>1, <2>1, <2>2, <2>4, <2>5 DEF GateHeld
<1>6. CASE c.gate # 4 /\ GateName = "reconciliation.fail_closed"
  <2>1. Len(c.reports) = 1
    BY <1>3, <1>4, <1>6 DEF ReportCount
  <2>2. ReconciliationPath(seen.before, seen.final, c.reports[1])
    BY <1>3, <1>6 DEF Evaluates, seen
  <2>3. c.reports[1].framework = "FAILED" /\ seen.final = seen.before
    BY <2>2 DEF ReconciliationPath, StateUnchanged
  <2>4. world.landings = 0
    BY <1>1, <1>2, <1>6, <2>3 DEF PathOK
  <2> QED  BY <1>6, <2>1, <2>3, <2>4 DEF GateHeld
<1>7. CASE c.gate # 4 /\ GateName # "reconciliation.fail_closed"
  <2>1. Len(c.reports) = 1
    BY <1>3, <1>4, <1>7 DEF ReportCount
  <2>2. SuccessPath(GateName, seen.before, seen.final, c.reports[1])
    BY <1>3, <1>7 DEF Evaluates, seen
  <2>3. /\ c.reports[1].framework = "SUCCEEDED"
        /\ seen.final.target = 1 /\ seen.final.progress = 1 /\ seen.final # seen.before
        /\ GateName = "watermark.scd2" => ~seen.final.overlap
    BY <2>2 DEF SuccessPath, CompletedSuccess, ExpectedSuccessState, MeaningfulChange
  <2>4. world.landings # 0 /\ world.landings \in Nat
    BY <1>1, <1>2, <1>7, <2>3 DEF PathOK
  <2>5. ~IsRetry(GateName)
    BY <1>3, <1>7
  <2> QED  BY <1>1, <1>7, <2>1, <2>3, <2>4, <2>5 DEF GateHeld
<1> QED  BY <1>5, <1>6, <1>7

\* An observation; the last one is evaluated with the reports.
LEMMA ObserveKeeps ==
    ASSUME CertInv, NEW phase, NEW key, Observe(phase, key),
           \/ phase = "BEFORE" /\ key = "before"
           \/ phase = "AFTER_FIRST_ATTEMPT" /\ key = "first"
           \/ phase = "AFTER_FINAL_ATTEMPT" /\ key = "final"
    PROVE  CertInv'
<1> DEFINE seen == [c.seen EXCEPT ![key] = world.state]
<1>1. /\ UNCHANGED <<runs, truth, shelf, proofs, issued, releases, world>> /\ c.pc = "path"
      /\ Phase = phase
  BY DEF Observe, retained
<1>2. \/ Raises
      \/ /\ phase # "AFTER_FINAL_ATTEMPT"
         /\ c' = [c EXCEPT !.seen = seen, !.step = @ + 1, !.quiet = world.landings = 0]
      \/ /\ phase = "AFTER_FINAL_ATTEMPT"
         /\ c' = [c EXCEPT !.seen = seen, !.pc = "cleanup", !.real = GateHeld(GateName),
                           !.raised = ~Evaluates(GateName, seen, c.reports)]
  BY Zenon DEF Observe
<1>3. DOMAIN c = Fields /\ DOMAIN world = {"state", "pending", "landings"} /\ PathOK(world, c)
      /\ DOMAIN c.seen = {"before", "first", "final"}
  BY DEF CertInv, CertOK, PathOK
<1>4. DOMAIN seen = {"before", "first", "final"}
  BY <1>3
<1>5. CASE Raises
  <2>1. /\ DOMAIN c' = Fields /\ c'.pc = "cleanup" /\ c'.raised = TRUE /\ c'.checks = c.checks
        /\ c'.partials = c.partials /\ c'.base = c.base /\ c'.manifest = c.manifest
        /\ c'.made = c.made /\ c'.gate = c.gate /\ c'.seen = c.seen
    BY <1>3, <1>5 DEF Raises, Fields
  <2> QED  BY <1>1, <1>3, <2>1, RaisedKeeps
<1>6. CASE /\ phase # "AFTER_FINAL_ATTEMPT"
           /\ c' = [c EXCEPT !.seen = seen, !.step = @ + 1, !.quiet = world.landings = 0]
  <2>1. /\ DOMAIN c' = Fields /\ c'.pc = "path" /\ c'.checks = c.checks
        /\ c'.partials = c.partials /\ c'.base = c.base /\ c'.manifest = c.manifest
        /\ c'.made = c.made /\ c'.gate = c.gate /\ c'.seen = seen /\ c'.step = c.step + 1
        /\ c'.quiet = (world.landings = 0)
    <3> HIDE DEF seen
    <3> QED  BY <1>1, <1>3, <1>6 DEF Fields
  <2>2. c'.pc \notin BeforeGates
    BY <2>1 DEF BeforeGates, InBusiness
  <2>3. CASE phase = "BEFORE"
    <3>1. c.step = 2 /\ c'.seen.before = world.state
      BY <1>1, <1>3, <2>1, <2>3, PhaseAt
    <3>2. PathOK(world', c')
      BY <1>1, <1>3, <1>4, <2>1, <2>2, <3>1 DEF PathOK
    <3> QED  BY <1>1, <1>4, <2>1, <3>2, PathStepKeeps
  <2>4. CASE phase = "AFTER_FIRST_ATTEMPT"
    <3>1. c.gate = 4 /\ c.step = 5 /\ c'.seen.before = c.seen.before /\ c'.seen.first = world.state
      BY <1>1, <1>3, <2>1, <2>4, PhaseAt
    <3>2. world.landings \in Nat /\ (world.state = c.seen.before => world.landings = 0)
      BY <1>1, <1>3, <3>1 DEF PathOK
    <3>3. c'.seen.first = c'.seen.before => c'.quiet
      BY <2>1, <3>1, <3>2, Zenon
    <3>4. c.step > 2 /\ world.landings = 0 => world.state = c.seen.before
      BY <1>1, <1>3 DEF PathOK
    <3>5. c.gate \in 1..5 /\ DOMAIN world' = {"state", "pending", "landings"} /\ c'.step = 6
      BY <1>1, <1>3, <2>1, <3>1 DEF PathOK
    <3>6. PathOK(world', c')
      <4> HIDE DEF seen
      <4> QED  BY <1>1, <1>4, <2>1, <2>2, <3>1, <3>2, <3>3, <3>4, <3>5 DEF PathOK
    <3> QED  BY <1>1, <1>4, <2>1, <3>6, PathStepKeeps
  <2> QED  BY <1>6, <2>3, <2>4
<1>7. CASE /\ phase = "AFTER_FINAL_ATTEMPT"
           /\ c' = [c EXCEPT !.seen = seen, !.pc = "cleanup", !.real = GateHeld(GateName),
                           !.raised = ~Evaluates(GateName, seen, c.reports)]
  <2>1. /\ DOMAIN c' = Fields /\ c'.pc = "cleanup" /\ c'.checks = c.checks
        /\ c'.partials = c.partials /\ c'.base = c.base /\ c'.manifest = c.manifest
        /\ c'.made = c.made /\ c'.gate = c.gate /\ c'.seen = seen
        /\ c'.real = GateHeld(GateName)
        /\ c'.raised = ~Evaluates(GateName, seen, c.reports)
    <3> HIDE DEF seen
    <3> QED  BY <1>1, <1>3, <1>7 DEF Fields
  <2>2. c'.pc \notin BeforeGates
    BY <2>1 DEF BeforeGates, InBusiness
  <2>3. Evaluates(GateName, seen, c.reports) => GateHeld(GateName)
    BY <1>1, <1>3, <1>7, EvaluatedIsHeld
  <2>4. ~c'.raised => c'.real
    <3> HIDE DEF seen
    <3> QED  BY <2>1, <2>3, Zenon
  <2>5. PathOK(world', c')
    BY <1>1, <1>3, <1>4, <2>1, <2>2, <2>4 DEF PathOK
  <2> QED  BY <1>1, <1>4, <2>1, <2>5, PathStepKeeps
<1> QED  BY <1>2, <1>5, <1>6, <1>7

\* An attempt changes the state and counts, or does neither; a late effect is pending
\* instead.
LEMMA LandFacts ==
    ASSUME NEW w, NEW effect, w.landings \in Nat
    PROVE  /\ DOMAIN Land(w, effect) = {"state", "pending", "landings"}
           /\ Land(w, effect).landings \in Nat
           /\ \/ /\ Land(w, effect).state = w.state
                 /\ Land(w, effect).landings = w.landings
              \/ /\ Land(w, effect).state # w.state
                 /\ Land(w, effect).landings = w.landings + 1
                 /\ ~w.pending => ~Land(w, effect).pending
<1> DEFINE s == After(w.state, effect)
           late == w.pending \/ effect = "late"
           n == IF s = w.state THEN w.landings ELSE w.landings + 1
<1>1. Land(w, effect) = [state |-> s, pending |-> late, landings |-> n]
  BY DEF Land
<1>2. effect = "late" => s = w.state
  BY DEF After
<1>3. s # w.state /\ ~w.pending => ~late
  BY <1>2, Zenon
<1>4. n \in Nat /\ n = IF s = w.state THEN w.landings ELSE w.landings + 1
  OBVIOUS
<1> HIDE DEF s, late, n
<1> QED  BY <1>1, <1>3, <1>4

\* The data set of a path after a Pipeline landed something in it, or nothing.
LEMMA AttemptPath ==
    ASSUME PathOK(world, c), c.pc = "path", Phase = "PIPELINE",
           world' = world \/ \E effect : world' = Land(world, effect),
           c'.pc = "path", c'.gate = c.gate, c'.seen = c.seen, c'.step = c.step + 1,
           c'.quiet = c.quiet
    PROVE  PathOK(world', c')
<1>1. c.step = 4 \/ (c.gate = 4 /\ c.step = 7)
  BY PhaseAt
<1>2. world.landings \in Nat /\ DOMAIN world = {"state", "pending", "landings"}
      /\ c.gate \in 1..5 /\ DOMAIN c.seen = {"before", "first", "final"}
  BY DEF PathOK
<1>3. /\ DOMAIN world' = {"state", "pending", "landings"}
      /\ world'.landings \in Nat
      /\ \/ /\ world'.state = world.state
            /\ world'.landings = world.landings
         \/ /\ world'.state # world.state
            /\ world'.landings = world.landings + 1
            /\ ~world.pending => ~world'.pending
  BY <1>2, LandFacts
<1>4. c'.pc \notin BeforeGates
  BY DEF BeforeGates, InBusiness
<1>5. world.landings = 0 => world.state = c.seen.before
  BY <1>1 DEF PathOK
<1>6. world'.landings = 0 => world'.state = c.seen.before
  BY <1>2, <1>3, <1>5
<1>7. CASE c.step = 4
  <2>1. ~world.pending /\ world.landings = 0
    BY <1>7 DEF PathOK
  <2>2. world'.landings # 0 => ~world'.pending /\ world'.state # c.seen.before
    BY <1>3, <1>5, <2>1
  <2> QED  BY <1>2, <1>3, <1>4, <1>6, <1>7, <2>2 DEF PathOK
<1>8. CASE c.gate = 4 /\ c.step = 7
  <2>1. c.seen.first = c.seen.before => c.quiet
    BY <1>8 DEF PathOK
  <2> QED  BY <1>2, <1>3, <1>4, <1>6, <1>8, <2>1 DEF PathOK
<1> QED  BY <1>1, <1>7, <1>8

\* _pipeline_attempt.
LEMMA AttemptKeeps ==
    ASSUME CertInv, Attempt
    PROVE  CertInv'
<1>1. /\ UNCHANGED <<runs, truth, shelf, proofs, issued, releases>> /\ c.pc = "path"
      /\ Phase = "PIPELINE"
  BY DEF Attempt, retained
<1>2. \E p, parents, report :
        /\ world' = IF p.raise = "before" THEN world ELSE Land(world, p.effect)
        /\ c' = IF PipelineReported(p)
                THEN [c EXCEPT !.reports = Append(@, report), !.step = @ + 1,
                               !.parents = parents]
                ELSE [c EXCEPT !.pc = "cleanup", !.raised = TRUE, !.parents = parents]
  BY Zenon DEF Attempt
<1>3. PICK effect, parents, reports :
        /\ world' = world \/ world' = Land(world, effect)
        /\ \/ c' = [c EXCEPT !.reports = reports, !.step = @ + 1, !.parents = parents]
           \/ c' = [c EXCEPT !.pc = "cleanup", !.raised = TRUE, !.parents = parents]
  BY <1>2, Zenon
<1>4. DOMAIN c = Fields /\ DOMAIN world = {"state", "pending", "landings"} /\ PathOK(world, c)
      /\ DOMAIN c.seen = {"before", "first", "final"} /\ world.landings \in Nat
  BY <1>1 DEF CertInv, CertOK, PathOK
<1>5. DOMAIN world' = {"state", "pending", "landings"}
  BY <1>3, <1>4, LandFacts
<1>6. CASE c' = [c EXCEPT !.reports = reports, !.step = @ + 1, !.parents = parents]
  <2>1. /\ DOMAIN c' = Fields /\ c'.pc = "path" /\ c'.checks = c.checks
        /\ c'.partials = c.partials /\ c'.base = c.base /\ c'.manifest = c.manifest
        /\ c'.made = c.made /\ c'.gate = c.gate /\ c'.seen = c.seen /\ c'.step = c.step + 1
        /\ c'.quiet = c.quiet
    BY <1>1, <1>4, <1>6 DEF Fields
  <2>2. PathOK(world', c')
    BY <1>1, <1>3, <1>4, <2>1, AttemptPath
  <2> QED  BY <1>1, <1>4, <2>1, <2>2, PathStepKeeps
<1>7. CASE c' = [c EXCEPT !.pc = "cleanup", !.raised = TRUE, !.parents = parents]
  <2>1. /\ DOMAIN c' = Fields /\ c'.pc = "cleanup" /\ c'.raised = TRUE /\ c'.checks = c.checks
        /\ c'.partials = c.partials /\ c'.base = c.base /\ c'.manifest = c.manifest
        /\ c'.made = c.made /\ c'.gate = c.gate /\ c'.seen = c.seen
    BY <1>4, <1>7 DEF Fields
  <2> QED  BY <1>1, <1>5, <2>1, RaisedKeeps
<1> QED  BY <1>3, <1>6, <1>7

\* A Pipeline that was given up lands after all, between any two steps of a path.
LEMMA LateEffectKeeps ==
    ASSUME CertInv, LateEffect
    PROVE  CertInv'
<1> DEFINE w == Land(world, "once")
<1>1. /\ UNCHANGED <<runs, truth, c, shelf, proofs, issued, releases>>
      /\ c.pc \in {"path", "cleanup"} /\ world.pending
      /\ world' = [w EXCEPT !.pending = FALSE]
  BY DEF LateEffect, retained
<1>2. PathOK(world, c) /\ DOMAIN world = {"state", "pending", "landings"}
  BY DEF CertInv, PathOK
<1>3. PathOK(world', c)
  <2>1. CASE c.pc = "cleanup"
    <3>1. DOMAIN world' = {"state", "pending", "landings"}
      BY <1>1 DEF Land
    <3> QED  BY <1>2, <2>1, <3>1 DEF PathOK
  <2>2. CASE c.pc = "path"
    <3>1. world.landings \in Nat /\ c.step \in 1..8 /\ c.step > 4 /\ c.gate \in 1..5
      BY <1>1, <1>2, <2>2 DEF PathOK
    <3>2. world.landings = 0 => world.state = c.seen.before
      BY <1>2, <2>2, <3>1 DEF PathOK
    <3>3. c.step = 5 => world.landings = 0
      BY <1>1, <1>2, <2>2 DEF PathOK
    <3>4. /\ DOMAIN w = {"state", "pending", "landings"}
          /\ w.landings \in Nat
          /\ \/ w.state = world.state /\ w.landings = world.landings
             \/ w.state # world.state /\ w.landings = world.landings + 1
      BY <3>1, LandFacts
    <3> HIDE DEF w
    <3>5. /\ DOMAIN world' = {"state", "pending", "landings"} /\ world'.state = w.state
          /\ world'.landings = w.landings /\ ~world'.pending
      BY <1>1, <3>4
    <3>6. world'.landings = 0 => world'.state = c.seen.before
      BY <3>1, <3>2, <3>4, <3>5
    <3>7. c.step = 5 /\ world'.landings # 0 => world'.state # c.seen.before
      BY <3>1, <3>2, <3>3, <3>4, <3>5
    <3> QED  BY <1>2, <2>2, <3>1, <3>4, <3>5, <3>6, <3>7 DEF PathOK
  <2> QED  BY <1>1, <2>1, <2>2
<1>4. CertOK(runs, truth', c')
  BY <1>1 DEF CertInv
<1> QED  BY <1>1, <1>3, <1>4, InvKept

\* The certifying process dies.
LEMMA CrashKeeps ==
    ASSUME CertInv, Crash
    PROVE  CertInv'
  BY Ended DEF Crash

\* It dies inside apply_baseline_schema.
LEMMA InterruptedKeeps ==
    ASSUME CertInv, MigrationInterrupted
    PROVE  CertInv'
  BY Ended DEF MigrationInterrupted

\* overall_status is PASS only of checks that all are.
LEMMA OverallPass ==
    ASSUME NEW checks, \A n \in DOMAIN checks : checks[n] \in Statuses,
           OverallStatus(checks) = "PASS"
    PROVE  \A n \in DOMAIN checks : checks[n] = "PASS"
  BY DEF OverallStatus, Statuses

\* assemble_report says PASS of nothing that did not hold.
LEMMA AssembleReportKeeps ==
    ASSUME CertInv, AssembleReport
    PROVE  CertInv'
<1>1. /\ UNCHANGED <<runs, world, truth, shelf, proofs, releases>> /\ c.pc = "report"
      /\ c' = Idle
  BY DEF AssembleReport, Ends
<1>2. \/ issued' = issued
      \/ issued' = issued \cup {[run |-> Run, status |-> OverallStatus(c.checks)]}
  BY Zenon DEF AssembleReport
<1>3. /\ TrueChecks(runs, truth, c.checks) /\ BoundedOK(runs, truth, c.checks)
      /\ \/ \E n \in DOMAIN c.checks : c.checks[n] = "NOT_RUN"
         \/ Tracked \subseteq DOMAIN c.checks
  BY <1>1 DEF CertInv, CertOK, ChecksOK, CompleteOK
<1>4. ASSUME OverallStatus(c.checks) = "PASS",
             NEW k \in {"bounded", "reference"} \cup RequiredChecks \cup BusinessGates
      PROVE  <<Run, k>> \in truth
  <2>1. \A n \in DOMAIN c.checks : c.checks[n] = "PASS"
    BY <1>3, <1>4, OverallPass DEF TrueChecks
  <2>2. <<Run, "bounded">> \in truth
    BY <1>3, <2>1 DEF BoundedOK, Run
  <2>3. CASE k \in Tracked
    BY <1>3, <2>1, <2>3 DEF TrueChecks, Run
  <2> QED  BY <1>4, <2>2, <2>3 DEF Tracked
<1>5. Continues(runs, runs') /\ runs' \in Seq(Requests)
  BY <1>1, ContinuesItself DEF CertInv
<1>6. \/ issued' = issued
      \/ \E r : /\ issued' = issued \cup {r}
                /\ r.status = "PASS" =>
                       \A k \in {"bounded", "reference"} \cup RequiredChecks \cup BusinessGates :
                           <<r.run, k>> \in truth'
  <2> DEFINE r == [run |-> Run, status |-> OverallStatus(c.checks)]
  <2>1. r.run = Run /\ r.status = OverallStatus(c.checks)
    OBVIOUS
  <2>2. r.status = "PASS" =>
            \A k \in {"bounded", "reference"} \cup RequiredChecks \cup BusinessGates :
                <<r.run, k>> \in truth'
    BY <1>1, <1>4, <2>1
  <2> HIDE DEF r
  <2>3. issued' = issued \/ issued' = issued \cup {r}
    BY <1>2 DEF r
  <2> QED  BY <2>2, <2>3
<1>7. DiskOK'
  BY <1>1, <1>5, <1>6, DiskGrows DEF CertInv
<1>8. CertOK(runs', truth', c') /\ PathOK(world', c')
  BY <1>1, IdleOK DEF CertInv, PathOK
<1> QED  BY <1>5, <1>7, <1>8 DEF CertInv

\* The proof of a gate that held.
LEMMA GateProofSound ==
    ASSUME NEW held, runs \in Seq(Requests), Len(runs) > 0, NEW g \in BusinessGates,
           <<Run, g>> \in held
    PROVE  SoundBundle(runs, held, GateProof(g))
<1> DEFINE by == <<Run, g>>
           result == Result("PASS", by)
<1>1. Run \in 1..Len(runs)
  BY DEF Run
<1>2. GateProof(g) = [wheel |-> Req.wheel, inputs |-> Bundle.hash, results |-> [x \in {g} |-> result]]
  BY DEF GateProof
<1>3. result.by = by
  BY DEF Result
<1>4. by[1] = Run /\ by[2] = g /\ by \in held
  OBVIOUS
<1>5. runs[Run].wheel = Req.wheel /\ runs[Run].bundle.hash = Bundle.hash
  BY DEF Req, Bundle
<1> HIDE DEF by, result
<1>6. Backed(runs, held, by, g, [wheel |-> Req.wheel, inputs |-> Bundle.hash])
  BY <1>1, <1>4, <1>5 DEF Backed
<1>7. /\ DOMAIN GateProof(g).results = {g} /\ GateProof(g).results[g].by = by
      /\ GateProof(g).wheel = Req.wheel /\ GateProof(g).inputs = Bundle.hash
  BY <1>2, <1>3
<1> QED  BY <1>6, <1>7 DEF SoundBundle

\* A passed path: the gate really held, its proof and its check say so.
LEMMA PassedKeeps ==
    ASSUME CertInv, UNCHANGED <<runs, world, shelf, issued, releases>>, truth \subseteq truth',
           c.pc = "cleanup", ~c.raised, c.real => <<Run, GateName>> \in truth',
           \E x : proofs' = proofs \cup {x} /\ x.bundle = GateProof(GateName),
           c' = [c EXCEPT !.checks = Noted(@, GateName, "PASS"),
                             !.made = @ \cup {GateProof(GateName)},
                             !.gate = IF @ < Len(Gates) THEN @ + 1 ELSE @,
                             !.pc = IF c.gate < Len(Gates) THEN "enter" ELSE "proofs"]
    PROVE  CertInv'
<1>1. DOMAIN c = Fields /\ PathOK(world, c) /\ c.gate \in 1..5 /\ runs \in Seq(Requests)
      /\ c.real /\ DOMAIN c.seen = {"before", "first", "final"} /\ Len(runs) > 0
  BY DEF CertInv, CertOK, PathOK, StageOK
<1>2. GateName \in BusinessGates /\ GateName = Gates[c.gate] /\ Len(Gates) = 5
  BY <1>1, GatesAreBusiness DEF GateName
<1>3. <<Run, GateName>> \in truth'
  BY <1>1
<1>4. SoundBundle(runs, truth', GateProof(GateName))
  BY <1>1, <1>2, <1>3, GateProofSound
<1>5. /\ DOMAIN c' = Fields /\ c'.checks = Noted(c.checks, GateName, "PASS")
      /\ c'.made = c.made \cup {GateProof(GateName)}
      /\ c'.partials = c.partials /\ c'.base = c.base /\ c'.manifest = c.manifest
      /\ c'.seen = c.seen
      /\ \/ c.gate < 5 /\ c'.gate = c.gate + 1 /\ c'.pc = "enter"
         \/ c.gate = 5 /\ c'.gate = 5 /\ c'.pc = "proofs"
  BY <1>1, <1>2 DEF Fields
<1>6. c.pc \in WhenDrilled /\ c.pc \in Live /\ c.pc \in InBusiness
      /\ c'.pc \in WhenDrilled /\ c'.pc \in Live /\ c'.pc \in InBusiness
      /\ c'.pc \notin {"idle", "attest", "bootstrap", "load", "report", "path", "cleanup"}
      /\ c'.pc \notin BeforeGates
  BY <1>5 DEF InBusiness, Live, WhenReferred, WhenRead, WhenControlled, WhenPiped,
         WhenCopied, WhenSparked, WhenCommitted, WhenDrilled, BeforeGates
<1>7. EvidenceOK(runs, truth', c')
  <2>1. EvidenceOK(runs, truth, c)
    BY DEF CertInv, CertOK
  <2>2. \A b \in c'.made : SoundBundle(runs, truth', b)
    BY <1>1, <1>4, <1>5, <2>1, SoundBundleStays, ContinuesItself DEF EvidenceOK
  <2> QED  BY <1>5, <2>1, <2>2, OwnStays DEF EvidenceOK
<1>8. StageOK(runs, truth', c')
  BY <1>6 DEF CertInv, CertOK, StageOK
<1>9. ChecksOK(runs, truth', c')
  <2>1. /\ TrueChecks(runs, truth, c.checks) /\ BoundedOK(runs, truth, c.checks) /\ CompleteOK(c)
    BY <1>6 DEF CertInv, CertOK, ChecksOK
  <2>2. TrueChecks(runs, truth', c'.checks)
    BY <1>3, <1>5, <2>1, NotedTrue DEF Run, Statuses
  <2>3. GateName \notin BoundedChecks
    BY <1>2 DEF BoundedChecks, BusinessGates
  <2>4. BoundedOK(runs, truth', c'.checks)
    BY <1>5, <2>1, <2>3, NotedBounded
  <2>5. DOMAIN c'.checks = DOMAIN c.checks \cup {GateName}
    BY <1>5 DEF Noted, Put
  <2>6. StageChecks(c'.pc) \subseteq DOMAIN c'.checks
    BY <1>6, <2>1, <2>5, DrilledIsComplete DEF CompleteOK
  <2>7. \A i \in 1..Len(Gates) : i < c'.gate \/ c'.pc = "proofs" => Gates[i] \in DOMAIN c'.checks
    <3>1. \A i \in 1..5 : i < c.gate => Gates[i] \in DOMAIN c.checks
      BY <1>2, <1>6, <2>1 DEF CompleteOK
    <3> QED  BY <1>1, <1>2, <1>5, <2>5, <3>1
  <2>8. CompleteOK(c')
    BY <1>6, <2>6, <2>7 DEF CompleteOK
  <2> QED  BY <1>6, <2>2, <2>4, <2>8 DEF ChecksOK
<1>10. PathOK(world', c')
  BY <1>1, <1>5, <1>6 DEF PathOK
<1>11. CertOK(runs, truth', c')
  BY <1>5, <1>7, <1>8, <1>9 DEF CertOK
<1>12. \E x : proofs' = proofs \cup {x} /\ SoundBundle(runs, truth', x.bundle)
  BY <1>4
<1> QED  BY <1>10, <1>11, <1>12, InvKept

\* The finally block, the path's report and its proof.
LEMMA CleanupKeeps ==
    ASSUME CertInv, Cleanup
    PROVE  CertInv'
<1>1. UNCHANGED <<runs, world, shelf, issued, releases>> /\ c.pc = "cleanup"
  BY DEF Cleanup
<1>2. PICK driven \in BOOLEAN, written \in BOOLEAN :
        /\ Witness(GateName, c.real)
        /\ proofs' = IF ~c.raised /\ driven /\ written
                     THEN proofs \cup {[run |-> Run, key |-> GateName, bundle |-> GateProof(GateName)]}
                     ELSE proofs
        /\ IF ~(~c.raised /\ driven /\ written) THEN BusinessStops
              ELSE c' = [c EXCEPT !.checks = Noted(@, GateName, "PASS"),
                             !.made = @ \cup {GateProof(GateName)},
                             !.gate = IF @ < Len(Gates) THEN @ + 1 ELSE @,
                             !.pc = IF c.gate < Len(Gates) THEN "enter" ELSE "proofs"]
  BY Zenon DEF Cleanup
<1>3. truth \subseteq truth' /\ (c.real => <<Run, GateName>> \in truth')
  BY <1>2 DEF Witness
<1>4. DOMAIN c = Fields /\ DOMAIN world = {"state", "pending", "landings"}
  BY DEF CertInv, CertOK, PathOK
<1>5. CASE ~c.raised /\ driven /\ written
  <2> DEFINE x == [run |-> Run, key |-> GateName, bundle |-> GateProof(GateName)]
  <2>1. proofs' = proofs \cup {x} /\ x.bundle = GateProof(GateName)
    BY <1>2, <1>5
  <2> HIDE DEF x
  <2>2. \E y : proofs' = proofs \cup {y} /\ y.bundle = GateProof(GateName)
    BY <2>1
  <2>3. c' = [c EXCEPT !.checks = Noted(@, GateName, "PASS"),
                             !.made = @ \cup {GateProof(GateName)},
                             !.gate = IF @ < Len(Gates) THEN @ + 1 ELSE @,
                             !.pc = IF c.gate < Len(Gates) THEN "enter" ELSE "proofs"]
    BY <1>2, <1>5, Zenon
  <2> QED  BY <1>1, <1>3, <1>5, <2>2, <2>3, PassedKeeps
<1>6. CASE ~(~c.raised /\ driven /\ written)
  <2>1. BusinessStops /\ proofs' = proofs
    BY <1>2, <1>6, Zenon
  <2> QED  BY <1>1, <1>3, <1>4, <2>1, StopsFields, StoppedKeeps DEF InBusiness
<1> QED  BY <1>5, <1>6

\* The proofs of the gates merged into one file.
LEMMA ProofsKeeps ==
    ASSUME CertInv, Proofs
    PROVE  CertInv'
<1> DEFINE x == [run |-> Run, key |-> "merged", bundle |-> MergeProofs(c.made)]
<1>1. UNCHANGED <<runs, world, truth, shelf, issued, releases>> /\ c.pc = "proofs"
  BY DEF Proofs
<1>2. \/ ~ProofMergeRaises(c.made) /\ Goes("report") /\ proofs' = proofs \cup {x}
      \/ BusinessStops /\ UNCHANGED proofs
  BY Zenon DEF Proofs
<1>3. DOMAIN c = Fields /\ PathOK(world, c) /\ DOMAIN world = {"state", "pending", "landings"}
  BY DEF CertInv, CertOK, PathOK
<1>4. CASE BusinessStops /\ UNCHANGED proofs
  BY <1>1, <1>3, <1>4, StopsFields, StoppedKeeps DEF InBusiness
<1>5. CASE ~ProofMergeRaises(c.made) /\ Goes("report") /\ proofs' = proofs \cup {x}
  <2>1. SoundBundle(runs, truth, MergeProofs(c.made))
    BY <1>5, MergeProofsSound DEF CertInv, CertOK, EvidenceOK
  <2>2. x.bundle = MergeProofs(c.made)
    OBVIOUS
  <2>3. \E y : proofs' = proofs \cup {y} /\ SoundBundle(runs, truth', y.bundle)
    BY <1>1, <1>5, <2>1, <2>2
  <2> HIDE DEF x
  <2>4. /\ DOMAIN c' = Fields /\ c'.pc = "report" /\ c'.checks = c.checks
        /\ c'.partials = c.partials /\ c'.base = c.base /\ c'.manifest = c.manifest
        /\ c'.made = c.made /\ c'.gate = c.gate /\ c'.seen = c.seen
    BY <1>3, <1>5 DEF Goes, Fields
  <2>5. c.pc \in WhenDrilled /\ c.pc \in Live /\ c.pc \in InBusiness
        /\ c'.pc \notin Live /\ c'.pc \notin InBusiness /\ c'.pc \notin BeforeGates
    BY <1>1, <2>4 DEF InBusiness, Live, WhenReferred, WhenRead, WhenControlled, WhenPiped,
         WhenCopied, WhenSparked, WhenCommitted, WhenDrilled, BeforeGates
  <2>6. EvidenceOK(runs, truth, c')
    BY <2>4, EvidenceStays DEF CertInv, CertOK
  <2>7. StageOK(runs, truth, c')
    BY <1>1, <2>4, <2>5 DEF CertInv, CertOK, StageOK
  <2>8. ChecksOK(runs, truth, c')
    <3>1. TrueChecks(runs, truth, c.checks) /\ BoundedOK(runs, truth, c.checks) /\ CompleteOK(c)
      BY <2>5 DEF CertInv, CertOK, ChecksOK
    <3>2. {"reference"} \cup RequiredChecks \subseteq DOMAIN c.checks
      BY <2>5, <3>1, DrilledIsComplete DEF CompleteOK
    <3>3. BusinessGates \subseteq DOMAIN c.checks
      BY <1>1, <2>5, <3>1, GatesAreBusiness DEF CompleteOK, BusinessChecks
    <3>4. StageChecks(c'.pc) = {}
      BY <2>4 DEF StageChecks, WhenReferred, WhenRead, WhenControlled, WhenPiped,
           WhenCopied, WhenSparked, WhenCommitted, WhenDrilled
    <3>5. CompleteOK(c')
      BY <2>4, <2>5, <3>2, <3>3, <3>4 DEF CompleteOK, Tracked
    <3> QED  BY <2>4, <3>1, <3>5 DEF ChecksOK
  <2>9. PathOK(world, c')
    BY <1>3, <2>4, <2>5 DEF PathOK
  <2>10. CertOK(runs, truth, c')
    BY <2>4, <2>6, <2>7, <2>8 DEF CertOK
  <2> QED  BY <1>1, <2>3, <2>9, <2>10, InvKept
<1> QED  BY <1>2, <1>4, <1>5

\* A release is backed by what it was merged from.
LEMMA CertifiedIsBacked ==
    ASSUME NEW rs, NEW held, NEW spec \in Specs, NEW A, NEW B,
           \A m \in A : Sound(rs, held, m), \A b \in B : SoundBundle(rs, held, b),
           NEW all, all = B \cup {OutsideProof(spec.wheel, spec.inputs)},
           ~MergeRaises(spec, A), ~ProofMergeRaises(all),
           CandidateCertified(spec.wheel, MergeProofs(all), Merge(spec, A))
    PROVE  /\ \A k \in RequiredChecks : Backed(rs, held, Merge(spec, A).results[k].by, k, spec)
           /\ \A g \in BusinessGates : Backed(rs, held, MergeProofs(all).results[g].by, g, spec)
<1> DEFINE m == Merge(spec, A)
           p == MergeProofs(all)
           outside == OutsideProof(spec.wheel, spec.inputs)
<1>1. m.spec = spec
  BY DEF Merge
<1>2. Certified(m) /\ ReadinessBlockers(p, m) = {}
  BY DEF CandidateCertified
<1>3. \A k \in RequiredChecks : Backed(rs, held, m.results[k].by, k, spec)
  <2>1. Sound(rs, held, m)
    BY MergeSound
  <2> HIDE DEF m
  <2> QED  BY <1>1, <1>2, <2>1 DEF Sound, Certified, RequiredChecks
<1>4. outside \in all /\ outside.wheel = spec.wheel /\ outside.inputs = spec.inputs
      /\ DOMAIN outside.results = OutsideGates
  BY DEF OutsideProof
<1>5. ASSUME NEW g \in BusinessGates
      PROVE  Backed(rs, held, p.results[g].by, g, spec)
  <2>1. g \notin IntegrationGates /\ g \in ProofGates /\ g \notin OutsideGates
    BY DEF IntegrationGates, RequiredChecks, CheckIds, BusinessGates, ProofGates, OutsideGates
  <2> HIDE DEF m
  <2>2. g \in DOMAIN p.results /\ p.results[g].status = "PASS"
    <3> HIDE DEF p
    <3> QED  BY <1>2, <2>1 DEF ReadinessBlockers, GateStatus
  <2>3. PICK b \in all : g \in DOMAIN b.results /\ b.results[g] = p.results[g]
    BY <2>2, ProofChosen
  <2> HIDE DEF outside
  <2>4. b \in B /\ SoundBundle(rs, held, b)
    <3>1. b # outside
      BY <1>4, <2>1, <2>3
    <3> QED  BY <3>1 DEF outside
  <2>5. p.wheel = b.wheel /\ p.inputs = b.inputs
    BY <2>3, MergedIdentity
  <2>6. p.wheel = outside.wheel /\ p.inputs = outside.inputs
    BY <1>4, MergedIdentity
  <2> HIDE DEF p
  <2>7. Backed(rs, held, p.results[g].by, g, [wheel |-> b.wheel, inputs |-> b.inputs])
    BY <2>2, <2>3, <2>4 DEF SoundBundle
  <2>8. b.wheel = spec.wheel /\ b.inputs = spec.inputs
    BY <1>4, <2>5, <2>6
  <2> QED  BY <2>7, <2>8 DEF Backed
<1> QED  BY <1>3, <1>5

\* certify_release_candidate over sound evidence.
LEMMA CertifyKeeps ==
    ASSUME CertInv, NEW A, NEW B, IsFiniteSet(A), \A m \in A : Sound(runs, truth, m),
           \A b \in B : SoundBundle(runs, truth, b), Certify(A, B)
    PROVE  CertInv'
<1>1. PICK spec \in Specs :
        LET all == B \cup {OutsideProof(spec.wheel, spec.inputs)}
        IN /\ ~MergeRaises(spec, A)
           /\ ~ProofMergeRaises(all)
           /\ CandidateCertified(spec.wheel, MergeProofs(all), Merge(spec, A))
           /\ releases' = {[spec |-> spec, used |-> A,
                            manifest |-> Merge(spec, A), proofs |-> MergeProofs(all)]}
           /\ UNCHANGED <<runs, c, world, db, shelf, proofs, truth, calls, issued, faults>>
  BY Zenon DEF Certify
<1> DEFINE all == B \cup {OutsideProof(spec.wheel, spec.inputs)}
           r == [spec |-> spec, used |-> A, manifest |-> Merge(spec, A),
                 proofs |-> MergeProofs(all)]
<1>2. /\ ~MergeRaises(spec, A) /\ ~ProofMergeRaises(all)
      /\ CandidateCertified(spec.wheel, MergeProofs(all), Merge(spec, A))
      /\ releases' = {r}
      /\ UNCHANGED <<runs, c, world, shelf, proofs, truth, issued>>
  BY <1>1
<1>3. /\ \A k \in RequiredChecks : Backed(runs, truth, Merge(spec, A).results[k].by, k, spec)
      /\ \A g \in BusinessGates : Backed(runs, truth, MergeProofs(all).results[g].by, g, spec)
  BY <1>2, CertifiedIsBacked
<1>4. Certified(Merge(spec, A))
  BY <1>2 DEF CandidateCertified
<1>5. \A m \in A : \A k \in RequiredChecks : m.results[k].status \in {"PASS", "NOT_RUN"}
  BY <1>2, <1>4, MergeHidesNothing
<1>6. r.spec = spec /\ r.used = A /\ r.manifest = Merge(spec, A) /\ r.proofs = MergeProofs(all)
  OBVIOUS
<1> HIDE DEF r, all
<1>7. ReleaseOK(runs, truth, r)
  BY <1>3, <1>6 DEF ReleaseOK
<1>8. ReleaseHidesNothing'
  BY <1>2, <1>5, <1>6 DEF ReleaseHidesNothing
<1>9. DiskOK'
  BY <1>2, <1>7, <1>8 DEF CertInv, DiskOK, ReportIsHonest
<1> QED  BY <1>2, <1>9 DEF CertInv

\* Any manifests taken from disk.
LEMMA FromShelf ==
    ASSUME CertInv, NEW S, S \subseteq shelf, NEW A, A \subseteq {x.manifest : x \in S}
    PROVE  IsFiniteSet(A) /\ \A m \in A : Sound(runs, truth, m)
<1> DEFINE T == {x.manifest : x \in S}
<1>1. IsFiniteSet(S)
  BY FS_Subset DEF CertInv, DiskOK
<1>2. [x \in S |-> x.manifest] \in Surjection(S, T)
  BY DEF Surjection
<1>3. IsFiniteSet(T)
  BY <1>1, <1>2, FS_Surjection
<1>4. IsFiniteSet(A)
  BY <1>3, FS_Subset
<1> QED  BY <1>4 DEF CertInv, DiskOK

\* ... over the files of whole runs.
LEMMA CertifyRunsKeeps ==
    ASSUME CertInv, CertifyRuns
    PROVE  CertInv'
<1>1. PICK A \in SUBSET Kept("integration"), B \in SUBSET KeptProofs("merged") : Certify(A, B)
  BY Zenon DEF CertifyRuns
<1>2. IsFiniteSet(A) /\ \A m \in A : Sound(runs, truth, m)
  <2> DEFINE S == {y \in shelf : y.key = "integration"}
  <2>1. S \subseteq shelf /\ A \subseteq {x.manifest : x \in S}
    BY DEF Kept
  <2> HIDE DEF S
  <2> QED  BY <2>1, FromShelf
<1>3. \A b \in B : SoundBundle(runs, truth, b)
  BY DEF KeptProofs, CertInv, DiskOK
<1> QED  BY <1>1, <1>2, <1>3, CertifyKeeps

\* ... over one partial per check, each from a run of its own.
LEMMA CertifyPartialsKeeps ==
    ASSUME CertInv, CertifyPartials
    PROVE  CertInv'
<1>1. PICK B \in SUBSET KeptProofs("merged") \ {{}}, from \in [RequiredChecks -> 1..Run] :
         Certify({x.manifest : x \in {y \in shelf : y.key \in RequiredChecks
                                                    /\ y.run = from[y.key]}}, B)
  BY Zenon DEF CertifyPartials
<1> DEFINE S == {y \in shelf : y.key \in RequiredChecks /\ y.run = from[y.key]}
           A == {x.manifest : x \in S}
<1>2. IsFiniteSet(A) /\ \A m \in A : Sound(runs, truth, m)
  <2>1. S \subseteq shelf /\ A \subseteq {x.manifest : x \in S}
    OBVIOUS
  <2> HIDE DEF A, S
  <2> QED  BY <2>1, FromShelf DEF A
<1>3. \A b \in B : SoundBundle(runs, truth, b)
  BY DEF KeptProofs, CertInv, DiskOK
<1>4. Certify(A, B)
  BY <1>1
<1> HIDE DEF A
<1> QED  BY <1>2, <1>3, <1>4, CertifyKeeps

\* ... over one proof per gate, each from a run of its own.
LEMMA CertifyGatesKeeps ==
    ASSUME CertInv, CertifyGates
    PROVE  CertInv'
<1>1. PICK A \in SUBSET Kept("integration") \ {{}}, from \in [BusinessGates -> 1..Run] :
         Certify(A, {x.bundle : x \in {y \in proofs : y.key \in BusinessGates
                                                      /\ y.run = from[y.key]}})
  BY Zenon DEF CertifyGates
<1> DEFINE B == {x.bundle : x \in {y \in proofs : y.key \in BusinessGates /\ y.run = from[y.key]}}
<1>2. IsFiniteSet(A) /\ \A m \in A : Sound(runs, truth, m)
  <2> DEFINE S == {y \in shelf : y.key = "integration"}
  <2>1. S \subseteq shelf /\ A \subseteq {x.manifest : x \in S}
    BY DEF Kept
  <2> HIDE DEF S
  <2> QED  BY <2>1, FromShelf
<1>3. \A b \in B : SoundBundle(runs, truth, b)
  BY DEF CertInv, DiskOK
<1>4. Certify(A, B)
  BY <1>1
<1> HIDE DEF B
<1> QED  BY <1>2, <1>3, <1>4, CertifyKeeps

\* The clauses of NothingUnauthorized for one call of the current run.
Granted(call) ==
    /\ GrantsOf(call, Req) \subseteq Authorizations(Req)
    /\ \A k \in PrerequisitesOf(call) : <<Run, k>> \in truth
    /\ {Req.manifestWheel, Bundle.wheel} = {Req.wheel}
    /\ Req.entry = "installed" => Req.installed = Req.wheel

\* NothingUnauthorized of one step.
NewCallsGranted ==
    \A x \in calls' \ calls :
        LET q == runs[x[1]]
        IN /\ GrantsOf(x[2], q) \subseteq Authorizations(q)
           /\ \A k \in PrerequisitesOf(x[2]) : <<x[1], k>> \in truth
           /\ {q.manifestWheel, q.bundle.wheel} = {q.wheel}
           /\ q.entry = "installed" => q.installed = q.wheel

\* A step that calls nothing.
LEMMA NothingCalled ==
    ASSUME calls' = calls
    PROVE  NewCallsGranted
  BY DEF NewCallsGranted

\* A step that calls what is granted to the run under way.
LEMMA CalledGranted ==
    ASSUME NEW names, Called(names), \A n \in names : Granted(n)
    PROVE  NewCallsGranted
<1> SUFFICES ASSUME NEW x \in calls' \ calls
             PROVE  LET q == runs[x[1]]
                    IN /\ GrantsOf(x[2], q) \subseteq Authorizations(q)
                       /\ \A k \in PrerequisitesOf(x[2]) : <<x[1], k>> \in truth
                       /\ {q.manifestWheel, q.bundle.wheel} = {q.wheel}
                       /\ q.entry = "installed" => q.installed = q.wheel
  BY DEF NewCallsGranted
<1>1. PICK n \in names : x = <<Run, n>>
  BY DEF Called
<1>2. Granted(n) /\ x[1] = Run /\ x[2] = n /\ runs[x[1]] = Req /\ Req.bundle = Bundle
  BY <1>1 DEF Req, Bundle
<1> QED  BY <1>2 DEF Granted

\* What a stage that reached the providers has established.
LEMMA LiveIdentity ==
    ASSUME CertInv, c.pc \in Live
    PROVE  /\ {Req.manifestWheel, Bundle.wheel} = {Req.wheel}
           /\ Req.entry = "installed" => Req.installed = Req.wheel
<1>1. c.pc \notin {"idle", "attest"}
  BY DEF Live, WhenReferred, WhenRead, WhenControlled, WhenPiped,
         WhenCopied, WhenSparked, WhenCommitted, WhenDrilled
<1>2. /\ ReqOf(runs).manifestWheel = ReqOf(runs).wheel
      /\ ReqOf(runs).bundle.wheel = ReqOf(runs).wheel
      /\ ReqOf(runs).entry = "installed" => ReqOf(runs).installed = ReqOf(runs).wheel
  BY <1>1 DEF CertInv, CertOK, StageOK
<1> QED  BY <1>2 DEF ReqOf, Req, Run, Bundle

\* A migration, from the bootstrap or from the reference stage.
LEMMA MigrationGranted ==
    ASSUME CertInv,
           \/ c.pc = "bootstrap" /\ IdentityExact /\ Bundle.wheel = Req.wheel
           \/ c.pc = "reference" /\ Allowed("migration")
    PROVE  Granted("migration")
<1>1. GrantsOf("migration", Req) = {"migration"} /\ PrerequisitesOf("migration") = {}
  BY DEF GrantsOf, PrerequisitesOf
<1>2. CASE c.pc = "bootstrap" /\ IdentityExact /\ Bundle.wheel = Req.wheel
  <2>1. /\ "migration" \in Req.flags
        /\ Req.entry = "installed" => Req.installed = Req.wheel
    BY <1>2 DEF CertInv, CertOK, StageOK, ReqOf, Req, Run
  <2>2. "migration" \in Authorizations(Req)
    BY <2>1 DEF Authorizations
  <2> QED  BY <1>1, <1>2, <2>1, <2>2 DEF Granted, IdentityExact
<1>3. CASE c.pc = "reference" /\ Allowed("migration")
  BY <1>1, <1>3, LiveIdentity DEF Live, Allowed, Granted
<1> QED  BY <1>2, <1>3

\* The PASS results a runner demands of its prerequisite really held in its own run.
LEMMA PassedHeld ==
    ASSUME CertInv, NEW m, NEW check, NEW needed, m \in {c.base, c.manifest}, m # None,
           needed \subseteq CheckIds, RequirePrerequisites(Spec0, m, check, needed)
    PROVE  \A k \in needed : <<Run, k>> \in truth
<1>1. Own(runs, truth, m)
  BY DEF CertInv, CertOK, EvidenceOK
<1> QED  BY <1>1 DEF Own, RequirePrerequisites, Run

\* A runner that has its own authorization and passed its preflight.
LEMMA RunnerGranted ==
    ASSUME CertInv, c.pc \in Live, NEW call \in {"pipeline", "capture", "warehouse"},
           Allowed(call), c.base # None, NEW check,
           RequirePrerequisites(Spec0, c.base, check, BasePrerequisites)
    PROVE  Granted(call)
<1>1. GrantsOf(call, Req) = {call} /\ PrerequisitesOf(call) = BasePrerequisites
  BY DEF GrantsOf, PrerequisitesOf
<1>2. BasePrerequisites \subseteq CheckIds
  BY DEF BasePrerequisites, CheckIds
<1>3. \A k \in BasePrerequisites : <<Run, k>> \in truth
  BY <1>2, PassedHeld
<1> QED  BY <1>1, <1>3, LiveIdentity DEF Allowed, Granted

\* The driver and the Pipeline of a gate.
LEMMA GateGranted ==
    ASSUME CertInv, c.pc \in InBusiness, NEW call \in {"drive", "business-pipeline"}
    PROVE  Granted(call)
<1>1. GrantsOf(call, Req) = {"business", "scenario", "pipeline"}
      /\ PrerequisitesOf(call) = RequiredChecks
  BY DEF GrantsOf, PrerequisitesOf
<1>2. c.pc \in Live
  BY DEF InBusiness, Live, WhenReferred, WhenRead, WhenControlled, WhenPiped,
         WhenCopied, WhenSparked, WhenCommitted, WhenDrilled
<1>3. /\ {"business", "scenario", "pipeline"} \subseteq Authorizations(Req)
      /\ \A k \in RequiredChecks : <<Run, k>> \in truth
  BY DEF CertInv, CertOK, StageOK, ReqOf, Req, Run
<1> QED  BY <1>1, <1>2, <1>3, LiveIdentity DEF Granted

\* The bootstrap migrates only the candidate's own bundle.
LEMMA BootstrapGranted ==
    ASSUME CertInv, Bootstrap
    PROVE  NewCallsGranted
<1>1. \/ calls' = calls
      \/ c.pc = "bootstrap" /\ IdentityExact /\ Bundle.wheel = Req.wheel /\ Called({"migration"})
  BY Zenon DEF Bootstrap
<1> QED  BY <1>1, NothingCalled, CalledGranted, MigrationGranted

\* The reference stage writes, and migrates, only when both are allowed.
LEMMA ReferenceGranted ==
    ASSUME CertInv, Reference
    PROVE  NewCallsGranted
<1> DEFINE ran == ReferenceReady /\ Allowed("writes")
           names == {x \in {"writes", "migration"} :
                         ran /\ (x = "migration" => ran /\ Allowed("migration"))}
<1>1. Called(names) /\ c.pc = "reference"
  BY Zenon DEF Reference
<1>2. ASSUME NEW n \in names PROVE Granted(n)
  <2>1. CASE n = "writes"
    <3>1. GrantsOf("writes", Req) = {"writes"} /\ PrerequisitesOf("writes") = {}
      BY DEF GrantsOf, PrerequisitesOf
    <3> QED  BY <1>1, <2>1, <3>1, LiveIdentity DEF Live, Allowed, Granted
  <2>2. CASE n = "migration"
    BY <1>1, <2>2, MigrationGranted
  <2> QED  BY <2>1, <2>2
<1> HIDE DEF names
<1> QED  BY <1>1, <1>2, CalledGranted

\* The control-plane certification writes.
LEMMA ControlGranted ==
    ASSUME CertInv, Control
    PROVE  NewCallsGranted
<1>1. /\ c.pc = "control"
      /\ \/ calls' = calls
         \/ Called({"writes"}) /\ ControlCanRun
  BY Zenon DEF Control
<1>2. c.pc \in Live
  BY <1>1 DEF Live, WhenReferred, WhenRead
<1>3. GrantsOf("writes", Req) = {"writes"} /\ PrerequisitesOf("writes") = {}
  BY DEF GrantsOf, PrerequisitesOf
<1>4. ControlCanRun => Granted("writes")
  BY <1>2, <1>3, LiveIdentity DEF ControlCanRun, Allowed, Granted
<1> QED  BY <1>1, <1>4, NothingCalled, CalledGranted

\* The approved Pipeline check.
LEMMA PipelineGranted ==
    ASSUME CertInv, Pipeline
    PROVE  NewCallsGranted
<1>1. /\ c.pc = "pipeline"
      /\ \/ calls' = calls
         \/ /\ Called({}) \/ Called({"pipeline"})
            /\ c.base # None /\ Allowed("pipeline") /\ PipelinePreflight("fabric.pipeline", c.base)
  BY Zenon DEF Pipeline, NotCalled
<1>2. c.pc \in Live
  BY <1>1 DEF Live, WhenReferred, WhenRead, WhenControlled
<1>3. c.base # None /\ Allowed("pipeline") /\ PipelinePreflight("fabric.pipeline", c.base)
      => Granted("pipeline")
  BY <1>2, RunnerGranted DEF PipelinePreflight, PipelinePrerequisites
<1> QED  BY <1>1, <1>3, NothingCalled, CalledGranted

\* A capture.
LEMMA CaptureGranted ==
    ASSUME CertInv, NEW check, NEW selected, NEW next, Capture(check, selected, next), check \in Live
    PROVE  NewCallsGranted
<1>1. /\ c.pc = check
      /\ \/ calls' = calls
         \/ /\ Called({"capture"})
            /\ c.base # None /\ Allowed("capture") /\ CapturePreflight(check, selected)
  BY Zenon DEF Capture, NotCalled, Finished
<1>2. c.base # None /\ Allowed("capture") /\ CapturePreflight(check, selected)
      => Granted("capture")
  BY <1>1, RunnerGranted DEF CapturePreflight, CapturePrerequisites
<1> QED  BY <1>1, <1>2, NothingCalled, CalledGranted

\* The Warehouse commit check.
LEMMA WarehouseGranted ==
    ASSUME CertInv, Warehouse
    PROVE  NewCallsGranted
<1>1. /\ c.pc = "warehouse"
      /\ \/ calls' = calls
         \/ /\ Called({"warehouse"})
            /\ c.base # None /\ Allowed("warehouse") /\ WarehousePreflight
  BY Zenon DEF Warehouse, NotCalled, Finished, WarehouseAnswers
<1>2. c.pc \in Live
  BY <1>1 DEF Live, WhenReferred, WhenRead, WhenControlled, WhenPiped, WhenCopied, WhenSparked
<1>3. c.base # None /\ Allowed("warehouse") /\ WarehousePreflight => Granted("warehouse")
  BY <1>2, RunnerGranted DEF WarehousePreflight, WarehousePrerequisites
<1> QED  BY <1>1, <1>3, NothingCalled, CalledGranted

\* The fault drill, and the termination of a session if the recipe recovers by it.
LEMMA DrillGranted ==
    ASSUME CertInv, Drill
    PROVE  NewCallsGranted
<1> DEFINE needed == BasePrerequisites \cup {"warehouse.commit"}
<1>1. /\ c.pc = "drill"
      /\ \/ calls' = calls
         \/ /\ Called({"fault"})
            /\ c.manifest # None /\ Allowed("fault") /\ DrillPreflight
  BY Zenon DEF Drill, NotCalled, Finished, WarehouseAnswers
<1>2. c.pc \in Live
  BY <1>1 DEF Live, WhenReferred, WhenRead, WhenControlled, WhenPiped, WhenCopied, WhenSparked,
         WhenCommitted
<1>3. ASSUME c.manifest # None, Allowed("fault"), DrillPreflight
      PROVE  Granted("fault")
  <2>1. /\ GrantsOf("fault", Req) = {"fault"} \cup (IF Bundle.recovery THEN {"terminate"} ELSE {})
        /\ PrerequisitesOf("fault") = needed
    BY DEF GrantsOf, PrerequisitesOf, Bundle
  <2>2. needed \subseteq CheckIds
    BY DEF BasePrerequisites, CheckIds
  <2>3. \A k \in needed : <<Run, k>> \in truth
    BY <1>3, <2>2, PassedHeld DEF DrillPreflight, DrillPrerequisites
  <2>4. GrantsOf("fault", Req) \subseteq Authorizations(Req)
    BY <1>3, <2>1 DEF DrillPreflight, TerminationReady, Allowed
  <2> QED  BY <1>2, <2>1, <2>3, <2>4, LiveIdentity DEF Granted
<1> QED  BY <1>1, <1>3, NothingCalled, CalledGranted

\* The business paths.
LEMMA GatesGranted ==
    ASSUME CertInv, Drive \/ Attempt \/ Cleanup
    PROVE  NewCallsGranted
<1>1. /\ c.pc \in InBusiness
      /\ Called({}) \/ Called({"drive"}) \/ Called({"business-pipeline"})
  <2>1. CASE Drive
    BY <2>1, Zenon DEF Drive, InBusiness
  <2>2. CASE Attempt
    BY <2>2, Zenon DEF Attempt, InBusiness
  <2>3. CASE Cleanup
    BY <2>3, Zenon DEF Cleanup, InBusiness
  <2> QED  BY <2>1, <2>2, <2>3
<1>2. Granted("drive") /\ Granted("business-pipeline")
  BY <1>1, GateGranted
<1> QED  BY <1>1, <1>2, CalledGranted

\* A migration that is interrupted was granted.
LEMMA InterruptedGranted ==
    ASSUME CertInv, MigrationInterrupted
    PROVE  NewCallsGranted
  BY MigrationGranted, CalledGranted DEF MigrationInterrupted

\* Every call of every step is granted.
LEMMA CallsAreGranted ==
    ASSUME CertInv, [Next]_vars
    PROVE  NewCallsGranted
<1>1. CASE UNCHANGED vars
  BY <1>1, NothingCalled DEF vars
<1>2. ASSUME NEW q \in Requests, Start(q) PROVE NewCallsGranted
  BY <1>2, NothingCalled DEF Start
<1>3. CASE Attest \/ Bounded \/ Preintegration \/ Load
  BY <1>3, NothingCalled DEF Attest, Bounded, Preintegration, Load
<1>4. CASE ItemRead \/ MergeBase \/ FaultMerge \/ MergeIntegration
  BY <1>4, NothingCalled DEF ItemRead, MergeBase, FaultMerge, MergeIntegration
<1>5. CASE Business \/ Enter \/ Proofs \/ AssembleReport
  BY <1>5, NothingCalled DEF Business, Enter, Proofs, AssembleReport
<1>6. CASE ObserveBefore \/ ObserveFirst \/ ObserveFinal
  BY <1>6, NothingCalled DEF ObserveBefore, ObserveFirst, ObserveFinal, Observe
<1>7. CASE LateEffect \/ Crash
  BY <1>7, NothingCalled DEF LateEffect, Crash
<1>8. CASE CertifyRuns \/ CertifyPartials \/ CertifyGates
  <2>1. calls' = calls
    BY <1>8, Zenon DEF CertifyRuns, CertifyPartials, CertifyGates, Certify
  <2> QED  BY <2>1, NothingCalled
<1>9. CASE Copy \/ Spark
  <2>1. {"fabric.copy", "fabric.spark"} \subseteq Live
    BY StagesAreLive
  <2> QED  BY <1>9, <2>1, CaptureGranted DEF Copy, Spark
<1> QED  BY <1>1, <1>2, <1>3, <1>4, <1>5, <1>6, <1>7, <1>8, <1>9, BootstrapGranted,
            ReferenceGranted, ControlGranted, PipelineGranted, WarehouseGranted, DrillGranted,
            GatesGranted, InterruptedGranted
         DEF Next, Stages

-----------------------------------------------------------------------------
\* Nothing has been certified yet.
LEMMA CertInvInitially ==
    ASSUME Init
    PROVE  CertInv
<1>1. runs = <<>> /\ c = Idle /\ DOMAIN world = {"state", "pending", "landings"}
      /\ shelf = {} /\ proofs = {} /\ releases = {} /\ issued = {}
  BY DEF Init
<1>2. CertOK(runs, truth, c) /\ PathOK(world, c)
  BY <1>1, IdleOK
<1>3. DiskOK
  BY <1>1, FS_EmptySet DEF DiskOK, ReleaseHidesNothing, ReportIsHonest
<1> QED  BY <1>1, <1>2, <1>3 DEF CertInv

\* Every step keeps the invariant, one lemma per stage.
LEMMA CertInvStep ==
    ASSUME CertInv, [Next]_vars
    PROVE  CertInv'
<1>1. CASE UNCHANGED vars
  <2>1. UNCHANGED <<runs, c, world, shelf, proofs, truth, issued, releases>>
    BY <1>1 DEF vars
  <2> QED  BY <2>1 DEF CertInv, DiskOK, ReleaseHidesNothing, ReportIsHonest
<1>2. ASSUME NEW q \in Requests, Start(q) PROVE CertInv'
  BY <1>2, StartKeeps
<1>3. CASE ObserveBefore \/ ObserveFirst \/ ObserveFinal
  BY <1>3, ObserveKeeps DEF ObserveBefore, ObserveFirst, ObserveFinal
<1>4. CASE Stages
  BY <1>3, <1>4, AttestKeeps, BootstrapKeeps, BoundedKeeps, PreintegrationKeeps, LoadKeeps,
     ReferenceKeeps, ItemReadKeeps, ControlKeeps, MergeBaseKeeps, PipelineKeeps, CapturesKeep,
     WarehouseKeeps, FaultMergeKeeps, DrillKeeps, MergeIntegrationKeeps, BusinessKeeps,
     EnterKeeps, DriveKeeps, AttemptKeeps, CleanupKeeps, ProofsKeeps, AssembleReportKeeps
     DEF Stages
<1> QED  BY <1>1, <1>2, <1>4, LateEffectKeeps, CrashKeeps, InterruptedKeeps, CertifyRunsKeeps,
            CertifyPartialsKeeps, CertifyGatesKeeps DEF Next

\* The inductive invariant of the certification: evidence in memory and on disk is backed
\* by what really happened in the run it names, for the candidate it names, whatever
\* provider calls and file writes fail and wherever the process dies.
THEOREM CertificationInvariant == Spec => []CertInv
  BY CertInvInitially, CertInvStep, PTL DEF Spec

\* CertTypeOK: statuses, the gate under way and what is on disk are well formed.
THEOREM CertTypeCorrect == Spec => []CertTypeOK
<1>1. DOMAIN Idle = Fields /\ Len(Gates) = 5 /\ BusinessGates \subseteq ProofGates
  BY DEF Idle, Fields, Gates, ProofGates
<1>2. CertInv => CertTypeOK
  BY <1>1 DEF CertInv, CertOK, ChecksOK, TrueChecks, PathOK, DiskOK, SoundBundle, CertTypeOK,
              ValidPartial
<1> QED  BY <1>2, CertificationInvariant, PTL

\* certify_release_candidate: whatever files of whatever runs are merged, a certified
\* candidate has for every required check and every business gate an execution for
\* exactly this wheel and these inputs in which it really held.
THEOREM ReleasesAreProven == Spec => []ReleaseIsProven
<1>1. CertInv => ReleaseIsProven
  BY DEF CertInv, DiskOK, ReleaseOK, Backed, ReleaseIsProven, ProvenFor
<1> QED  BY <1>1, CertificationInvariant, PTL

\* merge_integration_evidence_manifests: no failure in the evidence of a release
\* disappears behind another run's success.
THEOREM ReleasesHideNothing == Spec => []ReleaseHidesNothing
<1>1. CertInv => ReleaseHidesNothing
  BY DEF CertInv, DiskOK
<1> QED  BY <1>1, CertificationInvariant, PTL

\* assemble_report: overall status PASS means that the bounded checks, the reference
\* database, every live check and every gate really held in that run.
THEOREM ReportsAreHonest == Spec => []ReportIsHonest
<1>1. CertInv => ReportIsHonest
  BY DEF CertInv, DiskOK
<1> QED  BY <1>1, CertificationInvariant, PTL

\* evaluate_business_path_evidence: a proof on disk stands for a path that did what its
\* gate is about, however answers, late effects and driver receipts are combined.
THEOREM BusinessPassesAreReal == Spec => []BusinessPassIsReal
<1>1. CertInv => BusinessPassIsReal
  BY DEF CertInv, DiskOK, SoundBundle, Backed, BusinessPassIsReal
<1> QED  BY <1>1, CertificationInvariant, PTL

\* No step calls a provider, a database or a driver without the authorizations of its own
\* call, for another candidate, or before the checks it rests on really held in this run.
THEOREM NothingIsUnauthorized == Spec => NothingUnauthorized
<1>1. CertInv /\ [Next]_vars => NewCallsGranted
  BY CallsAreGranted
<1>2. CertInv /\ [Next]_vars =>
      [\A x \in calls' \ calls :
           LET q == runs[x[1]]
           IN /\ GrantsOf(x[2], q) \subseteq Authorizations(q)
              /\ \A k \in PrerequisitesOf(x[2]) : <<x[1], k>> \in truth
              /\ {q.manifestWheel, q.bundle.wheel} = {q.wheel}
              /\ q.entry = "installed" => q.installed = q.wheel]_vars
  BY <1>1 DEF NewCallsGranted
<1> QED  BY <1>2, CertificationInvariant, PTL DEF Spec, NothingUnauthorized
=============================================================================
