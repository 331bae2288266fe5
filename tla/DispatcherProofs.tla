-------------------------- MODULE DispatcherProofs --------------------------
(***************************************************************************)
(* What dispatch_datasets_with_backend guarantees for every dependency     *)
(* graph, selection, policy and pool size.                                 *)
(***************************************************************************)
EXTENDS Dispatcher, TLAPS

-----------------------------------------------------------------------------
(* The inductive invariant. *)

Looping == {"scan", "blocking", "wave", "aggregate", "returned"}

\* Outside a wave no pool thread holds a dataset, and while the dispatcher plans
\* nothing has happened yet.
PoolIsIdle ==
    /\ phase # "wave" => queued = {} /\ running = {}
    /\ phase = "planning" =>
          /\ remaining = {} /\ executed = {} /\ blocking = {} /\ pipelineRow = "none"
          /\ \A d \in Deployed : outcomes[d] = "none"
    /\ phase # "blocking" /\ phase \notin {"failing", "raised", "crashed"} => blocking = {}

\* remaining is what the selection has no outcome of, and the accepted graph
\* stays within the deployed datasets.
RemainingIsUndecided ==
    /\ phase \in Looping =>
          /\ \A d \in plan.selected : plan.deps[d] \subseteq Deployed
          /\ remaining = {d \in plan.selected : outcomes[d] = "none"}
    /\ phase \in {"aggregate", "returned"} => remaining = {}

\* An outcome the dispatcher knows is the one its dataset_run row holds, and only
\* a selected dataset has one.
OutcomeIsDurable ==
    \A d \in Deployed : outcomes[d] # "none" => d \in plan.selected /\ rows[d] = outcomes[d]

\* Why an outcome is what it is: an executor was called, or a dependency is lost.
OutcomeIsCaused ==
    \A d \in Deployed :
        /\ outcomes[d] \in {"SUCCEEDED", "FAILED"} => d \in executed
        /\ outcomes[d] = "BLOCKED" => d \notin executed /\ Blockers(d) # {}

\* Every executed dataset had its dependencies decided before it was called.
ExecutedWasReady ==
    \A d \in executed : \A p \in plan.deps[d] : p \in Deployed /\ outcomes[p] = "SUCCEEDED"

\* The datasets about to be blocked are, and none of the undecided was executed.
BlockingIsBlocked ==
    /\ phase = "blocking" => \A d \in blocking : Blockers(d) # {}
    /\ phase \in {"scan", "blocking"} => executed \cap remaining = {}

\* The wave: submitted datasets are ready and not yet executed, the results are
\* those of executed datasets and stand in their rows, and nothing gets lost
\* unless a future failed.
WaveIsSound ==
    phase = "wave" =>
        /\ \A d \in queued : d \notin executed /\ Ready(d)
        /\ running \subseteq executed
        /\ \A d \in Deployed : results[d] # "none" =>
              /\ d \in executed \cap remaining
              /\ rows[d] = results[d] /\ results[d] # "BLOCKED"
        /\ waveFault \/ \A d \in executed \cap remaining : d \in running \/ results[d] # "none"

\* A parent row that reports success was written by the aggregation, after which
\* no dataset_run row changes.
SuccessIsFinal ==
    /\ ReportedStatusIsHonest
    /\ pipelineRow \in {"SUCCESS", "PARTIAL_SUCCESS"} =>
          phase \in {"returned", "failing", "raised", "crashed"}

IInv ==
    /\ TypeOK /\ PoolIsIdle /\ RemainingIsUndecided /\ OutcomeIsDurable /\ OutcomeIsCaused
    /\ ExecutedWasReady /\ BlockingIsBlocked /\ WaveIsSound /\ SuccessIsFinal

\* A selection the planner refuses: dispatch raises before any dataset row exists.
LEMMA PlanRejectedPreserves ==
    ASSUME IInv, PlanRejected
    PROVE  IInv'
<1>1. TypeOK'
    BY DEF PlanRejected, waveVars, IInv, TypeOK, Phases, EndPhases, PipelineStatuses
<1>2. PoolIsIdle'
    BY DEF PlanRejected, waveVars, IInv, PoolIsIdle
<1>3. RemainingIsUndecided'
    BY DEF PlanRejected, RemainingIsUndecided, Looping
<1>4. OutcomeIsDurable'
    BY DEF PlanRejected, IInv, OutcomeIsDurable
<1>5. OutcomeIsCaused'
    BY DEF PlanRejected, IInv, PoolIsIdle, OutcomeIsCaused
<1>6. ExecutedWasReady'
    BY DEF PlanRejected, waveVars, IInv, ExecutedWasReady
<1>7. BlockingIsBlocked'
    BY DEF PlanRejected, BlockingIsBlocked
<1>8. WaveIsSound'
    BY DEF PlanRejected, WaveIsSound
<1>9. SuccessIsFinal'
    BY DEF PlanRejected, SuccessIsFinal, ReportedStatusIsHonest
<1> QED
    BY <1>1, <1>2, <1>3, <1>4, <1>5, <1>6, <1>7, <1>8, <1>9 DEF IInv

\* The accepted plan makes every selected dataset remaining.
LEMMA PlanAcceptedPreserves ==
    ASSUME IInv, PlanAccepted
    PROVE  IInv'
<1>1. TypeOK'
    BY DEF PlanAccepted, waveVars, IInv, TypeOK, Phases, EndPhases, PipelineStatuses
<1>2. PoolIsIdle'
    BY DEF PlanAccepted, waveVars, IInv, PoolIsIdle
<1>3. RemainingIsUndecided'
    <2>1. CASE phase' = "scan"
        <3>1. remaining' = plan.selected /\ outcomes' = outcomes /\ plan' = plan
            BY <2>1 DEF PlanAccepted
        <3>2. plan.selected \subseteq Deployed
            BY DEF IInv, TypeOK, Plans
        <3>3. plan.selected = {d \in plan.selected : outcomes[d] = "none"}
            BY <3>2 DEF IInv, PoolIsIdle, PlanAccepted
        <3>4. \A d \in plan.selected : plan.deps[d] \subseteq Deployed
            BY DEF PlanAccepted, Unschedulable
        <3> QED
            BY <2>1, <3>1, <3>3, <3>4, Zenon DEF RemainingIsUndecided
    <2>2. CASE phase' # "scan"
        BY <2>2 DEF PlanAccepted, RemainingIsUndecided, Looping
    <2> QED
        BY <2>1, <2>2
<1>4. OutcomeIsDurable'
    BY DEF PlanAccepted, IInv, OutcomeIsDurable
<1>5. OutcomeIsCaused'
    BY DEF PlanAccepted, IInv, PoolIsIdle, OutcomeIsCaused
<1>6. ExecutedWasReady'
    BY DEF PlanAccepted, waveVars, IInv, ExecutedWasReady
<1>7. BlockingIsBlocked'
    BY DEF PlanAccepted, waveVars, IInv, PoolIsIdle, BlockingIsBlocked
<1>8. WaveIsSound'
    BY DEF PlanAccepted, WaveIsSound
<1>9. SuccessIsFinal'
    BY DEF PlanAccepted, SuccessIsFinal, ReportedStatusIsHonest
<1> QED
    BY <1>1, <1>2, <1>3, <1>4, <1>5, <1>6, <1>7, <1>8, <1>9 DEF IInv

\* One turn of the while loop: what is blocked, what is ready, or the end.
LEMMA ScanPreserves ==
    ASSUME IInv, Scan
    PROVE  IInv'
<1>1. TypeOK'
    BY DEF Scan, waveVars, IInv, TypeOK, Phases
<1>2. PoolIsIdle'
    BY DEF Scan, waveVars, IInv, PoolIsIdle
<1>3. RemainingIsUndecided'
    BY DEF Scan, IInv, RemainingIsUndecided, Looping
<1>4. OutcomeIsDurable'
    BY DEF Scan, IInv, OutcomeIsDurable
<1>5. OutcomeIsCaused'
    BY DEF Scan, waveVars, IInv, OutcomeIsCaused, Blockers
<1>6. ExecutedWasReady'
    BY DEF Scan, waveVars, IInv, ExecutedWasReady
<1>7. BlockingIsBlocked'
    BY DEF Scan, waveVars, IInv, BlockingIsBlocked, Blockers
<1>8. WaveIsSound'
    BY DEF Scan, WaveIsSound
<1>9. SuccessIsFinal'
    BY DEF Scan, IInv, SuccessIsFinal, ReportedStatusIsHonest
<1> QED
    BY <1>1, <1>2, <1>3, <1>4, <1>5, <1>6, <1>7, <1>8, <1>9 DEF IInv

\* The ready datasets are submitted to the pool.
LEMMA SubmitWavePreserves ==
    ASSUME IInv, SubmitWave
    PROVE  IInv'
<1>1. TypeOK'
    BY DEF SubmitWave, Fail, ReadyIds, waveVars, IInv, TypeOK, PoolIsIdle, Phases, Outcomes
<1>2. PoolIsIdle'
    BY DEF SubmitWave, Fail, waveVars, IInv, PoolIsIdle
<1>3. RemainingIsUndecided'
    BY DEF SubmitWave, Fail, IInv, RemainingIsUndecided, Looping
<1>4. OutcomeIsDurable'
    BY DEF SubmitWave, Fail, IInv, OutcomeIsDurable
<1>5. OutcomeIsCaused'
    BY DEF SubmitWave, Fail, waveVars, IInv, OutcomeIsCaused, Blockers
<1>6. ExecutedWasReady'
    BY DEF SubmitWave, Fail, waveVars, IInv, ExecutedWasReady
<1>7. BlockingIsBlocked'
    BY DEF SubmitWave, Fail, BlockingIsBlocked
<1>8. WaveIsSound'
    BY DEF SubmitWave, Fail, ReadyIds, IInv, PoolIsIdle, BlockingIsBlocked, WaveIsSound,
           Ready
<1>9. SuccessIsFinal'
    BY DEF SubmitWave, Fail, IInv, SuccessIsFinal, ReportedStatusIsHonest
<1> QED
    BY <1>1, <1>2, <1>3, <1>4, <1>5, <1>6, <1>7, <1>8, <1>9 DEF IInv

\* A wave without a failed future moves its results to the outcomes.
LEMMA WaveReturnsPreserves ==
    ASSUME IInv, WaveReturns
    PROVE  IInv'
<1>1. TypeOK'
    BY DEF WaveReturns, Fail, waveVars, IInv, TypeOK, PoolIsIdle, Phases
<1>2. PoolIsIdle'
    BY DEF WaveReturns, Fail, waveVars, IInv, PoolIsIdle
<1>3. RemainingIsUndecided'
    <2>1. CASE waveFault
        BY <2>1 DEF WaveReturns, Fail, RemainingIsUndecided, Looping
    <2>2. CASE ~waveFault
        <3>1. /\ phase = "wave" /\ phase' = "scan" /\ plan' = plan
              /\ remaining' = {d \in remaining : results[d] = "none"}
              /\ outcomes' = [d \in Deployed |->
                                IF results[d] = "none" THEN outcomes[d] ELSE results[d]]
            BY <2>2 DEF WaveReturns
        <3>2. /\ \A d \in plan.selected : plan.deps[d] \subseteq Deployed
              /\ remaining = {d \in plan.selected : outcomes[d] = "none"}
              /\ plan.selected \subseteq Deployed
            BY <3>1 DEF IInv, TypeOK, Plans, RemainingIsUndecided, Looping
        <3>3. \A d \in plan.selected :
                 outcomes'[d] = "none" <=> outcomes[d] = "none" /\ results[d] = "none"
            BY <3>1, <3>2
        <3>4. remaining' = {d \in plan.selected : outcomes'[d] = "none"}
            BY <3>1, <3>2
        <3> QED
            BY <3>1, <3>2 DEF RemainingIsUndecided
    <2> QED
        BY <2>1, <2>2
<1>4. OutcomeIsDurable'
    BY DEF WaveReturns, Fail, IInv, RemainingIsUndecided, OutcomeIsDurable, WaveIsSound,
           Looping
<1>5. OutcomeIsCaused'
    <2>1. CASE waveFault
        BY <2>1 DEF WaveReturns, Fail, waveVars, IInv, OutcomeIsCaused, Blockers
    <2>2. CASE ~waveFault
        <3>1. /\ phase = "wave" /\ plan' = plan /\ executed' = executed
              /\ outcomes' = [d \in Deployed |->
                                IF results[d] = "none" THEN outcomes[d] ELSE results[d]]
            BY <2>2 DEF WaveReturns, waveVars
        <3>2. \A d \in Deployed : results[d] # "none" =>
                 d \in executed /\ outcomes[d] = "none" /\ results[d] # "BLOCKED"
            BY <3>1 DEF IInv, WaveIsSound, RemainingIsUndecided, Looping
        <3>3. ASSUME NEW d \in Deployed, outcomes'[d] = "BLOCKED"
              PROVE  d \notin executed /\ Blockers(d)' # {}
            <4>1. outcomes[d] = "BLOCKED"
                BY <3>1, <3>2, <3>3
            <4>2. d \in plan.selected /\ d \notin executed /\ Blockers(d) # {}
                BY <4>1 DEF IInv, OutcomeIsCaused, OutcomeIsDurable
            <4>3. plan.deps[d] \subseteq Deployed
                BY <3>1, <4>2 DEF IInv, RemainingIsUndecided, Looping
            <4>4. \A p \in Deployed : outcomes[p] # "none" => outcomes'[p] = outcomes[p]
                BY <3>1, <3>2
            <4>5. PICK p \in plan.deps[d] :
                     p \notin plan.selected \/ outcomes[p] \notin {"none", "SUCCEEDED"}
                BY <4>2 DEF Blockers
            <4>6. p \in Blockers(d)'
                BY <3>1, <4>3, <4>4, <4>5 DEF Blockers
            <4> QED
                BY <4>2, <4>6
        <3>4. ASSUME NEW d \in Deployed, outcomes'[d] \in {"SUCCEEDED", "FAILED"}
              PROVE  d \in executed
            BY <3>1, <3>2, <3>4 DEF IInv, OutcomeIsCaused
        <3> QED
            BY <3>1, <3>3, <3>4 DEF OutcomeIsCaused
    <2> QED
        BY <2>1, <2>2
<1>6. ExecutedWasReady'
    BY DEF WaveReturns, Fail, waveVars, IInv, RemainingIsUndecided, ExecutedWasReady,
           WaveIsSound, Looping
<1>7. BlockingIsBlocked'
    BY DEF WaveReturns, Fail, waveVars, IInv, BlockingIsBlocked, WaveIsSound
<1>8. WaveIsSound'
    BY DEF WaveReturns, Fail, WaveIsSound
<1>9. SuccessIsFinal'
    BY DEF WaveReturns, Fail, IInv, SuccessIsFinal, ReportedStatusIsHonest
<1> QED
    BY <1>1, <1>2, <1>3, <1>4, <1>5, <1>6, <1>7, <1>8, <1>9 DEF IInv

\* A backend that answers the wrong set of datasets raises out of the loop.
LEMMA InvalidWaveResultPreserves ==
    ASSUME IInv, InvalidWaveResult
    PROVE  IInv'
<1>1. TypeOK'
    BY DEF InvalidWaveResult, Fail, waveVars, IInv, TypeOK, Phases
<1>2. PoolIsIdle'
    BY DEF InvalidWaveResult, Fail, waveVars, PoolIsIdle
<1>3. RemainingIsUndecided'
    BY DEF InvalidWaveResult, Fail, RemainingIsUndecided, Looping
<1>4. OutcomeIsDurable'
    BY DEF InvalidWaveResult, Fail, IInv, OutcomeIsDurable
<1>5. OutcomeIsCaused'
    BY DEF InvalidWaveResult, Fail, waveVars, IInv, OutcomeIsCaused, Blockers
<1>6. ExecutedWasReady'
    BY DEF InvalidWaveResult, Fail, waveVars, IInv, ExecutedWasReady
<1>7. BlockingIsBlocked'
    BY DEF InvalidWaveResult, Fail, BlockingIsBlocked
<1>8. WaveIsSound'
    BY DEF InvalidWaveResult, Fail, WaveIsSound
<1>9. SuccessIsFinal'
    BY DEF InvalidWaveResult, Fail, IInv, SuccessIsFinal, ReportedStatusIsHonest
<1> QED
    BY <1>1, <1>2, <1>3, <1>4, <1>5, <1>6, <1>7, <1>8, <1>9 DEF IInv

\* The parent row is written from the outcomes.
LEMMA FinalizePreserves ==
    ASSUME IInv, Finalize
    PROVE  IInv'
<1>1. TypeOK'
    BY DEF Finalize, waveVars, IInv, TypeOK, Phases, EndPhases
<1>2. PoolIsIdle'
    BY DEF Finalize, waveVars, IInv, PoolIsIdle
<1>3. RemainingIsUndecided'
    BY DEF Finalize, IInv, RemainingIsUndecided, Looping
<1>4. OutcomeIsDurable'
    BY DEF Finalize, IInv, OutcomeIsDurable
<1>5. OutcomeIsCaused'
    BY DEF Finalize, waveVars, IInv, OutcomeIsCaused, Blockers
<1>6. ExecutedWasReady'
    BY DEF Finalize, waveVars, IInv, ExecutedWasReady
<1>7. BlockingIsBlocked'
    BY DEF Finalize, BlockingIsBlocked
<1>8. WaveIsSound'
    BY DEF Finalize, WaveIsSound
<1>9. SuccessIsFinal'
    <2>1. phase = "aggregate" /\ UNCHANGED <<plan, rows>>
        BY DEF Finalize
    <2>2. pipelineRow \notin {"SUCCESS", "PARTIAL_SUCCESS"}
        BY <2>1 DEF IInv, SuccessIsFinal
    <2>3. \A d \in plan.selected : d \in Deployed /\ outcomes[d] # "none"
        BY <2>1 DEF IInv, TypeOK, Plans, RemainingIsUndecided, Looping
    <2>4. PICK final \in PipelineStatuses :
             Aggregate(final) /\ pipelineRow' \in {final, pipelineRow}
                              /\ phase' \in {"returned", "failing"}
        BY DEF Finalize
    <2>5. ASSUME final = "SUCCESS", NEW d \in plan.selected PROVE rows[d] = "SUCCEEDED"
        <3>1. outcomes[d] = "SUCCEEDED"
            BY <2>3, <2>4, <2>5 DEF Aggregate
        <3> QED
            BY <2>3, <3>1 DEF IInv, OutcomeIsDurable
    <2>6. ASSUME final = "PARTIAL_SUCCESS", NEW d \in plan.selected \cap plan.required
          PROVE  rows[d] = "SUCCEEDED"
        <3>1. outcomes[d] = "SUCCEEDED"
            BY <2>3, <2>4, <2>6 DEF Aggregate
        <3> QED
            BY <2>3, <3>1 DEF IInv, OutcomeIsDurable
    <2> QED
        BY <2>1, <2>2, <2>4, <2>5, <2>6 DEF SuccessIsFinal, ReportedStatusIsHonest
<1> QED
    BY <1>1, <1>2, <1>3, <1>4, <1>5, <1>6, <1>7, <1>8, <1>9 DEF IInv

\* The handler of a raise writes FAILED to the parent row.
LEMMA RecordFailedPreserves ==
    ASSUME IInv, RecordFailed
    PROVE  IInv'
<1>1. TypeOK'
    BY DEF RecordFailed, waveVars, IInv, TypeOK, Phases, EndPhases, PipelineStatuses
<1>2. PoolIsIdle'
    BY DEF RecordFailed, waveVars, IInv, PoolIsIdle
<1>3. RemainingIsUndecided'
    BY DEF RecordFailed, RemainingIsUndecided, Looping
<1>4. OutcomeIsDurable'
    BY DEF RecordFailed, IInv, OutcomeIsDurable
<1>5. OutcomeIsCaused'
    BY DEF RecordFailed, waveVars, IInv, OutcomeIsCaused, Blockers
<1>6. ExecutedWasReady'
    BY DEF RecordFailed, waveVars, IInv, ExecutedWasReady
<1>7. BlockingIsBlocked'
    BY DEF RecordFailed, BlockingIsBlocked
<1>8. WaveIsSound'
    BY DEF RecordFailed, WaveIsSound
<1>9. SuccessIsFinal'
    BY DEF RecordFailed, IInv, SuccessIsFinal, ReportedStatusIsHonest
<1> QED
    BY <1>1, <1>2, <1>3, <1>4, <1>5, <1>6, <1>7, <1>8, <1>9 DEF IInv

\* A dataset of a lost dependency gets its BLOCKED row and outcome.
LEMMA RecordBlockedPreserves ==
    ASSUME IInv, NEW d \in Deployed, RecordBlocked(d)
    PROVE  IInv'
<1>1. TypeOK'
    BY DEF RecordBlocked, Fail, waveVars, IInv, TypeOK, PoolIsIdle, Phases, Outcomes
<1>2. PoolIsIdle'
    BY DEF RecordBlocked, Fail, waveVars, IInv, PoolIsIdle
<1>3. RemainingIsUndecided'
    <2>1. CASE Fail("CONTROL_PLANE")
        BY <2>1 DEF Fail, RemainingIsUndecided, Looping
    <2>2. CASE ~Fail("CONTROL_PLANE")
        <3>1. /\ phase = "blocking" /\ phase' = phase /\ plan' = plan
              /\ remaining' = remaining \ {d}
              /\ outcomes' = [outcomes EXCEPT ![d] = "BLOCKED"]
            BY <2>2 DEF RecordBlocked
        <3>2. /\ \A e \in plan.selected : plan.deps[e] \subseteq Deployed
              /\ remaining = {e \in plan.selected : outcomes[e] = "none"}
              /\ plan.selected \subseteq Deployed
            BY <3>1 DEF IInv, TypeOK, Plans, RemainingIsUndecided, Looping
        <3>3. \A e \in plan.selected :
                 outcomes'[e] = "none" <=> e # d /\ outcomes[e] = "none"
            BY <3>1 DEF IInv, TypeOK
        <3>4. remaining' = {e \in plan.selected : outcomes'[e] = "none"}
            BY <3>1, <3>2, <3>3
        <3> QED
            BY <3>1, <3>2, <3>4 DEF RemainingIsUndecided
    <2> QED
        BY <2>1, <2>2
<1>4. OutcomeIsDurable'
    BY DEF RecordBlocked, Fail, IInv, TypeOK, OutcomeIsDurable
<1>5. OutcomeIsCaused'
    <2>1. CASE Fail("CONTROL_PLANE")
        BY <2>1 DEF Fail, waveVars, IInv, OutcomeIsCaused, Blockers
    <2>2. CASE ~Fail("CONTROL_PLANE")
        <3>1. /\ phase = "blocking" /\ d \in blocking /\ plan' = plan /\ executed' = executed
              /\ outcomes' = [outcomes EXCEPT ![d] = "BLOCKED"]
            BY <2>2 DEF RecordBlocked, waveVars
        <3>2. d \in remaining /\ d \notin executed /\ Blockers(d) # {}
            BY <3>1 DEF IInv, TypeOK, BlockingIsBlocked
        <3>3. \A e \in Deployed : outcomes[e] # "none" => outcomes'[e] # "none"
                                      /\ (outcomes'[e] = "SUCCEEDED" => outcomes[e] = "SUCCEEDED")
            BY <3>1
        <3>4. ASSUME NEW e \in plan.selected, Blockers(e) # {} PROVE Blockers(e)' # {}
            <4>1. plan.deps[e] \subseteq Deployed
                BY <3>1 DEF IInv, RemainingIsUndecided, Looping
            <4>2. PICK p \in plan.deps[e] :
                     p \notin plan.selected \/ outcomes[p] \notin {"none", "SUCCEEDED"}
                BY <3>4 DEF Blockers
            <4>3. p \in Blockers(e)'
                BY <3>1, <4>2 DEF Blockers
            <4> QED
                BY <4>3
        <3>5. d \in plan.selected
            BY <3>2 DEF IInv, TypeOK
        <3>6. ASSUME NEW e \in Deployed, outcomes'[e] = "BLOCKED"
              PROVE  e \notin executed /\ Blockers(e)' # {}
            <4>1. CASE e = d
                BY <3>2, <3>4, <3>5, <4>1
            <4>2. CASE e # d
                <5>1. outcomes[e] = "BLOCKED"
                    BY <3>1, <3>6, <4>2
                <5>2. e \in plan.selected /\ e \notin executed /\ Blockers(e) # {}
                    BY <5>1 DEF IInv, OutcomeIsCaused, OutcomeIsDurable
                <5> QED
                    BY <3>4, <5>2
            <4> QED
                BY <4>1, <4>2
        <3>7. ASSUME NEW e \in Deployed, outcomes'[e] \in {"SUCCEEDED", "FAILED"}
              PROVE  e \in executed
            BY <3>1, <3>7 DEF IInv, OutcomeIsCaused
        <3> QED
            BY <3>1, <3>6, <3>7 DEF OutcomeIsCaused
    <2> QED
        BY <2>1, <2>2
<1>6. ExecutedWasReady'
    BY DEF RecordBlocked, Fail, waveVars, IInv, TypeOK, RemainingIsUndecided,
           ExecutedWasReady, Looping
<1>7. BlockingIsBlocked'
    BY DEF RecordBlocked, Fail, waveVars, IInv, TypeOK, RemainingIsUndecided,
           BlockingIsBlocked, Blockers, Looping
<1>8. WaveIsSound'
    BY DEF RecordBlocked, Fail, WaveIsSound
<1>9. SuccessIsFinal'
    BY DEF RecordBlocked, Fail, IInv, SuccessIsFinal, ReportedStatusIsHonest
<1> QED
    BY <1>1, <1>2, <1>3, <1>4, <1>5, <1>6, <1>7, <1>8, <1>9 DEF IInv

\* A pool thread takes a queued dataset and calls its executor.
LEMMA StartExecutorPreserves ==
    ASSUME IInv, NEW d \in Deployed, StartExecutor(d)
    PROVE  IInv'
<1>1. TypeOK'
    BY DEF StartExecutor, IInv, TypeOK
<1>2. PoolIsIdle'
    BY DEF StartExecutor, IInv, PoolIsIdle
<1>3. RemainingIsUndecided'
    BY DEF StartExecutor, IInv, RemainingIsUndecided
<1>4. OutcomeIsDurable'
    BY DEF StartExecutor, IInv, OutcomeIsDurable
<1>5. OutcomeIsCaused'
    BY DEF StartExecutor, IInv, TypeOK, RemainingIsUndecided, OutcomeIsCaused, Blockers,
           Looping
<1>6. ExecutedWasReady'
    BY DEF StartExecutor, IInv, TypeOK, RemainingIsUndecided, ExecutedWasReady,
           WaveIsSound, Ready, Looping
<1>7. BlockingIsBlocked'
    BY DEF StartExecutor, BlockingIsBlocked
<1>8. WaveIsSound'
    BY DEF StartExecutor, IInv, WaveIsSound, Ready
<1>9. SuccessIsFinal'
    BY DEF StartExecutor, IInv, SuccessIsFinal, ReportedStatusIsHonest
<1> QED
    BY <1>1, <1>2, <1>3, <1>4, <1>5, <1>6, <1>7, <1>8, <1>9 DEF IInv

\* The executor returns and its row is written.
LEMMA FinishExecutorPreserves ==
    ASSUME IInv, NEW d \in Deployed, FinishExecutor(d)
    PROVE  IInv'
<1>1. TypeOK'
    BY DEF FinishExecutor, IInv, TypeOK, Outcomes
<1>2. PoolIsIdle'
    BY DEF FinishExecutor, IInv, PoolIsIdle
<1>3. RemainingIsUndecided'
    BY DEF FinishExecutor, IInv, RemainingIsUndecided
<1>4. OutcomeIsDurable'
    BY DEF FinishExecutor, IInv, TypeOK, RemainingIsUndecided, OutcomeIsDurable, Looping
<1>5. OutcomeIsCaused'
    BY DEF FinishExecutor, IInv, OutcomeIsCaused, Blockers
<1>6. ExecutedWasReady'
    BY DEF FinishExecutor, IInv, ExecutedWasReady
<1>7. BlockingIsBlocked'
    BY DEF FinishExecutor, BlockingIsBlocked
<1>8. WaveIsSound'
    BY DEF FinishExecutor, IInv, TypeOK, WaveIsSound, Ready
<1>9. SuccessIsFinal'
    BY DEF FinishExecutor, IInv, SuccessIsFinal, ReportedStatusIsHonest
<1> QED
    BY <1>1, <1>2, <1>3, <1>4, <1>5, <1>6, <1>7, <1>8, <1>9 DEF IInv

\* A future raises: the dataset leaves the pool without a result.
LEMMA FutureFailsPreserves ==
    ASSUME IInv, NEW d \in Deployed, FutureFails(d)
    PROVE  IInv'
<1>1. TypeOK'
    BY DEF FutureFails, IInv, TypeOK
<1>2. PoolIsIdle'
    BY DEF FutureFails, IInv, PoolIsIdle
<1>3. RemainingIsUndecided'
    BY DEF FutureFails, IInv, RemainingIsUndecided
<1>4. OutcomeIsDurable'
    BY DEF FutureFails, IInv, OutcomeIsDurable
<1>5. OutcomeIsCaused'
    BY DEF FutureFails, IInv, OutcomeIsCaused, Blockers
<1>6. ExecutedWasReady'
    BY DEF FutureFails, IInv, ExecutedWasReady
<1>7. BlockingIsBlocked'
    BY DEF FutureFails, BlockingIsBlocked
<1>8. WaveIsSound'
    BY DEF FutureFails, IInv, WaveIsSound, Ready
<1>9. SuccessIsFinal'
    BY DEF FutureFails, IInv, SuccessIsFinal, ReportedStatusIsHonest
<1> QED
    BY <1>1, <1>2, <1>3, <1>4, <1>5, <1>6, <1>7, <1>8, <1>9 DEF IInv

\* The process dies between any two of these steps.
LEMMA CrashPreserves ==
    ASSUME IInv, Crash
    PROVE  IInv'
<1>1. TypeOK'
    BY DEF Crash, IInv, TypeOK, Phases, EndPhases
<1>2. PoolIsIdle'
    BY DEF Crash, PoolIsIdle
<1>3. RemainingIsUndecided'
    BY DEF Crash, RemainingIsUndecided, Looping
<1>4. OutcomeIsDurable'
    BY DEF Crash, IInv, OutcomeIsDurable
<1>5. OutcomeIsCaused'
    BY DEF Crash, IInv, OutcomeIsCaused, Blockers
<1>6. ExecutedWasReady'
    BY DEF Crash, IInv, ExecutedWasReady
<1>7. BlockingIsBlocked'
    BY DEF Crash, BlockingIsBlocked
<1>8. WaveIsSound'
    BY DEF Crash, WaveIsSound
<1>9. SuccessIsFinal'
    BY DEF Crash, IInv, SuccessIsFinal, ReportedStatusIsHonest
<1> QED
    BY <1>1, <1>2, <1>3, <1>4, <1>5, <1>6, <1>7, <1>8, <1>9 DEF IInv

-----------------------------------------------------------------------------
(* The theorems. *)

\* Every plan the dispatcher may be called with starts in the invariant.
LEMMA InitEstablishes == Init => IInv
<1> SUFFICES ASSUME Init PROVE IInv
    OBVIOUS
<1>1. TypeOK
    BY DEF Init, TypeOK, Phases, Outcomes, PipelineStatuses
<1>2. PoolIsIdle /\ RemainingIsUndecided /\ OutcomeIsDurable /\ OutcomeIsCaused
    BY DEF Init, PoolIsIdle, RemainingIsUndecided, Looping, OutcomeIsDurable,
           OutcomeIsCaused
<1>3. ExecutedWasReady /\ BlockingIsBlocked /\ WaveIsSound /\ SuccessIsFinal
    BY DEF Init, ExecutedWasReady, BlockingIsBlocked, WaveIsSound, SuccessIsFinal,
           ReportedStatusIsHonest
<1> QED
    BY <1>1, <1>2, <1>3 DEF IInv

\* A stuttering step keeps it.
LEMMA StutterPreserves ==
    ASSUME IInv, UNCHANGED vars
    PROVE  IInv'
<1> USE DEF vars, waveVars, IInv
<1>1. TypeOK' /\ PoolIsIdle' /\ RemainingIsUndecided' /\ OutcomeIsDurable'
    BY DEF TypeOK, PoolIsIdle, RemainingIsUndecided, OutcomeIsDurable
<1>2. OutcomeIsCaused' /\ ExecutedWasReady'
    BY DEF OutcomeIsCaused, ExecutedWasReady, Blockers
<1>3. BlockingIsBlocked' /\ WaveIsSound' /\ SuccessIsFinal'
    BY DEF BlockingIsBlocked, WaveIsSound, SuccessIsFinal, ReportedStatusIsHonest,
           Blockers, Ready
<1> QED
    BY <1>1, <1>2, <1>3

\* Every step of the dispatcher, its pool and its process keeps the invariant.
LEMMA NextPreserves ==
    ASSUME IInv, [Next]_vars
    PROVE  IInv'
<1>1. CASE Crash
    BY <1>1, CrashPreserves
<1>2. CASE Finished
    BY <1>2, StutterPreserves DEF Finished
<1>3. CASE UNCHANGED vars
    BY <1>3, StutterPreserves
<1>4. CASE Step
    <2>1. ASSUME NEW d \in Deployed,
                 RecordBlocked(d) \/ StartExecutor(d) \/ FinishExecutor(d) \/ FutureFails(d)
          PROVE  IInv'
        BY <2>1, RecordBlockedPreserves, StartExecutorPreserves, FinishExecutorPreserves,
           FutureFailsPreserves
    <2> QED
        BY <1>4, <2>1, PlanRejectedPreserves, PlanAcceptedPreserves, ScanPreserves,
           SubmitWavePreserves, WaveReturnsPreserves, InvalidWaveResultPreserves,
           FinalizePreserves, RecordFailedPreserves DEF Step
<1> QED
    BY <1>1, <1>2, <1>3, <1>4 DEF Next

\* Every state a dispatch reaches satisfies the inductive invariant.
THEOREM DispatchInvariant == Spec => []IInv
<1>1. Init => IInv
    BY InitEstablishes
<1>2. IInv /\ [Next]_vars => IInv'
    BY NextPreserves
<1> QED
    BY <1>1, <1>2, PTL DEF Spec

\* dispatch_datasets_with_backend only ever holds values of the expected kinds,
\* and the datasets of a wave are remaining ones.
THEOREM DispatcherTypeCorrect == Spec => []TypeOK
<1>1. IInv => TypeOK
    BY DEF IInv
<1> QED
    BY <1>1, DispatchInvariant, PTL

\* The parent's pipeline_run row never hides an incomplete batch, whatever the
\* selection, the criticalities and the writes that fail (aggregate_pipeline_status).
THEOREM StatusIsHonest == Spec => []ReportedStatusIsHonest
<1>1. IInv => ReportedStatusIsHonest
    BY DEF IInv, SuccessIsFinal
<1> QED
    BY <1>1, DispatchInvariant, PTL

\* A dispatch that returns has executed exactly the selected datasets whose
\* dependencies all succeeded and has durably blocked every other one, whatever
\* the graph and however the threads of its waves interleaved.
THEOREM DatasetFaultsAreIsolated == Spec => []FaultsAreIsolated
<1>1. IInv => FaultsAreIsolated
    <2> SUFFICES ASSUME IInv, phase = "returned", NEW d \in plan.selected
                 PROVE  IF \A p \in plan.deps[d] : p \in plan.selected /\ rows[p] = "SUCCEEDED"
                          THEN d \in executed /\ rows[d] \in {"SUCCEEDED", "FAILED"}
                          ELSE d \notin executed /\ rows[d] = "BLOCKED"
        BY DEF FaultsAreIsolated
    <2>1. /\ plan.selected \subseteq Deployed /\ plan.deps[d] \subseteq Deployed
          /\ \A e \in plan.selected : outcomes[e] # "none"
        BY DEF IInv, TypeOK, Plans, RemainingIsUndecided, Looping
    <2>2. \A e \in plan.selected : rows[e] = outcomes[e]
        BY <2>1 DEF IInv, OutcomeIsDurable
    <2>3. outcomes[d] \in {"SUCCEEDED", "FAILED", "BLOCKED"}
        BY <2>1 DEF IInv, TypeOK, Outcomes
    <2>4. CASE \A p \in plan.deps[d] : p \in plan.selected /\ rows[p] = "SUCCEEDED"
        <3>1. Blockers(d) = {}
            BY <2>2, <2>4 DEF Blockers
        <3>2. outcomes[d] # "BLOCKED"
            BY <2>1, <3>1 DEF IInv, OutcomeIsCaused
        <3> QED
            BY <2>1, <2>2, <2>3, <2>4, <3>2 DEF IInv, OutcomeIsCaused
    <2>5. CASE \E p \in plan.deps[d] : ~(p \in plan.selected /\ rows[p] = "SUCCEEDED")
        <3>1. PICK p \in plan.deps[d] : ~(p \in plan.selected /\ rows[p] = "SUCCEEDED")
            BY <2>5
        <3>2. outcomes[p] # "SUCCEEDED"
            BY <2>1, <3>1 DEF IInv, OutcomeIsDurable
        <3>3. d \notin executed
            BY <3>2 DEF IInv, ExecutedWasReady
        <3>4. outcomes[d] = "BLOCKED"
            BY <2>1, <2>3, <3>3 DEF IInv, OutcomeIsCaused
        <3> QED
            BY <2>2, <2>5, <3>3, <3>4
    <2> QED
        BY <2>4, <2>5
<1> QED
    BY <1>1, DispatchInvariant, PTL

\* No executor is called before every dependency of its dataset was executed and
\* durably succeeded, and none is called a second time, although waves are
\* selected again and again (ready_dataset_ids, remaining.difference_update).
THEOREM OrderedExecution == Spec => ExecutedInOrder
<1>1. IInv => DependenciesFirst
    BY DEF IInv, DependenciesFirst, ExecutedWasReady, OutcomeIsDurable, OutcomeIsCaused
<1>2. ASSUME IInv, [Next]_vars, NEW d \in Deployed, d \in running' \ running
      PROVE  d \notin executed
    <2>1. PICK e \in Deployed : StartExecutor(e)
        BY <1>2 DEF Next, Step, Finished, vars, waveVars, Fail, PlanRejected, PlanAccepted,
               Scan, SubmitWave, WaveReturns, InvalidWaveResult, Finalize, RecordFailed,
               RecordBlocked, FinishExecutor, FutureFails, Crash
    <2>2. d = e /\ phase = "wave" /\ d \in queued
        BY <1>2, <2>1 DEF StartExecutor
    <2> QED
        BY <1>2, <2>2 DEF IInv, WaveIsSound
<1>3. IInv /\ IInv' /\ [Next]_vars =>
         [/\ DependenciesFirst'
          /\ \A d \in Deployed : d \in running' \ running => d \notin executed]_vars
    <2>1. IInv' => DependenciesFirst'
        BY <1>1, PTL
    <2> QED
        BY <1>2, <2>1
<1> QED
    BY <1>3, DispatchInvariant, PTL DEF Spec, ExecutedInOrder
=============================================================================
