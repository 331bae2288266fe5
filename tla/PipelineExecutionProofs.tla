----------------------- MODULE PipelineExecutionProofs -----------------------
(***************************************************************************)
(* What the Fabric pipeline backend and its child guarantee for every      *)
(* number of attempts, overlapping or not, polls, changes of the source,   *)
(* programs and failures.                                                  *)
(***************************************************************************)
EXTENDS PipelineExecution, TLAPS

-----------------------------------------------------------------------------
(* The inductive invariant. *)

\* The codes of the parent, of the certification program and of a domain program.
Codes ==
    {"", "CERTIFICATION_RETRYABLE_FAILURE", "RECONCILIATION_FAILED",
     "FABRIC_PIPELINE_PLAN_ERROR", "FABRIC_PIPELINE_BINDING_ERROR", "FABRIC_REST_ERROR",
     "FABRIC_PIPELINE_DEDUPED", "FABRIC_PIPELINE_CANCELLED", "FABRIC_PIPELINE_FAILED",
     "FABRIC_PIPELINE_RESULT_MISSING", "FABRIC_PIPELINE_OUTCOME_READ_ERROR",
     "FABRIC_PIPELINE_RESULT_MISMATCH", "FABRIC_PIPELINE_RESULT_NON_TERMINAL",
     "FABRIC_PIPELINE_WORKER_EXCEPTION"} \cup {f.code : f \in DomainFailures}

Answers == [status : {"NONE", "SUCCEEDED", "FAILED", "BLOCKED", "CANCELLED"},
            code : Codes, retry : Retries]

Shapes ==
    /\ program \in Programs
    /\ deployed \in {1, 2}
    /\ source \in 1 .. MaxChanges /\ target \in 0 .. source /\ progress \in Nat
    /\ closed \in BOOLEAN /\ commits \in Nat
    /\ job \in [Attempts -> TerminalJob \cup {"none", "NotStarted", "InProgress"}]
    /\ cpc \in [Attempts -> {"none", "validate", "execute", "commit", "audit", "end", "ended"}]
    /\ snapshot \in [Attempts -> [source : Nat, commits : Nat]]
    /\ ran \in [Attempts -> 0 .. deployed] /\ planned \in [Attempts -> 0 .. deployed]
    /\ wrote \in [Attempts -> BOOLEAN]
    /\ pc \in [Attempts -> {"idle", "post", "poll", "read", "record", "done", "raised"}]
    /\ polls \in [Attempts -> 0 .. MaxPolls]
    /\ result \in [Attempts -> Answers] /\ pending \in [Attempts -> Answers]
    /\ audit \in [Attempts -> Answers] /\ outcome \in [Attempts -> Answers]

\* Parent, job and child advance in step: no job before the POST, no child before
\* the job, and a job the provider ended itself has no child any more.
JobFollowsParent ==
    \A a \in Attempts :
        /\ pc[a] \in {"idle", "post"} => job[a] = "none"
        /\ pc[a] = "idle" => audit[a] = NoAnswer
        /\ pc[a] = "read" => job[a] = "Completed"
        /\ job[a] \in {"none", "NotStarted", "Deduped"} => cpc[a] = "none"
        /\ job[a] = "InProgress" => ChildLives(a)
        /\ job[a] \in {"Completed", "Failed"} => cpc[a] = "ended"

\* A child past its validation runs the planned configuration.
RanIsPlanned ==
    \A a \in Attempts :
        /\ cpc[a] \in {"none", "validate"} => ran[a] = 0
        /\ ran[a] # 0 => ran[a] = planned[a]
        /\ cpc[a] \in {"execute", "commit", "audit", "end"} => ran[a] = planned[a]
        /\ audit[a].status = "SUCCEEDED" => ran[a] = planned[a]

\* There is one way to say SUCCEEDED, and the parent never says it on its own.
OneSuccess ==
    \A a \in Attempts :
        /\ result[a].status = "SUCCEEDED" => result[a] = Succeeded
        /\ audit[a].status = "SUCCEEDED" => audit[a] = Succeeded
        /\ pending[a].status # "SUCCEEDED"
        /\ outcome[a].status = "SUCCEEDED" =>
              pc[a] = "done" /\ job[a] = "Completed" /\ audit[a] = Succeeded

\* A success, returned or recorded, stands on a commit or an empty window.
SuccessIsBacked ==
    \A a \in Attempts :
        result[a].status = "SUCCEEDED" \/ audit[a].status = "SUCCEEDED" =>
            wrote[a] \/ (program.strategy # "REPLACE" /\ progress > 0)

\* A transaction that nobody has overtaken saw a source at least as new as the
\* target it replaces.
SnapshotIsCurrent ==
    /\ progress = target
    /\ \A a \in Attempts : cpc[a] = "commit" =>
          /\ snapshot[a].source \in 1 .. source /\ snapshot[a].commits <= commits
          /\ snapshot[a].commits = commits => target <= snapshot[a].source

IInv ==
    /\ Shapes /\ JobFollowsParent /\ RanIsPlanned /\ OneSuccess /\ SuccessIsBacked
    /\ SnapshotIsCurrent

-----------------------------------------------------------------------------
(* Answers. *)

\* What Answer builds, and the two answers with a name of their own.
LEMMA AnswerFacts ==
    /\ \A s \in {"NONE", "SUCCEEDED", "FAILED", "BLOCKED", "CANCELLED"},
          c \in Codes, r \in Retries :
          Answer(s, c, r) \in Answers /\ Answer(s, c, r).status = s
    /\ NoAnswer \in Answers /\ NoAnswer.status = "NONE"
    /\ Succeeded \in Answers /\ Succeeded.status = "SUCCEEDED"
    /\ NoAnswer # Succeeded
<1>1. ASSUME NEW s \in {"NONE", "SUCCEEDED", "FAILED", "BLOCKED", "CANCELLED"}, NEW c \in Codes,
             NEW r \in Retries
      PROVE  Answer(s, c, r) \in Answers /\ Answer(s, c, r).status = s
    BY DEF Answer, Answers
<1>2. "" \in Codes /\ "unknown" \in Retries
    BY DEF Codes, Retries
<1> QED
    BY <1>1, <1>2 DEF NoAnswer, Succeeded

-----------------------------------------------------------------------------
(* The effects a step is made of, and what each of them preserves. *)

\* The parent gives up on an attempt and goes to record the failure.
LEMMA ParentFailsPreserves ==
    ASSUME IInv, NEW a \in Attempts, pc[a] \in {"idle", "post", "poll", "read"},
           NEW x \in Answers, x.status \notin {"SUCCEEDED", "NONE"},
           pending' = [pending EXCEPT ![a] = x], Goto(a, "record"),
           UNCHANGED <<program, deployed, warehouseVars, childVars, planned, audit, outcome>>,
           polls' = [polls EXCEPT ![a] = 0] \/ UNCHANGED polls
    PROVE  IInv'
<1>1. Shapes'
    BY ChildAssumption, ParentAssumption DEF Goto, warehouseVars, childVars, IInv, Shapes,
           SnapshotIsCurrent
<1>2. JobFollowsParent'
    BY DEF Goto, childVars, IInv, JobFollowsParent, ChildLives
<1>3. RanIsPlanned'
    BY DEF childVars, IInv, RanIsPlanned
<1>4. OneSuccess'
    BY DEF Goto, childVars, IInv, OneSuccess
<1>5. SuccessIsBacked'
    BY DEF warehouseVars, childVars, IInv, SuccessIsBacked
<1>6. SnapshotIsCurrent'
    BY DEF warehouseVars, childVars, IInv, SnapshotIsCurrent
<1> QED
    BY <1>1, <1>2, <1>3, <1>4, <1>5, <1>6 DEF IInv

\* The child's process ends, for whatever reason, without having committed.
LEMMA EndsPreserves ==
    ASSUME IInv, NEW a \in Attempts, ChildLives(a), NEW s \in {"Failed", "Completed"},
           JobEnds(a, s), UNCHANGED <<ran, wrote, warehouseVars>>,
           UNCHANGED <<program, deployed, parentVars>>
    PROVE  IInv'
<1>1. Shapes'
    BY AnswerFacts DEF JobEnds, ChildGoto, NoSnapshot, warehouseVars, parentVars, IInv,
           Shapes, TerminalJob
<1>2. JobFollowsParent'
    BY DEF JobEnds, ChildGoto, parentVars, IInv, Shapes, JobFollowsParent, ChildLives
<1>3. RanIsPlanned'
    BY DEF JobEnds, ChildGoto, parentVars, IInv, RanIsPlanned
<1>4. OneSuccess'
    BY AnswerFacts DEF JobEnds, parentVars, IInv, OneSuccess
<1>5. SuccessIsBacked'
    BY AnswerFacts DEF JobEnds, warehouseVars, parentVars, IInv, SuccessIsBacked
<1>6. SnapshotIsCurrent'
    BY DEF JobEnds, ChildGoto, warehouseVars, IInv, Shapes, SnapshotIsCurrent
<1> QED
    BY <1>1, <1>2, <1>3, <1>4, <1>5, <1>6 DEF IInv

\* The executor returns an answer without a commit.
LEMMA ReturnsPreserves ==
    ASSUME IInv, NEW a \in Attempts, cpc[a] = "execute", NEW x \in Answers, Returns(a, x),
           x.status = "SUCCEEDED" =>
               x = Succeeded /\ program.strategy # "REPLACE" /\ progress > 0,
           UNCHANGED warehouseVars, UNCHANGED <<program, deployed, parentVars>>
    PROVE  IInv'
<1>1. Shapes'
    BY DEF Returns, ChildGoto, warehouseVars, parentVars, IInv, Shapes
<1>2. JobFollowsParent'
    BY DEF Returns, ChildGoto, parentVars, IInv, JobFollowsParent, ChildLives
<1>3. RanIsPlanned'
    BY DEF Returns, ChildGoto, parentVars, IInv, RanIsPlanned
<1>4. OneSuccess'
    BY DEF Returns, parentVars, IInv, OneSuccess
<1>5. SuccessIsBacked'
    BY DEF Returns, warehouseVars, parentVars, IInv, SuccessIsBacked
<1>6. SnapshotIsCurrent'
    BY DEF Returns, ChildGoto, warehouseVars, IInv, SnapshotIsCurrent
<1> QED
    BY <1>1, <1>2, <1>3, <1>4, <1>5, <1>6 DEF IInv

\* The executor's transaction has read what it will commit on.
LEMMA PreparesPreserves ==
    ASSUME IInv, NEW a \in Attempts, cpc[a] = "execute", Prepares(a),
           UNCHANGED warehouseVars, UNCHANGED <<program, deployed, parentVars>>
    PROVE  IInv'
<1>1. Shapes'
    BY DEF Prepares, ChildGoto, warehouseVars, parentVars, IInv, Shapes
<1>2. JobFollowsParent'
    BY DEF Prepares, ChildGoto, parentVars, IInv, JobFollowsParent, ChildLives
<1>3. RanIsPlanned'
    BY DEF Prepares, ChildGoto, parentVars, IInv, RanIsPlanned
<1>4. OneSuccess'
    BY DEF Prepares, parentVars, IInv, OneSuccess
<1>5. SuccessIsBacked'
    BY DEF Prepares, warehouseVars, parentVars, IInv, SuccessIsBacked
<1>6. SnapshotIsCurrent'
    BY DEF Prepares, ChildGoto, warehouseVars, IInv, Shapes, SnapshotIsCurrent
<1> QED
    BY <1>1, <1>2, <1>3, <1>4, <1>5, <1>6 DEF IInv

\* ChildStart
LEMMA StartsPreserves ==
    ASSUME IInv, NEW a \in Attempts, ChildStart(a), UNCHANGED <<program, deployed, parentVars>>
    PROVE  IInv'
<1>1. Shapes'
    BY DEF ChildStart, ChildGoto, warehouseVars, parentVars, IInv, Shapes
<1>2. JobFollowsParent'
    BY DEF ChildStart, ChildGoto, parentVars, IInv, Shapes, JobFollowsParent, ChildLives
<1>3. RanIsPlanned'
    BY DEF ChildStart, ChildGoto, parentVars, IInv, JobFollowsParent, RanIsPlanned
<1>4. OneSuccess'
    BY DEF ChildStart, parentVars, IInv, OneSuccess
<1>5. SuccessIsBacked'
    BY DEF ChildStart, warehouseVars, parentVars, IInv, SuccessIsBacked
<1>6. SnapshotIsCurrent'
    BY DEF ChildStart, ChildGoto, warehouseVars, IInv, SnapshotIsCurrent
<1> QED
    BY <1>1, <1>2, <1>3, <1>4, <1>5, <1>6 DEF IInv

\* The configuration the parent planned is the deployed one.
LEMMA ValidatesPreserves ==
    ASSUME IInv, NEW a \in Attempts, cpc[a] = "validate", deployed = planned[a],
           ran' = [ran EXCEPT ![a] = deployed], ChildGoto(a, "execute"),
           UNCHANGED <<job, snapshot, result, wrote, warehouseVars>>,
           UNCHANGED <<program, deployed, parentVars>>
    PROVE  IInv'
<1>1. Shapes'
    BY DEF ChildGoto, warehouseVars, parentVars, IInv, Shapes
<1>2. JobFollowsParent'
    BY DEF ChildGoto, parentVars, IInv, JobFollowsParent, ChildLives
<1>3. RanIsPlanned'
    BY DEF ChildGoto, parentVars, IInv, Shapes, RanIsPlanned
<1>4. OneSuccess'
    BY DEF parentVars, IInv, OneSuccess
<1>5. SuccessIsBacked'
    BY DEF warehouseVars, parentVars, IInv, SuccessIsBacked
<1>6. SnapshotIsCurrent'
    BY DEF ChildGoto, warehouseVars, IInv, SnapshotIsCurrent
<1> QED
    BY <1>1, <1>2, <1>3, <1>4, <1>5, <1>6 DEF IInv

\* The transaction commits; its acknowledgement may be lost.
LEMMA CommitsPreserves ==
    ASSUME IInv, NEW a \in Attempts, Commit(a), commits = snapshot[a].commits,
           UNCHANGED <<program, deployed, parentVars>>
    PROVE  IInv'
<1>1. Shapes'
    <2>1. snapshot[a].source \in 1 .. source
        BY DEF Commit, IInv, SnapshotIsCurrent
    <2>2. /\ program' = program /\ deployed' = deployed /\ source' = source
          /\ target' = snapshot[a].source /\ progress' = snapshot[a].source
          /\ commits' = commits + 1 /\ closed' \in BOOLEAN
        BY DEF Commit
    <2>3. /\ target' \in 0 .. source' /\ progress' \in Nat /\ commits' \in Nat
          /\ source' \in 1 .. MaxChanges /\ program' \in Programs /\ deployed' \in {1, 2}
        BY <2>1, <2>2 DEF IInv, Shapes
    <2>4. /\ wrote' = [wrote EXCEPT ![a] = TRUE]
          /\ snapshot' = [snapshot EXCEPT ![a] = NoSnapshot]
          /\ \E x \in {Succeeded, NoAnswer} : result' = [result EXCEPT ![a] = x]
          /\ \E s \in {"audit", "ended"} : cpc' = [cpc EXCEPT ![a] = s]
          /\ \E s \in TerminalJob \cup {"none", "NotStarted", "InProgress"} :
                job' = [job EXCEPT ![a] = s]
        <3>1. CASE UNCHANGED job /\ ChildGoto(a, "audit")
                      /\ result' = [result EXCEPT ![a] = Succeeded]
                      /\ snapshot' = [snapshot EXCEPT ![a] = NoSnapshot]
            <4>1. job[a] \in TerminalJob \cup {"none", "NotStarted", "InProgress"}
                  /\ job' = [job EXCEPT ![a] = job[a]]
                BY <3>1 DEF IInv, Shapes
            <4> QED
                BY <3>1, <4>1 DEF Commit, ChildGoto
        <3>2. CASE JobEnds(a, "Failed")
            <4>1. (IF job[a] = "InProgress" THEN "Failed" ELSE job[a])
                     \in TerminalJob \cup {"none", "NotStarted", "InProgress"}
                BY DEF IInv, Shapes, TerminalJob
            <4> QED
                BY <3>2, <4>1 DEF Commit, JobEnds, ChildGoto
        <3> QED
            BY <3>1, <3>2 DEF Commit
    <2>5. wrote' \in [Attempts -> BOOLEAN] /\ result' \in [Attempts -> Answers]
        BY <2>4, AnswerFacts DEF IInv, Shapes
    <2>6. /\ job' \in [Attempts -> TerminalJob \cup {"none", "NotStarted", "InProgress"}]
          /\ cpc' \in [Attempts -> {"none", "validate", "execute", "commit", "audit", "end",
                                    "ended"}]
        BY <2>4 DEF IInv, Shapes
    <2>7. snapshot' \in [Attempts -> [source : Nat, commits : Nat]]
        BY <2>4 DEF NoSnapshot, IInv, Shapes
    <2> QED
        BY <2>3, <2>5, <2>6, <2>7 DEF Commit, parentVars, IInv, Shapes
<1>2. JobFollowsParent'
    BY DEF Commit, JobEnds, ChildGoto, parentVars, IInv, Shapes, JobFollowsParent,
           ChildLives
<1>3. RanIsPlanned'
    BY DEF Commit, JobEnds, ChildGoto, parentVars, IInv, Shapes, RanIsPlanned
<1>4. OneSuccess'
    BY AnswerFacts DEF Commit, JobEnds, ChildGoto, NoSnapshot, warehouseVars, childVars,
           parentVars, IInv, Shapes, JobFollowsParent, OneSuccess
<1>5. SuccessIsBacked'
    <2>1. /\ program' = program /\ audit' = audit
          /\ wrote' = [wrote EXCEPT ![a] = TRUE] /\ progress' > 0
        BY DEF Commit, parentVars, IInv, SnapshotIsCurrent
    <2>2. \A b \in Attempts \ {a} : result'[b] = result[b]
        BY DEF Commit, JobEnds, IInv, Shapes
    <2> SUFFICES ASSUME NEW b \in Attempts,
                        result'[b].status = "SUCCEEDED" \/ audit'[b].status = "SUCCEEDED"
                 PROVE  wrote'[b] \/ (program'.strategy # "REPLACE" /\ progress' > 0)
        BY DEF SuccessIsBacked
    <2>3. CASE b = a
        BY <2>1, <2>3 DEF IInv, Shapes
    <2>4. CASE b # a
        BY <2>1, <2>2 DEF IInv, Shapes, SuccessIsBacked
    <2> QED
        BY <2>3, <2>4
<1>6. SnapshotIsCurrent'
    BY DEF Commit, JobEnds, ChildGoto, IInv, Shapes, SnapshotIsCurrent
<1> QED
    BY <1>1, <1>2, <1>3, <1>4, <1>5, <1>6 DEF IInv

\* The child records its result.
LEMMA ChildRecordsPreserves ==
    ASSUME IInv, NEW a \in Attempts, cpc[a] = "audit",
           audit' = [audit EXCEPT ![a] = result[a]], ChildGoto(a, "end"),
           UNCHANGED <<job, snapshot, result, ran, wrote, program, deployed, warehouseVars,
                       pc, planned, polls, pending, outcome>>
    PROVE  IInv'
<1>1. Shapes'
    BY DEF ChildGoto, warehouseVars, IInv, Shapes
<1>2. JobFollowsParent'
    BY DEF ChildGoto, IInv, JobFollowsParent, ChildLives
<1>3. RanIsPlanned'
    BY DEF ChildGoto, IInv, RanIsPlanned
<1>4. OneSuccess'
    BY DEF IInv, JobFollowsParent, OneSuccess
<1>5. SuccessIsBacked'
    BY DEF warehouseVars, IInv, SuccessIsBacked
<1>6. SnapshotIsCurrent'
    BY DEF ChildGoto, warehouseVars, IInv, SnapshotIsCurrent
<1> QED
    BY <1>1, <1>2, <1>3, <1>4, <1>5, <1>6 DEF IInv

\* CancelJob
LEMMA CancelPreserves ==
    ASSUME IInv, NEW a \in Attempts, CancelJob(a), UNCHANGED <<program, deployed, parentVars>>
    PROVE  IInv'
<1>1. Shapes'
    BY DEF CancelJob, warehouseVars, parentVars, IInv, Shapes, TerminalJob
<1>2. JobFollowsParent'
    BY DEF CancelJob, parentVars, IInv, JobFollowsParent, ChildLives
<1>3. RanIsPlanned'
    BY DEF CancelJob, parentVars, IInv, RanIsPlanned
<1>4. OneSuccess'
    BY DEF CancelJob, parentVars, IInv, OneSuccess
<1>5. SuccessIsBacked'
    BY DEF CancelJob, warehouseVars, parentVars, IInv, SuccessIsBacked
<1>6. SnapshotIsCurrent'
    BY DEF CancelJob, warehouseVars, IInv, SnapshotIsCurrent
<1> QED
    BY <1>1, <1>2, <1>3, <1>4, <1>5, <1>6 DEF IInv

\* Prepare finds its plan and binding.
LEMMA PlansPreserves ==
    ASSUME IInv, NEW a \in Attempts, pc[a] = "idle", planned' = [planned EXCEPT ![a] = deployed],
           Goto(a, "post"),
           UNCHANGED <<program, deployed, warehouseVars, childVars, polls, pending, audit,
                       outcome>>
    PROVE  IInv'
<1>1. Shapes'
    BY DEF Goto, warehouseVars, childVars, IInv, Shapes
<1>2. JobFollowsParent'
    BY DEF Goto, childVars, IInv, JobFollowsParent, ChildLives
<1>3. RanIsPlanned'
    BY AnswerFacts DEF childVars, IInv, JobFollowsParent, RanIsPlanned
<1>4. OneSuccess'
    BY DEF Goto, childVars, IInv, OneSuccess
<1>5. SuccessIsBacked'
    BY DEF warehouseVars, childVars, IInv, SuccessIsBacked
<1>6. SnapshotIsCurrent'
    BY DEF warehouseVars, childVars, IInv, SnapshotIsCurrent
<1> QED
    BY <1>1, <1>2, <1>3, <1>4, <1>5, <1>6 DEF IInv

\* The POST is accepted, and its answer arrives or is lost.
LEMMA PostedPreserves ==
    ASSUME IInv, NEW a \in Attempts, pc[a] = "post", NEW s \in {"NotStarted", "Deduped"},
           job' = [job EXCEPT ![a] = s],
           \/ Goto(a, "poll") /\ UNCHANGED pending
           \/ Goto(a, "record") /\ \E x \in Answers : /\ x.status = "FAILED"
                                       /\ pending' = [pending EXCEPT ![a] = x],
           UNCHANGED <<program, deployed, warehouseVars, cpc, snapshot, result, ran, wrote,
                       planned, polls, audit, outcome>>
    PROVE  IInv'
<1>1. Shapes'
    <2>1. job' \in [Attempts -> TerminalJob \cup {"none", "NotStarted", "InProgress"}]
        BY DEF IInv, Shapes, TerminalJob
    <2>2. /\ pc' \in [Attempts -> {"idle", "post", "poll", "read", "record", "done", "raised"}]
          /\ pending' \in [Attempts -> Answers]
        BY DEF Goto, IInv, Shapes
    <2> QED
        BY <2>1, <2>2 DEF warehouseVars, IInv, Shapes
<1>2. JobFollowsParent'
    BY DEF Goto, IInv, Shapes, JobFollowsParent, ChildLives
<1>3. RanIsPlanned'
    BY DEF IInv, RanIsPlanned
<1>4. OneSuccess'
    BY DEF Goto, IInv, Shapes, OneSuccess
<1>5. SuccessIsBacked'
    BY DEF warehouseVars, IInv, SuccessIsBacked
<1>6. SnapshotIsCurrent'
    BY DEF warehouseVars, IInv, SnapshotIsCurrent
<1> QED
    BY <1>1, <1>2, <1>3, <1>4, <1>5, <1>6 DEF IInv

\* A poll that does not fail the attempt.
LEMMA PollsOnPreserves ==
    ASSUME IInv, NEW a \in Attempts, pc[a] = "poll",
           \/ job[a] \notin TerminalJob /\ polls[a] < MaxPolls /\ UNCHANGED pc
                  /\ polls' = [polls EXCEPT ![a] = @ + 1]
           \/ job[a] = "Completed" /\ Goto(a, "read") /\ polls' = [polls EXCEPT ![a] = 0],
           UNCHANGED <<program, deployed, warehouseVars, childVars, planned, audit, pending,
                       outcome>>
    PROVE  IInv'
<1>1. Shapes'
    <2>1. pc' \in [Attempts -> {"idle", "post", "poll", "read", "record", "done", "raised"}]
        BY DEF Goto, IInv, Shapes
    <2>2. polls' \in [Attempts -> 0 .. MaxPolls]
        <3>1. polls[a] < MaxPolls => polls[a] + 1 \in 0 .. MaxPolls
            BY ParentAssumption DEF IInv, Shapes
        <3>2. 0 \in 0 .. MaxPolls
            BY ParentAssumption
        <3> QED
            BY <3>1, <3>2 DEF IInv, Shapes
    <2> QED
        BY <2>1, <2>2 DEF warehouseVars, childVars, IInv, Shapes
<1>2. JobFollowsParent'
    BY DEF Goto, childVars, IInv, Shapes, JobFollowsParent, ChildLives
<1>3. RanIsPlanned'
    BY DEF childVars, IInv, RanIsPlanned
<1>4. OneSuccess'
    BY DEF Goto, childVars, IInv, Shapes, OneSuccess
<1>5. SuccessIsBacked'
    BY DEF warehouseVars, childVars, IInv, SuccessIsBacked
<1>6. SnapshotIsCurrent'
    BY DEF warehouseVars, childVars, IInv, SnapshotIsCurrent
<1> QED
    BY <1>1, <1>2, <1>3, <1>4, <1>5, <1>6 DEF IInv

\* The durable outcome becomes the attempt's.
LEMMA ReadsPreserves ==
    ASSUME IInv, NEW a \in Attempts, pc[a] = "read",
           outcome' = [outcome EXCEPT ![a] = audit[a]], Goto(a, "done"),
           UNCHANGED <<program, deployed, warehouseVars, childVars, planned, audit, pending,
                       polls>>
    PROVE  IInv'
<1>1. Shapes'
    BY DEF Goto, warehouseVars, childVars, IInv, Shapes
<1>2. JobFollowsParent'
    BY DEF Goto, childVars, IInv, JobFollowsParent, ChildLives
<1>3. RanIsPlanned'
    BY DEF childVars, IInv, RanIsPlanned
<1>4. OneSuccess'
    BY DEF Goto, childVars, IInv, Shapes, JobFollowsParent, OneSuccess
<1>5. SuccessIsBacked'
    BY DEF warehouseVars, childVars, IInv, SuccessIsBacked
<1>6. SnapshotIsCurrent'
    BY DEF warehouseVars, childVars, IInv, SnapshotIsCurrent
<1> QED
    BY <1>1, <1>2, <1>3, <1>4, <1>5, <1>6 DEF IInv

\* The failure is recorded, or the recording fails.
LEMMA RecordPreserves ==
    ASSUME IInv, NEW a \in Attempts, pc[a] = "record",
           audit' = [audit EXCEPT ![a] = pending[a]] \/ UNCHANGED audit,
           \/ UNCHANGED outcome
           \/ \E x \in Answers : x.status # "SUCCEEDED" /\ outcome' = [outcome EXCEPT ![a] = x],
           NEW s \in {"done", "raised"}, Goto(a, s), pending' = [pending EXCEPT ![a] = NoAnswer],
           UNCHANGED <<program, deployed, warehouseVars, childVars, planned, polls>>
    PROVE  IInv'
<1>1. Shapes'
    <2>1. pc' \in [Attempts -> {"idle", "post", "poll", "read", "record", "done", "raised"}]
        BY DEF Goto, IInv, Shapes
    <2>2. audit' \in [Attempts -> Answers] /\ outcome' \in [Attempts -> Answers]
        BY DEF IInv, Shapes
    <2>3. pending' \in [Attempts -> Answers]
        BY AnswerFacts DEF IInv, Shapes
    <2> QED
        BY <2>1, <2>2, <2>3 DEF warehouseVars, childVars, IInv, Shapes
<1>2. JobFollowsParent'
    BY DEF Goto, childVars, IInv, Shapes, JobFollowsParent, ChildLives
<1>3. RanIsPlanned'
    BY DEF Goto, warehouseVars, childVars, IInv, Shapes, JobFollowsParent, RanIsPlanned,
           OneSuccess
<1>4. OneSuccess'
    BY AnswerFacts DEF Goto, childVars, IInv, Shapes, OneSuccess
<1>5. SuccessIsBacked'
    BY DEF warehouseVars, childVars, IInv, Shapes, OneSuccess, SuccessIsBacked,
           SnapshotIsCurrent
<1>6. SnapshotIsCurrent'
    BY DEF warehouseVars, childVars, IInv, SnapshotIsCurrent
<1> QED
    BY <1>1, <1>2, <1>3, <1>4, <1>5, <1>6 DEF IInv

\* Redeploy
LEMMA RedeployPreserves ==
    ASSUME IInv, Redeploy
    PROVE  IInv'
<1>1. Shapes'
    BY DEF Redeploy, warehouseVars, childVars, parentVars, IInv, Shapes
<1>2. JobFollowsParent'
    BY DEF Redeploy, childVars, parentVars, IInv, JobFollowsParent, ChildLives
<1>3. RanIsPlanned'
    BY DEF Redeploy, childVars, parentVars, IInv, RanIsPlanned
<1>4. OneSuccess'
    BY DEF Redeploy, childVars, parentVars, IInv, OneSuccess
<1>5. SuccessIsBacked'
    BY DEF Redeploy, warehouseVars, childVars, parentVars, IInv, SuccessIsBacked
<1>6. SnapshotIsCurrent'
    BY DEF Redeploy, warehouseVars, childVars, IInv, SnapshotIsCurrent
<1> QED
    BY <1>1, <1>2, <1>3, <1>4, <1>5, <1>6 DEF IInv

\* SourceChanges
LEMMA SourceChangesPreserves ==
    ASSUME IInv, SourceChanges, UNCHANGED <<program, deployed, childVars, parentVars>>
    PROVE  IInv'
<1>1. Shapes'
    BY ChildAssumption DEF SourceChanges, childVars, parentVars, IInv, Shapes
<1>2. JobFollowsParent'
    BY DEF childVars, parentVars, IInv, JobFollowsParent, ChildLives
<1>3. RanIsPlanned'
    BY DEF childVars, parentVars, IInv, RanIsPlanned
<1>4. OneSuccess'
    BY DEF childVars, parentVars, IInv, OneSuccess
<1>5. SuccessIsBacked'
    BY DEF SourceChanges, childVars, parentVars, IInv, SuccessIsBacked
<1>6. SnapshotIsCurrent'
    BY DEF SourceChanges, childVars, IInv, Shapes, SnapshotIsCurrent
<1> QED
    BY <1>1, <1>2, <1>3, <1>4, <1>5, <1>6 DEF IInv

-----------------------------------------------------------------------------
(* The actions, as those effects. *)

\* Planning and binding: the attempt is refused, or its plan is frozen.
LEMMA PreparePreserves ==
    ASSUME IInv, NEW a \in Attempts, Prepare(a)
    PROVE  IInv'
<1>1. CASE \E c \in {"FABRIC_PIPELINE_PLAN_ERROR", "FABRIC_PIPELINE_BINDING_ERROR"} :
              Fails(a, "FAILED", c, "no") /\ UNCHANGED planned
    <2>1. PICK c \in Codes : Fails(a, "FAILED", c, "no") /\ UNCHANGED planned
        BY <1>1 DEF Codes
    <2>2. Answer("FAILED", c, "no") \in Answers /\ Answer("FAILED", c, "no").status = "FAILED"
        BY AnswerFacts DEF Retries
    <2> QED
        BY <2>1, <2>2, ParentFailsPreserves DEF Prepare, Fails
<1>2. CASE planned' = [planned EXCEPT ![a] = deployed] /\ Goto(a, "post") /\ UNCHANGED pending
    BY <1>2, PlansPreserves DEF Prepare
<1> QED
    BY <1>1, <1>2 DEF Prepare

\* The job is posted, deduplicated, refused, or its answer is lost.
LEMMA PostPreserves ==
    ASSUME IInv, NEW a \in Attempts, Post(a)
    PROVE  IInv'
<1>1. CASE \E s \in {"NotStarted", "Deduped"} : job' = [job EXCEPT ![a] = s] /\ Goto(a, "poll")
                                                   /\ UNCHANGED pending
    BY <1>1, PostedPreserves DEF Post
<1>2. CASE \E retry \in HttpRetry :
              Fails(a, "FAILED", "FABRIC_REST_ERROR", retry) /\ UNCHANGED job
    <2>1. PICK retry \in Retries :
             Fails(a, "FAILED", "FABRIC_REST_ERROR", retry) /\ UNCHANGED job
        BY <1>2, ParentAssumption
    <2>2. /\ Answer("FAILED", "FABRIC_REST_ERROR", retry) \in Answers
          /\ Answer("FAILED", "FABRIC_REST_ERROR", retry).status = "FAILED"
        BY AnswerFacts DEF Codes
    <2> QED
        BY <2>1, <2>2, ParentFailsPreserves DEF Post, Fails, childVars
<1>3. CASE job' = [job EXCEPT ![a] = "NotStarted"]
              /\ Fails(a, "FAILED", "FABRIC_REST_ERROR", "unknown")
    <2>1. /\ Answer("FAILED", "FABRIC_REST_ERROR", "unknown") \in Answers
          /\ Answer("FAILED", "FABRIC_REST_ERROR", "unknown").status = "FAILED"
        BY AnswerFacts DEF Codes, Retries
    <2> QED
        BY <1>3, <2>1, PostedPreserves DEF Post, Fails
<1> QED
    BY <1>1, <1>2, <1>3 DEF Post

\* One poll: still running, a terminal provider status, or the deadline.
LEMMA PollPreserves ==
    ASSUME IInv, NEW a \in Attempts, Poll(a)
    PROVE  IInv'
<1>1. CASE \E s \in {"FAILED", "BLOCKED", "CANCELLED"}, c \in Codes, retry \in Retries :
              Fails(a, s, c, retry) /\ polls' = [polls EXCEPT ![a] = 0] /\ UNCHANGED outcome
    <2>1. PICK s \in {"FAILED", "BLOCKED", "CANCELLED"}, c \in Codes, retry \in Retries :
              Fails(a, s, c, retry) /\ polls' = [polls EXCEPT ![a] = 0] /\ UNCHANGED outcome
        BY <1>1
    <2>2. Answer(s, c, retry) \in Answers /\ Answer(s, c, retry).status = s
        BY AnswerFacts
    <2> QED
        BY <2>1, <2>2, ParentFailsPreserves DEF Poll, Fails
<1>2. CASE UNCHANGED <<pending, outcome>>
              /\ \/ job[a] \notin TerminalJob /\ polls[a] < MaxPolls /\ UNCHANGED pc
                       /\ polls' = [polls EXCEPT ![a] = @ + 1]
                 \/ job[a] = "Completed" /\ Goto(a, "read") /\ polls' = [polls EXCEPT ![a] = 0]
    BY <1>2, PollsOnPreserves DEF Poll
<1>3. CASE polls[a] < MaxPolls /\ job[a] \in TerminalJob /\ polls' = [polls EXCEPT ![a] = 0]
              /\ Classify(a)
    <2>1. CASE job[a] = "Deduped"
        BY <1>1, <1>3, <2>1 DEF Classify, Codes, Retries
    <2>2. CASE job[a] = "Cancelled"
        BY <1>1, <1>3, <2>2 DEF Classify, Codes, Retries
    <2>3. CASE job[a] = "Failed"
        BY <1>1, <1>3, <2>3 DEF Classify, Codes, Retries
    <2>4. CASE job[a] = "Completed"
        BY <1>2, <1>3, <2>4 DEF Classify
    <2> QED
        BY <1>3, <2>1, <2>2, <2>3, <2>4 DEF TerminalJob
<1>4. CASE polls' = [polls EXCEPT ![a] = 0] /\ UNCHANGED outcome
              /\ \E retry \in HttpRetry \cup {"unknown"} :
                    Fails(a, "FAILED", "FABRIC_REST_ERROR", retry)
    BY <1>1, <1>4, ParentAssumption DEF Codes, Retries
<1> QED
    BY <1>2, <1>3, <1>4 DEF Poll

\* The child outcome row is read back after the provider says completed.
LEMMA ReadOutcomePreserves ==
    ASSUME IInv, NEW a \in Attempts, ReadOutcome(a)
    PROVE  IInv'
<1>1. CASE \E c \in {"FABRIC_PIPELINE_RESULT_MISSING", "FABRIC_PIPELINE_OUTCOME_READ_ERROR",
                     "FABRIC_PIPELINE_RESULT_MISMATCH", "FABRIC_PIPELINE_RESULT_NON_TERMINAL"} :
              Fails(a, "FAILED", c, "unknown") /\ UNCHANGED outcome
    <2>1. PICK c \in Codes : Fails(a, "FAILED", c, "unknown") /\ UNCHANGED outcome
        BY <1>1 DEF Codes
    <2>2. /\ Answer("FAILED", c, "unknown") \in Answers
          /\ Answer("FAILED", c, "unknown").status = "FAILED"
        BY AnswerFacts DEF Retries
    <2> QED
        BY <2>1, <2>2, ParentFailsPreserves DEF ReadOutcome, Fails
<1>2. CASE outcome' = [outcome EXCEPT ![a] = audit[a]] /\ Goto(a, "done") /\ UNCHANGED pending
    BY <1>2, ReadsPreserves DEF ReadOutcome
<1> QED
    BY <1>1, <1>2 DEF ReadOutcome

\* The parent writes its dataset row.
LEMMA RecordsPreserves ==
    ASSUME IInv, NEW a \in Attempts, Record(a)
    PROVE  IInv'
<1>1. pending[a] \in Answers /\ pending[a].status # "SUCCEEDED"
    BY DEF IInv, Shapes, OneSuccess
<1>2. /\ Answer("FAILED", "FABRIC_PIPELINE_WORKER_EXCEPTION", "unknown") \in Answers
      /\ Answer("FAILED", "FABRIC_PIPELINE_WORKER_EXCEPTION", "unknown").status = "FAILED"
    BY AnswerFacts DEF Codes, Retries
<1>3. /\ pc[a] = "record" /\ pending' = [pending EXCEPT ![a] = NoAnswer]
      /\ audit' = [audit EXCEPT ![a] = pending[a]] \/ UNCHANGED audit
      /\ UNCHANGED <<program, deployed, warehouseVars, childVars, planned, polls>>
    BY DEF Record
<1>4. /\ \/ UNCHANGED outcome
         \/ \E x \in Answers : x.status # "SUCCEEDED" /\ outcome' = [outcome EXCEPT ![a] = x]
      /\ \E s \in {"done", "raised"} : Goto(a, s)
    BY <1>1, <1>2 DEF Record, WorkerFails
<1> QED
    BY <1>3, <1>4, RecordPreserves

\* The child writes its outcome row, or fails to.
LEMMA ChildAuditsPreserves ==
    ASSUME IInv, NEW a \in Attempts, ChildAudits(a)
    PROVE  IInv'
<1>1. CASE audit' = [audit EXCEPT ![a] = result[a]] /\ ChildGoto(a, "end")
              /\ UNCHANGED <<job, snapshot, result, ran, wrote>>
    BY <1>1, ChildRecordsPreserves DEF ChildAudits
<1>2. CASE ChildRaises(a) /\ UNCHANGED audit
    BY <1>2, EndsPreserves DEF ChildAudits, ChildRaises, ChildLives, parentVars
<1> QED
    BY <1>1, <1>2 DEF ChildAudits

\* The child compares what is deployed with the plan it was started for.
LEMMA ValidatePreserves ==
    ASSUME IInv, NEW a \in Attempts, Validate(a, planned[a]),
           UNCHANGED <<program, deployed, parentVars>>
    PROVE  IInv'
<1>1. CASE deployed = planned[a]
    BY <1>1, ValidatesPreserves DEF Validate
<1>2. CASE deployed # planned[a]
    BY <1>2, EndsPreserves DEF Validate, ChildRaises, ChildLives
<1> QED
    BY <1>1, <1>2

\* What Execute comes to, whichever program and strategy: the child raises, has a
\* transaction prepared, or returns, and a success without a commit is that of an
\* incremental strategy with nothing new in its window.
LEMMA ExecuteEffects ==
    ASSUME IInv, NEW a \in Attempts, Execute(a)
    PROVE  \/ ChildRaises(a)
           \/ Prepares(a)
           \/ \E x \in Answers :
                 /\ Returns(a, x)
                 /\ x.status = "SUCCEEDED" =>
                       x = Succeeded /\ program.strategy # "REPLACE" /\ progress > 0
<1> DEFINE Done == \/ ChildRaises(a)
                   \/ Prepares(a)
                   \/ \E x \in Answers :
                         /\ Returns(a, x)
                         /\ x.status = "SUCCEEDED" =>
                               x = Succeeded /\ program.strategy # "REPLACE" /\ progress > 0
<1>1. ASSUME NEW c \in Codes, NEW r \in Retries, Returns(a, Answer("FAILED", c, r))
      PROVE  Done
    <2>1. Answer("FAILED", c, r) \in Answers /\ Answer("FAILED", c, r).status = "FAILED"
        BY AnswerFacts
    <2> QED
        BY <1>1, <2>1
<1>2. /\ program.strategy \in {"REPLACE", "SCD1", "SCD2"}
      /\ program.mode \in {"SUCCESS", "CERTIFICATION_RETRYABLE_FAILURE", "RECONCILIATION_FAILED"}
    BY ChildAssumption DEF IInv, Shapes
<1>3. CASE program.entry # "certification"
    <2>1. ASSUME NEW f \in DomainFailures, Returns(a, Answer("FAILED", f.code, f.retry))
          PROVE  Done
        <3>1. f.code \in Codes /\ f.retry \in Retries
            BY ChildAssumption DEF Codes
        <3> QED
            BY <1>1, <2>1, <3>1
    <2> QED
        BY <1>3, <2>1 DEF Execute, DomainExecute
<1>4. CASE program.entry = "certification" /\ program.strategy = "REPLACE"
    <2>1. ExecuteReplace(a)
        BY <1>4 DEF Execute, CertificationExecute
    <2> QED
        BY <1>1, <1>2, <2>1 DEF ExecuteReplace, Codes, Retries
<1>5. ASSUME program.strategy # "REPLACE", ExecuteScd1(a) PROVE Done
    <2>1. source = progress => progress > 0
        BY DEF IInv, Shapes
    <2>2. ASSUME Returns(a, Succeeded), progress > 0 PROVE Done
        BY <1>5, <2>2, AnswerFacts
    <2>3. CASE program.mode = "SUCCESS"
        BY <1>5, <2>1, <2>2, <2>3 DEF ExecuteScd1
    <2>4. CASE program.mode # "SUCCESS"
        BY <1>1, <1>2, <1>5, <2>4 DEF ExecuteScd1, Codes, Retries
    <2> QED
        BY <2>3, <2>4
<1>6. CASE program.entry = "certification" /\ program.strategy = "SCD1"
    BY <1>5, <1>6 DEF Execute, CertificationExecute
<1>7. CASE program.entry = "certification" /\ program.strategy = "SCD2"
    BY <1>5, <1>7 DEF Execute, CertificationExecute, ExecuteScd2
<1> QED
    BY <1>2, <1>3, <1>4, <1>6, <1>7

\* The child runs its executor.
LEMMA ExecutePreserves ==
    ASSUME IInv, NEW a \in Attempts, Execute(a), UNCHANGED <<program, deployed, parentVars>>
    PROVE  IInv'
<1>1. cpc[a] = "execute" /\ UNCHANGED warehouseVars
    BY DEF Execute
<1>2. CASE ChildRaises(a)
    BY <1>1, <1>2, EndsPreserves DEF ChildRaises, ChildLives
<1>3. CASE Prepares(a)
    BY <1>1, <1>3, PreparesPreserves
<1>4. CASE \E x \in Answers :
              /\ Returns(a, x)
              /\ x.status = "SUCCEEDED" =>
                    x = Succeeded /\ program.strategy # "REPLACE" /\ progress > 0
    BY <1>1, <1>4, ReturnsPreserves
<1> QED
    BY <1>2, <1>3, <1>4, ExecuteEffects

\* The Warehouse commit of the child, or its refusal.
LEMMA CommitPreserves ==
    ASSUME IInv, NEW a \in Attempts, Commit(a), UNCHANGED <<program, deployed, parentVars>>
    PROVE  IInv'
<1>1. CASE commits = snapshot[a].commits
    BY <1>1, CommitsPreserves
<1>2. CASE commits # snapshot[a].commits
    BY <1>2, EndsPreserves DEF Commit, ChildRaises, ChildLives
<1> QED
    BY <1>1, <1>2

\* The child returns.
LEMMA ChildEndsPreserves ==
    ASSUME IInv, NEW a \in Attempts, ChildEnds(a), UNCHANGED <<program, deployed, parentVars>>
    PROVE  IInv'
BY EndsPreserves DEF ChildEnds, ChildLives

\* The child is killed between two of its steps.
LEMMA ChildDiesPreserves ==
    ASSUME IInv, NEW a \in Attempts, ChildDies(a), UNCHANGED <<program, deployed, parentVars>>
    PROVE  IInv'
BY EndsPreserves DEF ChildDies, ChildRaises

-----------------------------------------------------------------------------
(* The theorems. *)

\* No attempt has started: nothing is planned, posted or recorded.
LEMMA InitEstablishes == Init => IInv
<1> SUFFICES ASSUME Init PROVE IInv
    OBVIOUS
<1>1. Shapes
    <2>1. /\ program \in Programs /\ deployed = 1 /\ source \in 1 .. MaxChanges
          /\ target \in 0 .. source /\ progress \in Nat /\ commits \in Nat
        BY ChildAssumption DEF Init, ChildInit
    <2>2. /\ job \in [Attempts -> TerminalJob \cup {"none", "NotStarted", "InProgress"}]
          /\ cpc \in [Attempts -> {"none", "validate", "execute", "commit", "audit",
                                  "end", "ended"}]
          /\ pc \in [Attempts -> {"idle", "post", "poll", "read", "record", "done", "raised"}]
          /\ wrote \in [Attempts -> BOOLEAN]
        BY DEF Init, ChildInit
    <2>3. snapshot \in [Attempts -> [source : Nat, commits : Nat]]
        BY DEF Init, ChildInit, NoSnapshot
    <2>4. /\ ran \in [Attempts -> 0 .. deployed] /\ planned \in [Attempts -> 0 .. deployed]
          /\ polls \in [Attempts -> 0 .. MaxPolls]
        BY ParentAssumption DEF Init, ChildInit
    <2>5. /\ result \in [Attempts -> Answers] /\ pending \in [Attempts -> Answers]
          /\ audit \in [Attempts -> Answers] /\ outcome \in [Attempts -> Answers]
        BY AnswerFacts DEF Init, ChildInit
    <2>6. closed \in BOOLEAN
        BY Zenon DEF Init, ChildInit
    <2> QED
        BY <2>1, <2>2, <2>3, <2>4, <2>5, <2>6 DEF Shapes
<1>2. JobFollowsParent /\ RanIsPlanned
    BY DEF Init, ChildInit, JobFollowsParent, RanIsPlanned
<1>3. OneSuccess /\ SuccessIsBacked /\ SnapshotIsCurrent
    BY AnswerFacts DEF Init, ChildInit, OneSuccess, SuccessIsBacked, SnapshotIsCurrent
<1> QED
    BY <1>1, <1>2, <1>3 DEF IInv

\* A stuttering step keeps it.
LEMMA StutterPreserves ==
    ASSUME IInv, UNCHANGED vars
    PROVE  IInv'
<1> USE DEF vars, warehouseVars, childVars, parentVars, IInv
<1>1. Shapes' /\ JobFollowsParent'
    BY DEF Shapes, JobFollowsParent, ChildLives
<1>2. RanIsPlanned' /\ OneSuccess' /\ SuccessIsBacked' /\ SnapshotIsCurrent'
    BY DEF RanIsPlanned, OneSuccess, SuccessIsBacked, SnapshotIsCurrent
<1> QED
    BY <1>1, <1>2

\* Every step of parent, child, provider and deployment keeps the invariant.
LEMMA NextPreserves ==
    ASSUME IInv, [Next]_vars
    PROVE  IInv'
<1>1. ASSUME NEW a \in Attempts, ParentStep(a) PROVE IInv'
    BY <1>1, PreparePreserves, PostPreserves, PollPreserves, ReadOutcomePreserves,
       RecordsPreserves DEF ParentStep
<1>2. ASSUME NEW a \in Attempts, ChildStep(a) PROVE IInv'
    BY <1>2, ChildAuditsPreserves, StartsPreserves, ValidatePreserves, ExecutePreserves,
       CommitPreserves, ChildEndsPreserves, ChildDiesPreserves, CancelPreserves DEF
           ChildStep
<1>3. CASE UNCHANGED vars
    BY <1>3, StutterPreserves
<1> QED
    BY <1>1, <1>2, <1>3, RedeployPreserves, SourceChangesPreserves DEF Next

\* Every state of parents and children satisfies the inductive invariant.
THEOREM PipelineInvariant == Spec => []IInv
<1>1. Init => IInv
    BY InitEstablishes
<1>2. IInv /\ [Next]_vars => IInv'
    BY NextPreserves
<1> QED
    BY <1>1, <1>2, PTL DEF Spec

\* The backend's and the child's state keeps its kinds: no job before the POST, no
\* ended job with a child that never ran, no target ahead of its source.
THEOREM PipelineTypeCorrect == Spec => []TypeOK
<1>1. IInv => TypeOK
    <2> SUFFICES ASSUME IInv PROVE TypeOK
        OBVIOUS
    <2>1. target \in 0 .. source /\ source \in 0 .. MaxChanges
        BY DEF IInv, Shapes
    <2>2. ASSUME NEW a \in Attempts
          PROVE  /\ pc[a] = "idle" => job[a] = "none" /\ audit[a] = NoAnswer
                 /\ cpc[a] = "none" => job[a] \notin {"InProgress", "Completed", "Failed"}
        BY DEF IInv, JobFollowsParent, ChildLives
    <2> QED
        BY <2>2 DEF IInv, Shapes, TypeOK
<1> QED
    BY <1>1, PipelineInvariant, PTL

\* FabricPipelineBackend reports SUCCEEDED only of an attempt whose job the provider
\* completed and whose child recorded exactly that of the planned configuration,
\* however many attempts overlap and whatever is lost, cancelled or deduplicated.
THEOREM PipelineSuccessIsProven == Spec => []SuccessIsProven
<1>1. IInv => SuccessIsProven
    BY AnswerFacts DEF IInv, OneSuccess, RanIsPlanned, SuccessIsProven
<1> QED
    BY <1>1, PipelineInvariant, PTL

\* execute_pipeline_child records SUCCEEDED only over a committed mutation or an
\* empty window, and executes only what its parent planned, although its parent
\* may have given up and other children may commit meanwhile.
THEOREM PipelineChildIsFaithful == Spec => []ChildIsFaithful
<1>1. IInv => ChildIsFaithful
    BY DEF IInv, SuccessIsBacked, RanIsPlanned, ChildIsFaithful, AuditFollowsCommit,
           ConfigIsBound
<1> QED
    BY <1>1, PipelineInvariant, PTL

\* Target and cert_progress move together and never back, whichever of any number
\* of overlapping children commits last.
THEOREM PipelineProgressIsSound == Spec => ProgressIsSound
<1>1. IInv => ProgressFollowsTarget
    BY DEF IInv, SnapshotIsCurrent, ProgressFollowsTarget
<1>2. ASSUME IInv, [Next]_vars PROVE target' >= target
    <2>1. target \in Nat
        BY <1>2 DEF IInv, Shapes
    <2>2. CASE UNCHANGED target
        BY <2>1, <2>2
    <2>3. ASSUME NEW a \in Attempts, Commit(a) PROVE target' >= target
        BY <1>2, <2>3 DEF Commit, warehouseVars, IInv, Shapes, SnapshotIsCurrent
    <2>4. ASSUME NEW a \in Attempts, ParentStep(a) PROVE UNCHANGED target
        BY <2>4 DEF ParentStep, Prepare, Post, Poll, ReadOutcome, Record, warehouseVars
    <2>5. ASSUME NEW a \in Attempts, ChildStep(a), ~Commit(a) PROVE UNCHANGED target
        BY <2>5 DEF ChildStep, ChildAudits, ChildStart, Validate, Execute, ChildEnds,
               ChildDies, CancelJob, warehouseVars
    <2> QED
        BY <1>2, <2>2, <2>3, <2>4, <2>5 DEF Next, Redeploy, SourceChanges, vars,
               warehouseVars
<1>3. IInv /\ IInv' /\ [Next]_vars => [ProgressFollowsTarget' /\ target' >= target]_vars
    <2>1. IInv' => ProgressFollowsTarget'
        BY <1>1, PTL
    <2> QED
        BY <1>2, <2>1
<1> QED
    BY <1>3, PipelineInvariant, PTL DEF Spec, ProgressIsSound
==============================================================================
