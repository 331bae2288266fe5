----------------------- MODULE QuarantineReplayProofs -----------------------
(***************************************************************************)
(* What execute_with_retry around execute_quarantine_replay guarantees for *)
(* every number of overlapping calls, attempts, batches and reviewers.     *)
(***************************************************************************)
EXTENDS QuarantineReplay, TLAPS

-----------------------------------------------------------------------------
(* The inductive invariant. *)

ReviewStates ==
    {[step |-> "idle"], [step |-> "done"]}
        \cup [step : {"validated"}, batch : Batches, event : ReviewEvents]

GovernanceShapes ==
    /\ events \in [Batches -> SUBSET ReviewEvents]
    /\ review \in [Reviews -> ReviewStates]

ReplayShapes ==
    /\ marker \in [Batches -> RunIds \cup {NoRun}]
    /\ scope \in [Calls -> (SUBSET Batches) \ {{}}]
    /\ replay \in [Calls -> ReplaySteps]
    /\ prepared \in [Calls -> [Batches -> Payloads \cup {"none"}]]
    /\ inflight \subseteq Mutations /\ applied \subseteq Mutations

Shapes == RetryTypeOK /\ GovernanceShapes /\ ReplayShapes

\* A review that was found valid still follows from the events, whatever was
\* inserted since.
ReviewsFollow ==
    /\ ReviewIsChain
    /\ \A v \in Reviews : review[v].step = "validated" =>
          \/ review[v].event.from = "OPEN"
          \/ \E f \in events[review[v].batch] : f.to = review[v].event.from

\* The batch was resolved, for good, by this correction.
Granted(q, correction) ==
    \E e \in events[q] : e.to = "RESOLVED" /\ e.correction = correction

CorrectionsGranted ==
    /\ \A m \in applied \cup inflight, q \in Batches :
          m.payload[q] \in Reviews => Granted(q, m.payload[q])
    /\ \A c \in Calls, q \in Batches :
          prepared[c][q] \in Reviews => Granted(q, prepared[c][q])

\* A mutation is of its call's current attempt, and the only one of it.
OneMutation ==
    /\ OneEffectPerCall
    /\ \A m \in applied \cup inflight : m.run = CurrentRun(m.run[1])

\* No mutation of the call is in the target or may still get there.
Clean(c) == \A m \in applied \cup inflight : m.run[1] # c

\* Before its mutation, and whenever a retry is still possible, a call is clean.
CleanUntilMutated(c) ==
    /\ replay[c] # "idle" <=> call[c].step = "attempt"
    /\ call[c].step \in {"idle", "lineage", "attempt"} => call[c].disposition = "none"
    /\ call[c].step \in {"idle", "lineage"} => Clean(c)
    /\ replay[c] \in {"scope", "payload", "mutate"} => Clean(c)
    /\ call[c].disposition = "RETRYABLE" => Clean(c)

\* An attempt mutates and marks with a payload for every batch of its scope.
ScopeIsPrepared(c) ==
    /\ replay[c] = "mutate" => \A q \in scope[c] : prepared[c][q] # "none"
    /\ replay[c] = "mark" =>
          \E m \in applied : m.run = CurrentRun(c) /\ \A q \in scope[c] : m.payload[q] # "none"

\* The call's mutation is in the target, and marked unless its answer was lost.
Effective(c) ==
    /\ \E m \in applied : m.run = CurrentRun(c)
    /\ \/ \A q \in scope[c] : marker[q] = CurrentRun(c)
       \/ call[c].disposition = "UNKNOWN_OUTCOME"

SuccessIsEffective(c) ==
    /\ call[c].step \in {"succeeded", "close_succeeded"} => Effective(c)
    /\ request[c] = "SUCCEEDED" => Effective(c)
    /\ request[c] \in {"SUCCEEDED", "FAILED"} => call[c].step \in Ended

\* Which audit rows there can be: none of an attempt that is not over, SUCCEEDED
\* only of the last one, retryable only of one without a mutation.
AuditsAreTrue(c) ==
    \A k \in 1 .. MaxAttempts :
        /\ k > call[c].attempt => audit[<<c, k>>] = NoAudit
        /\ k = call[c].attempt
              /\ call[c].step \notin Ended \cup {"close_failed", "close_succeeded"}
              => audit[<<c, k>>] = NoAudit
        /\ audit[<<c, k>>].status = "SUCCEEDED" =>
              /\ k = call[c].attempt /\ \E m \in applied : m.run = <<c, k>>
              /\ call[c].step \in Ended \cup {"close_succeeded"} /\ request[c] # "FAILED"
        /\ audit[<<c, k>>].retryable =>
              k < call[c].attempt \/ (call[c].step = "raised" /\ Clean(c))

\* Every attempt before the current one is in the lineage, failed and retryable.
EarlierAttemptsFailed(c) ==
    /\ \A k \in 1 .. MaxAttempts :
          /\ k < call[c].attempt =>
                <<c, k>> \in lineage
                   /\ audit[<<c, k>>] = [status |-> "FAILED", retryable |-> TRUE]
          /\ <<c, k>> \in lineage => k <= call[c].attempt
    /\ call[c].step \notin Ended \cup {"idle", "lineage"} => CurrentRun(c) \in lineage

CallIsSound(c) ==
    /\ CleanUntilMutated(c) /\ ScopeIsPrepared(c) /\ SuccessIsEffective(c)
    /\ AuditsAreTrue(c) /\ EarlierAttemptsFailed(c)

IInv ==
    /\ Shapes /\ ReviewsFollow /\ CorrectionsGranted /\ OneMutation /\ MarkerIsBacked
    /\ \A c \in Calls : CallIsSound(c)

-----------------------------------------------------------------------------
(* Steps of a call. *)

\* The call has moved to step s of attempt k with disposition d.
Moved(c, s, k, d) ==
    /\ call' \in [Calls -> [step : Steps, attempt : 1 .. MaxAttempts,
                            disposition : Dispositions]]
    /\ call'[c].step = s /\ call'[c].attempt = k /\ call'[c].disposition = d
    /\ \A b \in Calls \ {c} : call'[b] = call[b]

\* call' may be written with any of these updates.
LEMMA Moves ==
    ASSUME RetryTypeOK, NEW c \in Calls, NEW s \in Steps
    PROVE  /\ call' = [call EXCEPT ![c].step = s] =>
                 Moved(c, s, call[c].attempt, call[c].disposition)
           /\ \A d \in Dispositions :
                 call' = [call EXCEPT ![c].step = s, ![c].disposition = d] =>
                    Moved(c, s, call[c].attempt, d)
           /\ \A d \in Dispositions, k \in 1 .. MaxAttempts :
                 call' = [call EXCEPT ![c].step = s, ![c].disposition = d, ![c].attempt = k] =>
                    Moved(c, s, k, d)
<1>1. call \in [Calls -> [step : Steps, attempt : 1 .. MaxAttempts, disposition : Dispositions]]
    BY DEF RetryTypeOK
<1>2. ASSUME call' = [call EXCEPT ![c].step = s]
      PROVE  Moved(c, s, call[c].attempt, call[c].disposition)
    BY <1>1, <1>2 DEF Moved
<1>3. ASSUME NEW d \in Dispositions, call' = [call EXCEPT ![c].step = s, ![c].disposition = d]
      PROVE  Moved(c, s, call[c].attempt, d)
    BY <1>1, <1>3 DEF Moved
<1>4. ASSUME NEW d \in Dispositions, NEW k \in 1 .. MaxAttempts,
             call' = [call EXCEPT ![c].step = s, ![c].disposition = d, ![c].attempt = k]
      PROVE  Moved(c, s, k, d)
    BY <1>1, <1>4 DEF Moved
<1> QED
    BY <1>2, <1>3, <1>4

\* What every step of a call leaves alone: the other calls, what is in the target
\* or marked, the reviews.
CallStep(c) ==
    /\ \A b \in Calls \ {c} :
          /\ call'[b] = call[b] /\ replay'[b] = replay[b]
          /\ prepared'[b] = prepared[b] /\ request'[b] = request[b]
          /\ \A k \in 1 .. MaxAttempts : /\ audit'[<<b, k>>] = audit[<<b, k>>]
                                         /\ <<b, k>> \in lineage' <=> <<b, k>> \in lineage
    /\ applied \subseteq applied'
    /\ \A m \in applied' \cup inflight' :
          m \in applied \cup inflight \/ (m = Mutation(c) /\ replay[c] = "mutate")
    /\ \A q \in Batches : marker[q] # NoRun => marker'[q] = marker[q]
    /\ UNCHANGED <<scope, events, review>>

\* The run of a call is its own, and a real one.
LEMMA RunFacts ==
    ASSUME RetryTypeOK, NEW c \in Calls
    PROVE  /\ CurrentRun(c) \in RunIds /\ CurrentRun(c) # NoRun
           /\ call[c].attempt \in 1 .. MaxAttempts
           /\ CurrentRun(c)[1] = c
BY ReplayAssumption DEF RetryTypeOK, CurrentRun, RunIds

\* The mutation a call sends carries its own run and the payload it prepared.
LEMMA MutationFacts ==
    ASSUME Shapes, NEW c \in Calls
    PROVE  /\ Mutation(c) \in Mutations
           /\ Mutation(c).run = CurrentRun(c) /\ Mutation(c).run[1] = c
           /\ Mutation(c).payload = prepared[c]
<1>1. CurrentRun(c) \in RunIds /\ CurrentRun(c)[1] = c
    BY RunFacts DEF Shapes
<1>2. prepared[c] \in [Batches -> Payloads \cup {"none"}]
    BY DEF Shapes, ReplayShapes
<1> QED
    BY <1>1, <1>2 DEF Mutation, Mutations

\* Every mutation belongs to the run of a call.
LEMMA MutationsHaveRuns ==
    ASSUME NEW m \in Mutations
    PROVE  m.run \in RunIds /\ m.run[1] \in Calls
BY DEF Mutations, RunIds

\* A step of one call does not disturb what holds of the others.
LEMMA OthersAreSound ==
    ASSUME IInv, NEW c \in Calls, CallStep(c), NEW b \in Calls \ {c}
    PROVE  CallIsSound(b)'
<1>1. /\ call'[b] = call[b] /\ replay'[b] = replay[b] /\ prepared'[b] = prepared[b]
      /\ request'[b] = request[b] /\ scope' = scope /\ CurrentRun(b)' = CurrentRun(b)
    BY DEF CallStep, CurrentRun
<1>2. Clean(b) => Clean(b)'
    BY MutationFacts DEF IInv, CallStep, Clean
<1>3. applied \subseteq applied'
    BY DEF CallStep
<1>4. Effective(b) => Effective(b)'
    <2>1. \A q \in scope[b] : marker[q] = CurrentRun(b) => marker'[q] = CurrentRun(b)
        BY RunFacts DEF CallStep, IInv, Shapes, ReplayShapes
    <2> QED
        BY <1>1, <1>3, <2>1 DEF Effective
<1>5. CallIsSound(b)
    BY DEF IInv
<1>6. CleanUntilMutated(b)'
    BY <1>1, <1>2, <1>5 DEF CallIsSound, CleanUntilMutated
<1>7. ScopeIsPrepared(b)'
    BY <1>1, <1>3, <1>5 DEF CallIsSound, ScopeIsPrepared
<1>8. SuccessIsEffective(b)'
    BY <1>1, <1>4, <1>5 DEF CallIsSound, SuccessIsEffective
<1>9. \A k \in 1 .. MaxAttempts : /\ audit'[<<b, k>>] = audit[<<b, k>>]
                                  /\ <<b, k>> \in lineage' <=> <<b, k>> \in lineage
    BY DEF CallStep
<1>10. AuditsAreTrue(b)'
    BY <1>1, <1>2, <1>3, <1>5, <1>9 DEF CallIsSound, AuditsAreTrue
<1>11. EarlierAttemptsFailed(b)'
    <2>1. CurrentRun(b) \in lineage => CurrentRun(b) \in lineage'
        BY <1>9, RunFacts DEF CurrentRun, IInv, Shapes
    <2> QED
        BY <1>1, <1>5, <1>9, <2>1 DEF CallIsSound, EarlierAttemptsFailed
<1> QED
    BY <1>6, <1>7, <1>8, <1>10, <1>11 DEF CallIsSound

\* A step of a call that keeps its attempt, or is clean, keeps mutations unique.
LEMMA MutationStaysOne ==
    ASSUME IInv, NEW c \in Calls, CallStep(c), CurrentRun(c)' = CurrentRun(c) \/ Clean(c)',
           applied \subseteq Mutations, inflight \subseteq Mutations
    PROVE  OneMutation'
<1>1. \A b \in Calls \ {c} : CurrentRun(b)' = CurrentRun(b)
    BY DEF CallStep, CurrentRun
<1>2. replay[c] = "mutate" => Clean(c)
    BY DEF IInv, CallIsSound, CleanUntilMutated
<1>3. /\ Mutation(c).run = CurrentRun(c) /\ Mutation(c).run[1] = c
    BY MutationFacts DEF IInv
<1>4. \A m \in applied' \cup inflight' :
         m \in applied \cup inflight \/ (m = Mutation(c) /\ replay[c] = "mutate")
    BY DEF CallStep
<1>5. OneEffectPerCall'
    BY <1>2, <1>3, <1>4 DEF IInv, OneMutation, OneEffectPerCall, Clean
<1>6. ASSUME NEW m \in applied' \cup inflight' PROVE m.run = CurrentRun(m.run[1])'
    <2>1. CASE m.run[1] = c
        <3>1. CurrentRun(c)' = CurrentRun(c)
            BY <2>1 DEF Clean
        <3> QED
            BY <1>3, <1>4, <2>1, <3>1 DEF IInv, OneMutation
    <2>2. CASE m.run[1] # c
        <3>1. m \in applied \cup inflight
            BY <1>3, <1>4, <2>2
        <3>2. m.run[1] \in Calls
            BY <3>1, MutationsHaveRuns
        <3> QED
            BY <1>1, <2>2, <3>1, <3>2 DEF IInv, OneMutation
    <2> QED
        BY <2>1, <2>2
<1> QED
    BY <1>5, <1>6 DEF OneMutation

\* A step of a call keeps reviews and corrections sound.
LEMMA CorrectionsStayGranted ==
    ASSUME IInv, NEW c \in Calls, CallStep(c),
           \A q \in Batches : prepared'[c][q] \in Reviews => Granted(q, prepared'[c][q])
    PROVE  ReviewsFollow' /\ CorrectionsGranted'
<1>1. UNCHANGED <<events, review>>
    BY DEF CallStep
<1>2. ReviewsFollow'
    BY <1>1 DEF IInv, ReviewsFollow, ReviewIsChain
<1>3. \A q \in Batches : \A p : Granted(q, p)' = Granted(q, p)
    BY <1>1 DEF Granted
<1>4. Mutation(c).payload = prepared[c]
    BY MutationFacts DEF IInv
<1>5. \A m \in applied' \cup inflight', q \in Batches :
         m.payload[q] \in Reviews => Granted(q, m.payload[q])
    BY <1>4 DEF IInv, CorrectionsGranted, CallStep
<1>6. \A b \in Calls, q \in Batches :
         prepared'[b][q] \in Reviews => Granted(q, prepared'[b][q])
    BY DEF IInv, CorrectionsGranted, CallStep
<1>7. CorrectionsGranted'
    BY <1>3, <1>5, <1>6 DEF CorrectionsGranted
<1> QED
    BY <1>2, <1>7

\* A step that marks nothing keeps the markers backed.
LEMMA MarkersStayBacked ==
    ASSUME IInv, NEW c \in Calls, CallStep(c), UNCHANGED marker
    PROVE  MarkerIsBacked'
BY DEF IInv, MarkerIsBacked, CallStep

\* What a step of a call has to establish of that call, and no more.
LEMMA CallStepPreserves ==
    ASSUME IInv, NEW c \in Calls, CallStep(c), UNCHANGED marker, Shapes', CallIsSound(c)',
           CurrentRun(c)' = CurrentRun(c) \/ Clean(c)',
           \A q \in Batches : prepared'[c][q] \in Reviews => Granted(q, prepared'[c][q])
    PROVE  IInv'
<1>1. OneMutation'
    BY MutationStaysOne DEF IInv, Shapes, ReplayShapes
<1>2. ReviewsFollow' /\ CorrectionsGranted'
    BY CorrectionsStayGranted
<1>3. MarkerIsBacked'
    BY MarkersStayBacked
<1>4. \A b \in Calls : CallIsSound(b)'
    BY OthersAreSound
<1> QED
    BY <1>1, <1>2, <1>3, <1>4 DEF IInv

\* Until an attempt is over its own audit row does not exist, so that a step that
\* writes no row leaves them true.
LEMMA AuditsStayTrue ==
    ASSUME RetryTypeOK, NEW c \in Calls, CallIsSound(c),
           call[c].step \notin Ended \cup {"close_failed", "close_succeeded"},
           call'[c].attempt = call[c].attempt, UNCHANGED audit
    PROVE  AuditsAreTrue(c)'
<1>1. call[c].attempt \in 1 .. MaxAttempts
    BY DEF RetryTypeOK
<1>2. ASSUME NEW k \in 1 .. MaxAttempts, k >= call[c].attempt PROVE audit[<<c, k>>] = NoAudit
    BY <1>1, <1>2 DEF CallIsSound, AuditsAreTrue
<1>3. ASSUME NEW k \in 1 .. MaxAttempts, k < call[c].attempt
      PROVE  audit[<<c, k>>] = [status |-> "FAILED", retryable |-> TRUE]
    BY <1>3 DEF CallIsSound, EarlierAttemptsFailed
<1> SUFFICES ASSUME NEW k \in 1 .. MaxAttempts
             PROVE  /\ k >= call[c].attempt => audit[<<c, k>>] = NoAudit
                    /\ audit[<<c, k>>].status # "SUCCEEDED"
                    /\ audit[<<c, k>>].retryable => k < call[c].attempt
    BY <1>1 DEF AuditsAreTrue
<1>4. CASE k >= call[c].attempt
    BY <1>2, <1>4 DEF NoAudit
<1>5. CASE k < call[c].attempt
    BY <1>1, <1>3, <1>5
<1> QED
    BY <1>1, <1>4, <1>5

\* The same of a step that writes neither rows nor lineage.
LEMMA RecordsStayTrue ==
    ASSUME RetryTypeOK, NEW c \in Calls, CallIsSound(c),
           call[c].step \notin Ended \cup {"close_failed", "close_succeeded"},
           call'[c].attempt = call[c].attempt, UNCHANGED <<audit, lineage>>,
           \/ call'[c].step \in Ended \cup {"lineage"}
           \/ call[c].step \notin {"idle", "lineage"}
    PROVE  AuditsAreTrue(c)' /\ EarlierAttemptsFailed(c)'
<1>1. AuditsAreTrue(c)'
    BY AuditsStayTrue
<1>2. CurrentRun(c)' = CurrentRun(c)
    BY DEF CurrentRun
<1> QED
    BY <1>1, <1>2 DEF CallIsSound, EarlierAttemptsFailed

-----------------------------------------------------------------------------
(* The attempt of a call. *)

\* The attempt raises.  Its mutation may be in the target, or get there, unless
\* the error is transient.
LEMMA RaisesPreserves ==
    ASSUME IInv, NEW c \in Calls, replay[c] # "idle", NEW exc \in Exceptions, RaiseFrom(c, exc),
           UNCHANGED <<governanceVars, marker, scope>>,
           applied \subseteq applied', applied' \cup inflight' \subseteq Mutations,
           \A m \in applied' \cup inflight' :
              m \in applied \cup inflight \/ (m = Mutation(c) /\ replay[c] = "mutate"),
           exc = "RetryableExecutionError" => replay[c] # "mark" /\ UNCHANGED targetVars
    PROVE  IInv'
<1>1. PICK s \in {"resolve", "failed"}, d \in {"RETRYABLE", "NON_RETRYABLE", "UNKNOWN_OUTCOME"} :
         /\ call' = [call EXCEPT ![c].step = s, ![c].disposition = d]
         /\ d = "RETRYABLE" => exc = "RetryableExecutionError"
    BY DEF RaiseFrom, AttemptRaises, Classify, Exceptions
<1>2. Moved(c, s, call[c].attempt, d)
    BY <1>1, Moves DEF IInv, Shapes, Steps, Dispositions
<1>3. /\ replay' = [replay EXCEPT ![c] = "idle"]
      /\ prepared' = [prepared EXCEPT ![c] = NoPayloads]
      /\ call[c].step = "attempt" /\ UNCHANGED <<request, lineage, audit>>
    BY DEF RaiseFrom, AttemptRaises, Forget
<1>4. /\ replay' \in [Calls -> ReplaySteps] /\ replay'[c] = "idle"
      /\ \A b \in Calls \ {c} : replay'[b] = replay[b]
    BY <1>3 DEF IInv, Shapes, ReplayShapes, ReplaySteps
<1>5. /\ prepared' \in [Calls -> [Batches -> Payloads \cup {"none"}]]
      /\ prepared'[c] = NoPayloads
      /\ \A b \in Calls \ {c} : prepared'[b] = prepared[b]
    BY <1>3 DEF IInv, Shapes, ReplayShapes, NoPayloads
<1>6. CallStep(c)
    BY <1>2, <1>3, <1>4, <1>5 DEF CallStep, Moved, governanceVars
<1>7. Shapes'
    <2>1. RetryTypeOK'
        BY <1>2, <1>3 DEF Moved, IInv, Shapes, RetryTypeOK
    <2>2. GovernanceShapes' /\ ReplayShapes'
        BY <1>4, <1>5 DEF IInv, Shapes, GovernanceShapes, ReplayShapes, governanceVars
    <2> QED
        BY <2>1, <2>2 DEF Shapes
<1>8. CallIsSound(c)'
    <2>1. CallIsSound(c)
        BY DEF IInv
    <2>2. d = "RETRYABLE" => Clean(c)'
        <3>1. d = "RETRYABLE" => Clean(c)
            BY <1>1, <2>1 DEF CallIsSound, CleanUntilMutated, IInv, Shapes, ReplayShapes,
               ReplaySteps
        <3> QED
            BY <1>1, <3>1 DEF Clean, targetVars
    <2>3. CleanUntilMutated(c)' /\ ScopeIsPrepared(c)'
        BY <1>2, <1>4, <2>2 DEF Moved, CleanUntilMutated, ScopeIsPrepared
    <2>4. SuccessIsEffective(c)'
        BY <1>2, <1>3, <2>1 DEF Moved, CallIsSound, SuccessIsEffective, Ended
    <2>5. AuditsAreTrue(c)' /\ EarlierAttemptsFailed(c)'
        BY <1>2, <1>3, <2>1, RecordsStayTrue DEF Moved, IInv, Shapes, Ended
    <2> QED
        BY <2>3, <2>4, <2>5 DEF CallIsSound
<1>9. CurrentRun(c)' = CurrentRun(c)
    BY <1>2 DEF Moved, CurrentRun
<1>10. \A q \in Batches : prepared'[c][q] \notin Reviews
    BY <1>5, ReplayAssumption DEF NoPayloads
<1> QED
    BY <1>6, <1>7, <1>8, <1>9, <1>10, CallStepPreserves

\* The scope is found unmarked, or one more batch gets its approved payload.
LEMMA PreparesPreserves ==
    ASSUME IInv, NEW c \in Calls, NEW next \in {"payload", "mutate"},
           replay[c] \in {"scope", "payload"}, replay' = [replay EXCEPT ![c] = next],
           \/ UNCHANGED prepared
           \/ \E q \in scope[c], payload \in Payloads :
                 /\ payload \in Reviews => Granted(q, payload)
                 /\ prepared' = [prepared EXCEPT ![c][q] = payload],
           next = "mutate" => \A q \in scope[c] : prepared'[c][q] # "none",
           UNCHANGED <<retryVars, governanceVars, marker, scope, targetVars>>
    PROVE  IInv'
<1>1. /\ replay' \in [Calls -> ReplaySteps] /\ replay'[c] = next
      /\ \A b \in Calls \ {c} : replay'[b] = replay[b]
    BY DEF IInv, Shapes, ReplayShapes, ReplaySteps
<1>2. /\ prepared' \in [Calls -> [Batches -> Payloads \cup {"none"}]]
      /\ \A b \in Calls \ {c} : prepared'[b] = prepared[b]
    BY DEF IInv, Shapes, ReplayShapes
<1>3. CallStep(c)
    BY <1>1, <1>2 DEF CallStep, retryVars, governanceVars, targetVars
<1>4. Shapes'
    BY <1>1, <1>2 DEF IInv, Shapes, RetryTypeOK, GovernanceShapes, ReplayShapes, retryVars,
                      governanceVars, targetVars
<1>5. CallIsSound(c)
    BY DEF IInv
<1>6. CleanUntilMutated(c)'
    BY <1>1, <1>5 DEF CallIsSound, CleanUntilMutated, Clean, retryVars, targetVars
<1>7. ScopeIsPrepared(c)'
    BY <1>1 DEF ScopeIsPrepared
<1>8. SuccessIsEffective(c)'
    BY <1>5 DEF CallIsSound, SuccessIsEffective, Effective, CurrentRun, retryVars, targetVars
<1>9. AuditsAreTrue(c)' /\ EarlierAttemptsFailed(c)'
    BY <1>5 DEF CallIsSound, AuditsAreTrue, EarlierAttemptsFailed, CurrentRun, Clean, retryVars,
                targetVars
<1>10. \A q \in Batches : prepared'[c][q] \in Reviews => Granted(q, prepared'[c][q])
    BY DEF IInv, CorrectionsGranted, Shapes, ReplayShapes
<1>11. CurrentRun(c)' = CurrentRun(c)
    BY DEF CurrentRun, retryVars
<1> QED
    BY <1>3, <1>4, <1>6, <1>7, <1>8, <1>9, <1>10, <1>11, CallStepPreserves DEF CallIsSound

\* The target commits the mutation and the call learns of it.
LEMMA MutationPassesPreserves ==
    ASSUME IInv, NEW c \in Calls, MutationPasses(c)
    PROVE  IInv'
<1>1. /\ replay[c] = "mutate" /\ replay' = [replay EXCEPT ![c] = "mark"]
      /\ applied' = applied \cup {Mutation(c)}
      /\ UNCHANGED <<retryVars, events, review, marker, scope, prepared, inflight>>
    BY DEF MutationPasses, Step, governanceVars
<1>2. /\ replay' \in [Calls -> ReplaySteps] /\ replay'[c] = "mark"
      /\ \A b \in Calls \ {c} : replay'[b] = replay[b]
    BY <1>1 DEF IInv, Shapes, ReplayShapes, ReplaySteps
<1>3. /\ Mutation(c) \in Mutations /\ Mutation(c).run = CurrentRun(c)
      /\ Mutation(c).payload = prepared[c]
    BY MutationFacts DEF IInv
<1>4. CallStep(c)
    BY <1>1, <1>2 DEF CallStep, retryVars
<1>5. Shapes'
    <2>1. applied' \subseteq Mutations
        BY <1>1, <1>3 DEF IInv, Shapes, ReplayShapes
    <2> QED
        BY <1>1, <1>2, <2>1 DEF IInv, Shapes, RetryTypeOK, GovernanceShapes, ReplayShapes, retryVars
<1>6. CallIsSound(c) /\ CurrentRun(c)' = CurrentRun(c) /\ call' = call
    BY <1>1 DEF IInv, CurrentRun, retryVars
<1>7. call[c].step = "attempt" /\ call[c].disposition = "none"
    BY <1>1, <1>6 DEF CallIsSound, CleanUntilMutated
<1>8. CleanUntilMutated(c)'
    BY <1>2, <1>6, <1>7 DEF CleanUntilMutated
<1>9. ScopeIsPrepared(c)'
    <2>1. \A q \in scope[c] : Mutation(c).payload[q] # "none"
        BY <1>1, <1>3, <1>6 DEF CallIsSound, ScopeIsPrepared
    <2>2. Mutation(c) \in applied' /\ Mutation(c).run = CurrentRun(c)' /\ scope' = scope
        BY <1>1, <1>3, <1>6
    <2> QED
        BY <1>2, <2>1, <2>2 DEF ScopeIsPrepared
<1>10. SuccessIsEffective(c)'
    BY <1>1, <1>6, <1>7 DEF CallIsSound, SuccessIsEffective, Ended, retryVars
<1>11. AuditsAreTrue(c)' /\ EarlierAttemptsFailed(c)'
    BY <1>1, <1>6, <1>7, RecordsStayTrue DEF IInv, Shapes, retryVars, Ended
<1>12. \A q \in Batches : prepared'[c][q] \in Reviews => Granted(q, prepared'[c][q])
    BY <1>1 DEF IInv, CorrectionsGranted
<1> QED
    BY <1>1, <1>4, <1>5, <1>6, <1>8, <1>9, <1>10, <1>11, <1>12, CallStepPreserves DEF CallIsSound

\* The batches are marked, and the attempt returns, or raises although it marked.
LEMMA MarksPreserves ==
    ASSUME IInv, NEW c \in Calls, replay[c] = "mark", ~MarkConflicts(c),
           marker' = [q \in Batches |-> IF q \in scope[c] THEN CurrentRun(c) ELSE marker[q]],
           Return(c) \/ RaiseFrom(c, "other"), UNCHANGED <<governanceVars, scope, targetVars>>
    PROVE  IInv'
<1>1. /\ replay' = [replay EXCEPT ![c] = "idle"]
      /\ prepared' = [prepared EXCEPT ![c] = NoPayloads]
      /\ call[c].step = "attempt" /\ UNCHANGED <<request, lineage, audit>>
    BY DEF Return, AttemptReturns, RaiseFrom, AttemptRaises, Forget
<1>2. \/ Moved(c, "succeeded", call[c].attempt, call[c].disposition)
      \/ Moved(c, "failed", call[c].attempt, "NON_RETRYABLE")
    <2>1. CASE Return(c)
        BY <2>1, Moves DEF Return, AttemptReturns, IInv, Shapes, Steps
    <2>2. CASE RaiseFrom(c, "other")
        <3>1. call' = [call EXCEPT ![c].step = "failed", ![c].disposition = "NON_RETRYABLE"]
            BY <2>2 DEF RaiseFrom, AttemptRaises, Classify
        <3> QED
            BY <3>1, Moves DEF IInv, Shapes, Steps, Dispositions
    <2> QED
        BY <2>1, <2>2
<1>3. /\ replay' \in [Calls -> ReplaySteps] /\ replay'[c] = "idle"
      /\ \A b \in Calls \ {c} : replay'[b] = replay[b]
    BY <1>1 DEF IInv, Shapes, ReplayShapes, ReplaySteps
<1>4. /\ prepared' \in [Calls -> [Batches -> Payloads \cup {"none"}]]
      /\ prepared'[c] = NoPayloads
      /\ \A b \in Calls \ {c} : prepared'[b] = prepared[b]
    BY <1>1 DEF IInv, Shapes, ReplayShapes, NoPayloads
<1>5. \A q \in Batches : marker[q] # NoRun => marker'[q] = marker[q]
    BY DEF MarkConflicts
<1>6. CallStep(c)
    BY <1>1, <1>2, <1>3, <1>4, <1>5 DEF CallStep, Moved, governanceVars, targetVars
<1>7. CurrentRun(c)' = CurrentRun(c) /\ CurrentRun(c) \in RunIds /\ CurrentRun(c)[1] = c
    BY <1>2, RunFacts DEF Moved, CurrentRun, IInv, Shapes
<1>8. Shapes'
    <2>1. RetryTypeOK'
        BY <1>1, <1>2 DEF Moved, IInv, Shapes, RetryTypeOK
    <2>2. marker' \in [Batches -> RunIds \cup {NoRun}]
        BY <1>7 DEF IInv, Shapes, ReplayShapes
    <2>3. GovernanceShapes' /\ ReplayShapes'
        BY <1>3, <1>4, <2>2 DEF IInv, Shapes, GovernanceShapes, ReplayShapes, governanceVars,
                                targetVars
    <2> QED
        BY <2>1, <2>3 DEF Shapes
<1>9. CallIsSound(c)
    BY DEF IInv
<1>10. PICK m \in applied : m.run = CurrentRun(c) /\ \A q \in scope[c] : m.payload[q] # "none"
    BY <1>9 DEF CallIsSound, ScopeIsPrepared
<1>11. CallIsSound(c)'
    <2>1. call[c].disposition = "none" /\ request[c] \notin {"SUCCEEDED", "FAILED"}
        BY <1>1, <1>9 DEF CallIsSound, CleanUntilMutated, SuccessIsEffective, Ended
    <2>2. CleanUntilMutated(c)' /\ ScopeIsPrepared(c)'
        BY <1>2, <1>3, <2>1 DEF Moved, CleanUntilMutated, ScopeIsPrepared
    <2>3. Effective(c)'
        <3>1. \A q \in scope[c] : marker'[q] = CurrentRun(c)'
            BY <1>7 DEF IInv, Shapes, ReplayShapes
        <3> QED
            BY <1>7, <1>10, <3>1 DEF Effective, targetVars
    <2>4. SuccessIsEffective(c)'
        BY <1>1, <2>1, <2>3 DEF SuccessIsEffective
    <2>5. AuditsAreTrue(c)' /\ EarlierAttemptsFailed(c)'
        BY <1>1, <1>2, <1>9, RecordsStayTrue DEF Moved, IInv, Shapes, Ended
    <2> QED
        BY <2>2, <2>4, <2>5 DEF CallIsSound
<1>12. OneMutation'
    BY <1>6, <1>7, MutationStaysOne DEF IInv, Shapes, ReplayShapes
<1>13. ReviewsFollow' /\ CorrectionsGranted'
    <2>1. \A q \in Batches : prepared'[c][q] \notin Reviews
        BY <1>4, ReplayAssumption DEF NoPayloads
    <2> QED
        BY <1>6, <2>1, CorrectionsStayGranted
<1>14. MarkerIsBacked'
    <2> SUFFICES ASSUME NEW q \in Batches, marker'[q] # NoRun
                 PROVE  /\ \E n \in applied : n.run = marker'[q] /\ n.payload[q] # "none"
                        /\ \A p \in scope[marker'[q][1]] : marker'[p] = marker'[q]
        BY DEF MarkerIsBacked, targetVars
    <2>1. CASE q \in scope[c]
        <3>1. marker'[q] = CurrentRun(c) /\ \A p \in scope[c] : marker'[p] = CurrentRun(c)
            BY <2>1 DEF IInv, Shapes, ReplayShapes
        <3> QED
            BY <1>7, <1>10, <2>1, <3>1
    <2>2. CASE q \notin scope[c]
        <3>1. marker'[q] = marker[q]
            BY <2>2
        <3>2. marker[q] \in RunIds
            BY <3>1 DEF IInv, Shapes, ReplayShapes
        <3>3. marker[q][1] \in Calls
            BY <3>2 DEF RunIds
        <3>4. scope[marker[q][1]] \subseteq Batches
            BY <3>3 DEF IInv, Shapes, ReplayShapes
        <3>5. \A p \in scope[marker[q][1]] : marker[p] = marker[q]
            BY <3>1 DEF IInv, MarkerIsBacked
        <3> QED
            BY <1>5, <3>1, <3>4, <3>5 DEF IInv, MarkerIsBacked
    <2> QED
        BY <2>1, <2>2
<1>15. \A b \in Calls : CallIsSound(b)'
    BY <1>6, <1>11, OthersAreSound
<1> QED
    BY <1>8, <1>12, <1>13, <1>14, <1>15 DEF IInv

\* The markers of the scope are read: none yet, all of this run, or a conflict.
LEMMA ReadScopePreserves ==
    ASSUME IInv, NEW c \in Calls, ReadScope(c)
    PROVE  IInv'
<1>1. replay[c] = "scope" /\ UNCHANGED <<governanceVars, marker, scope, targetVars>>
    BY DEF ReadScope
<1>2. CASE Step(c, "payload") /\ UNCHANGED prepared
    BY <1>1, <1>2, PreparesPreserves DEF Step
<1>3. CASE RaiseFrom(c, "other")
    <2>1. "other" \in Exceptions /\ applied' \cup inflight' \subseteq Mutations
        BY <1>1 DEF Exceptions, IInv, Shapes, ReplayShapes, targetVars
    <2> QED
        BY <1>1, <1>3, <2>1, RaisesPreserves DEF targetVars
<1>4. {marker[q] : q \in scope[c]} # {CurrentRun(c)}
    <2>1. PICK q \in scope[c] : q \in Batches
        BY DEF IInv, Shapes, ReplayShapes
    <2>2. CurrentRun(c) # NoRun /\ CurrentRun(c)[1] = c
        BY RunFacts DEF IInv, Shapes
    <2>3. Clean(c)
        BY <1>1 DEF IInv, CallIsSound, CleanUntilMutated
    <2>4. marker[q] # CurrentRun(c)
        BY <2>1, <2>2, <2>3 DEF IInv, MarkerIsBacked, Clean
    <2> QED
        BY <2>4
<1> QED
    BY <1>2, <1>3, <1>4 DEF ReadScope

\* The events of a chain: an allowed status is left once, and a terminal one is last.
LEMMA LatestFacts ==
    ASSUME NEW rows \in SUBSET ReviewEvents, IsReviewChain(rows), rows # {}
    PROVE  /\ Latest(rows) \in rows
           /\ \A e \in rows : e.to \in Terminal => Latest(rows) = e
<1>1. \A e \in rows : /\ e.from \in {"OPEN", "UNDER_REVIEW"}
                      /\ e.from = "OPEN" => e.to \in {"UNDER_REVIEW"} \cup Terminal
                      /\ e.from = "UNDER_REVIEW" => e.to \in Terminal
    BY DEF ReviewEvents, AllowedTransitions
<1>2. \E e \in rows : \A f \in rows : f.from # e.to
    <2>1. CASE \E e \in rows : e.to \in Terminal
        BY <1>1, <2>1 DEF Terminal
    <2>2. CASE \A e \in rows : e.to \notin Terminal
        BY <1>1, <2>2
    <2> QED
        BY <2>1, <2>2
<1>3. Latest(rows) \in rows /\ \A f \in rows : f.from # Latest(rows).to
    BY <1>2 DEF Latest
<1>4. ASSUME NEW e \in rows, NEW l \in rows, e.to \in Terminal, \A f \in rows : f.from # l.to
      PROVE  l = e
    <2>1. CASE e.from = "OPEN"
        <3>1. l.from = "OPEN"
            BY <1>1, <1>4, <2>1 DEF IsReviewChain, Terminal
        <3> QED
            BY <2>1, <3>1 DEF IsReviewChain
    <2>2. CASE e.from = "UNDER_REVIEW"
        <3>1. PICK f \in rows : f.to = "UNDER_REVIEW"
            BY <2>2 DEF IsReviewChain
        <3>2. f.from = "OPEN"
            BY <1>1, <3>1 DEF Terminal
        <3>3. l.from = "UNDER_REVIEW"
            BY <1>1, <1>4, <2>2, <3>1, <3>2 DEF IsReviewChain
        <3> QED
            BY <2>2, <3>3 DEF IsReviewChain
    <2> QED
        BY <1>1, <2>1, <2>2
<1> QED
    BY <1>3, <1>4

\* A payload is prepared when the case approves it, the original or its correction.
LEMMA LoadPayloadPreserves ==
    ASSUME IInv, NEW c \in Calls, LoadPayload(c)
    PROVE  IInv'
<1>1. replay[c] = "payload" /\ UNCHANGED <<governanceVars, marker, scope, targetVars>>
    BY DEF LoadPayload
<1>2. CASE RaiseFrom(c, "other")
    <2>1. "other" \in Exceptions /\ applied' \cup inflight' \subseteq Mutations
        BY <1>1 DEF Exceptions, IInv, Shapes, ReplayShapes, targetVars
    <2> QED
        BY <1>1, <1>2, <2>1, RaisesPreserves DEF targetVars
<1>3. ASSUME NEW q \in scope[c], NEW payload \in Payloads, Approved(q, payload),
             prepared' = [prepared EXCEPT ![c][q] = payload],
             Step(c, IF \A p \in scope[c] \ {q} : prepared[c][p] # "none"
                     THEN "mutate" ELSE "payload")
      PROVE  IInv'
    <2>1. q \in Batches /\ scope[c] \subseteq Batches
        BY DEF IInv, Shapes, ReplayShapes
    <2>2. payload \in Reviews => Granted(q, payload)
        <3> SUFFICES ASSUME payload \in Reviews PROVE Granted(q, payload)
            OBVIOUS
        <3>1. CaseStatus(q) = "RESOLVED" /\ payload = CaseCorrection(q)
            BY <1>3, ReplayAssumption DEF Approved
        <3>2. events[q] \in SUBSET ReviewEvents /\ IsReviewChain(events[q])
            BY <2>1 DEF IInv, Shapes, GovernanceShapes, ReviewsFollow, ReviewIsChain
        <3>3. Latest(events[q]).to = "RESOLVED" /\ events[q] # {}
            BY <3>1 DEF CaseStatus, Latest
        <3>4. Latest(events[q]) \in events[q]
            BY <3>2, <3>3, LatestFacts
        <3> QED
            BY <3>1, <3>3, <3>4 DEF Granted, CaseCorrection
    <2>3. PICK next \in {"payload", "mutate"} :
             /\ replay' = [replay EXCEPT ![c] = next] /\ UNCHANGED retryVars
             /\ next = "mutate" => \A p \in scope[c] \ {q} : prepared[c][p] # "none"
        BY <1>3 DEF Step
    <2>4. /\ prepared'[c][q] # "none"
          /\ \A p \in scope[c] \ {q} : prepared'[c][p] = prepared[c][p]
        <3>1. /\ prepared[c] \in [Batches -> Payloads \cup {"none"}]
              /\ prepared'[c] = [prepared[c] EXCEPT ![q] = payload]
            BY <1>3 DEF IInv, Shapes, ReplayShapes
        <3>2. payload # "none"
            BY ReplayAssumption DEF Payloads
        <3> QED
            BY <2>1, <3>1, <3>2
    <2>5. next = "mutate" => \A p \in scope[c] : prepared'[c][p] # "none"
        BY <2>3, <2>4
    <2> QED
        BY <1>1, <1>3, <2>2, <2>3, <2>5, PreparesPreserves
<1> QED
    BY <1>2, <1>3 DEF LoadPayload

\* The provider or a control-plane read raises before anything was mutated.
LEMMA LoadFailsPreserves ==
    ASSUME IInv, NEW c \in Calls, LoadFails(c)
    PROVE  IInv'
<1>1. replay[c] \in {"scope", "payload"} /\ UNCHANGED <<governanceVars, marker, scope, targetVars>>
    BY DEF LoadFails
<1>2. PICK exc \in Exceptions : RaiseFrom(c, exc)
    BY DEF LoadFails, Exceptions
<1>3. applied' \cup inflight' \subseteq Mutations
    BY <1>1 DEF IInv, Shapes, ReplayShapes, targetVars
<1> QED
    BY <1>1, <1>2, <1>3, RaisesPreserves DEF targetVars

\* The mutation is rolled back, or ends in an error whatever became of it.
LEMMA MutationFailsPreserves ==
    ASSUME IInv, NEW c \in Calls, MutationFails(c) \/ MutationUnknown(c)
    PROVE  IInv'
<1>1. /\ replay[c] = "mutate" /\ UNCHANGED <<governanceVars, marker, scope>>
      /\ applied' \in {applied, applied \cup {Mutation(c)}}
      /\ inflight' \in {inflight, inflight \cup {Mutation(c)}}
    BY DEF MutationFails, MutationUnknown
<1>2. PICK exc \in Exceptions :
         /\ RaiseFrom(c, exc)
         /\ exc = "RetryableExecutionError" => UNCHANGED targetVars
    BY DEF MutationFails, MutationUnknown, Exceptions, targetVars
<1>3. Mutation(c) \in Mutations
    BY MutationFacts DEF IInv
<1>4. applied' \cup inflight' \subseteq Mutations
    BY <1>1, <1>3 DEF IInv, Shapes, ReplayShapes
<1> QED
    BY <1>1, <1>2, <1>4, RaisesPreserves

\* The replay marker is written after the mutation, or found there.
LEMMA MarkPreserves ==
    ASSUME IInv, NEW c \in Calls, Mark(c) \/ MarkFails(c)
    PROVE  IInv'
<1>1. CASE UNCHANGED marker /\ RaiseFrom(c, "other")
    <2>1. "other" \in Exceptions /\ UNCHANGED <<governanceVars, scope, targetVars>>
          /\ replay[c] = "mark"
        BY DEF Exceptions, Mark, MarkFails
    <2>2. applied' \cup inflight' \subseteq Mutations
        BY <2>1 DEF IInv, Shapes, ReplayShapes, targetVars
    <2> QED
        BY <1>1, <2>1, <2>2, RaisesPreserves DEF targetVars
<1>2. CASE Mark(c) /\ ~MarkConflicts(c)
    BY <1>2, MarksPreserves DEF Mark
<1> QED
    BY <1>1, <1>2 DEF Mark, MarkFails

-----------------------------------------------------------------------------
(* The call around its attempts. *)

\* The steps of execute_with_retry itself leave replay, target and reviews alone.
Outside == UNCHANGED <<governanceVars, marker, replayVars, targetVars>>

\* A call that moves, outside an attempt, to another step of the same attempt.
LEMMA OutsideStepPreserves ==
    ASSUME IInv, NEW c \in Calls, Outside, NEW s \in Steps \ {"attempt"}, NEW d \in Dispositions,
           Moved(c, s, call[c].attempt, d), call[c].step # "attempt", RetryTypeOK',
           \A b \in Calls \ {c} :
              /\ request'[b] = request[b]
              /\ \A k \in 1 .. MaxAttempts : /\ audit'[<<b, k>>] = audit[<<b, k>>]
                                             /\ <<b, k>> \in lineage' <=> <<b, k>> \in lineage,
           CleanUntilMutated(c)', SuccessIsEffective(c)',
           AuditsAreTrue(c)', EarlierAttemptsFailed(c)'
    PROVE  IInv'
<1>1. CallStep(c)
    BY DEF Outside, CallStep, Moved, governanceVars, replayVars, targetVars
<1>2. Shapes'
    BY DEF Outside, IInv, Shapes, GovernanceShapes, ReplayShapes, governanceVars, replayVars,
           targetVars
<1>3. ScopeIsPrepared(c)'
    <2>1. replay'[c] = "idle"
        BY DEF Outside, replayVars, IInv, CallIsSound, CleanUntilMutated
    <2> QED
        BY <2>1 DEF ScopeIsPrepared
<1>4. CallIsSound(c)'
    BY <1>3 DEF CallIsSound
<1>5. CurrentRun(c)' = CurrentRun(c)
    BY DEF Moved, CurrentRun
<1>6. \A q \in Batches : prepared'[c][q] \in Reviews => Granted(q, prepared'[c][q])
    BY DEF Outside, replayVars, IInv, CorrectionsGranted
<1> QED
    BY <1>1, <1>2, <1>4, <1>5, <1>6, CallStepPreserves DEF Outside

\* The call takes its scope and records its request.
LEMMA BeginPreserves ==
    ASSUME IInv, NEW c \in Calls, Begin(c), Outside
    PROVE  IInv'
<1>1. /\ call[c].step = "idle" /\ UNCHANGED <<lineage, audit>>
      /\ request' = [request EXCEPT ![c] = "RUNNING"]
    BY DEF Begin
<1>2. PICK s \in {"lineage", "raised"} : call' = [call EXCEPT ![c].step = s]
    BY DEF Begin, AfterWrite
<1>3. Moved(c, s, call[c].attempt, call[c].disposition)
    BY <1>2, Moves DEF IInv, Shapes, Steps, Ended
<1>4. RetryTypeOK' /\ request'[c] = "RUNNING" /\ \A b \in Calls \ {c} : request'[b] = request[b]
    BY <1>1, <1>3 DEF Moved, IInv, Shapes, RetryTypeOK
<1>5. CallIsSound(c) /\ s \in Steps \ {"attempt"} /\ call[c].disposition \in Dispositions
    BY DEF IInv, Shapes, RetryTypeOK, Steps, Ended
<1>6. CleanUntilMutated(c)'
    <2>1. Clean(c)' /\ replay'[c] = replay[c]
        BY <1>1, <1>5 DEF CallIsSound, CleanUntilMutated, Clean, Outside, targetVars, replayVars
    <2> QED
        BY <1>1, <1>3, <1>5, <2>1 DEF Moved, CallIsSound, CleanUntilMutated
<1>7. SuccessIsEffective(c)'
    BY <1>3, <1>4 DEF Moved, SuccessIsEffective
<1>8. AuditsAreTrue(c)' /\ EarlierAttemptsFailed(c)'
    BY <1>1, <1>3, <1>5, RecordsStayTrue DEF Moved, IInv, Shapes, Ended
<1> QED
    BY <1>1, <1>3, <1>4, <1>5, <1>6, <1>7, <1>8, OutsideStepPreserves

\* resolve_unknown_outcome: the call goes on by what the target says.
LEMMA ResolveOutcomePreserves ==
    ASSUME IInv, NEW c \in Calls, ResolveOutcome(c)
    PROVE  IInv'
<1>1. call[c].step = "resolve" /\ UNCHANGED <<request, lineage, audit>> /\ Outside
    BY DEF ResolveOutcome, Resolve, Outside
<1>2. PICK s \in {"succeeded", "failed"}, d \in {"UNKNOWN_OUTCOME", "RETRYABLE", "NON_RETRYABLE"} :
         /\ call' = [call EXCEPT ![c].step = s, ![c].disposition = d]
         /\ s = "succeeded" => d = "UNKNOWN_OUTCOME" /\ CurrentRun(c) \in RunsOf(applied)
         /\ d = "RETRYABLE" => CurrentRun(c) \notin RunsOf(applied \cup inflight)
    BY DEF ResolveOutcome, Resolve, Resolutions, AfterResolution
<1>3. Moved(c, s, call[c].attempt, d)
    BY <1>2, Moves DEF IInv, Shapes, Steps, Dispositions
<1>4. RetryTypeOK' /\ CurrentRun(c)' = CurrentRun(c)
    BY <1>1, <1>3 DEF Moved, IInv, Shapes, RetryTypeOK, CurrentRun
<1>5. CallIsSound(c) /\ s \in Steps \ {"attempt"} /\ d \in Dispositions
    BY DEF IInv, Steps, Dispositions
<1>6. d = "RETRYABLE" => Clean(c)
    BY <1>2 DEF IInv, OneMutation, RunsOf, Clean
<1>7. CleanUntilMutated(c)'
    <2>1. replay'[c] = "idle" /\ (Clean(c) => Clean(c)')
        BY <1>1, <1>5 DEF CallIsSound, CleanUntilMutated, Outside, replayVars, targetVars, Clean
    <2> QED
        BY <1>3, <1>6, <2>1 DEF Moved, CleanUntilMutated
<1>8. SuccessIsEffective(c)'
    <2>1. request'[c] \notin {"SUCCEEDED", "FAILED"}
        BY <1>1, <1>5 DEF CallIsSound, SuccessIsEffective, Ended
    <2>2. s = "succeeded" => Effective(c)'
        BY <1>1, <1>2, <1>3, <1>4 DEF Moved, Effective, RunsOf, Outside, targetVars
    <2> QED
        BY <1>3, <2>1, <2>2 DEF Moved, SuccessIsEffective
<1>9. AuditsAreTrue(c)' /\ EarlierAttemptsFailed(c)'
    BY <1>1, <1>3, <1>5, RecordsStayTrue DEF Moved, IInv, Shapes, Ended
<1> QED
    BY <1>1, <1>3, <1>4, <1>5, <1>7, <1>8, <1>9, OutsideStepPreserves

\* How a write of the call's own audit row shows in the table.
LEMMA AuditWrite ==
    ASSUME RetryTypeOK, NEW c \in Calls, NEW row \in Audits,
           audit' = [audit EXCEPT ![CurrentRun(c)] = row]
    PROVE  /\ audit' \in [RunIds -> Audits]
           /\ audit'[<<c, call[c].attempt>>] = row
           /\ \A b \in Calls, k \in 1 .. MaxAttempts :
                 b # c \/ k # call[c].attempt => audit'[<<b, k>>] = audit[<<b, k>>]
<1>1. call[c].attempt \in 1 .. MaxAttempts /\ audit \in [RunIds -> Audits]
    BY DEF RetryTypeOK
<1>2. CurrentRun(c) \in RunIds
    BY RunFacts
<1>3. \A b \in Calls, k \in 1 .. MaxAttempts : <<b, k>> \in RunIds
    BY DEF RunIds
<1> QED
    BY <1>1, <1>2, <1>3 DEF CurrentRun

\* The attempt row is closed as SUCCEEDED.
LEMMA AuditSucceededPreserves ==
    ASSUME IInv, NEW c \in Calls, AuditSucceeded(c), Outside
    PROVE  IInv'
<1> DEFINE row == [status |-> "SUCCEEDED", retryable |-> FALSE]
<1>1. /\ call[c].step = "succeeded" /\ UNCHANGED <<lineage, request>>
      /\ audit' = [audit EXCEPT ![CurrentRun(c)] = row]
    BY DEF AuditSucceeded
<1>2. PICK s \in {"close_succeeded", "raised"} : call' = [call EXCEPT ![c].step = s]
    BY DEF AuditSucceeded, AfterWrite
<1>3. Moved(c, s, call[c].attempt, call[c].disposition)
    BY <1>2, Moves DEF IInv, Shapes, Steps, Ended
<1>4. RetryTypeOK /\ row \in Audits
    BY DEF IInv, Shapes, Audits
<1>5. /\ audit' \in [RunIds -> Audits] /\ audit'[<<c, call[c].attempt>>] = row
      /\ \A b \in Calls, k \in 1 .. MaxAttempts :
            b # c \/ k # call[c].attempt => audit'[<<b, k>>] = audit[<<b, k>>]
    BY <1>1, <1>4, AuditWrite
<1>6. RetryTypeOK' /\ CurrentRun(c)' = CurrentRun(c)
    BY <1>1, <1>3, <1>4, <1>5 DEF Moved, RetryTypeOK, CurrentRun
<1>7. CallIsSound(c) /\ s \in Steps \ {"attempt"} /\ call[c].disposition \in Dispositions
    BY <1>4 DEF IInv, RetryTypeOK, Steps, Ended
<1>8. CleanUntilMutated(c)'
    <2>1. replay'[c] = "idle" /\ (Clean(c) => Clean(c)')
        BY <1>1, <1>7 DEF CallIsSound, CleanUntilMutated, Outside, replayVars, targetVars, Clean
    <2> QED
        BY <1>3, <1>7, <2>1 DEF Moved, CallIsSound, CleanUntilMutated
<1>9. Effective(c) /\ Effective(c)'
    <2>1. Effective(c)
        BY <1>1, <1>7 DEF CallIsSound, SuccessIsEffective
    <2> QED
        BY <1>3, <1>6, <2>1 DEF Moved, Effective, Outside, replayVars, targetVars
<1>10. request'[c] \notin {"SUCCEEDED", "FAILED"}
    BY <1>1, <1>7 DEF CallIsSound, SuccessIsEffective, Ended
<1>11. SuccessIsEffective(c)'
    BY <1>9, <1>10 DEF SuccessIsEffective
<1>12. AuditsAreTrue(c)' /\ EarlierAttemptsFailed(c)'
    <2>1. call[c].attempt \in 1 .. MaxAttempts
        BY <1>4 DEF RetryTypeOK
    <2>2. ASSUME NEW k \in 1 .. MaxAttempts, k > call[c].attempt PROVE audit'[<<c, k>>] = NoAudit
        BY <1>5, <1>7, <2>1, <2>2 DEF CallIsSound, AuditsAreTrue
    <2>3. ASSUME NEW k \in 1 .. MaxAttempts, k < call[c].attempt
          PROVE  audit'[<<c, k>>] = [status |-> "FAILED", retryable |-> TRUE]
        BY <1>5, <1>7, <2>1, <2>3 DEF CallIsSound, EarlierAttemptsFailed
    <2>4. \E m \in applied' : m.run = <<c, call[c].attempt>>
        BY <1>9 DEF Effective, CurrentRun, Outside, targetVars
    <2>5. AuditsAreTrue(c)'
        <3> SUFFICES ASSUME NEW k \in 1 .. MaxAttempts
                     PROVE  /\ k > call[c].attempt => audit'[<<c, k>>] = NoAudit
                            /\ audit'[<<c, k>>].status = "SUCCEEDED" => k = call[c].attempt
                            /\ audit'[<<c, k>>].retryable => k < call[c].attempt
            BY <1>3, <1>10, <2>1, <2>4 DEF Moved, AuditsAreTrue, Ended
        <3>1. CASE k > call[c].attempt
            BY <2>1, <2>2, <3>1 DEF NoAudit
        <3>2. CASE k < call[c].attempt
            BY <2>1, <2>3, <3>2
        <3>3. CASE k = call[c].attempt
            BY <1>5, <2>1, <3>3
        <3> QED
            BY <2>1, <3>1, <3>2, <3>3
    <2>6. EarlierAttemptsFailed(c)'
        BY <1>1, <1>3, <1>6, <1>7, <2>3 DEF Moved, CallIsSound, EarlierAttemptsFailed, Ended
    <2> QED
        BY <2>5, <2>6
<1>13. \A b \in Calls \ {c} :
          /\ request'[b] = request[b]
          /\ \A k \in 1 .. MaxAttempts : /\ audit'[<<b, k>>] = audit[<<b, k>>]
                                         /\ <<b, k>> \in lineage' <=> <<b, k>> \in lineage
    BY <1>1, <1>5
<1> QED
    BY <1>1, <1>3, <1>6, <1>7, <1>8, <1>11, <1>12, <1>13, OutsideStepPreserves

\* The attempt row is closed as FAILED, retryable or not.
LEMMA AuditFailedPreserves ==
    ASSUME IInv, NEW c \in Calls, AuditFailed(c), Outside
    PROVE  IInv'
<1> DEFINE row == [status |-> "FAILED", retryable |-> CanRetry(c)]
<1>1. /\ call[c].step = "failed" /\ UNCHANGED <<lineage, request>>
      /\ audit' = [audit EXCEPT ![CurrentRun(c)] = row]
    BY DEF AuditFailed
<1>2. /\ RetryTypeOK /\ CallIsSound(c) /\ call[c].attempt \in 1 .. MaxAttempts
      /\ CanRetry(c) \in BOOLEAN /\ MaxAttempts \in Nat
    BY RetryAssumption DEF IInv, Shapes, RetryTypeOK, CanRetry
<1>3. row \in Audits
    BY <1>2 DEF Audits
<1>4. /\ audit' \in [RunIds -> Audits] /\ audit'[<<c, call[c].attempt>>] = row
      /\ \A b \in Calls, k \in 1 .. MaxAttempts :
            b # c \/ k # call[c].attempt => audit'[<<b, k>>] = audit[<<b, k>>]
    BY <1>1, <1>2, <1>3, AuditWrite
<1>5. CanRetry(c) => Clean(c)' /\ call[c].attempt + 1 \in 1 .. MaxAttempts
    BY <1>2 DEF CallIsSound, CleanUntilMutated, CanRetry, Clean, Outside, targetVars
<1>6. replay'[c] = "idle"
    BY <1>1, <1>2 DEF CallIsSound, CleanUntilMutated, Outside, replayVars
<1>7. request'[c] \notin {"SUCCEEDED", "FAILED"}
    BY <1>1, <1>2 DEF CallIsSound, SuccessIsEffective, Ended
<1>8. ASSUME NEW k \in 1 .. MaxAttempts
      PROVE  /\ k > call[c].attempt => audit'[<<c, k>>] = NoAudit
             /\ k < call[c].attempt =>
                   audit'[<<c, k>>] = [status |-> "FAILED", retryable |-> TRUE]
             /\ audit'[<<c, k>>].status # "SUCCEEDED"
             /\ audit'[<<c, k>>].retryable =>
                   k < call[c].attempt \/ (k = call[c].attempt /\ CanRetry(c))
    <2>1. CASE k > call[c].attempt
        BY <1>2, <1>4, <2>1 DEF CallIsSound, AuditsAreTrue, NoAudit
    <2>2. CASE k < call[c].attempt
        BY <1>2, <1>4, <2>2 DEF CallIsSound, EarlierAttemptsFailed
    <2>3. CASE k = call[c].attempt
        BY <1>2, <1>4, <2>3
    <2> QED
        BY <1>2, <2>1, <2>2, <2>3
<1>9. \A b \in Calls \ {c} :
         /\ request'[b] = request[b]
         /\ \A k \in 1 .. MaxAttempts : /\ audit'[<<b, k>>] = audit[<<b, k>>]
                                        /\ <<b, k>> \in lineage' <=> <<b, k>> \in lineage
    BY <1>1, <1>4
<1>10. ASSUME CanRetry(c), Moved(c, "lineage", call[c].attempt + 1, "none")
       PROVE  IInv'
    <2>1. CallStep(c)
        BY <1>9, <1>10 DEF Outside, CallStep, Moved, governanceVars, replayVars, targetVars
    <2>2. Shapes'
        <3>1. RetryTypeOK'
            BY <1>1, <1>2, <1>4, <1>10 DEF Moved, RetryTypeOK
        <3> QED
            BY <3>1 DEF Outside, IInv, Shapes, GovernanceShapes, ReplayShapes, governanceVars,
                        replayVars, targetVars
    <2>3. CleanUntilMutated(c)' /\ ScopeIsPrepared(c)'
        BY <1>5, <1>6, <1>10 DEF Moved, CleanUntilMutated, ScopeIsPrepared
    <2>4. SuccessIsEffective(c)'
        BY <1>7, <1>10 DEF Moved, SuccessIsEffective
    <2>5. AuditsAreTrue(c)'
        <3> SUFFICES ASSUME NEW k \in 1 .. MaxAttempts
                     PROVE  /\ k >= call[c].attempt + 1 => audit'[<<c, k>>] = NoAudit
                            /\ audit'[<<c, k>>].status # "SUCCEEDED"
                            /\ audit'[<<c, k>>].retryable => k < call[c].attempt + 1
            BY <1>2, <1>10 DEF Moved, AuditsAreTrue
        <3> QED
            BY <1>2, <1>8
    <2>6. EarlierAttemptsFailed(c)'
        <3> SUFFICES ASSUME NEW k \in 1 .. MaxAttempts
                     PROVE  /\ k < call[c].attempt + 1 =>
                                  /\ <<c, k>> \in lineage
                                  /\ audit'[<<c, k>>] = [status |-> "FAILED", retryable |-> TRUE]
                            /\ <<c, k>> \in lineage => k <= call[c].attempt + 1
            BY <1>1, <1>10 DEF Moved, EarlierAttemptsFailed
        <3>1. <<c, call[c].attempt>> \in lineage
            BY <1>1, <1>2 DEF CallIsSound, EarlierAttemptsFailed, CurrentRun, Ended
        <3>2. row = [status |-> "FAILED", retryable |-> TRUE]
            BY <1>10
        <3>3. CASE k = call[c].attempt
            BY <1>2, <1>4, <3>1, <3>2, <3>3
        <3>4. CASE k # call[c].attempt
            BY <1>2, <1>8, <3>4 DEF CallIsSound, EarlierAttemptsFailed
        <3> QED
            BY <3>3, <3>4
    <2>7. Clean(c)' /\ UNCHANGED marker
        BY <1>5, <1>10 DEF Outside
    <2>8. \A q \in Batches : prepared'[c][q] \in Reviews => Granted(q, prepared'[c][q])
        BY DEF Outside, replayVars, IInv, CorrectionsGranted
    <2> QED
        BY <2>1, <2>2, <2>3, <2>4, <2>5, <2>6, <2>7, <2>8, CallStepPreserves DEF CallIsSound
<1>11. ASSUME NEW s \in {"close_failed", "raised"}, s = "close_failed" => ~CanRetry(c),
              Moved(c, s, call[c].attempt, "none")
       PROVE  IInv'
    <2>1. RetryTypeOK' /\ s \in Steps \ {"attempt"} /\ "none" \in Dispositions
        BY <1>1, <1>2, <1>4, <1>11 DEF Moved, RetryTypeOK, Steps, Ended, Dispositions
    <2>2. CleanUntilMutated(c)'
        BY <1>6, <1>11 DEF Moved, CleanUntilMutated
    <2>3. SuccessIsEffective(c)'
        BY <1>7, <1>11 DEF Moved, SuccessIsEffective
    <2>4. AuditsAreTrue(c)'
        <3> SUFFICES ASSUME NEW k \in 1 .. MaxAttempts
                     PROVE  /\ k > call[c].attempt => audit'[<<c, k>>] = NoAudit
                            /\ audit'[<<c, k>>].status # "SUCCEEDED"
                            /\ audit'[<<c, k>>].retryable =>
                                  k < call[c].attempt \/ (s = "raised" /\ Clean(c)')
            BY <1>11 DEF Moved, AuditsAreTrue, Ended
        <3> QED
            BY <1>5, <1>8, <1>11
    <2>5. EarlierAttemptsFailed(c)'
        <3>1. CurrentRun(c)' = CurrentRun(c) /\ CurrentRun(c) \in lineage
            BY <1>1, <1>2, <1>11 DEF Moved, CallIsSound, EarlierAttemptsFailed, CurrentRun, Ended
        <3> QED
            BY <1>1, <1>2, <1>8, <1>11, <3>1 DEF Moved, CallIsSound, EarlierAttemptsFailed
    <2> QED
        BY <1>1, <1>9, <1>11, <2>1, <2>2, <2>3, <2>4, <2>5, OutsideStepPreserves
<1>12. CASE CanRetry(c) /\ call' = [call EXCEPT ![c].step = "lineage", ![c].disposition = "none",
                                                ![c].attempt = call[c].attempt + 1]
    <2>1. Moved(c, "lineage", call[c].attempt + 1, "none")
        BY <1>2, <1>5, <1>12, Moves DEF Steps, Dispositions
    <2> QED
        BY <1>10, <1>12, <2>1
<1>13. ASSUME NEW s \in {"close_failed", "raised"}, s = "close_failed" => ~CanRetry(c),
              call' = [call EXCEPT ![c].step = s, ![c].disposition = "none",
                                   ![c].attempt = call[c].attempt]
       PROVE  IInv'
    <2>1. Moved(c, s, call[c].attempt, "none")
        BY <1>2, <1>13, Moves DEF Steps, Ended, Dispositions
    <2> QED
        BY <1>11, <1>13, <2>1
<1>14. \/ /\ CanRetry(c)
          /\ call' = [call EXCEPT ![c].step = "lineage", ![c].disposition = "none",
                                  ![c].attempt = call[c].attempt + 1]
       \/ \E s \in {"close_failed", "raised"} :
             /\ s = "close_failed" => ~CanRetry(c)
             /\ call' = [call EXCEPT ![c].step = s, ![c].disposition = "none",
                                     ![c].attempt = call[c].attempt]
    BY DEF AuditFailed
<1> QED
    BY <1>12, <1>13, <1>14

\* The request row takes the status of its last attempt.
LEMMA CloseRequestPreserves ==
    ASSUME IInv, NEW c \in Calls, CloseRequest(c), Outside
    PROVE  IInv'
<1>1. /\ call[c].step \in {"close_failed", "close_succeeded"} /\ UNCHANGED <<lineage, audit>>
      /\ request' = [request EXCEPT ![c] = IF call[c].step = "close_failed"
                                           THEN "FAILED" ELSE "SUCCEEDED"]
    BY DEF CloseRequest
<1>2. PICK s \in Ended : call' = [call EXCEPT ![c].step = s]
    BY DEF CloseRequest, AfterWrite, Ended
<1>3. Moved(c, s, call[c].attempt, call[c].disposition)
    BY <1>2, Moves DEF IInv, Shapes, Steps
<1>4. /\ RetryTypeOK' /\ \A b \in Calls \ {c} : request'[b] = request[b]
      /\ request'[c] = IF call[c].step = "close_failed" THEN "FAILED" ELSE "SUCCEEDED"
    BY <1>1, <1>3 DEF Moved, IInv, Shapes, RetryTypeOK
<1>5. CallIsSound(c) /\ s \in Steps \ {"attempt"} /\ call[c].disposition \in Dispositions
    BY DEF IInv, Shapes, RetryTypeOK, Steps, Ended
<1>6. CleanUntilMutated(c)'
    <2>1. replay'[c] = "idle" /\ (Clean(c) => Clean(c)')
        BY <1>1, <1>5 DEF CallIsSound, CleanUntilMutated, Outside, replayVars, targetVars, Clean
    <2> QED
        BY <1>3, <1>5, <2>1 DEF Moved, CallIsSound, CleanUntilMutated, Ended
<1>7. CurrentRun(c)' = CurrentRun(c)
    BY <1>3 DEF Moved, CurrentRun
<1>8. call[c].step = "close_succeeded" => Effective(c)'
    <2>1. Effective(c) => Effective(c)'
        BY <1>3, <1>7 DEF Moved, Effective, Outside, replayVars, targetVars
    <2> QED
        BY <1>5, <2>1 DEF CallIsSound, SuccessIsEffective
<1>9. SuccessIsEffective(c)'
    BY <1>1, <1>3, <1>4, <1>8 DEF Moved, SuccessIsEffective, Ended
<1>10. AuditsAreTrue(c)'
    BY <1>1, <1>3, <1>4, <1>5 DEF Moved, CallIsSound, AuditsAreTrue, Outside, targetVars, Ended
<1>11. EarlierAttemptsFailed(c)'
    BY <1>1, <1>3, <1>5 DEF Moved, CallIsSound, EarlierAttemptsFailed
<1> QED
    BY <1>1, <1>3, <1>4, <1>5, <1>6, <1>9, <1>10, <1>11, OutsideStepPreserves

\* The next attempt of the request starts.
LEMMA BeginAttemptPreserves ==
    ASSUME IInv, NEW c \in Calls, BeginAttempt(c)
    PROVE  IInv'
<1>1. /\ call[c].step = "lineage" /\ lineage' = lineage \cup {CurrentRun(c)}
      /\ replay' = [replay EXCEPT ![c] = IF call'[c].step = "attempt" THEN "scope" ELSE "idle"]
      /\ UNCHANGED <<request, audit, events, review, marker, scope, prepared, inflight, applied>>
    BY DEF BeginAttempt, RecordLineage, governanceVars, targetVars
<1>2. PICK s \in {"attempt", "raised"} : call' = [call EXCEPT ![c].step = s]
    BY DEF BeginAttempt, RecordLineage, AfterWrite
<1>3. Moved(c, s, call[c].attempt, call[c].disposition)
    BY <1>2, Moves DEF IInv, Shapes, Steps, Ended
<1>4. /\ replay' \in [Calls -> ReplaySteps]
      /\ replay'[c] = IF s = "attempt" THEN "scope" ELSE "idle"
      /\ \A b \in Calls \ {c} : replay'[b] = replay[b]
    BY <1>1, <1>3 DEF Moved, IInv, Shapes, ReplayShapes, ReplaySteps
<1>5. CurrentRun(c) \in RunIds /\ CurrentRun(c)' = CurrentRun(c) /\ RetryTypeOK
    BY <1>3, RunFacts DEF Moved, CurrentRun, IInv, Shapes
<1>6. CallStep(c)
    <2>1. \A b \in Calls \ {c}, k \in 1 .. MaxAttempts :
             <<b, k>> \in lineage' <=> <<b, k>> \in lineage
        BY <1>1 DEF CurrentRun
    <2> QED
        BY <1>1, <1>3, <1>4, <2>1 DEF CallStep, Moved
<1>7. Shapes'
    <2>1. RetryTypeOK'
        BY <1>1, <1>3, <1>5 DEF Moved, RetryTypeOK
    <2> QED
        BY <1>1, <1>4, <2>1 DEF IInv, Shapes, GovernanceShapes, ReplayShapes
<1>8. CallIsSound(c) /\ call[c].disposition = "none"
    BY <1>1 DEF IInv, CallIsSound, CleanUntilMutated
<1>9. CleanUntilMutated(c)' /\ ScopeIsPrepared(c)'
    <2>1. Clean(c)'
        BY <1>1, <1>8 DEF CallIsSound, CleanUntilMutated, Clean
    <2> QED
        BY <1>3, <1>4, <1>8, <2>1 DEF Moved, CleanUntilMutated, ScopeIsPrepared
<1>10. SuccessIsEffective(c)'
    BY <1>1, <1>3, <1>8 DEF Moved, CallIsSound, SuccessIsEffective, Ended
<1>11. AuditsAreTrue(c)'
    BY <1>1, <1>3, <1>5, <1>8, AuditsStayTrue DEF Moved, Ended
<1>12. EarlierAttemptsFailed(c)'
    <2>1. call[c].attempt \in 1 .. MaxAttempts
        BY <1>5 DEF RetryTypeOK
    <2>2. \A k \in 1 .. MaxAttempts :
             <<c, k>> \in lineage' <=> <<c, k>> \in lineage \/ k = call[c].attempt
        BY <1>1 DEF CurrentRun
    <2>3. CurrentRun(c)' \in lineage'
        BY <1>1, <1>5
    <2> QED
        BY <1>1, <1>3, <1>8, <2>1, <2>2, <2>3 DEF Moved, CallIsSound, EarlierAttemptsFailed
<1>13. \A q \in Batches : prepared'[c][q] \in Reviews => Granted(q, prepared'[c][q])
    BY <1>1 DEF IInv, CorrectionsGranted
<1> QED
    BY <1>1, <1>5, <1>6, <1>7, <1>9, <1>10, <1>11, <1>12, <1>13, CallStepPreserves DEF CallIsSound

\* The process dies between two steps of the call.
LEMMA DiesPreserves ==
    ASSUME IInv, NEW c \in Calls, Dies(c)
    PROVE  IInv'
<1>1. /\ call[c].step \notin Ended \cup {"idle"} /\ UNCHANGED <<request, lineage, audit>>
      /\ call' = [call EXCEPT ![c].step = "raised", ![c].disposition = "none"]
      /\ replay' = [replay EXCEPT ![c] = "idle"]
      /\ prepared' = [prepared EXCEPT ![c] = NoPayloads]
      /\ inflight' = IF replay[c] = "mutate" THEN inflight \cup {Mutation(c)} ELSE inflight
      /\ UNCHANGED <<events, review, marker, scope, applied>>
    BY DEF Dies, CallDies, Forget, governanceVars
<1>2. Moved(c, "raised", call[c].attempt, "none")
    BY <1>1, Moves DEF IInv, Shapes, Steps, Ended, Dispositions
<1>3. /\ replay' \in [Calls -> ReplaySteps] /\ replay'[c] = "idle"
      /\ \A b \in Calls \ {c} : replay'[b] = replay[b]
    BY <1>1 DEF IInv, Shapes, ReplayShapes, ReplaySteps
<1>4. /\ prepared' \in [Calls -> [Batches -> Payloads \cup {"none"}]]
      /\ prepared'[c] = NoPayloads
      /\ \A b \in Calls \ {c} : prepared'[b] = prepared[b]
    BY <1>1 DEF IInv, Shapes, ReplayShapes, NoPayloads
<1>5. CallStep(c)
    BY <1>1, <1>2, <1>3, <1>4 DEF CallStep, Moved
<1>6. Shapes'
    <2>1. RetryTypeOK'
        BY <1>1, <1>2 DEF Moved, IInv, Shapes, RetryTypeOK
    <2>2. inflight' \subseteq Mutations
        BY <1>1, MutationFacts DEF IInv, Shapes, ReplayShapes
    <2> QED
        BY <1>1, <1>3, <1>4, <2>1, <2>2 DEF IInv, Shapes, GovernanceShapes, ReplayShapes
<1>7. CallIsSound(c)
    BY DEF IInv
<1>8. CleanUntilMutated(c)' /\ ScopeIsPrepared(c)'
    BY <1>2, <1>3 DEF Moved, CleanUntilMutated, ScopeIsPrepared
<1>9. SuccessIsEffective(c)'
    BY <1>1, <1>2, <1>7 DEF Moved, CallIsSound, SuccessIsEffective
<1>10. AuditsAreTrue(c)'
    BY <1>1, <1>2, <1>7 DEF Moved, CallIsSound, AuditsAreTrue, Ended
<1>11. EarlierAttemptsFailed(c)'
    BY <1>1, <1>2, <1>7 DEF Moved, CallIsSound, EarlierAttemptsFailed, Ended
<1>12. CurrentRun(c)' = CurrentRun(c)
    BY <1>2 DEF Moved, CurrentRun
<1>13. \A q \in Batches : prepared'[c][q] \notin Reviews
    BY <1>4, ReplayAssumption DEF NoPayloads
<1> QED
    BY <1>1, <1>5, <1>6, <1>8, <1>9, <1>10, <1>11, <1>12, <1>13, CallStepPreserves DEF CallIsSound

-----------------------------------------------------------------------------
(* The target and the reviewers. *)

\* A mutation in flight lands, or is gone, after its call was told nothing.
LEMMA TargetDecidesPreserves ==
    ASSUME IInv, TargetDecides
    PROVE  IInv'
<1>1. /\ applied \subseteq applied' /\ applied' \cup inflight' \subseteq applied \cup inflight
      /\ UNCHANGED <<request, lineage, audit, call, events, review, marker>>
      /\ UNCHANGED <<scope, replay, prepared>>
    BY DEF TargetDecides, retryVars, governanceVars, replayVars
<1>2. Shapes'
    BY <1>1 DEF IInv, Shapes, RetryTypeOK, GovernanceShapes, ReplayShapes
<1>3. ReviewsFollow'
    BY <1>1 DEF IInv, ReviewsFollow, ReviewIsChain
<1>4. CorrectionsGranted'
    BY <1>1 DEF IInv, CorrectionsGranted, Granted
<1>5. OneMutation'
    BY <1>1 DEF IInv, OneMutation, OneEffectPerCall, CurrentRun
<1>6. MarkerIsBacked'
    BY <1>1 DEF IInv, MarkerIsBacked
<1>7. ASSUME NEW c \in Calls PROVE CallIsSound(c)'
    <2>1. CallIsSound(c) /\ CurrentRun(c)' = CurrentRun(c)
        BY <1>1 DEF IInv, CurrentRun
    <2>2. (Clean(c) => Clean(c)') /\ (Effective(c) => Effective(c)')
        BY <1>1, <2>1 DEF Clean, Effective
    <2>3. CleanUntilMutated(c)'
        BY <1>1, <2>1, <2>2 DEF CallIsSound, CleanUntilMutated
    <2>4. ScopeIsPrepared(c)'
        BY <1>1, <2>1 DEF CallIsSound, ScopeIsPrepared
    <2>5. SuccessIsEffective(c)'
        BY <1>1, <2>1, <2>2 DEF CallIsSound, SuccessIsEffective
    <2>6. AuditsAreTrue(c)'
        BY <1>1, <2>1, <2>2 DEF CallIsSound, AuditsAreTrue
    <2>7. EarlierAttemptsFailed(c)'
        BY <1>1, <2>1 DEF CallIsSound, EarlierAttemptsFailed
    <2> QED
        BY <2>3, <2>4, <2>5, <2>6, <2>7 DEF CallIsSound
<1> QED
    BY <1>2, <1>3, <1>4, <1>5, <1>6, <1>7 DEF IInv

\* What holds of a call is not about reviews.
LEMMA CallsIgnoreReviews ==
    ASSUME NEW c \in Calls, CallIsSound(c), UNCHANGED <<retryVars, marker, replayVars, targetVars>>
    PROVE  CallIsSound(c)'
<1>1. /\ UNCHANGED <<request, lineage, audit, call, marker>>
      /\ UNCHANGED <<scope, replay, prepared, inflight, applied>>
    BY DEF retryVars, replayVars, targetVars
<1>2. CurrentRun(c)' = CurrentRun(c) /\ Clean(c)' = Clean(c)
    BY <1>1 DEF CurrentRun, Clean
<1>3. Effective(c)' = Effective(c)
    BY <1>1, <1>2 DEF Effective
<1>4. CleanUntilMutated(c)' /\ ScopeIsPrepared(c)' /\ SuccessIsEffective(c)'
    BY <1>1, <1>2, <1>3 DEF CallIsSound, CleanUntilMutated, ScopeIsPrepared, SuccessIsEffective
<1>5. AuditsAreTrue(c)' /\ EarlierAttemptsFailed(c)'
    BY <1>1, <1>2 DEF CallIsSound, AuditsAreTrue, EarlierAttemptsFailed
<1> QED
    BY <1>4, <1>5 DEF CallIsSound

\* A step of a reviewer keeps the rest, as long as it takes no event away.
LEMMA ReviewStepPreserves ==
    ASSUME IInv, UNCHANGED <<retryVars, marker, replayVars, targetVars>>, GovernanceShapes',
           ReviewsFollow', \A q \in Batches : events[q] \subseteq events'[q]
    PROVE  IInv'
<1>1. /\ UNCHANGED <<request, lineage, audit, call, marker>>
      /\ UNCHANGED <<scope, replay, prepared, inflight, applied>>
    BY DEF retryVars, replayVars, targetVars
<1>2. Shapes'
    BY <1>1 DEF IInv, Shapes, RetryTypeOK, ReplayShapes
<1>3. CorrectionsGranted'
    <2>1. \A q \in Batches : \A p : Granted(q, p) => Granted(q, p)'
        BY DEF Granted
    <2> QED
        BY <1>1, <2>1 DEF IInv, CorrectionsGranted
<1>4. OneMutation' /\ MarkerIsBacked'
    BY <1>1 DEF IInv, OneMutation, OneEffectPerCall, CurrentRun, MarkerIsBacked
<1>5. \A c \in Calls : CallIsSound(c)'
    BY CallsIgnoreReviews DEF IInv
<1> QED
    BY <1>2, <1>3, <1>4, <1>5 DEF IInv

\* A valid event follows from the case that the transaction has read.
LEMMA ValidateReviewFollows ==
    ASSUME GovernanceShapes, ReviewsFollow, NEW v \in Reviews, ValidateReview(v)
    PROVE  GovernanceShapes' /\ ReviewsFollow'
<1>1. PICK q \in Batches, e \in ReviewEvents :
         /\ e.from = CaseStatus(q)
         /\ review' = [review EXCEPT ![v] = [step |-> "validated", batch |-> q, event |-> e]]
         /\ events' = events
    BY DEF ValidateReview
<1>2. [step |-> "validated", batch |-> q, event |-> e] \in ReviewStates
    BY DEF ReviewStates
<1>3. /\ review' \in [Reviews -> ReviewStates]
      /\ review'[v] = [step |-> "validated", batch |-> q, event |-> e]
      /\ \A u \in Reviews \ {v} : review'[u] = review[u]
    BY <1>1, <1>2 DEF GovernanceShapes
<1>4. e.from \in {"OPEN", "UNDER_REVIEW"}
    BY DEF ReviewEvents, AllowedTransitions
<1>5. e.from = "OPEN" \/ \E f \in events[q] : f.to = e.from
    <2>1. CASE events[q] = {}
        BY <1>1, <1>4, <2>1 DEF CaseStatus, Latest
    <2>2. CASE events[q] # {}
        <3>1. events[q] \in SUBSET ReviewEvents /\ IsReviewChain(events[q])
            BY DEF GovernanceShapes, ReviewsFollow, ReviewIsChain
        <3>2. Latest(events[q]) \in events[q]
            BY <2>2, <3>1, LatestFacts
        <3> QED
            BY <1>1, <1>4, <3>2 DEF CaseStatus
    <2> QED
        BY <2>1, <2>2
<1> QED
    BY <1>1, <1>3, <1>5 DEF GovernanceShapes, ReviewsFollow, ReviewIsChain

\* The unique transition key keeps the events a chain.
LEMMA InsertReviewFollows ==
    ASSUME GovernanceShapes, ReviewsFollow, NEW v \in Reviews, InsertReview(v)
    PROVE  /\ GovernanceShapes' /\ ReviewsFollow'
           /\ \A q \in Batches : events[q] \subseteq events'[q]
<1> DEFINE q == review[v].batch
           e == review[v].event
<1>1. /\ review[v].step = "validated" /\ ~TransitionClaimed(q, e.from)
      /\ events' = [events EXCEPT ![q] = @ \cup {e}]
      /\ review' = [review EXCEPT ![v] = [step |-> "done"]]
    BY DEF InsertReview
<1>2. q \in Batches /\ e \in ReviewEvents
    BY <1>1 DEF GovernanceShapes, ReviewStates
<1>3. [step |-> "done"] \in ReviewStates
    BY DEF ReviewStates
<1>4. /\ review' \in [Reviews -> ReviewStates] /\ review'[v] = [step |-> "done"]
      /\ \A u \in Reviews \ {v} : review'[u] = review[u]
    BY <1>1, <1>3 DEF GovernanceShapes
<1>5. /\ events' \in [Batches -> SUBSET ReviewEvents] /\ events'[q] = events[q] \cup {e}
      /\ \A p \in Batches \ {q} : events'[p] = events[p]
    BY <1>1, <1>2 DEF GovernanceShapes
<1>6. IsReviewChain(events[q] \cup {e})
    <2>1. IsReviewChain(events[q])
        BY <1>2 DEF ReviewsFollow, ReviewIsChain
    <2>2. \A f \in events[q] : f.from # e.from
        BY <1>1 DEF TransitionClaimed
    <2>3. e.from = "OPEN" \/ \E f \in events[q] : f.to = e.from
        BY <1>1 DEF ReviewsFollow
    <2> QED
        BY <2>1, <2>2, <2>3 DEF IsReviewChain
<1>7. ReviewIsChain'
    BY <1>5, <1>6 DEF ReviewsFollow, ReviewIsChain
<1>8. ASSUME NEW u \in Reviews, review'[u].step = "validated"
      PROVE  \/ review'[u].event.from = "OPEN"
             \/ \E f \in events'[review'[u].batch] : f.to = review'[u].event.from
    <2>1. u # v /\ review'[u] = review[u]
        BY <1>4, <1>8
    <2>2. review[u].batch \in Batches
        BY <1>8, <2>1 DEF GovernanceShapes, ReviewStates
    <2>3. events[review[u].batch] \subseteq events'[review[u].batch]
        BY <1>5, <2>2
    <2> QED
        BY <1>8, <2>1, <2>3 DEF ReviewsFollow
<1> QED
    BY <1>4, <1>5, <1>7, <1>8 DEF GovernanceShapes, ReviewsFollow

\* A review event that lost the race for its version raises.
LEMMA ReviewConflictsFollows ==
    ASSUME GovernanceShapes, ReviewsFollow, NEW v \in Reviews, ReviewConflicts(v)
    PROVE  GovernanceShapes' /\ ReviewsFollow'
<1>1. review' = [review EXCEPT ![v] = [step |-> "done"]] /\ events' = events
    BY DEF ReviewConflicts
<1>2. [step |-> "done"] \in ReviewStates
    BY DEF ReviewStates
<1>3. /\ review' \in [Reviews -> ReviewStates] /\ review'[v] = [step |-> "done"]
      /\ \A u \in Reviews \ {v} : review'[u] = review[u]
    BY <1>1, <1>2 DEF GovernanceShapes
<1> QED
    BY <1>1, <1>3 DEF GovernanceShapes, ReviewsFollow, ReviewIsChain

\* Every step of the review workflow keeps the invariant.
LEMMA ReviewingPreserves ==
    ASSUME IInv, NEW v \in Reviews, Reviewing(v)
    PROVE  IInv'
<1>1. GovernanceShapes /\ ReviewsFollow /\ UNCHANGED <<retryVars, marker, replayVars, targetVars>>
    BY DEF IInv, Shapes, Reviewing
<1>2. CASE ValidateReview(v)
    BY <1>1, <1>2, ValidateReviewFollows, ReviewStepPreserves DEF ValidateReview
<1>3. CASE InsertReview(v)
    BY <1>1, <1>3, InsertReviewFollows, ReviewStepPreserves
<1>4. CASE ReviewConflicts(v)
    BY <1>1, <1>4, ReviewConflictsFollows, ReviewStepPreserves DEF ReviewConflicts
<1> QED
    BY <1>2, <1>3, <1>4 DEF Reviewing

-----------------------------------------------------------------------------
(* The theorems. *)

\* No call has begun and no review event exists.
LEMMA InitEstablishes ==
    ASSUME Init PROVE IInv
<1> USE DEF Init, RetryInit, GovernanceInit
<1>1. 1 \in 1 .. MaxAttempts
    BY RetryAssumption
<1>2. Shapes
    <2>1. RetryTypeOK
        BY <1>1 DEF RetryTypeOK, Steps, Dispositions, Audits, NoAudit
    <2>2. GovernanceShapes
        BY DEF GovernanceShapes, ReviewStates
    <2>3. ReplayShapes
        BY DEF ReplayShapes, ReplaySteps, NoPayloads
    <2> QED
        BY <2>1, <2>2, <2>3 DEF Shapes
<1>3. ReviewsFollow
    BY DEF ReviewsFollow, ReviewIsChain, IsReviewChain
<1>4. CorrectionsGranted
    BY ReplayAssumption DEF CorrectionsGranted, NoPayloads
<1>5. OneMutation /\ MarkerIsBacked
    BY DEF OneMutation, OneEffectPerCall, MarkerIsBacked
<1>6. ASSUME NEW c \in Calls PROVE CallIsSound(c)
    <2>1. call[c].step = "idle" /\ call[c].attempt = 1 /\ call[c].disposition = "none"
        OBVIOUS
    <2>2. CleanUntilMutated(c) /\ ScopeIsPrepared(c) /\ SuccessIsEffective(c)
        BY <2>1 DEF CleanUntilMutated, Clean, ScopeIsPrepared, SuccessIsEffective
    <2>3. \A k \in 1 .. MaxAttempts : audit[<<c, k>>] = NoAudit
        BY DEF RunIds
    <2>4. AuditsAreTrue(c)
        <3>1. NoAudit.status # "SUCCEEDED" /\ ~NoAudit.retryable
            BY DEF NoAudit
        <3> QED
            BY <2>3, <3>1 DEF AuditsAreTrue
    <2>5. EarlierAttemptsFailed(c)
        BY <2>1, RetryAssumption DEF EarlierAttemptsFailed, Ended
    <2> QED
        BY <2>2, <2>4, <2>5 DEF CallIsSound
<1> QED
    BY <1>2, <1>3, <1>4, <1>5, <1>6 DEF IInv

\* A stuttering step keeps it.
LEMMA StutterPreserves ==
    ASSUME IInv, UNCHANGED vars PROVE IInv'
<1>1. UNCHANGED <<retryVars, governanceVars, marker, replayVars, targetVars>>
    BY DEF vars
<1>2. GovernanceShapes' /\ ReviewsFollow'
    BY <1>1 DEF IInv, Shapes, GovernanceShapes, ReviewsFollow, ReviewIsChain, governanceVars
<1> QED
    BY <1>1, <1>2, ReviewStepPreserves DEF governanceVars

\* Every step of calls, target and reviewers keeps the invariant.
LEMMA NextPreserves ==
    ASSUME IInv, Next PROVE IInv'
<1>1. ASSUME NEW c \in Calls, Bookkeeping(c) PROVE IInv'
    BY <1>1, BeginPreserves, AuditFailedPreserves, AuditSucceededPreserves, CloseRequestPreserves
       DEF Bookkeeping, Outside
<1>2. ASSUME NEW c \in Calls, BeginAttempt(c) \/ ResolveOutcome(c) \/ Dies(c) PROVE IInv'
    BY <1>2, BeginAttemptPreserves, ResolveOutcomePreserves, DiesPreserves
<1>3. ASSUME NEW c \in Calls, ReadScope(c) \/ LoadPayload(c) \/ LoadFails(c) PROVE IInv'
    BY <1>3, ReadScopePreserves, LoadPayloadPreserves, LoadFailsPreserves
<1>4. ASSUME NEW c \in Calls, MutationPasses(c) \/ MutationFails(c) \/ MutationUnknown(c)
      PROVE  IInv'
    BY <1>4, MutationPassesPreserves, MutationFailsPreserves
<1>5. ASSUME NEW c \in Calls, Mark(c) \/ MarkFails(c) PROVE IInv'
    BY <1>5, MarkPreserves
<1> QED
    BY <1>1, <1>2, <1>3, <1>4, <1>5, TargetDecidesPreserves, ReviewingPreserves DEF Next

\* The inductive invariant holds of every behaviour of execute_with_retry around
\* execute_quarantine_replay, the reviewers and the target.
THEOREM ReplayInvariant == Spec => []IInv
<1>1. Init => IInv
    BY InitEstablishes
<1>2. IInv /\ [Next]_vars => IInv'
    BY NextPreserves, StutterPreserves
<1> QED
    BY <1>1, <1>2, PTL DEF Spec

\* Every variable has its type, and the replay is under way exactly during an
\* attempt of its call.
THEOREM ReplayTypeCorrect == Spec => []TypeOK
<1>1. IInv => TypeOK
    BY DEF IInv, Shapes, GovernanceShapes, ReplayShapes, CallIsSound, CleanUntilMutated, TypeOK
<1> QED
    BY <1>1, ReplayInvariant, PTL

\* A call mutates the target at most once, whatever answers are lost, and however
\* late the target decides (execute_with_retry).
THEOREM ReplayMutatesOnce == Spec => []OneEffectPerCall
<1>1. IInv => OneEffectPerCall
    BY DEF IInv, OneMutation
<1> QED
    BY <1>1, ReplayInvariant, PTL

\* Audit rows are true of the target, the lineage is a chain, and a request is
\* closed as what happened (_record_terminal_audit, _update_reprocess_status).
THEOREM ReplayRecordsAreHonest == Spec => []RecordsAreHonest
<1>1. ASSUME IInv PROVE RecordsAreHonest
    <2>1. AuditIsHonest
        <3> SUFFICES ASSUME NEW c \in Calls, NEW k \in 1 .. MaxAttempts
                     PROVE  /\ audit[<<c, k>>].status = "SUCCEEDED" => <<c, k>> \in RunsOf(applied)
                            /\ audit[<<c, k>>].retryable =>
                                  <<c, k>> \notin RunsOf(applied \cup inflight)
            BY DEF AuditIsHonest, RunIds
        <3>1. AuditsAreTrue(c) /\ call[c].attempt \in 1 .. MaxAttempts
            BY <1>1 DEF IInv, CallIsSound, Shapes, RetryTypeOK
        <3>2. ASSUME NEW m \in applied \cup inflight, m.run = <<c, k>>
              PROVE  ~Clean(c) /\ k = call[c].attempt
            BY <1>1, <3>2 DEF IInv, OneMutation, CurrentRun, Clean
        <3> QED
            BY <3>1, <3>2 DEF AuditsAreTrue, RunsOf
    <2>2. LineageIsChain
        <3> SUFFICES ASSUME NEW c \in Calls, NEW k \in 1 .. MaxAttempts, <<c, k>> \in lineage, k > 1
                     PROVE  /\ <<c, k - 1>> \in lineage
                            /\ audit[<<c, k - 1>>] = [status |-> "FAILED", retryable |-> TRUE]
            BY <1>1 DEF LineageIsChain, RunIds, IInv, Shapes, RetryTypeOK
        <3>1. EarlierAttemptsFailed(c) /\ call[c].attempt \in 1 .. MaxAttempts
            BY <1>1 DEF IInv, CallIsSound, Shapes, RetryTypeOK
        <3>2. k - 1 \in 1 .. MaxAttempts /\ k - 1 < call[c].attempt
            BY <3>1, RetryAssumption DEF EarlierAttemptsFailed
        <3> QED
            BY <3>1, <3>2 DEF EarlierAttemptsFailed
    <2>3. ClosedHonestly
        <3> SUFFICES ASSUME NEW c \in Calls
                     PROVE  /\ request[c] = "SUCCEEDED" =>
                                  /\ CurrentRun(c) \in RunsOf(applied)
                                  /\ \/ \A q \in scope[c] : marker[q] = CurrentRun(c)
                                     \/ call[c].disposition = "UNKNOWN_OUTCOME"
                            /\ request[c] = "FAILED" =>
                                  \A k \in 1 .. MaxAttempts : audit[<<c, k>>].status # "SUCCEEDED"
            <4>1. \A r \in RunIds :
                     r[1] \in Calls /\ r[2] \in 1 .. MaxAttempts /\ r = <<r[1], r[2]>>
                BY DEF RunIds
            <4> QED
                BY <4>1 DEF ClosedHonestly
        <3>1. SuccessIsEffective(c) /\ AuditsAreTrue(c)
            BY <1>1 DEF IInv, CallIsSound
        <3> QED
            BY <3>1 DEF SuccessIsEffective, Effective, AuditsAreTrue, RunsOf
    <2> QED
        BY <2>1, <2>2, <2>3 DEF RecordsAreHonest
<1>2. IInv => RecordsAreHonest
    BY <1>1
<1> QED
    BY <1>2, ReplayInvariant, PTL

\* A marked batch was replayed by the attempt that marked it, with the whole scope
\* of that attempt (mark_quarantine_replayed).
THEOREM ReplayMarkersAreBacked == Spec => []MarkerIsBacked
<1>1. IInv => MarkerIsBacked
    BY DEF IInv
<1> QED
    BY <1>1, ReplayInvariant, PTL

\* One decision per status, and only approved corrections reach the target, for any
\* number of racing reviewers and replays (_validate_correction_provenance).
THEOREM ReplayIsGoverned == Spec => []GovernanceHolds
<1>1. ASSUME IInv PROVE GovernanceHolds
    <2>1. ReviewIsChain
        BY <1>1 DEF IInv, ReviewsFollow
    <2>2. ASSUME NEW m \in applied \cup inflight, NEW q \in Batches, m.payload[q] \in Reviews
          PROVE  m.payload[q] = CaseCorrection(q)
        <3>1. PICK e \in events[q] : e.to = "RESOLVED" /\ e.correction = m.payload[q]
            BY <1>1, <2>2 DEF IInv, CorrectionsGranted, Granted
        <3>2. events[q] \in SUBSET ReviewEvents /\ IsReviewChain(events[q]) /\ events[q] # {}
            BY <1>1, <2>1, <3>1 DEF IInv, Shapes, GovernanceShapes, ReviewIsChain
        <3>3. Latest(events[q]) = e
            BY <3>1, <3>2, LatestFacts DEF Terminal
        <3> QED
            BY <3>1, <3>3 DEF CaseCorrection
    <2> QED
        BY <2>1, <2>2 DEF GovernanceHolds, OnlyApprovedCorrections
<1>2. IInv => GovernanceHolds
    BY <1>1
<1> QED
    BY <1>2, ReplayInvariant, PTL
=============================================================================
