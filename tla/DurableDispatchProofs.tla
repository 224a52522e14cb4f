------------------------ MODULE DurableDispatchProofs ------------------------
(* Proofs about DurableDispatch, for every number of dispatches, processes *)
(* and tokens.                                                             *)
EXTENDS DurableDispatch, TLAPS

(* The shape of the state is preserved by every step. *)
LEMMA TypeStep == TypeOK /\ [Next]_vars => TypeOK'
<1> SUFFICES ASSUME TypeOK, [Next]_vars PROVE TypeOK'
  OBVIOUS
<1> USE DispatchAssumption DEF TypeOK, rowVars, pubVars, wrkVars, answerVars,
        history
<1>1. ASSUME NEW d \in Dispatches, Enqueue(d) PROVE TypeOK'
  BY <1>1 DEF Enqueue, Statuses, LeasedStates, TerminalStates
<1>2. ASSUME NEW d \in Dispatches, Revive(d) PROVE TypeOK'
  BY <1>2 DEF Revive, Statuses, LeasedStates, TerminalStates, SetJob,
      JobStatus, JobStatuses
<1>3. ASSUME NEW d \in Dispatches, FailLostExternalRun(d) PROVE TypeOK'
  BY <1>3 DEF FailLostExternalRun, Statuses, LeasedStates, TerminalStates,
      SetJob, TerminatedJob, JobStatus, JobStatuses
<1>4. ASSUME NEW d \in Dispatches, BecomeDue(d) PROVE TypeOK'
  BY <1>4 DEF BecomeDue
<1>5. ASSUME NEW d \in Dispatches, ExpireLease(d) PROVE TypeOK'
  BY <1>5 DEF ExpireLease
<1>6. ASSUME NEW d \in Dispatches, ClaimGoesStale(d) PROVE TypeOK'
  BY <1>6 DEF ClaimGoesStale
<1>7. ASSUME NEW d \in Dispatches, ResolveAccounting(d) PROVE TypeOK'
  BY <1>7 DEF ResolveAccounting, SetAnswer, CheckpointStates, JobStatuses
<1>8. ASSUME NEW w \in Workers, NEW d \in Dispatches, NEW t \in Tokens,
             ClaimRun(w, d, t)
      PROVE  TypeOK'
  <2>1. PICK s \in PreparedJobs(d, run_attempts[d] + 1) : SetJob(d, s)
    BY <1>8 DEF ClaimRun
  <2>2. PreparedJobs(d, run_attempts[d] + 1) \subseteq JobStatuses
    BY DEF PreparedJobs, JobStatus, JobStatuses
  <2>3. job' \in [Dispatches -> JobStatuses]
    BY <2>1, <2>2 DEF SetJob
  <2>4. /\ status' \in [Dispatches -> Statuses]
        /\ lease' \in [Dispatches -> {"none", "live", "expired"}]
        /\ run_attempts' \in [Dispatches -> Nat]
        /\ wpc' \in [Workers -> WorkerPCs]
    BY <1>8 DEF ClaimRun, Statuses, LeasedStates, WorkerPCs, InsidePCs,
       ExecutingPCs
  <2> QED
    BY <1>8, <2>3, <2>4, SMTT(30) DEF ClaimRun
<1>9. ASSUME NEW d \in Dispatches, NEW t \in Tokens, ClaimExhausted(d, t)
      PROVE  TypeOK'
  BY <1>9 DEF ClaimExhausted, Claimable, Statuses, LeasedStates,
      TerminalStates, SetJob, TerminatedJob, JobStatus, JobStatuses
<1>10. ASSUME NEW p \in Publishers, NEW d \in Dispatches, PublishClaim(p, d)
      PROVE  TypeOK'
  BY <1>10 DEF PublishClaim, Statuses, LeasedStates, TerminalStates,
      PublisherPCs
<1>11. ASSUME NEW p \in Publishers, SendOk(p) PROVE TypeOK'
  BY <1>11 DEF SendOk, PublisherAt, PublisherPCs
<1>12. ASSUME NEW p \in Publishers, SendError(p) PROVE TypeOK'
  BY <1>12 DEF SendError, PublisherAt, PublisherPCs
<1>13. ASSUME NEW p \in Publishers, RevertToPending(p) PROVE TypeOK'
  <2>1. pdisp[p] \in Dispatches
    BY <1>13 DEF RevertToPending
  <2>2. CASE PublisherOwns(p)
    <3>1. due' \in [Dispatches -> BOOLEAN]
      BY <1>13, <2>1, <2>2 DEF RevertToPending
    <3>2. status' \in [Dispatches -> Statuses]
      BY <1>13, <2>1, <2>2 DEF RevertToPending, Statuses
    <3>3. claim_token' \in [Dispatches -> Tokens \union {NoToken}]
      BY <1>13, <2>1, <2>2 DEF RevertToPending
    <3>4. lease' \in [Dispatches -> {"none", "live", "expired"}]
      BY <1>13, <2>1, <2>2 DEF RevertToPending
    <3>5. UNCHANGED run_attempts
      BY <1>13, <2>2 DEF RevertToPending
    <3>6. /\ FreePublisher(p)
          /\ UNCHANGED <<job, broker, wrkVars, answerVars, history>>
      BY <1>13 DEF RevertToPending
    <3> QED
      BY <3>1, <3>2, <3>3, <3>4, <3>5, <3>6 DEF FreePublisher, PublisherPCs
  <2>3. CASE ~PublisherOwns(p)
    BY <1>13, <2>3 DEF RevertToPending, FreePublisher, PublisherPCs
  <2> QED
    BY <2>2, <2>3
<1>14. ASSUME NEW p \in Publishers, MarkPublished(p) PROVE TypeOK'
  BY <1>14 DEF MarkPublished, PublisherOwns, FreePublisher, PublisherPCs,
      Statuses, LeasedStates, TerminalStates
<1>15. ASSUME NEW p \in Publishers, PublisherCrash(p) PROVE TypeOK'
  BY <1>15 DEF PublisherCrash, FreePublisher, PublisherPCs
<1>16. ASSUME NEW m \in broker, DropMessage(m) PROVE TypeOK'
  BY <1>16 DEF DropMessage
<1>17. ASSUME NEW w \in Workers, TargetBegin(w) PROVE TypeOK'
  <2>1. job' \in [Dispatches -> JobStatuses]
    BY <1>17 DEF TargetBegin, SetJob, JobStatuses
  <2>2. /\ wpc[w] = "claimed"
        /\ WorkerAt(w, "begun")
        /\ UNCHANGED <<rowVars, broker, pubVars, answerVars, history>>
    BY <1>17 DEF TargetBegin
  <2> QED
    BY <2>1, <2>2 DEF WorkerAt, WorkerPCs, InsidePCs, ExecutingPCs, AnswerPCs, ApplyPCs, ApplyingPCs, AppliedPCs, RaisedPCs, MarkingPCs
<1>18. ASSUME NEW w \in Workers, TargetSkip(w) PROVE TypeOK'
  BY <1>18 DEF TargetSkip, WorkerAt, WorkerPCs, InsidePCs, ExecutingPCs,
      AnswerPCs, ApplyPCs, ApplyingPCs, AppliedPCs, RaisedPCs, MarkingPCs
<1>19. ASSUME NEW w \in Workers, TargetSave(w) PROVE TypeOK'
  BY <1>19 DEF TargetSave, WorkerAt, SetJob, JobStatuses, WorkerPCs,
      InsidePCs, ExecutingPCs, AnswerPCs, ApplyPCs, ApplyingPCs, AppliedPCs,
      RaisedPCs, MarkingPCs
<1>20. ASSUME NEW w \in Workers, TargetCross(w) PROVE TypeOK'
  BY <1>20 DEF TargetCross, WorkerAt, WorkerPCs, InsidePCs, ExecutingPCs,
      AnswerPCs, ApplyPCs, ApplyingPCs, AppliedPCs, RaisedPCs, MarkingPCs
<1>21. ASSUME NEW w \in Workers, TargetReturn(w) PROVE TypeOK'
  BY <1>21 DEF TargetReturn, WorkerAt, SetJob, JobStatuses, WorkerPCs,
      InsidePCs, ExecutingPCs, AnswerPCs, ApplyPCs, ApplyingPCs, AppliedPCs,
      RaisedPCs, MarkingPCs
<1>22. ASSUME NEW w \in Workers, TargetLockBusy(w) PROVE TypeOK'
  BY <1>22 DEF TargetLockBusy, WorkerAt, WorkerPCs, InsidePCs, ExecutingPCs,
      AnswerPCs, ApplyPCs, ApplyingPCs, AppliedPCs, RaisedPCs, MarkingPCs
<1>23. ASSUME NEW w \in Workers, TargetRaiseSafe(w) PROVE TypeOK'
  BY <1>23 DEF TargetRaiseSafe, WorkerAt, SetJob, JobStatuses, WorkerPCs,
      InsidePCs, ExecutingPCs, AnswerPCs, ApplyPCs, ApplyingPCs, AppliedPCs,
      RaisedPCs, MarkingPCs
<1>24. ASSUME NEW w \in Workers, TargetRaiseError(w) PROVE TypeOK'
  BY <1>24, SMTT(30) DEF TargetRaiseError, WorkerAt, SetJob, JobStatuses, WorkerPCs,
      InsidePCs, ExecutingPCs, AnswerPCs, ApplyPCs, ApplyingPCs, AppliedPCs,
      RaisedPCs, MarkingPCs
<1>25. ASSUME NEW w \in Workers, TargetUnavailable(w) PROVE TypeOK'
  BY <1>25 DEF TargetUnavailable, WorkerAt, WorkerPCs, InsidePCs,
      ExecutingPCs, AnswerPCs, ApplyPCs, ApplyingPCs, AppliedPCs, RaisedPCs,
      MarkingPCs
<1>26. ASSUME NEW w \in Workers, TargetRecord(w) PROVE TypeOK'
  BY <1>26 DEF TargetRecord, WorkerAt, SetAnswer, WorkerPCs, InsidePCs,
      ExecutingPCs, AnswerPCs, ApplyPCs, ApplyingPCs, AppliedPCs, RaisedPCs,
      MarkingPCs, CheckpointStates
<1>27. ASSUME NEW w \in Workers, TargetClaimAnswer(w) PROVE TypeOK'
  BY <1>27 DEF TargetClaimAnswer, AtAnswer, ClaimFree, SetAnswer, WorkerPCs,
      InsidePCs, ExecutingPCs, AnswerPCs, ApplyPCs, ApplyingPCs, AppliedPCs,
      RaisedPCs, MarkingPCs, CheckpointStates
<1>28. ASSUME NEW w \in Workers, TargetAnswerTaken(w) PROVE TypeOK'
  BY <1>28 DEF TargetAnswerTaken, WorkerAt, AtAnswer, WorkerPCs, InsidePCs,
      ExecutingPCs, AnswerPCs, ApplyPCs, ApplyingPCs, AppliedPCs, RaisedPCs,
      MarkingPCs
<1>29. ASSUME NEW w \in Workers, TargetApply(w) PROVE TypeOK'
  BY <1>29 DEF TargetApply, WorkerAt, ApplyingPCs, SetJob, JobStatuses,
      WorkerPCs, InsidePCs, ExecutingPCs, AnswerPCs, ApplyPCs, AppliedPCs,
      RaisedPCs, MarkingPCs
<1>30. ASSUME NEW w \in Workers, TargetApplyFails(w) PROVE TypeOK'
  BY <1>30 DEF TargetApplyFails, WorkerAt, ApplyingPCs, RaiseFromApply,
      SetAnswer, WorkerPCs, InsidePCs, ExecutingPCs, AnswerPCs, ApplyPCs,
      AppliedPCs, RaisedPCs, MarkingPCs, CheckpointStates
<1>31. ASSUME NEW w \in Workers, TargetConfirm(w) PROVE TypeOK'
  BY <1>31 DEF TargetConfirm, WorkerAt, AppliedPCs, SetAnswer, WorkerPCs,
      InsidePCs, ExecutingPCs, AnswerPCs, ApplyPCs, ApplyingPCs, RaisedPCs,
      MarkingPCs, CheckpointStates
<1>32. ASSUME NEW w \in Workers, TargetConfirmFails(w) PROVE TypeOK'
  BY <1>32 DEF TargetConfirmFails, WorkerAt, AppliedPCs, RaiseFromApply,
      WorkerPCs, InsidePCs, ExecutingPCs, AnswerPCs, ApplyPCs, ApplyingPCs,
      RaisedPCs, MarkingPCs
<1>33. ASSUME NEW w \in Workers, TargetUnresolved(w) PROVE TypeOK'
  BY <1>33 DEF TargetUnresolved, WorkerAt, SetJob, JobStatuses, WorkerPCs,
      InsidePCs, ExecutingPCs, AnswerPCs, ApplyPCs, ApplyingPCs, AppliedPCs,
      RaisedPCs, MarkingPCs
<1>34. ASSUME NEW w \in Workers, FinishSucceeded(w) PROVE TypeOK'
  BY <1>34, SMTT(30) DEF FinishSucceeded, FreeWorker, WorkerOwns, WorkerPCs, InsidePCs,
      ExecutingPCs, AnswerPCs, ApplyPCs, ApplyingPCs, AppliedPCs, RaisedPCs,
      MarkingPCs, Statuses, LeasedStates, TerminalStates
<1>35. ASSUME NEW w \in Workers, FinishStale(w) PROVE TypeOK'
  BY <1>35 DEF FinishStale, FreeWorker, RaisedPCs, WorkerPCs
<1>36. ASSUME NEW w \in Workers, FinishFailed(w) PROVE TypeOK'
  <2>1. wdisp[w] \in Dispatches /\ wtoken[w] \in Tokens
    BY <1>36 DEF FinishFailed, RaisedPCs
  <2>2. CASE TerminalFailure(w)
    <3>1. /\ status' \in [Dispatches -> Statuses]
          /\ UNCHANGED due
      BY <1>36, <2>1, <2>2 DEF FinishFailed, Statuses, TerminalStates
    <3>2. wpc' \in [Workers -> WorkerPCs]
      BY <1>36, <2>2 DEF FinishFailed, WorkerAt, WorkerPCs, MarkingPCs
    <3>3. /\ claim_token' \in [Dispatches -> Tokens \union {NoToken}]
          /\ lease' \in [Dispatches -> {"none", "live", "expired"}]
      BY <1>36, <2>1 DEF FinishFailed
    <3>4. UNCHANGED <<run_attempts, job, broker, pubVars, answerVars, history>>
      BY <1>36 DEF FinishFailed
    <3>5. \/ WorkerAt(w, "mark_uncertain")
          \/ WorkerAt(w, "mark_failed")
      BY <1>36, <2>2 DEF FinishFailed
    <3> QED
      BY <2>1, <3>1, <3>2, <3>3, <3>4, <3>5 DEF WorkerAt
  <2>3. CASE ~TerminalFailure(w)
    <3>1. due' \in [Dispatches -> BOOLEAN]
      BY <1>36, <2>1, <2>3 DEF FinishFailed
    <3>2. status' \in [Dispatches -> Statuses]
      BY <1>36, <2>1, <2>3 DEF FinishFailed, Statuses
    <3>3. wpc' \in [Workers -> WorkerPCs]
      BY <1>36, <2>3 DEF FinishFailed, WorkerAt, WorkerPCs, MarkingPCs
    <3>4. /\ claim_token' \in [Dispatches -> Tokens \union {NoToken}]
          /\ lease' \in [Dispatches -> {"none", "live", "expired"}]
      BY <1>36, <2>1 DEF FinishFailed
    <3>5. UNCHANGED <<run_attempts, job, broker, pubVars, answerVars, history>>
      BY <1>36 DEF FinishFailed
    <3>6. WorkerAt(w, "mark_retry")
      BY <1>36, <2>3 DEF FinishFailed
    <3> QED
      BY <2>1, <3>1, <3>2, <3>3, <3>4, <3>5, <3>6 DEF WorkerAt, MarkingPCs,
         WorkerPCs
  <2> QED
    BY <2>2, <2>3
<1>37. ASSUME NEW w \in Workers, MarkDomainJob(w) PROVE TypeOK'
  <2>1. /\ RetriedJob(wdisp[w]) \in JobStatuses
        /\ \A u \in BOOLEAN : TerminatedJob(wdisp[w], u) \in JobStatuses
    BY <1>37 DEF MarkDomainJob, RetriedJob, TerminatedJob, JobStatus,
       JobStatuses
  <2>2. job' \in [Dispatches -> JobStatuses]
    BY <1>37, <2>1, ZenonT(30) DEF MarkDomainJob, SetJob
  <2> QED
    BY <1>37, <2>2 DEF MarkDomainJob, FreeWorker, WorkerPCs
<1>38. ASSUME NEW w \in Workers, WorkerCrash(w) PROVE TypeOK'
  BY <1>38 DEF WorkerCrash, FreeWorker, WorkerPCs
<1>39. CASE UNCHANGED vars
  BY <1>39 DEF vars
<1> HIDE DEF TypeOK, rowVars, pubVars, wrkVars, answerVars, history
<1> QED
  BY <1>1, <1>2, <1>3, <1>4, <1>5, <1>6, <1>7, <1>8, <1>9, <1>10, <1>11,
      <1>12, <1>13, <1>14, <1>15, <1>16, <1>17, <1>18, <1>19, <1>20, <1>21,
      <1>22, <1>23, <1>24, <1>25, <1>26, <1>27, <1>28, <1>29, <1>30, <1>31,
      <1>32, <1>33, <1>34, <1>35, <1>36, <1>37, <1>38, <1>39
  DEF Next, DispatchStep, ClaimStep, PublisherStep, WorkerStep, TargetStep,
      AnswerStep

(* Every reachable state has the shape of the model, for any number of     *)
(* dispatches, publishers, workers and tokens.                             *)
THEOREM TypeCorrect == Spec => []TypeOK
<1>1. Init => TypeOK
  BY DispatchAssumption
      DEF Init, TypeOK, Statuses, JobStatuses, PublisherPCs, WorkerPCs,
          CheckpointStates
<1> QED
  BY <1>1, TypeStep, PTL DEF Spec

-----------------------------------------------------------------------------
(* Tokens.  A token is held by at most one dispatch and one worker, and no *)
(* worker has held the token of a dispatch that is still to be claimed.    *)

OwnTokens ==
    \A v, w \in Workers : v # w /\ wtoken[v] = wtoken[w] => wtoken[v] = NoToken

TokenInv ==
    /\ OwnTokens
    /\ \A w \in Workers : wpc[w] = "idle" => wtoken[w] = NoToken
    /\ \A d, e \in Dispatches :
         d # e /\ claim_token[d] = claim_token[e] => claim_token[d] = NoToken
    /\ \A d \in Dispatches : status[d] \in {"publishing", "published"} =>
         /\ \A w \in Workers : wpc[w] # "idle" => wtoken[w] # claim_token[d]
         /\ <<d, claim_token[d]>> \notin executed

(* Token ownership is preserved by every step. *)
LEMMA TokenStep == TypeOK /\ TokenInv /\ [Next]_vars => TokenInv'
<1> SUFFICES ASSUME TypeOK, TokenInv, [Next]_vars PROVE TokenInv'
  OBVIOUS
<1> USE DispatchAssumption DEF TypeOK, TokenInv, OwnTokens, rowVars, pubVars,
        wrkVars, history
<1>1. ASSUME NEW d \in Dispatches, Enqueue(d) PROVE TokenInv'
  BY <1>1 DEF Enqueue
<1>2. ASSUME NEW d \in Dispatches, Revive(d) PROVE TokenInv'
  BY <1>2 DEF Revive
<1>3. ASSUME NEW d \in Dispatches, FailLostExternalRun(d) PROVE TokenInv'
  BY <1>3 DEF FailLostExternalRun
<1>4. ASSUME NEW d \in Dispatches, BecomeDue(d) PROVE TokenInv'
  BY <1>4 DEF BecomeDue
<1>5. ASSUME NEW d \in Dispatches, ExpireLease(d) PROVE TokenInv'
  BY <1>5 DEF ExpireLease
<1>6. ASSUME NEW d \in Dispatches, ClaimGoesStale(d) PROVE TokenInv'
  BY <1>6 DEF ClaimGoesStale
<1>7. ASSUME NEW d \in Dispatches, ResolveAccounting(d) PROVE TokenInv'
  BY <1>7 DEF ResolveAccounting, SetAnswer
<1>8. ASSUME NEW w \in Workers, NEW d \in Dispatches, NEW t \in Tokens,
             ClaimRun(w, d, t)
      PROVE  TokenInv'
  BY <1>8 DEF ClaimRun, Claimable
<1>9. ASSUME NEW d \in Dispatches, NEW t \in Tokens, ClaimExhausted(d, t)
      PROVE  TokenInv'
  BY <1>9 DEF ClaimExhausted, Claimable
<1>10. ASSUME NEW p \in Publishers, NEW d \in Dispatches, PublishClaim(p, d)
      PROVE  TokenInv'
  <2>1. PICK t \in Tokens :
            FreshToken(t) /\ claim_token' = [claim_token EXCEPT ![d] = t]
    BY <1>10 DEF PublishClaim
  <2>2. /\ status' = [status EXCEPT ![d] = "publishing"]
        /\ UNCHANGED <<wpc, wtoken, executed>>
    BY <1>10 DEF PublishClaim
  <2> QED
    BY <2>1, <2>2, ZenonT(30) DEF FreshToken
<1>11. ASSUME NEW p \in Publishers, SendOk(p) PROVE TokenInv'
  BY <1>11 DEF SendOk
<1>12. ASSUME NEW p \in Publishers, SendError(p) PROVE TokenInv'
  BY <1>12 DEF SendError
<1>13. ASSUME NEW p \in Publishers, RevertToPending(p) PROVE TokenInv'
  BY <1>13, SMTT(30) DEF RevertToPending, PublisherOwns
<1>14. ASSUME NEW p \in Publishers, MarkPublished(p) PROVE TokenInv'
  BY <1>14 DEF MarkPublished, PublisherOwns
<1>15. ASSUME NEW p \in Publishers, PublisherCrash(p) PROVE TokenInv'
  BY <1>15 DEF PublisherCrash
<1>16. ASSUME NEW m \in broker, DropMessage(m) PROVE TokenInv'
  BY <1>16 DEF DropMessage
<1>17. ASSUME NEW w \in Workers, TargetBegin(w) PROVE TokenInv'
  BY <1>17 DEF TargetBegin, WorkerAt
<1>18. ASSUME NEW w \in Workers, TargetSkip(w) PROVE TokenInv'
  BY <1>18 DEF TargetSkip, WorkerAt
<1>19. ASSUME NEW w \in Workers, TargetSave(w) PROVE TokenInv'
  BY <1>19 DEF TargetSave, WorkerAt
<1>20. ASSUME NEW w \in Workers, TargetCross(w) PROVE TokenInv'
  BY <1>20 DEF TargetCross, WorkerAt
<1>21. ASSUME NEW w \in Workers, TargetReturn(w) PROVE TokenInv'
  BY <1>21 DEF TargetReturn, WorkerAt
<1>22. ASSUME NEW w \in Workers, TargetLockBusy(w) PROVE TokenInv'
  BY <1>22 DEF TargetLockBusy, WorkerAt
<1>23. ASSUME NEW w \in Workers, TargetRaiseSafe(w) PROVE TokenInv'
  BY <1>23 DEF TargetRaiseSafe, WorkerAt
<1>24. ASSUME NEW w \in Workers, TargetRaiseError(w) PROVE TokenInv'
  BY <1>24 DEF TargetRaiseError, WorkerAt, ExecutingPCs
<1>25. ASSUME NEW w \in Workers, TargetUnavailable(w) PROVE TokenInv'
  BY <1>25 DEF TargetUnavailable, WorkerAt
<1>26. ASSUME NEW w \in Workers, TargetRecord(w) PROVE TokenInv'
  BY <1>26 DEF TargetRecord, WorkerAt, SetAnswer
<1>27. ASSUME NEW w \in Workers, TargetClaimAnswer(w) PROVE TokenInv'
  BY <1>27 DEF TargetClaimAnswer, AtAnswer, ClaimFree, SetAnswer
<1>28. ASSUME NEW w \in Workers, TargetAnswerTaken(w) PROVE TokenInv'
  BY <1>28 DEF TargetAnswerTaken, WorkerAt, AtAnswer
<1>29. ASSUME NEW w \in Workers, TargetApply(w) PROVE TokenInv'
  BY <1>29 DEF TargetApply, WorkerAt, ApplyingPCs
<1>30. ASSUME NEW w \in Workers, TargetApplyFails(w) PROVE TokenInv'
  BY <1>30 DEF TargetApplyFails, WorkerAt, ApplyingPCs, RaiseFromApply,
      SetAnswer
<1>31. ASSUME NEW w \in Workers, TargetConfirm(w) PROVE TokenInv'
  BY <1>31 DEF TargetConfirm, WorkerAt, AppliedPCs, SetAnswer
<1>32. ASSUME NEW w \in Workers, TargetConfirmFails(w) PROVE TokenInv'
  BY <1>32 DEF TargetConfirmFails, WorkerAt, AppliedPCs, RaiseFromApply
<1>33. ASSUME NEW w \in Workers, TargetUnresolved(w) PROVE TokenInv'
  BY <1>33 DEF TargetUnresolved, WorkerAt
<1>34. ASSUME NEW w \in Workers, FinishSucceeded(w) PROVE TokenInv'
  BY <1>34 DEF FinishSucceeded, FreeWorker, WorkerOwns
<1>35. ASSUME NEW w \in Workers, FinishStale(w) PROVE TokenInv'
  BY <1>35 DEF FinishStale, FreeWorker, RaisedPCs
<1>36. ASSUME NEW w \in Workers, FinishFailed(w) PROVE TokenInv'
  BY <1>36 DEF FinishFailed, WorkerAt, WorkerOwns, RaisedPCs
<1>37. ASSUME NEW w \in Workers, MarkDomainJob(w) PROVE TokenInv'
  BY <1>37 DEF MarkDomainJob, FreeWorker
<1>38. ASSUME NEW w \in Workers, WorkerCrash(w) PROVE TokenInv'
  BY <1>38 DEF WorkerCrash, FreeWorker
<1>39. CASE UNCHANGED vars
  BY <1>39 DEF vars
<1> HIDE DEF TypeOK, TokenInv, OwnTokens, rowVars, pubVars, wrkVars, history
<1> QED
  BY <1>1, <1>2, <1>3, <1>4, <1>5, <1>6, <1>7, <1>8, <1>9, <1>10, <1>11,
      <1>12, <1>13, <1>14, <1>15, <1>16, <1>17, <1>18, <1>19, <1>20, <1>21,
      <1>22, <1>23, <1>24, <1>25, <1>26, <1>27, <1>28, <1>29, <1>30, <1>31,
      <1>32, <1>33, <1>34, <1>35, <1>36, <1>37, <1>38, <1>39
  DEF Next, DispatchStep, ClaimStep, PublisherStep, WorkerStep, TargetStep,
      AnswerStep

(* TokenInv holds in every reachable state: the token of a row that waits for *)
(* its worker is held by no other row and by no worker, and its message has   *)
(* not been executed.                                                         *)
LEMMA TokenInvariant == Spec => []TokenInv
<1>1. Init => TokenInv
  BY DispatchAssumption DEF Init, TokenInv, OwnTokens
<1> QED
  BY <1>1, TypeCorrect, TokenStep, PTL DEF Spec

BeginsExecution(w) == wpc[w] = "idle" /\ wpc'[w] = "claimed"

(* Only a claim starts an execution. *)
LEMMA BeginStep ==
    ASSUME TypeOK, [Next]_vars, NEW v \in Workers, BeginsExecution(v)
    PROVE  \E d \in Dispatches, t \in Tokens : ClaimRun(v, d, t)
<1> DEFINE Goal == \E d \in Dispatches, t \in Tokens : ClaimRun(v, d, t)
<1> USE DEF TypeOK, BeginsExecution, pubVars, wrkVars
<1>1. ASSUME NEW d \in Dispatches, Enqueue(d) PROVE Goal
  BY <1>1 DEF Enqueue
<1>2. ASSUME NEW d \in Dispatches, Revive(d) PROVE Goal
  BY <1>2 DEF Revive
<1>3. ASSUME NEW d \in Dispatches, FailLostExternalRun(d) PROVE Goal
  BY <1>3 DEF FailLostExternalRun
<1>4. ASSUME NEW d \in Dispatches, BecomeDue(d) PROVE Goal
  BY <1>4 DEF BecomeDue
<1>5. ASSUME NEW d \in Dispatches, ExpireLease(d) PROVE Goal
  BY <1>5 DEF ExpireLease
<1>6. ASSUME NEW d \in Dispatches, ClaimGoesStale(d) PROVE Goal
  BY <1>6 DEF ClaimGoesStale
<1>7. ASSUME NEW d \in Dispatches, ResolveAccounting(d) PROVE Goal
  BY <1>7 DEF ResolveAccounting, SetAnswer
<1>8. ASSUME NEW w \in Workers, NEW d \in Dispatches, NEW t \in Tokens,
             ClaimRun(w, d, t)
      PROVE  Goal
  BY <1>8 DEF ClaimRun
<1>9. ASSUME NEW d \in Dispatches, NEW t \in Tokens, ClaimExhausted(d, t)
      PROVE  Goal
  BY <1>9 DEF ClaimExhausted, Claimable
<1>10. ASSUME NEW p \in Publishers, NEW d \in Dispatches, PublishClaim(p, d)
      PROVE  Goal
  BY <1>10 DEF PublishClaim
<1>11. ASSUME NEW p \in Publishers, SendOk(p) PROVE Goal
  BY <1>11 DEF SendOk
<1>12. ASSUME NEW p \in Publishers, SendError(p) PROVE Goal
  BY <1>12 DEF SendError
<1>13. ASSUME NEW p \in Publishers, RevertToPending(p) PROVE Goal
  BY <1>13 DEF RevertToPending, PublisherOwns
<1>14. ASSUME NEW p \in Publishers, MarkPublished(p) PROVE Goal
  BY <1>14 DEF MarkPublished, PublisherOwns
<1>15. ASSUME NEW p \in Publishers, PublisherCrash(p) PROVE Goal
  BY <1>15 DEF PublisherCrash
<1>16. ASSUME NEW m \in broker, DropMessage(m) PROVE Goal
  BY <1>16 DEF DropMessage
<1>17. ASSUME NEW w \in Workers, TargetBegin(w) PROVE Goal
  BY <1>17 DEF TargetBegin, WorkerAt
<1>18. ASSUME NEW w \in Workers, TargetSkip(w) PROVE Goal
  BY <1>18 DEF TargetSkip, WorkerAt
<1>19. ASSUME NEW w \in Workers, TargetSave(w) PROVE Goal
  BY <1>19 DEF TargetSave, WorkerAt
<1>20. ASSUME NEW w \in Workers, TargetCross(w) PROVE Goal
  BY <1>20 DEF TargetCross, WorkerAt
<1>21. ASSUME NEW w \in Workers, TargetReturn(w) PROVE Goal
  BY <1>21 DEF TargetReturn, WorkerAt
<1>22. ASSUME NEW w \in Workers, TargetLockBusy(w) PROVE Goal
  BY <1>22 DEF TargetLockBusy, WorkerAt
<1>23. ASSUME NEW w \in Workers, TargetRaiseSafe(w) PROVE Goal
  BY <1>23 DEF TargetRaiseSafe, WorkerAt
<1>24. ASSUME NEW w \in Workers, TargetRaiseError(w) PROVE Goal
  BY <1>24 DEF TargetRaiseError, WorkerAt, ExecutingPCs
<1>25. ASSUME NEW w \in Workers, TargetUnavailable(w) PROVE Goal
  BY <1>25 DEF TargetUnavailable, WorkerAt
<1>26. ASSUME NEW w \in Workers, TargetRecord(w) PROVE Goal
  BY <1>26 DEF TargetRecord, WorkerAt, SetAnswer
<1>27. ASSUME NEW w \in Workers, TargetClaimAnswer(w) PROVE Goal
  BY <1>27 DEF TargetClaimAnswer, AtAnswer, ClaimFree, SetAnswer
<1>28. ASSUME NEW w \in Workers, TargetAnswerTaken(w) PROVE Goal
  BY <1>28 DEF TargetAnswerTaken, WorkerAt, AtAnswer
<1>29. ASSUME NEW w \in Workers, TargetApply(w) PROVE Goal
  BY <1>29 DEF TargetApply, WorkerAt, ApplyingPCs
<1>30. ASSUME NEW w \in Workers, TargetApplyFails(w) PROVE Goal
  BY <1>30 DEF TargetApplyFails, WorkerAt, ApplyingPCs, RaiseFromApply,
      SetAnswer
<1>31. ASSUME NEW w \in Workers, TargetConfirm(w) PROVE Goal
  BY <1>31 DEF TargetConfirm, WorkerAt, AppliedPCs, SetAnswer
<1>32. ASSUME NEW w \in Workers, TargetConfirmFails(w) PROVE Goal
  BY <1>32 DEF TargetConfirmFails, WorkerAt, AppliedPCs, RaiseFromApply
<1>33. ASSUME NEW w \in Workers, TargetUnresolved(w) PROVE Goal
  BY <1>33 DEF TargetUnresolved, WorkerAt
<1>34. ASSUME NEW w \in Workers, FinishSucceeded(w) PROVE Goal
  BY <1>34 DEF FinishSucceeded, FreeWorker, WorkerOwns
<1>35. ASSUME NEW w \in Workers, FinishStale(w) PROVE Goal
  BY <1>35 DEF FinishStale, FreeWorker, RaisedPCs
<1>36. ASSUME NEW w \in Workers, FinishFailed(w) PROVE Goal
  BY <1>36 DEF FinishFailed, WorkerAt, WorkerOwns, RaisedPCs
<1>37. ASSUME NEW w \in Workers, MarkDomainJob(w) PROVE Goal
  BY <1>37 DEF MarkDomainJob, FreeWorker
<1>38. ASSUME NEW w \in Workers, WorkerCrash(w) PROVE Goal
  BY <1>38 DEF WorkerCrash, FreeWorker
<1>39. CASE UNCHANGED vars
  BY <1>39 DEF vars
<1> HIDE DEF TypeOK, BeginsExecution, pubVars, wrkVars
<1> QED
  BY <1>1, <1>2, <1>3, <1>4, <1>5, <1>6, <1>7, <1>8, <1>9, <1>10, <1>11,
      <1>12, <1>13, <1>14, <1>15, <1>16, <1>17, <1>18, <1>19, <1>20, <1>21,
      <1>22, <1>23, <1>24, <1>25, <1>26, <1>27, <1>28, <1>29, <1>30, <1>31,
      <1>32, <1>33, <1>34, <1>35, <1>36, <1>37, <1>38, <1>39
  DEF Next, DispatchStep, ClaimStep, PublisherStep, WorkerStep, TargetStep,
      AnswerStep

(* A claim token is executed at most once: neither a redelivery nor a stale *)
(* message starts it again, even after its first execution is over          *)
(* (claim_dispatch).                                                        *)
THEOREM TokenOwnership == Spec => TokenExecutedOnce
<1>1. TypeOK /\ TokenInv /\ [Next]_vars =>
        [\A w \in Workers : wpc[w] = "idle" /\ wpc'[w] = "claimed"
                      => <<wdisp'[w], wtoken'[w]>> \notin executed]_vars
  <2> SUFFICES ASSUME TypeOK, TokenInv, [Next]_vars,
                      NEW w \in Workers, BeginsExecution(w)
               PROVE  <<wdisp'[w], wtoken'[w]>> \notin executed
    BY DEF BeginsExecution
  <2>1. PICK d \in Dispatches, t \in Tokens : ClaimRun(w, d, t)
    BY BeginStep
  <2>2. wdisp'[w] = d /\ wtoken'[w] = t
    BY <2>1 DEF ClaimRun, TypeOK
  <2>3. status[d] \in {"publishing", "published"} /\ claim_token[d] = t
    BY <2>1 DEF ClaimRun, Claimable
  <2> QED
    BY <2>2, <2>3 DEF TokenInv
<1> QED
  BY <1>1, TypeCorrect, TokenInvariant, PTL DEF Spec, TokenExecutedOnce

-----------------------------------------------------------------------------
(* The provider's answer to a media job.                                   *)

HoldingPCs == AnswerPCs \ {"unresolved"}

(* An answer is stored only after the call.  Whoever works on an answer, or *)
(* on a resume row, has one stored: such a worker never calls the provider. *)
StoredInv ==
    /\ \A d \in Dispatches :
         /\ checkpoint[d] # "none" => crossings[d] > 0
         /\ stale_claims[d] # {} => checkpoint[d] # "none"
         /\ KindOf[d] = "resume" /\ status[d] # "absent" => Answer(d) # "none"
    /\ \A w \in Workers :
         /\ wpc[w] = "crossed" => crossings[JobOf[wdisp[w]]] > 0
         /\ wpc[w] \in AnswerPCs => MediaTask(wdisp[w])
         /\ wpc[w] \in HoldingPCs => Answer(wdisp[w]) # "none"
         /\ wpc[w] # "idle" /\ KindOf[wdisp[w]] = "resume" =>
              Answer(wdisp[w]) # "none" /\ wpc[w] \notin {"ready", "crossed"}

(* A stored answer stays stored, by every step. *)
LEMMA StoredStep == TypeOK /\ StoredInv /\ [Next]_vars => StoredInv'
<1> SUFFICES ASSUME TypeOK, StoredInv, [Next]_vars PROVE StoredInv'
  OBVIOUS
<1> USE DispatchAssumption DEF TypeOK, StoredInv, Answer, MediaTask, HoldingPCs,
        AnswerPCs, ApplyPCs, ApplyingPCs, AppliedPCs, rowVars, pubVars, wrkVars,
        answerVars, history
<1>1. ASSUME NEW d \in Dispatches, Enqueue(d) PROVE StoredInv'
  BY <1>1 DEF Enqueue, ResumeDue
<1>2. ASSUME NEW d \in Dispatches, Revive(d) PROVE StoredInv'
  BY <1>2 DEF Revive
<1>3. ASSUME NEW d \in Dispatches, FailLostExternalRun(d) PROVE StoredInv'
  BY <1>3 DEF FailLostExternalRun, Publishable, LeasedStates
<1>4. ASSUME NEW d \in Dispatches, BecomeDue(d) PROVE StoredInv'
  BY <1>4 DEF BecomeDue
<1>5. ASSUME NEW d \in Dispatches, ExpireLease(d) PROVE StoredInv'
  BY <1>5 DEF ExpireLease
<1>6. ASSUME NEW d \in Dispatches, ClaimGoesStale(d) PROVE StoredInv'
  BY <1>6 DEF ClaimGoesStale
<1>7. ASSUME NEW d \in Dispatches, ResolveAccounting(d) PROVE StoredInv'
  BY <1>7 DEF ResolveAccounting, SetAnswer
<1>8. ASSUME NEW w \in Workers, NEW d \in Dispatches, NEW t \in Tokens,
             ClaimRun(w, d, t)
      PROVE  StoredInv'
  BY <1>8 DEF ClaimRun, Claimable
<1>9. ASSUME NEW d \in Dispatches, NEW t \in Tokens, ClaimExhausted(d, t)
      PROVE  StoredInv'
  BY <1>9 DEF ClaimExhausted, Claimable
<1>10. ASSUME NEW p \in Publishers, NEW d \in Dispatches, PublishClaim(p, d)
      PROVE  StoredInv'
  BY <1>10 DEF PublishClaim, Publishable, LeasedStates
<1>11. ASSUME NEW p \in Publishers, SendOk(p) PROVE StoredInv'
  BY <1>11 DEF SendOk
<1>12. ASSUME NEW p \in Publishers, SendError(p) PROVE StoredInv'
  BY <1>12 DEF SendError
<1>13. ASSUME NEW p \in Publishers, RevertToPending(p) PROVE StoredInv'
  BY <1>13 DEF RevertToPending, PublisherOwns
<1>14. ASSUME NEW p \in Publishers, MarkPublished(p) PROVE StoredInv'
  BY <1>14 DEF MarkPublished, PublisherOwns
<1>15. ASSUME NEW p \in Publishers, PublisherCrash(p) PROVE StoredInv'
  BY <1>15 DEF PublisherCrash
<1>16. ASSUME NEW m \in broker, DropMessage(m) PROVE StoredInv'
  BY <1>16 DEF DropMessage
<1>17. ASSUME NEW w \in Workers, TargetBegin(w) PROVE StoredInv'
  BY <1>17 DEF TargetBegin, WorkerAt
<1>18. ASSUME NEW w \in Workers, TargetSkip(w) PROVE StoredInv'
  BY <1>18 DEF TargetSkip, WorkerAt
<1>19. ASSUME NEW w \in Workers, TargetSave(w) PROVE StoredInv'
  BY <1>19 DEF TargetSave, WorkerAt
<1>20. ASSUME NEW w \in Workers, TargetCross(w) PROVE StoredInv'
  BY <1>20 DEF TargetCross, WorkerAt
<1>21. ASSUME NEW w \in Workers, TargetReturn(w) PROVE StoredInv'
  BY <1>21 DEF TargetReturn, WorkerAt
<1>22. ASSUME NEW w \in Workers, TargetLockBusy(w) PROVE StoredInv'
  BY <1>22 DEF TargetLockBusy, WorkerAt
<1>23. ASSUME NEW w \in Workers, TargetRaiseSafe(w) PROVE StoredInv'
  BY <1>23 DEF TargetRaiseSafe, WorkerAt
<1>24. ASSUME NEW w \in Workers, TargetRaiseError(w) PROVE StoredInv'
  BY <1>24 DEF TargetRaiseError, WorkerAt, ExecutingPCs
<1>25. ASSUME NEW w \in Workers, TargetUnavailable(w) PROVE StoredInv'
  BY <1>25 DEF TargetUnavailable, WorkerAt
<1>26. ASSUME NEW w \in Workers, TargetRecord(w) PROVE StoredInv'
  BY <1>26 DEF TargetRecord, WorkerAt, SetAnswer
<1>27. ASSUME NEW w \in Workers, TargetClaimAnswer(w) PROVE StoredInv'
  BY <1>27 DEF TargetClaimAnswer, AtAnswer, ClaimFree, SetAnswer
<1>28. ASSUME NEW w \in Workers, TargetAnswerTaken(w) PROVE StoredInv'
  BY <1>28 DEF TargetAnswerTaken, WorkerAt, AtAnswer
<1>29. ASSUME NEW w \in Workers, TargetApply(w) PROVE StoredInv'
  BY <1>29 DEF TargetApply, WorkerAt, ApplyingPCs
<1>30. ASSUME NEW w \in Workers, TargetApplyFails(w) PROVE StoredInv'
  BY <1>30 DEF TargetApplyFails, WorkerAt, ApplyingPCs, RaiseFromApply,
      SetAnswer, OwnsClaim
<1>31. ASSUME NEW w \in Workers, TargetConfirm(w) PROVE StoredInv'
  BY <1>31 DEF TargetConfirm, WorkerAt, AppliedPCs, SetAnswer, OwnsClaim
<1>32. ASSUME NEW w \in Workers, TargetConfirmFails(w) PROVE StoredInv'
  BY <1>32 DEF TargetConfirmFails, WorkerAt, AppliedPCs, RaiseFromApply
<1>33. ASSUME NEW w \in Workers, TargetUnresolved(w) PROVE StoredInv'
  BY <1>33 DEF TargetUnresolved, WorkerAt
<1>34. ASSUME NEW w \in Workers, FinishSucceeded(w) PROVE StoredInv'
  BY <1>34 DEF FinishSucceeded, FreeWorker, WorkerOwns
<1>35. ASSUME NEW w \in Workers, FinishStale(w) PROVE StoredInv'
  BY <1>35 DEF FinishStale, FreeWorker, RaisedPCs
<1>36. ASSUME NEW w \in Workers, FinishFailed(w) PROVE StoredInv'
  BY <1>36 DEF FinishFailed, WorkerAt, WorkerOwns, RaisedPCs, MarkingPCs
<1>37. ASSUME NEW w \in Workers, MarkDomainJob(w) PROVE StoredInv'
  BY <1>37 DEF MarkDomainJob, FreeWorker
<1>38. ASSUME NEW w \in Workers, WorkerCrash(w) PROVE StoredInv'
  BY <1>38 DEF WorkerCrash, FreeWorker
<1>39. CASE UNCHANGED vars
  BY <1>39 DEF vars
<1> HIDE DEF TypeOK, StoredInv, Answer, MediaTask, HoldingPCs, AnswerPCs,
         ApplyPCs, ApplyingPCs, AppliedPCs, rowVars, pubVars, wrkVars,
         answerVars, history
<1> QED
  BY <1>1, <1>2, <1>3, <1>4, <1>5, <1>6, <1>7, <1>8, <1>9, <1>10, <1>11,
      <1>12, <1>13, <1>14, <1>15, <1>16, <1>17, <1>18, <1>19, <1>20, <1>21,
      <1>22, <1>23, <1>24, <1>25, <1>26, <1>27, <1>28, <1>29, <1>30, <1>31,
      <1>32, <1>33, <1>34, <1>35, <1>36, <1>37, <1>38, <1>39
  DEF Next, DispatchStep, ClaimStep, PublisherStep, WorkerStep, TargetStep,
      AnswerStep

(* In every reachable state work on an answer follows its storage. *)
LEMMA StoredInvariant == Spec => []StoredInv
<1>1. Init => StoredInv
  BY DispatchAssumption DEF Init, StoredInv, Answer, HoldingPCs, AnswerPCs, ApplyPCs,
     ApplyingPCs, AppliedPCs
<1> QED
  BY <1>1, TypeCorrect, StoredStep, PTL DEF Spec

-----------------------------------------------------------------------------
(* The provider boundary of a no-replay dispatch.                          *)

(* No answer is stored that would be applied instead of calling. *)
Unanswered(d) == KindOf[d] = "media" => checkpoint[d] = "none"

(* The worker may still cross the boundary on behalf of d. *)
MayCross(w, d) ==
    /\ wdisp[w] = d
    /\ \/ wpc[w] = "ready"
       \/ wpc[w] \in {"claimed", "begun"} /\ Unanswered(d)

Unstarted == {"absent", "pending", "publishing", "published"}

(* A dispatch that can be claimed has never crossed and nobody is about to, *)
(* unless the answer is stored.                                             *)
UnstartedInv(d) ==
    status[d] \in Unstarted /\ Unanswered(d) =>
        crossings[d] = 0 /\ \A w \in Workers : ~MayCross(w, d)

(* Whoever may cross is alone, the first, and owns a RUNNING dispatch. *)
CrosserInv(d) ==
    \A w \in Workers : MayCross(w, d) =>
        /\ crossings[d] = 0
        /\ \A v \in Workers : MayCross(v, d) => v = w
        /\ status[d] = "running" => wtoken[w] = claim_token[d]

(* A worker that will put the dispatch back to PENDING has not crossed, or *)
(* left an answer that is stored.                                          *)
SafeInv(d) ==
    \A w \in Workers :
        /\ wdisp[w] = d /\ wpc[w] \in {"raised_safe", "unregistered"}
        /\ status[d] = "running" /\ wtoken[w] = claim_token[d]
        => crossings[d] = 0 \/ ~Unanswered(d)

(* While no answer is stored, the media job shows whether the provider may *)
(* have been reached.                                                      *)
MediaInv(d) ==
    KindOf[d] = "media" /\ checkpoint[d] = "none" =>
        /\ crossings[d] > 0 => job[d] \notin {"queued", "safe_failed"}
        /\ \A w \in Workers : wdisp[w] = d /\ wpc[w] \in {"begun", "ready"}
             => job[d] \notin {"queued", "safe_failed"}
        /\ status[d] = "failed" /\ job[d] = "safe_failed"
             => \A w \in Workers : ~MayCross(w, d)

External(d) == KindOf[d] \in {"media", "ai"}

BoundaryInv ==
    \A d \in Dispatches : External(d) =>
        /\ crossings[d] <= 1
        /\ UnstartedInv(d) /\ CrosserInv(d) /\ SafeInv(d) /\ MediaInv(d)

(* The invariant of one no-replay dispatch, step by step. *)
LEMMA BoundaryStep ==
    TypeOK /\ TokenInv /\ StoredInv /\ BoundaryInv /\ [Next]_vars
        => BoundaryInv'
<1> SUFFICES ASSUME TypeOK, TokenInv, StoredInv, BoundaryInv, [Next]_vars,
                    NEW e \in Dispatches, External(e)
             PROVE  (/\ crossings[e] <= 1 /\ UnstartedInv(e)
                     /\ CrosserInv(e) /\ SafeInv(e) /\ MediaInv(e))'
  BY DEF BoundaryInv, External
<1> DEFINE Good == /\ crossings[e] <= 1 /\ UnstartedInv(e)
                   /\ CrosserInv(e) /\ SafeInv(e) /\ MediaInv(e)
<1>0. Good
  BY DEF BoundaryInv
<1>a. JobOf[e] = e
  BY DispatchAssumption DEF External
<1>b. checkpoint[e] # "none" => crossings[e] > 0
  BY DEF StoredInv
<1>c. ASSUME NEW w \in Workers, wpc[w] \in {"ready", "crossed"}
      PROVE  KindOf[wdisp[w]] # "resume"
  BY <1>c DEF StoredInv
<1>d. ASSUME NEW w \in Workers, JobOf[wdisp[w]] = e, Unanswered(e),
             wpc[w] # "idle"
      PROVE  \/ wdisp[w] = e /\ wpc[w] \notin HoldingPCs
             \/ KindOf[e] = "ai" /\ wdisp[w] = e
  BY <1>d, DispatchAssumption DEF StoredInv, Unanswered, Answer, External,
     TypeOK, MediaTask
<1>e. ASSUME Unanswered(e), NEW d \in Dispatches, JobOf[d] = e,
             status[d] # "absent"
      PROVE  d = e
  BY <1>e, DispatchAssumption DEF StoredInv, Answer, Unanswered, External
<1> USE <1>0, <1>a, DispatchAssumption DEF TypeOK, External, UnstartedInv,
        CrosserInv, SafeInv, MediaInv, MayCross, Unanswered, Unstarted,
        rowVars, pubVars, wrkVars, answerVars, history
<1>1. ASSUME NEW d \in Dispatches, Enqueue(d) PROVE Good'
  BY <1>1 DEF Enqueue
<1>2. ASSUME NEW d \in Dispatches, Revive(d) PROVE Good'
  BY <1>2, <1>b, <1>e DEF Revive, Revivable, ResumeDue, SetJob, JobStatus
<1>3. ASSUME NEW d \in Dispatches, FailLostExternalRun(d) PROVE Good'
  BY <1>3, <1>b, <1>e DEF FailLostExternalRun, LostExternalRun, TerminatedJob,
      SetJob, JobStatus, NoReplay, MediaTask, Answer
<1>4. ASSUME NEW d \in Dispatches, BecomeDue(d) PROVE Good'
  BY <1>4 DEF BecomeDue
<1>5. ASSUME NEW d \in Dispatches, ExpireLease(d) PROVE Good'
  BY <1>5 DEF ExpireLease
<1>6. ASSUME NEW d \in Dispatches, ClaimGoesStale(d) PROVE Good'
  BY <1>6 DEF ClaimGoesStale
<1>7. ASSUME NEW d \in Dispatches, ResolveAccounting(d) PROVE Good'
  BY <1>7 DEF ResolveAccounting, SetAnswer
<1>8. ASSUME NEW w \in Workers, NEW d \in Dispatches, NEW t \in Tokens,
             ClaimRun(w, d, t)
      PROVE  Good'
  BY <1>8, <1>b, <1>e DEF ClaimRun, Claimable, PreparedJobs, SetJob,
      JobStatus, Answer, MediaTask, TokenInv
<1>9. ASSUME NEW d \in Dispatches, NEW t \in Tokens, ClaimExhausted(d, t)
      PROVE  Good'
  BY <1>9, <1>b, <1>e DEF ClaimExhausted, Claimable, TerminatedJob, SetJob,
      JobStatus, MediaTask, Answer
<1>10. ASSUME NEW p \in Publishers, NEW d \in Dispatches, PublishClaim(p, d)
      PROVE  Good'
  BY <1>10 DEF PublishClaim, FreshToken, LostExternalRun, Publishable,
      LeasedStates, NoReplay, MediaTask
<1>11. ASSUME NEW p \in Publishers, SendOk(p) PROVE Good'
  BY <1>11 DEF SendOk
<1>12. ASSUME NEW p \in Publishers, SendError(p) PROVE Good'
  BY <1>12 DEF SendError
<1>13. ASSUME NEW p \in Publishers, RevertToPending(p) PROVE Good'
  BY <1>13 DEF RevertToPending, PublisherOwns
<1>14. ASSUME NEW p \in Publishers, MarkPublished(p) PROVE Good'
  BY <1>14 DEF MarkPublished, PublisherOwns
<1>15. ASSUME NEW p \in Publishers, PublisherCrash(p) PROVE Good'
  BY <1>15 DEF PublisherCrash
<1>16. ASSUME NEW m \in broker, DropMessage(m) PROVE Good'
  BY <1>16 DEF DropMessage
<1>17. ASSUME NEW w \in Workers, TargetBegin(w) PROVE Good'
  BY <1>17, <1>b, <1>d DEF TargetBegin, WorkerAt, SetJob, MediaTask
<1>18. ASSUME NEW w \in Workers, TargetSkip(w) PROVE Good'
  BY <1>18 DEF TargetSkip, WorkerAt
<1>19. ASSUME NEW w \in Workers, TargetSave(w) PROVE Good'
  BY <1>19, <1>b, <1>c DEF TargetSave, WorkerAt, SetJob, MediaTask, Answer
<1>20. ASSUME NEW w \in Workers, TargetCross(w) PROVE Good'
  <2>1. wdisp[w] \in Dispatches /\ JobOf[wdisp[w]] = wdisp[w]
    BY <1>20, <1>c DEF TargetCross
  <2> QED
    BY <1>20, <1>b, <2>1 DEF TargetCross, WorkerAt, TokenInv, OwnTokens
<1>21. ASSUME NEW w \in Workers, TargetReturn(w) PROVE Good'
  BY <1>21, <1>b, <1>d DEF TargetReturn, WorkerAt, SetJob
<1>22. ASSUME NEW w \in Workers, TargetLockBusy(w) PROVE Good'
  BY <1>22 DEF TargetLockBusy, WorkerAt
<1>23. ASSUME NEW w \in Workers, TargetRaiseSafe(w) PROVE Good'
  BY <1>23, <1>b, <1>d DEF TargetRaiseSafe, WorkerAt, SetJob, MediaTask,
      TokenInv, OwnTokens, HoldingPCs, AnswerPCs, ApplyPCs
<1>24. ASSUME NEW w \in Workers, TargetRaiseError(w) PROVE Good'
  BY <1>24, <1>b, <1>d DEF TargetRaiseError, WorkerAt, SetJob, ExecutingPCs
<1>25. ASSUME NEW w \in Workers, TargetUnavailable(w) PROVE Good'
  BY <1>25 DEF TargetUnavailable, WorkerAt
<1>26. ASSUME NEW w \in Workers, TargetRecord(w) PROVE Good'
  BY <1>26, <1>b, <1>c DEF TargetRecord, WorkerAt, SetAnswer
<1>27. ASSUME NEW w \in Workers, TargetClaimAnswer(w) PROVE Good'
  BY <1>27 DEF TargetClaimAnswer, AtAnswer, ClaimFree, SetAnswer
<1>28. ASSUME NEW w \in Workers, TargetAnswerTaken(w) PROVE Good'
  BY <1>28 DEF TargetAnswerTaken, WorkerAt, AtAnswer
<1>29. ASSUME NEW w \in Workers, TargetApply(w) PROVE Good'
  BY <1>29, <1>b, <1>d DEF TargetApply, WorkerAt, ApplyingPCs, SetJob,
      HoldingPCs, AnswerPCs, ApplyPCs
<1>30. ASSUME NEW w \in Workers, TargetApplyFails(w) PROVE Good'
  BY <1>30 DEF TargetApplyFails, WorkerAt, ApplyingPCs, RaiseFromApply,
      SetAnswer
<1>31. ASSUME NEW w \in Workers, TargetConfirm(w) PROVE Good'
  BY <1>31 DEF TargetConfirm, WorkerAt, AppliedPCs, SetAnswer
<1>32. ASSUME NEW w \in Workers, TargetConfirmFails(w) PROVE Good'
  BY <1>32 DEF TargetConfirmFails, WorkerAt, AppliedPCs, RaiseFromApply
<1>33. ASSUME NEW w \in Workers, TargetUnresolved(w) PROVE Good'
  BY <1>33, <1>b, <1>d DEF TargetUnresolved, WorkerAt, SetJob
<1>34. ASSUME NEW w \in Workers, FinishSucceeded(w) PROVE Good'
  BY <1>34 DEF FinishSucceeded, FreeWorker, WorkerOwns
<1>35. ASSUME NEW w \in Workers, FinishStale(w) PROVE Good'
  BY <1>35 DEF FinishStale, FreeWorker, RaisedPCs
<1>36. ASSUME NEW w \in Workers, FinishFailed(w) PROVE Good'
  <2>1. /\ wtoken[w] \in Tokens /\ wtoken[w] # NoToken
        /\ WorkerOwns(w) /\ wpc[w] \in RaisedPCs
    BY <1>36 DEF FinishFailed, RaisedPCs
  <2>2. wdisp[w] = e => \A v \in Workers : ~MayCross(v, e)
    BY <2>1 DEF WorkerOwns, TokenInv, OwnTokens, RaisedPCs
  <2>3. wdisp[w] = e /\ ~TerminalFailure(w) => crossings[e] = 0 \/ ~Unanswered(e)
    BY <2>1 DEF WorkerOwns, TerminalFailure, OutcomeUncertain, RaisedPCs,
       NoReplay, MediaTask
  <2>4. /\ UNCHANGED <<job, checkpoint, crossings, wdisp, wtoken>>
        /\ \E pc \in MarkingPCs : wpc' = [wpc EXCEPT ![w] = pc]
        /\ \/ TerminalFailure(w) /\ status' = [status EXCEPT ![wdisp[w]] = "failed"]
           \/ ~TerminalFailure(w) /\ status' = [status EXCEPT ![wdisp[w]] = "pending"]
        /\ claim_token' = [claim_token EXCEPT ![wdisp[w]] = NoToken]
    BY <1>36 DEF FinishFailed, WorkerAt, MarkingPCs
  <2>5. \A v \in Workers : MayCross(v, e)' => MayCross(v, e)
    BY <2>4 DEF MarkingPCs
  <2> QED
    BY <2>2, <2>3, <2>4, <2>5 DEF MarkingPCs
<1>37. ASSUME NEW w \in Workers, MarkDomainJob(w) PROVE Good'
  BY <1>37, <1>b, <1>d DEF MarkDomainJob, FreeWorker, SetJob, RetriedJob,
      TerminatedJob, JobStatus, MediaTask, Answer
<1>38. ASSUME NEW w \in Workers, WorkerCrash(w) PROVE Good'
  BY <1>38 DEF WorkerCrash, FreeWorker
<1>39. CASE UNCHANGED vars
  BY <1>39 DEF vars
<1> HIDE DEF TypeOK, External, UnstartedInv, CrosserInv, SafeInv, MediaInv,
         rowVars, pubVars, wrkVars, answerVars, history
<1> QED
  BY <1>1, <1>2, <1>3, <1>4, <1>5, <1>6, <1>7, <1>8, <1>9, <1>10, <1>11,
      <1>12, <1>13, <1>14, <1>15, <1>16, <1>17, <1>18, <1>19, <1>20, <1>21,
      <1>22, <1>23, <1>24, <1>25, <1>26, <1>27, <1>28, <1>29, <1>30, <1>31,
      <1>32, <1>33, <1>34, <1>35, <1>36, <1>37, <1>38, <1>39
  DEF Next, DispatchStep, ClaimStep, PublisherStep, WorkerStep, TargetStep,
      AnswerStep

(* A no-replay dispatch keeps its boundary invariant in every behaviour. *)
LEMMA BoundaryInvariant == Spec => []BoundaryInv
<1>1. Init => BoundaryInv
  BY DispatchAssumption
      DEF Init, BoundaryInv, UnstartedInv, CrosserInv, SafeInv,
     MediaInv, MayCross, Unstarted
<1> QED
  BY <1>1, TypeCorrect, TokenInvariant, StoredInvariant, BoundaryStep,
      PTL DEF Spec

(* A target outside the automatic replay crosses the provider boundary at  *)
(* most once in the life of its dispatch (_NO_AUTOMATIC_REPLAY_TASKS).     *)
THEOREM AtMostOnce == Spec => []ProviderBoundaryAtMostOnce
<1>1. BoundaryInv => ProviderBoundaryAtMostOnce
  BY DEF BoundaryInv, ProviderBoundaryAtMostOnce, External
<1> QED
  BY <1>1, BoundaryInvariant, PTL

(* A media job that reached the provider is queued or retryable only with  *)
(* its answer stored, which is then applied in place of a second call      *)
(* (process_media_job, submit_job, _mark_retrying_domain_job, the retry    *)
(* view, resume_stale_media_provider_checkpoints).                         *)
THEOREM NoResubmission == Spec => []NeverResubmittable
<1>1. BoundaryInv => NeverResubmittable
  BY DEF BoundaryInv, NeverResubmittable, External, MediaInv
<1> QED
  BY <1>1, BoundaryInvariant, PTL

-----------------------------------------------------------------------------
(* Who executes a dispatch whose lease outlasts the worker.                *)

(* Whoever executes it owns the RUNNING row, and its lease runs out only   *)
(* when no worker holds the token any more (CELERY_TASK_TIME_LIMIT).       *)
ExecutorInv(d) ==
    d \in LongLease =>
        /\ \A w \in Workers : wdisp[w] = d /\ wpc[w] \in InsidePCs
             => status[d] = "running" /\ wtoken[w] = claim_token[d]
        /\ status[d] = "running" /\ lease[d] = "expired"
             => \A w \in Workers : wdisp[w] = d => wtoken[w] # claim_token[d]

ExecutorsOwn == \A d \in Dispatches : ExecutorInv(d)

(* The owner of a long lease is preserved by every step. *)
LEMMA ExecutorStep ==
    TypeOK /\ TokenInv /\ ExecutorsOwn /\ [Next]_vars => ExecutorsOwn'
<1> SUFFICES ASSUME TypeOK, TokenInv, ExecutorsOwn, [Next]_vars,
                    NEW e \in Dispatches
             PROVE  ExecutorInv(e)'
  BY DEF ExecutorsOwn
<1>0. ExecutorInv(e)
  BY DEF ExecutorsOwn
<1> USE <1>0, DispatchAssumption DEF TypeOK, ExecutorInv, InsidePCs, ExecutingPCs,
        AnswerPCs, ApplyPCs, ApplyingPCs, AppliedPCs, rowVars, pubVars, wrkVars
<1>1. ASSUME NEW d \in Dispatches, Enqueue(d) PROVE ExecutorInv(e)'
  BY <1>1 DEF Enqueue
<1>2. ASSUME NEW d \in Dispatches, Revive(d) PROVE ExecutorInv(e)'
  BY <1>2 DEF Revive
<1>3. ASSUME NEW d \in Dispatches, FailLostExternalRun(d)
      PROVE  ExecutorInv(e)'
  BY <1>3 DEF FailLostExternalRun, Publishable
<1>4. ASSUME NEW d \in Dispatches, BecomeDue(d) PROVE ExecutorInv(e)'
  BY <1>4 DEF BecomeDue
<1>5. ASSUME NEW d \in Dispatches, ExpireLease(d) PROVE ExecutorInv(e)'
  BY <1>5 DEF ExpireLease
<1>6. ASSUME NEW d \in Dispatches, ClaimGoesStale(d) PROVE ExecutorInv(e)'
  BY <1>6 DEF ClaimGoesStale
<1>7. ASSUME NEW d \in Dispatches, ResolveAccounting(d) PROVE ExecutorInv(e)'
  BY <1>7 DEF ResolveAccounting, SetAnswer
<1>8. ASSUME NEW w \in Workers, NEW d \in Dispatches, NEW t \in Tokens,
             ClaimRun(w, d, t)
      PROVE  ExecutorInv(e)'
  BY <1>8 DEF ClaimRun, Claimable
<1>9. ASSUME NEW d \in Dispatches, NEW t \in Tokens, ClaimExhausted(d, t)
      PROVE  ExecutorInv(e)'
  BY <1>9 DEF ClaimExhausted, Claimable
<1>10. ASSUME NEW p \in Publishers, NEW d \in Dispatches, PublishClaim(p, d)
      PROVE  ExecutorInv(e)'
  BY <1>10 DEF PublishClaim, FreshToken, Publishable, LeasedStates
<1>11. ASSUME NEW p \in Publishers, SendOk(p) PROVE ExecutorInv(e)'
  BY <1>11 DEF SendOk
<1>12. ASSUME NEW p \in Publishers, SendError(p) PROVE ExecutorInv(e)'
  BY <1>12 DEF SendError
<1>13. ASSUME NEW p \in Publishers, RevertToPending(p) PROVE ExecutorInv(e)'
  BY <1>13 DEF RevertToPending, PublisherOwns
<1>14. ASSUME NEW p \in Publishers, MarkPublished(p) PROVE ExecutorInv(e)'
  BY <1>14 DEF MarkPublished, PublisherOwns
<1>15. ASSUME NEW p \in Publishers, PublisherCrash(p) PROVE ExecutorInv(e)'
  BY <1>15 DEF PublisherCrash
<1>16. ASSUME NEW m \in broker, DropMessage(m) PROVE ExecutorInv(e)'
  BY <1>16 DEF DropMessage
<1>17. ASSUME NEW w \in Workers, TargetBegin(w) PROVE ExecutorInv(e)'
  BY <1>17 DEF TargetBegin, WorkerAt
<1>18. ASSUME NEW w \in Workers, TargetSkip(w) PROVE ExecutorInv(e)'
  BY <1>18 DEF TargetSkip, WorkerAt
<1>19. ASSUME NEW w \in Workers, TargetSave(w) PROVE ExecutorInv(e)'
  BY <1>19 DEF TargetSave, WorkerAt
<1>20. ASSUME NEW w \in Workers, TargetCross(w) PROVE ExecutorInv(e)'
  BY <1>20 DEF TargetCross, WorkerAt
<1>21. ASSUME NEW w \in Workers, TargetReturn(w) PROVE ExecutorInv(e)'
  BY <1>21 DEF TargetReturn, WorkerAt
<1>22. ASSUME NEW w \in Workers, TargetLockBusy(w) PROVE ExecutorInv(e)'
  BY <1>22 DEF TargetLockBusy, WorkerAt
<1>23. ASSUME NEW w \in Workers, TargetRaiseSafe(w) PROVE ExecutorInv(e)'
  BY <1>23 DEF TargetRaiseSafe, WorkerAt
<1>24. ASSUME NEW w \in Workers, TargetRaiseError(w) PROVE ExecutorInv(e)'
  BY <1>24 DEF TargetRaiseError, WorkerAt
<1>25. ASSUME NEW w \in Workers, TargetUnavailable(w) PROVE ExecutorInv(e)'
  BY <1>25 DEF TargetUnavailable, WorkerAt
<1>26. ASSUME NEW w \in Workers, TargetRecord(w) PROVE ExecutorInv(e)'
  BY <1>26 DEF TargetRecord, WorkerAt, SetAnswer
<1>27. ASSUME NEW w \in Workers, TargetClaimAnswer(w) PROVE ExecutorInv(e)'
  BY <1>27 DEF TargetClaimAnswer, AtAnswer, ClaimFree, SetAnswer
<1>28. ASSUME NEW w \in Workers, TargetAnswerTaken(w) PROVE ExecutorInv(e)'
  BY <1>28 DEF TargetAnswerTaken, WorkerAt, AtAnswer
<1>29. ASSUME NEW w \in Workers, TargetApply(w) PROVE ExecutorInv(e)'
  BY <1>29 DEF TargetApply, WorkerAt, ApplyingPCs
<1>30. ASSUME NEW w \in Workers, TargetApplyFails(w) PROVE ExecutorInv(e)'
  BY <1>30 DEF TargetApplyFails, WorkerAt, ApplyingPCs, RaiseFromApply,
      SetAnswer
<1>31. ASSUME NEW w \in Workers, TargetConfirm(w) PROVE ExecutorInv(e)'
  BY <1>31 DEF TargetConfirm, WorkerAt, AppliedPCs, SetAnswer
<1>32. ASSUME NEW w \in Workers, TargetConfirmFails(w) PROVE ExecutorInv(e)'
  BY <1>32 DEF TargetConfirmFails, WorkerAt, AppliedPCs, RaiseFromApply
<1>33. ASSUME NEW w \in Workers, TargetUnresolved(w) PROVE ExecutorInv(e)'
  BY <1>33 DEF TargetUnresolved, WorkerAt
<1>34. ASSUME NEW w \in Workers, FinishSucceeded(w) PROVE ExecutorInv(e)'
  BY <1>34 DEF FinishSucceeded, FreeWorker, WorkerOwns, TokenInv, OwnTokens
<1>35. ASSUME NEW w \in Workers, FinishStale(w) PROVE ExecutorInv(e)'
  BY <1>35 DEF FinishStale, FreeWorker, RaisedPCs
<1>36. ASSUME NEW w \in Workers, FinishFailed(w) PROVE ExecutorInv(e)'
  BY <1>36 DEF FinishFailed, WorkerAt, WorkerOwns, RaisedPCs, MarkingPCs,
      TokenInv, OwnTokens
<1>37. ASSUME NEW w \in Workers, MarkDomainJob(w) PROVE ExecutorInv(e)'
  BY <1>37 DEF MarkDomainJob, FreeWorker
<1>38. ASSUME NEW w \in Workers, WorkerCrash(w) PROVE ExecutorInv(e)'
  BY <1>38 DEF WorkerCrash, FreeWorker
<1>39. CASE UNCHANGED vars
  BY <1>39 DEF vars
<1> HIDE DEF TypeOK, ExecutorInv, InsidePCs, ExecutingPCs, AnswerPCs,
         ApplyPCs, ApplyingPCs, AppliedPCs, rowVars, pubVars, wrkVars
<1> QED
  BY <1>1, <1>2, <1>3, <1>4, <1>5, <1>6, <1>7, <1>8, <1>9, <1>10, <1>11,
      <1>12, <1>13, <1>14, <1>15, <1>16, <1>17, <1>18, <1>19, <1>20, <1>21,
      <1>22, <1>23, <1>24, <1>25, <1>26, <1>27, <1>28, <1>29, <1>30, <1>31,
      <1>32, <1>33, <1>34, <1>35, <1>36, <1>37, <1>38, <1>39
  DEF Next, DispatchStep, ClaimStep, PublisherStep, WorkerStep, TargetStep,
      AnswerStep

(* In every reachable state the executor of a long lease owns its row. *)
LEMMA ExecutorInvariant == Spec => []ExecutorsOwn
<1>1. Init => ExecutorsOwn
  BY DispatchAssumption DEF Init, ExecutorsOwn, ExecutorInv, InsidePCs,
     ExecutingPCs, AnswerPCs, ApplyPCs, ApplyingPCs, AppliedPCs
<1> QED
  BY <1>1, TypeCorrect, TokenInvariant, ExecutorStep, PTL DEF Spec

(* A dispatch whose lease outlasts Celery's hard time limit is executed by *)
(* one worker at a time, however often it is published and redelivered     *)
(* (claim_dispatch, publish_due_dispatches).                               *)
THEOREM OneExecutor == Spec => []SingleExecutor
<1>1. TypeOK /\ TokenInv /\ ExecutorsOwn => SingleExecutor
  <2> SUFFICES ASSUME TypeOK, TokenInv, ExecutorsOwn,
                      NEW v \in Workers, NEW w \in Workers,
                      v # w, wdisp[v] = wdisp[w], wdisp[v] \in LongLease,
                      wpc[v] \in InsidePCs, wpc[w] \in InsidePCs
               PROVE  FALSE
    BY DEF SingleExecutor
  <2>1. wdisp[v] \in Dispatches
    BY DispatchAssumption
  <2>2. wtoken[v] = claim_token[wdisp[v]] /\ wtoken[w] = claim_token[wdisp[v]]
    BY <2>1 DEF ExecutorsOwn, ExecutorInv
  <2>3. wpc[v] # "idle" /\ wtoken[v] \in Tokens
    BY DEF TypeOK, InsidePCs, ExecutingPCs, AnswerPCs, ApplyPCs, ApplyingPCs, AppliedPCs
  <2> QED
    BY <2>2, <2>3, DispatchAssumption DEF TokenInv, OwnTokens
<1> QED
  BY <1>1, TypeCorrect, TokenInvariant, ExecutorInvariant, PTL

-----------------------------------------------------------------------------
(* The domain job of a dispatch that succeeded.                            *)

(* A media job in one of these statuses may still be worked on. *)
OpenJobs == {"queued", "running", "safe_failed"}

(* While no answer is stored, the owner of a media row returns only after  *)
(* the job is closed, and a row that can be claimed finds no job left      *)
(* running by an earlier worker.                                           *)
AnsweredInv(d) ==
    KindOf[d] = "media" /\ checkpoint[d] = "none" =>
        /\ status[d] \in Unstarted => job[d] # "running"
        /\ status[d] = "succeeded"
             => job[d] \notin OpenJobs /\ \A w \in Workers : ~MayCross(w, d)
        /\ \A w \in Workers :
             wdisp[w] = d /\ status[d] = "running" /\ wtoken[w] = claim_token[d]
             => /\ wpc[w] \in {"claimed", "raised_safe", "unregistered"}
                     => job[d] # "running"
                /\ wpc[w] = "returned" => job[d] \notin OpenJobs

(* Nothing queues a batch again, and its worker returns once it is closed; *)
(* an AI generation has no domain branch.                                  *)
BatchInv(d) ==
    /\ KindOf[d] = "bulk" =>
         /\ job[d] \in {"queued", "done", "failed"}
         /\ \A w \in Workers :
              wdisp[w] = d /\ wpc[w] = "returned" => job[d] # "queued"
         /\ status[d] = "succeeded" => job[d] # "queued"
    /\ KindOf[d] = "ai" => job[d] = "none"

JobsClosed == \A d \in Dispatches : AnsweredInv(d) /\ BatchInv(d)

(* A step keeps the promise of one media job. *)
LEMMA AnsweredStep ==
    ASSUME TypeOK, TokenInv, StoredInv, BoundaryInv, [Next]_vars,
           NEW e \in Dispatches, AnsweredInv(e)
    PROVE  AnsweredInv(e)'
<1> SUFFICES ASSUME KindOf[e] = "media" PROVE AnsweredInv(e)'
  BY DEF AnsweredInv
<1>0. CrosserInv(e) /\ UnstartedInv(e) /\ SafeInv(e)
  BY DEF BoundaryInv, External
<1>a. JobOf[e] = e
  BY DispatchAssumption
<1>d. ASSUME NEW w \in Workers, JobOf[wdisp[w]] = e, checkpoint[e] = "none",
             wpc[w] # "idle"
      PROVE  wdisp[w] = e /\ wpc[w] \notin HoldingPCs
  BY <1>d, DispatchAssumption DEF StoredInv, Answer, TypeOK, MediaTask
<1>e. ASSUME checkpoint[e] = "none", NEW d \in Dispatches, JobOf[d] = e,
             status[d] # "absent"
      PROVE  d = e
  BY <1>e, DispatchAssumption DEF StoredInv, Answer
<1> USE <1>0, <1>a, DispatchAssumption DEF TypeOK, AnsweredInv, MayCross, OpenJobs,
        Unanswered, Unstarted, CrosserInv, rowVars, pubVars, wrkVars, answerVars,
        history
<1>1. ASSUME NEW d \in Dispatches, Enqueue(d) PROVE AnsweredInv(e)'
  BY <1>1 DEF Enqueue
<1>2. ASSUME NEW d \in Dispatches, Revive(d) PROVE AnsweredInv(e)'
  BY <1>2, <1>e DEF Revive, Revivable, ResumeDue, SetJob, JobStatus
<1>3. ASSUME NEW d \in Dispatches, FailLostExternalRun(d)
      PROVE  AnsweredInv(e)'
  BY <1>3, <1>e DEF FailLostExternalRun, LostExternalRun, Publishable,
      LeasedStates, TerminatedJob, SetJob, JobStatus, NoReplay, MediaTask,
      Answer
<1>4. ASSUME NEW d \in Dispatches, BecomeDue(d) PROVE AnsweredInv(e)'
  BY <1>4 DEF BecomeDue
<1>5. ASSUME NEW d \in Dispatches, ExpireLease(d) PROVE AnsweredInv(e)'
  BY <1>5 DEF ExpireLease
<1>6. ASSUME NEW d \in Dispatches, ClaimGoesStale(d) PROVE AnsweredInv(e)'
  BY <1>6 DEF ClaimGoesStale
<1>7. ASSUME NEW d \in Dispatches, ResolveAccounting(d) PROVE AnsweredInv(e)'
  BY <1>7 DEF ResolveAccounting, SetAnswer
<1>8. ASSUME NEW w \in Workers, NEW d \in Dispatches, NEW t \in Tokens,
             ClaimRun(w, d, t)
      PROVE  AnsweredInv(e)'
  BY <1>8, <1>e DEF ClaimRun, Claimable, PreparedJobs, SetJob, JobStatus,
      Answer, MediaTask, UnstartedInv, TokenInv
<1>9. ASSUME NEW d \in Dispatches, NEW t \in Tokens, ClaimExhausted(d, t)
      PROVE  AnsweredInv(e)'
  BY <1>9, <1>e DEF ClaimExhausted, Claimable, TerminatedJob, SetJob,
      JobStatus, MediaTask, Answer
<1>10. ASSUME NEW p \in Publishers, NEW d \in Dispatches, PublishClaim(p, d)
      PROVE  AnsweredInv(e)'
  BY <1>10 DEF PublishClaim, FreshToken, Publishable, LostExternalRun,
      LeasedStates, NoReplay, MediaTask
<1>11. ASSUME NEW p \in Publishers, SendOk(p) PROVE AnsweredInv(e)'
  BY <1>11 DEF SendOk
<1>12. ASSUME NEW p \in Publishers, SendError(p) PROVE AnsweredInv(e)'
  BY <1>12 DEF SendError
<1>13. ASSUME NEW p \in Publishers, RevertToPending(p) PROVE AnsweredInv(e)'
  BY <1>13 DEF RevertToPending, PublisherOwns
<1>14. ASSUME NEW p \in Publishers, MarkPublished(p) PROVE AnsweredInv(e)'
  BY <1>14 DEF MarkPublished, PublisherOwns
<1>15. ASSUME NEW p \in Publishers, PublisherCrash(p) PROVE AnsweredInv(e)'
  BY <1>15 DEF PublisherCrash
<1>16. ASSUME NEW m \in broker, DropMessage(m) PROVE AnsweredInv(e)'
  BY <1>16 DEF DropMessage
<1>17. ASSUME NEW w \in Workers, TargetBegin(w) PROVE AnsweredInv(e)'
  BY <1>17, <1>d DEF TargetBegin, WorkerAt, SetJob, UnstartedInv, TokenInv,
      OwnTokens, MediaTask
<1>18. ASSUME NEW w \in Workers, TargetSkip(w) PROVE AnsweredInv(e)'
  BY <1>18 DEF TargetSkip, WorkerAt, MediaClaimable, JobStatus, MediaTask,
      Answer
<1>19. ASSUME NEW w \in Workers, TargetSave(w) PROVE AnsweredInv(e)'
  BY <1>19, <1>d DEF TargetSave, WorkerAt, SetJob, UnstartedInv, TokenInv,
      OwnTokens, MediaTask
<1>20. ASSUME NEW w \in Workers, TargetCross(w) PROVE AnsweredInv(e)'
  BY <1>20 DEF TargetCross, WorkerAt
<1>21. ASSUME NEW w \in Workers, TargetReturn(w) PROVE AnsweredInv(e)'
  BY <1>21, <1>d DEF TargetReturn, WorkerAt, SetJob
<1>22. ASSUME NEW w \in Workers, TargetLockBusy(w) PROVE AnsweredInv(e)'
  BY <1>22 DEF TargetLockBusy, WorkerAt
<1>23. ASSUME NEW w \in Workers, TargetRaiseSafe(w) PROVE AnsweredInv(e)'
  BY <1>23, <1>d DEF TargetRaiseSafe, WorkerAt, SetJob, TokenInv, OwnTokens,
      HoldingPCs, AnswerPCs, ApplyPCs
<1>24. ASSUME NEW w \in Workers, TargetRaiseError(w) PROVE AnsweredInv(e)'
  BY <1>24, <1>d DEF TargetRaiseError, WorkerAt, SetJob, ExecutingPCs
<1>25. ASSUME NEW w \in Workers, TargetUnavailable(w) PROVE AnsweredInv(e)'
  BY <1>25 DEF TargetUnavailable, WorkerAt
<1>26. ASSUME NEW w \in Workers, TargetRecord(w) PROVE AnsweredInv(e)'
  BY <1>26 DEF TargetRecord, WorkerAt, SetAnswer
<1>27. ASSUME NEW w \in Workers, TargetClaimAnswer(w) PROVE AnsweredInv(e)'
  BY <1>27 DEF TargetClaimAnswer, AtAnswer, ClaimFree, SetAnswer
<1>28. ASSUME NEW w \in Workers, TargetAnswerTaken(w) PROVE AnsweredInv(e)'
  BY <1>28, <1>d DEF TargetAnswerTaken, WorkerAt, AtAnswer, Answer, MediaTask,
      HoldingPCs, AnswerPCs, ApplyPCs
<1>29. ASSUME NEW w \in Workers, TargetApply(w) PROVE AnsweredInv(e)'
  BY <1>29, <1>d DEF TargetApply, WorkerAt, ApplyingPCs, SetJob, HoldingPCs,
      AnswerPCs, ApplyPCs
<1>30. ASSUME NEW w \in Workers, TargetApplyFails(w) PROVE AnsweredInv(e)'
  BY <1>30 DEF TargetApplyFails, WorkerAt, ApplyingPCs, RaiseFromApply,
      SetAnswer
<1>31. ASSUME NEW w \in Workers, TargetConfirm(w) PROVE AnsweredInv(e)'
  BY <1>31, <1>d DEF TargetConfirm, WorkerAt, AppliedPCs, SetAnswer
<1>32. ASSUME NEW w \in Workers, TargetConfirmFails(w) PROVE AnsweredInv(e)'
  BY <1>32, <1>d DEF TargetConfirmFails, WorkerAt, AppliedPCs, RaiseFromApply
<1>33. ASSUME NEW w \in Workers, TargetUnresolved(w) PROVE AnsweredInv(e)'
  BY <1>33, <1>d DEF TargetUnresolved, WorkerAt, SetJob, ResolvedElsewhere,
      JobStatus, Answer
<1>34. ASSUME NEW w \in Workers, FinishSucceeded(w) PROVE AnsweredInv(e)'
  BY <1>34 DEF FinishSucceeded, FreeWorker, WorkerOwns, TokenInv, OwnTokens
<1>35. ASSUME NEW w \in Workers, FinishStale(w) PROVE AnsweredInv(e)'
  BY <1>35 DEF FinishStale, FreeWorker, RaisedPCs
<1>36. ASSUME NEW w \in Workers, FinishFailed(w) PROVE AnsweredInv(e)'
  BY <1>36 DEF FinishFailed, WorkerAt, WorkerOwns, RaisedPCs, MarkingPCs,
      TokenInv, OwnTokens, TerminalFailure, OutcomeUncertain, NoReplay,
      MediaTask
<1>37. ASSUME NEW w \in Workers, MarkDomainJob(w) PROVE AnsweredInv(e)'
  BY <1>37, <1>d DEF MarkDomainJob, FreeWorker, SetJob, RetriedJob,
      TerminatedJob, JobStatus, MediaTask, Answer
<1>38. ASSUME NEW w \in Workers, WorkerCrash(w) PROVE AnsweredInv(e)'
  BY <1>38 DEF WorkerCrash, FreeWorker
<1>39. CASE UNCHANGED vars
  BY <1>39 DEF vars
<1> HIDE DEF TypeOK, AnsweredInv, MayCross, OpenJobs, Unanswered, Unstarted,
         CrosserInv, rowVars, pubVars, wrkVars, answerVars, history
<1> QED
  BY <1>1, <1>2, <1>3, <1>4, <1>5, <1>6, <1>7, <1>8, <1>9, <1>10, <1>11,
      <1>12, <1>13, <1>14, <1>15, <1>16, <1>17, <1>18, <1>19, <1>20, <1>21,
      <1>22, <1>23, <1>24, <1>25, <1>26, <1>27, <1>28, <1>29, <1>30, <1>31,
      <1>32, <1>33, <1>34, <1>35, <1>36, <1>37, <1>38, <1>39
  DEF Next, DispatchStep, ClaimStep, PublisherStep, WorkerStep, TargetStep,
      AnswerStep

(* A step keeps the promise of one batch, and leaves an AI row without a   *)
(* domain job.                                                             *)
LEMMA BatchStep ==
    ASSUME TypeOK, StoredInv, [Next]_vars, NEW e \in Dispatches, BatchInv(e)
    PROVE  BatchInv(e)'
<1> SUFFICES ASSUME KindOf[e] \in {"bulk", "ai"} PROVE BatchInv(e)'
  BY DEF BatchInv
<1>a. \A d \in Dispatches : JobOf[d] = e => d = e
  BY DispatchAssumption
<1>d. ASSUME NEW w \in Workers, wdisp[w] = e PROVE wpc[w] \notin AnswerPCs
  BY <1>d DEF StoredInv, MediaTask
<1> USE <1>a, DispatchAssumption DEF TypeOK, BatchInv, MediaTask, rowVars,
        pubVars, wrkVars
<1>1. ASSUME NEW d \in Dispatches, Enqueue(d) PROVE BatchInv(e)'
  BY <1>1 DEF Enqueue
<1>2. ASSUME NEW d \in Dispatches, Revive(d) PROVE BatchInv(e)'
  BY <1>2 DEF Revive, Revivable, ResumeDue, SetJob, JobStatus
<1>3. ASSUME NEW d \in Dispatches, FailLostExternalRun(d) PROVE BatchInv(e)'
  BY <1>3 DEF FailLostExternalRun, TerminatedJob, LostExternalRun, NoReplay,
      SetJob, JobStatus, Publishable, LeasedStates
<1>4. ASSUME NEW d \in Dispatches, BecomeDue(d) PROVE BatchInv(e)'
  BY <1>4 DEF BecomeDue
<1>5. ASSUME NEW d \in Dispatches, ExpireLease(d) PROVE BatchInv(e)'
  BY <1>5 DEF ExpireLease
<1>6. ASSUME NEW d \in Dispatches, ClaimGoesStale(d) PROVE BatchInv(e)'
  BY <1>6 DEF ClaimGoesStale
<1>7. ASSUME NEW d \in Dispatches, ResolveAccounting(d) PROVE BatchInv(e)'
  BY <1>7 DEF ResolveAccounting, SetAnswer
<1>8. ASSUME NEW w \in Workers, NEW d \in Dispatches, NEW t \in Tokens,
             ClaimRun(w, d, t)
      PROVE  BatchInv(e)'
  BY <1>8 DEF ClaimRun, Claimable, PreparedJobs, SetJob, JobStatus
<1>9. ASSUME NEW d \in Dispatches, NEW t \in Tokens, ClaimExhausted(d, t)
      PROVE  BatchInv(e)'
  BY <1>9 DEF ClaimExhausted, Claimable, TerminatedJob, SetJob, JobStatus
<1>10. ASSUME NEW p \in Publishers, NEW d \in Dispatches, PublishClaim(p, d)
      PROVE  BatchInv(e)'
  BY <1>10 DEF PublishClaim
<1>11. ASSUME NEW p \in Publishers, SendOk(p) PROVE BatchInv(e)'
  BY <1>11 DEF SendOk
<1>12. ASSUME NEW p \in Publishers, SendError(p) PROVE BatchInv(e)'
  BY <1>12 DEF SendError
<1>13. ASSUME NEW p \in Publishers, RevertToPending(p) PROVE BatchInv(e)'
  BY <1>13 DEF RevertToPending, PublisherOwns
<1>14. ASSUME NEW p \in Publishers, MarkPublished(p) PROVE BatchInv(e)'
  BY <1>14 DEF MarkPublished, PublisherOwns
<1>15. ASSUME NEW p \in Publishers, PublisherCrash(p) PROVE BatchInv(e)'
  BY <1>15 DEF PublisherCrash
<1>16. ASSUME NEW m \in broker, DropMessage(m) PROVE BatchInv(e)'
  BY <1>16 DEF DropMessage
<1>17. ASSUME NEW w \in Workers, TargetBegin(w) PROVE BatchInv(e)'
  BY <1>17 DEF TargetBegin, WorkerAt, SetJob
<1>18. ASSUME NEW w \in Workers, TargetSkip(w) PROVE BatchInv(e)'
  BY <1>18 DEF TargetSkip, WorkerAt, JobStatus
<1>19. ASSUME NEW w \in Workers, TargetSave(w) PROVE BatchInv(e)'
  BY <1>19 DEF TargetSave, WorkerAt, SetJob
<1>20. ASSUME NEW w \in Workers, TargetCross(w) PROVE BatchInv(e)'
  BY <1>20 DEF TargetCross, WorkerAt
<1>21. ASSUME NEW w \in Workers, TargetReturn(w) PROVE BatchInv(e)'
  BY <1>21 DEF TargetReturn, WorkerAt, SetJob
<1>22. ASSUME NEW w \in Workers, TargetLockBusy(w) PROVE BatchInv(e)'
  BY <1>22 DEF TargetLockBusy, WorkerAt
<1>23. ASSUME NEW w \in Workers, TargetRaiseSafe(w) PROVE BatchInv(e)'
  BY <1>23 DEF TargetRaiseSafe, WorkerAt, SetJob
<1>24. ASSUME NEW w \in Workers, TargetRaiseError(w) PROVE BatchInv(e)'
  BY <1>24 DEF TargetRaiseError, WorkerAt, SetJob
<1>25. ASSUME NEW w \in Workers, TargetUnavailable(w) PROVE BatchInv(e)'
  BY <1>25 DEF TargetUnavailable, WorkerAt
<1>26. ASSUME NEW w \in Workers, TargetRecord(w) PROVE BatchInv(e)'
  BY <1>26 DEF TargetRecord, WorkerAt, SetAnswer
<1>27. ASSUME NEW w \in Workers, TargetClaimAnswer(w) PROVE BatchInv(e)'
  BY <1>27 DEF TargetClaimAnswer, AtAnswer, ClaimFree, SetAnswer
<1>28. ASSUME NEW w \in Workers, TargetAnswerTaken(w) PROVE BatchInv(e)'
  BY <1>28, <1>d DEF TargetAnswerTaken, WorkerAt, AtAnswer, AnswerPCs,
      ApplyPCs
<1>29. ASSUME NEW w \in Workers, TargetApply(w) PROVE BatchInv(e)'
  BY <1>29, <1>d DEF TargetApply, WorkerAt, ApplyingPCs, SetJob, AnswerPCs,
      ApplyPCs
<1>30. ASSUME NEW w \in Workers, TargetApplyFails(w) PROVE BatchInv(e)'
  BY <1>30 DEF TargetApplyFails, WorkerAt, ApplyingPCs, RaiseFromApply,
      SetAnswer
<1>31. ASSUME NEW w \in Workers, TargetConfirm(w) PROVE BatchInv(e)'
  BY <1>31, <1>d DEF TargetConfirm, WorkerAt, AppliedPCs, SetAnswer,
      AnswerPCs, ApplyPCs
<1>32. ASSUME NEW w \in Workers, TargetConfirmFails(w) PROVE BatchInv(e)'
  BY <1>32 DEF TargetConfirmFails, WorkerAt, AppliedPCs, RaiseFromApply
<1>33. ASSUME NEW w \in Workers, TargetUnresolved(w) PROVE BatchInv(e)'
  BY <1>33, <1>d DEF TargetUnresolved, WorkerAt, SetJob, AnswerPCs, ApplyPCs
<1>34. ASSUME NEW w \in Workers, FinishSucceeded(w) PROVE BatchInv(e)'
  BY <1>34 DEF FinishSucceeded, FreeWorker, WorkerOwns
<1>35. ASSUME NEW w \in Workers, FinishStale(w) PROVE BatchInv(e)'
  BY <1>35 DEF FinishStale, FreeWorker, RaisedPCs
<1>36. ASSUME NEW w \in Workers, FinishFailed(w) PROVE BatchInv(e)'
  BY <1>36 DEF FinishFailed, WorkerAt, WorkerOwns, RaisedPCs, MarkingPCs
<1>37. ASSUME NEW w \in Workers, MarkDomainJob(w) PROVE BatchInv(e)'
  BY <1>37 DEF MarkDomainJob, FreeWorker, SetJob, RetriedJob, TerminatedJob,
      JobStatus
<1>38. ASSUME NEW w \in Workers, WorkerCrash(w) PROVE BatchInv(e)'
  BY <1>38 DEF WorkerCrash, FreeWorker
<1>39. CASE UNCHANGED vars
  BY <1>39 DEF vars
<1> HIDE DEF TypeOK, BatchInv, MediaTask, rowVars, pubVars, wrkVars
<1> QED
  BY <1>1, <1>2, <1>3, <1>4, <1>5, <1>6, <1>7, <1>8, <1>9, <1>10, <1>11,
      <1>12, <1>13, <1>14, <1>15, <1>16, <1>17, <1>18, <1>19, <1>20, <1>21,
      <1>22, <1>23, <1>24, <1>25, <1>26, <1>27, <1>28, <1>29, <1>30, <1>31,
      <1>32, <1>33, <1>34, <1>35, <1>36, <1>37, <1>38, <1>39
  DEF Next, DispatchStep, ClaimStep, PublisherStep, WorkerStep, TargetStep,
      AnswerStep

(* In every reachable state a row that succeeded left its job closed, for  *)
(* all targets but a parse job.                                            *)
LEMMA JobsClosedInvariant == Spec => []JobsClosed
<1>1. Init => JobsClosed
  <2>1. Init => \A d \in Dispatches : AnsweredInv(d)
    BY DispatchAssumption DEF Init, AnsweredInv
  <2>2. Init => \A d \in Dispatches : BatchInv(d)
    BY DispatchAssumption, ZenonT(30) DEF Init, BatchInv
  <2> QED
    BY <2>1, <2>2 DEF JobsClosed
<1>2. TypeOK /\ TokenInv /\ StoredInv /\ BoundaryInv /\ JobsClosed /\ [Next]_vars
        => JobsClosed'
  BY AnsweredStep, BatchStep DEF JobsClosed
<1> QED
  BY <1>1, <1>2, TypeCorrect, TokenInvariant, StoredInvariant,
     BoundaryInvariant, PTL DEF Spec

(* A media, AI or bulk dispatch that SUCCEEDED left no job queued or       *)
(* running behind it, except a media job whose answer is stored            *)
(* (execute_claimed_dispatch, process_media_job,                           *)
(* fail_job_if_checkpoint_unresolved, _mark_retrying_domain_job).          *)
THEOREM SucceededClosed == Spec => []SucceededJobClosed
<1>1. StoredInv /\ JobsClosed => SucceededJobClosed
  <2> SUFFICES ASSUME StoredInv, JobsClosed, NEW d \in Dispatches,
                      status[d] = "succeeded", KindOf[d] # "parse"
               PROVE  \/ JobStatus(d) \notin {"queued", "running"}
                      \/ MediaTask(d) /\ Answer(d) # "none"
    BY DEF SucceededJobClosed
  <2>1. CASE KindOf[d] = "resume"
    BY <2>1 DEF StoredInv, MediaTask
  <2>2. CASE KindOf[d] # "resume"
    BY <2>2, DispatchAssumption DEF JobsClosed, AnsweredInv, BatchInv, OpenJobs,
       JobStatus, MediaTask, Answer, Kinds
  <2> QED
    BY <2>1, <2>2
<1> QED
  BY <1>1, StoredInvariant, JobsClosedInvariant, PTL

-----------------------------------------------------------------------------
(* Steps.                                                                  *)

(* A lease exists exactly while a publisher or a worker owns the row. *)
LeaseInv == \A d \in Dispatches : lease[d] # "none" => status[d] \in LeasedStates

(* Every action keeps the lease with the owner of the row. *)
LEMMA LeaseStep == TypeOK /\ LeaseInv /\ [Next]_vars => LeaseInv'
<1> SUFFICES ASSUME TypeOK, LeaseInv, [Next]_vars PROVE LeaseInv'
  OBVIOUS
<1> USE DEF TypeOK, LeaseInv, LeasedStates, rowVars
<1>1. ASSUME NEW d \in Dispatches, Enqueue(d) PROVE LeaseInv'
  BY <1>1 DEF Enqueue
<1>2. ASSUME NEW d \in Dispatches, Revive(d) PROVE LeaseInv'
  BY <1>2 DEF Revive
<1>3. ASSUME NEW d \in Dispatches, FailLostExternalRun(d) PROVE LeaseInv'
  BY <1>3 DEF FailLostExternalRun
<1>4. ASSUME NEW d \in Dispatches, BecomeDue(d) PROVE LeaseInv'
  BY <1>4 DEF BecomeDue
<1>5. ASSUME NEW d \in Dispatches, ExpireLease(d) PROVE LeaseInv'
  BY <1>5 DEF ExpireLease
<1>6. ASSUME NEW d \in Dispatches, ClaimGoesStale(d) PROVE LeaseInv'
  BY <1>6 DEF ClaimGoesStale
<1>7. ASSUME NEW d \in Dispatches, ResolveAccounting(d) PROVE LeaseInv'
  BY <1>7 DEF ResolveAccounting, SetAnswer
<1>8. ASSUME NEW w \in Workers, NEW d \in Dispatches, NEW t \in Tokens,
             ClaimRun(w, d, t)
      PROVE  LeaseInv'
  BY <1>8 DEF ClaimRun, Claimable
<1>9. ASSUME NEW d \in Dispatches, NEW t \in Tokens, ClaimExhausted(d, t)
      PROVE  LeaseInv'
  BY <1>9 DEF ClaimExhausted, Claimable
<1>10. ASSUME NEW p \in Publishers, NEW d \in Dispatches, PublishClaim(p, d)
      PROVE  LeaseInv'
  BY <1>10 DEF PublishClaim, FreshToken
<1>11. ASSUME NEW p \in Publishers, SendOk(p) PROVE LeaseInv'
  BY <1>11 DEF SendOk
<1>12. ASSUME NEW p \in Publishers, SendError(p) PROVE LeaseInv'
  BY <1>12 DEF SendError
<1>13. ASSUME NEW p \in Publishers, RevertToPending(p) PROVE LeaseInv'
  BY <1>13 DEF RevertToPending, PublisherOwns
<1>14. ASSUME NEW p \in Publishers, MarkPublished(p) PROVE LeaseInv'
  BY <1>14 DEF MarkPublished, PublisherOwns
<1>15. ASSUME NEW p \in Publishers, PublisherCrash(p) PROVE LeaseInv'
  BY <1>15 DEF PublisherCrash
<1>16. ASSUME NEW m \in broker, DropMessage(m) PROVE LeaseInv'
  BY <1>16 DEF DropMessage
<1>17. ASSUME NEW w \in Workers, TargetBegin(w) PROVE LeaseInv'
  BY <1>17 DEF TargetBegin, WorkerAt
<1>18. ASSUME NEW w \in Workers, TargetSkip(w) PROVE LeaseInv'
  BY <1>18 DEF TargetSkip, WorkerAt
<1>19. ASSUME NEW w \in Workers, TargetSave(w) PROVE LeaseInv'
  BY <1>19 DEF TargetSave, WorkerAt
<1>20. ASSUME NEW w \in Workers, TargetCross(w) PROVE LeaseInv'
  BY <1>20 DEF TargetCross, WorkerAt
<1>21. ASSUME NEW w \in Workers, TargetReturn(w) PROVE LeaseInv'
  BY <1>21 DEF TargetReturn, WorkerAt
<1>22. ASSUME NEW w \in Workers, TargetLockBusy(w) PROVE LeaseInv'
  BY <1>22 DEF TargetLockBusy, WorkerAt
<1>23. ASSUME NEW w \in Workers, TargetRaiseSafe(w) PROVE LeaseInv'
  BY <1>23 DEF TargetRaiseSafe, WorkerAt
<1>24. ASSUME NEW w \in Workers, TargetRaiseError(w) PROVE LeaseInv'
  BY <1>24 DEF TargetRaiseError, WorkerAt
<1>25. ASSUME NEW w \in Workers, TargetUnavailable(w) PROVE LeaseInv'
  BY <1>25 DEF TargetUnavailable, WorkerAt
<1>26. ASSUME NEW w \in Workers, TargetRecord(w) PROVE LeaseInv'
  BY <1>26 DEF TargetRecord, WorkerAt, SetAnswer
<1>27. ASSUME NEW w \in Workers, TargetClaimAnswer(w) PROVE LeaseInv'
  BY <1>27 DEF TargetClaimAnswer, AtAnswer, ClaimFree, SetAnswer
<1>28. ASSUME NEW w \in Workers, TargetAnswerTaken(w) PROVE LeaseInv'
  BY <1>28 DEF TargetAnswerTaken, WorkerAt, AtAnswer
<1>29. ASSUME NEW w \in Workers, TargetApply(w) PROVE LeaseInv'
  BY <1>29 DEF TargetApply, WorkerAt, ApplyingPCs
<1>30. ASSUME NEW w \in Workers, TargetApplyFails(w) PROVE LeaseInv'
  BY <1>30 DEF TargetApplyFails, WorkerAt, ApplyingPCs, RaiseFromApply,
      SetAnswer
<1>31. ASSUME NEW w \in Workers, TargetConfirm(w) PROVE LeaseInv'
  BY <1>31 DEF TargetConfirm, WorkerAt, AppliedPCs, SetAnswer
<1>32. ASSUME NEW w \in Workers, TargetConfirmFails(w) PROVE LeaseInv'
  BY <1>32 DEF TargetConfirmFails, WorkerAt, AppliedPCs, RaiseFromApply
<1>33. ASSUME NEW w \in Workers, TargetUnresolved(w) PROVE LeaseInv'
  BY <1>33 DEF TargetUnresolved, WorkerAt
<1>34. ASSUME NEW w \in Workers, FinishSucceeded(w) PROVE LeaseInv'
  BY <1>34 DEF FinishSucceeded, FreeWorker, WorkerOwns
<1>35. ASSUME NEW w \in Workers, FinishStale(w) PROVE LeaseInv'
  BY <1>35 DEF FinishStale, FreeWorker, RaisedPCs
<1>36. ASSUME NEW w \in Workers, FinishFailed(w) PROVE LeaseInv'
  BY <1>36 DEF FinishFailed, WorkerAt, WorkerOwns, RaisedPCs
<1>37. ASSUME NEW w \in Workers, MarkDomainJob(w) PROVE LeaseInv'
  BY <1>37 DEF MarkDomainJob, FreeWorker
<1>38. ASSUME NEW w \in Workers, WorkerCrash(w) PROVE LeaseInv'
  BY <1>38 DEF WorkerCrash, FreeWorker
<1>39. CASE UNCHANGED vars
  BY <1>39 DEF vars
<1> HIDE DEF TypeOK, LeaseInv, LeasedStates, rowVars
<1> QED
  BY <1>1, <1>2, <1>3, <1>4, <1>5, <1>6, <1>7, <1>8, <1>9, <1>10, <1>11,
      <1>12, <1>13, <1>14, <1>15, <1>16, <1>17, <1>18, <1>19, <1>20, <1>21,
      <1>22, <1>23, <1>24, <1>25, <1>26, <1>27, <1>28, <1>29, <1>30, <1>31,
      <1>32, <1>33, <1>34, <1>35, <1>36, <1>37, <1>38, <1>39
  DEF Next, DispatchStep, ClaimStep, PublisherStep, WorkerStep, TargetStep,
      AnswerStep

(* A row outside the leased states carries no lease, in every reachable      *)
(* state: the columns are cleared with the status.                           *)
LEMMA LeaseInvariant == Spec => []LeaseInv
<1>1. Init => LeaseInv
  BY DEF Init, LeaseInv
<1> QED
  BY <1>1, TypeCorrect, LeaseStep, PTL DEF Spec

(* No step changes a finished row, except a revival. *)
LEMMA TerminalStepLemma ==
    TypeOK /\ LeaseInv /\ [Next]_vars => \A d \in Dispatches : TerminalStep(d)
<1> SUFFICES ASSUME TypeOK, LeaseInv, [Next]_vars, NEW e \in Dispatches
             PROVE  TerminalStep(e)
  OBVIOUS
<1> USE DEF TypeOK, LeaseInv, LeasedStates, TerminalStates, TerminalStep,
        rowVars
<1>1. ASSUME NEW d \in Dispatches, Enqueue(d) PROVE TerminalStep(e)
  BY <1>1 DEF Enqueue
<1>2. ASSUME NEW d \in Dispatches, Revive(d) PROVE TerminalStep(e)
  BY <1>2 DEF Revive
<1>3. ASSUME NEW d \in Dispatches, FailLostExternalRun(d)
      PROVE  TerminalStep(e)
  BY <1>3 DEF FailLostExternalRun, LostExternalRun
<1>4. ASSUME NEW d \in Dispatches, BecomeDue(d) PROVE TerminalStep(e)
  BY <1>4 DEF BecomeDue
<1>5. ASSUME NEW d \in Dispatches, ExpireLease(d) PROVE TerminalStep(e)
  BY <1>5 DEF ExpireLease
<1>6. ASSUME NEW d \in Dispatches, ClaimGoesStale(d) PROVE TerminalStep(e)
  BY <1>6 DEF ClaimGoesStale
<1>7. ASSUME NEW d \in Dispatches, ResolveAccounting(d) PROVE TerminalStep(e)
  BY <1>7 DEF ResolveAccounting, SetAnswer
<1>8. ASSUME NEW w \in Workers, NEW d \in Dispatches, NEW t \in Tokens,
             ClaimRun(w, d, t)
      PROVE  TerminalStep(e)
  BY <1>8 DEF ClaimRun, Claimable
<1>9. ASSUME NEW d \in Dispatches, NEW t \in Tokens, ClaimExhausted(d, t)
      PROVE  TerminalStep(e)
  BY <1>9 DEF ClaimExhausted, Claimable
<1>10. ASSUME NEW p \in Publishers, NEW d \in Dispatches, PublishClaim(p, d)
      PROVE  TerminalStep(e)
  BY <1>10 DEF PublishClaim, Publishable
<1>11. ASSUME NEW p \in Publishers, SendOk(p) PROVE TerminalStep(e)
  BY <1>11 DEF SendOk
<1>12. ASSUME NEW p \in Publishers, SendError(p) PROVE TerminalStep(e)
  BY <1>12 DEF SendError
<1>13. ASSUME NEW p \in Publishers, RevertToPending(p) PROVE TerminalStep(e)
  BY <1>13 DEF RevertToPending, PublisherOwns
<1>14. ASSUME NEW p \in Publishers, MarkPublished(p) PROVE TerminalStep(e)
  BY <1>14 DEF MarkPublished, PublisherOwns
<1>15. ASSUME NEW p \in Publishers, PublisherCrash(p) PROVE TerminalStep(e)
  BY <1>15 DEF PublisherCrash
<1>16. ASSUME NEW m \in broker, DropMessage(m) PROVE TerminalStep(e)
  BY <1>16 DEF DropMessage
<1>17. ASSUME NEW w \in Workers, TargetBegin(w) PROVE TerminalStep(e)
  BY <1>17 DEF TargetBegin, WorkerAt
<1>18. ASSUME NEW w \in Workers, TargetSkip(w) PROVE TerminalStep(e)
  BY <1>18 DEF TargetSkip, WorkerAt
<1>19. ASSUME NEW w \in Workers, TargetSave(w) PROVE TerminalStep(e)
  BY <1>19 DEF TargetSave, WorkerAt
<1>20. ASSUME NEW w \in Workers, TargetCross(w) PROVE TerminalStep(e)
  BY <1>20 DEF TargetCross, WorkerAt
<1>21. ASSUME NEW w \in Workers, TargetReturn(w) PROVE TerminalStep(e)
  BY <1>21 DEF TargetReturn, WorkerAt
<1>22. ASSUME NEW w \in Workers, TargetLockBusy(w) PROVE TerminalStep(e)
  BY <1>22 DEF TargetLockBusy, WorkerAt
<1>23. ASSUME NEW w \in Workers, TargetRaiseSafe(w) PROVE TerminalStep(e)
  BY <1>23 DEF TargetRaiseSafe, WorkerAt
<1>24. ASSUME NEW w \in Workers, TargetRaiseError(w) PROVE TerminalStep(e)
  BY <1>24 DEF TargetRaiseError, WorkerAt
<1>25. ASSUME NEW w \in Workers, TargetUnavailable(w) PROVE TerminalStep(e)
  BY <1>25 DEF TargetUnavailable, WorkerAt
<1>26. ASSUME NEW w \in Workers, TargetRecord(w) PROVE TerminalStep(e)
  BY <1>26 DEF TargetRecord, WorkerAt, SetAnswer
<1>27. ASSUME NEW w \in Workers, TargetClaimAnswer(w) PROVE TerminalStep(e)
  BY <1>27 DEF TargetClaimAnswer, AtAnswer, ClaimFree, SetAnswer
<1>28. ASSUME NEW w \in Workers, TargetAnswerTaken(w) PROVE TerminalStep(e)
  BY <1>28 DEF TargetAnswerTaken, WorkerAt, AtAnswer
<1>29. ASSUME NEW w \in Workers, TargetApply(w) PROVE TerminalStep(e)
  BY <1>29 DEF TargetApply, WorkerAt, ApplyingPCs
<1>30. ASSUME NEW w \in Workers, TargetApplyFails(w) PROVE TerminalStep(e)
  BY <1>30 DEF TargetApplyFails, WorkerAt, ApplyingPCs, RaiseFromApply,
      SetAnswer
<1>31. ASSUME NEW w \in Workers, TargetConfirm(w) PROVE TerminalStep(e)
  BY <1>31 DEF TargetConfirm, WorkerAt, AppliedPCs, SetAnswer
<1>32. ASSUME NEW w \in Workers, TargetConfirmFails(w) PROVE TerminalStep(e)
  BY <1>32 DEF TargetConfirmFails, WorkerAt, AppliedPCs, RaiseFromApply
<1>33. ASSUME NEW w \in Workers, TargetUnresolved(w) PROVE TerminalStep(e)
  BY <1>33 DEF TargetUnresolved, WorkerAt
<1>34. ASSUME NEW w \in Workers, FinishSucceeded(w) PROVE TerminalStep(e)
  BY <1>34 DEF FinishSucceeded, FreeWorker, WorkerOwns
<1>35. ASSUME NEW w \in Workers, FinishStale(w) PROVE TerminalStep(e)
  BY <1>35 DEF FinishStale, FreeWorker, RaisedPCs
<1>36. ASSUME NEW w \in Workers, FinishFailed(w) PROVE TerminalStep(e)
  BY <1>36 DEF FinishFailed, WorkerAt, WorkerOwns, RaisedPCs
<1>37. ASSUME NEW w \in Workers, MarkDomainJob(w) PROVE TerminalStep(e)
  BY <1>37 DEF MarkDomainJob, FreeWorker
<1>38. ASSUME NEW w \in Workers, WorkerCrash(w) PROVE TerminalStep(e)
  BY <1>38 DEF WorkerCrash, FreeWorker
<1>39. CASE UNCHANGED vars
  BY <1>39 DEF vars
<1> HIDE DEF TypeOK, LeaseInv, LeasedStates, TerminalStates, TerminalStep,
         rowVars
<1> QED
  BY <1>1, <1>2, <1>3, <1>4, <1>5, <1>6, <1>7, <1>8, <1>9, <1>10, <1>11,
      <1>12, <1>13, <1>14, <1>15, <1>16, <1>17, <1>18, <1>19, <1>20, <1>21,
      <1>22, <1>23, <1>24, <1>25, <1>26, <1>27, <1>28, <1>29, <1>30, <1>31,
      <1>32, <1>33, <1>34, <1>35, <1>36, <1>37, <1>38, <1>39
  DEF Next, DispatchStep, ClaimStep, PublisherStep, WorkerStep, TargetStep,
      AnswerStep

(* A finished dispatch never changes, except by a whole revival            *)
(* (publish_dispatch, claim_dispatch, execute_claimed_dispatch).           *)
THEOREM TerminalStable == Spec => TerminalStaysTerminal
<1>1. TypeOK /\ LeaseInv /\ [Next]_vars
         => [\A d \in Dispatches : TerminalStep(d)]_vars
  BY TerminalStepLemma
<1> QED
  BY <1>1, TypeCorrect, LeaseInvariant, PTL DEF Spec, TerminalStaysTerminal

(* A RUNNING row is finished by the worker that owns it or reclaimed after *)
(* its lease expired.                                                      *)
LEMMA OwnerStepLemma ==
    TypeOK /\ [Next]_vars => \A d \in Dispatches : OwnerStep(d)
<1> SUFFICES ASSUME TypeOK, [Next]_vars, NEW e \in Dispatches
             PROVE  OwnerStep(e)
  OBVIOUS
<1> USE DEF TypeOK, LeasedStates, OwnerStep, rowVars
<1>1. ASSUME NEW d \in Dispatches, Enqueue(d) PROVE OwnerStep(e)
  BY <1>1 DEF Enqueue
<1>2. ASSUME NEW d \in Dispatches, Revive(d) PROVE OwnerStep(e)
  BY <1>2 DEF Revive
<1>3. ASSUME NEW d \in Dispatches, FailLostExternalRun(d) PROVE OwnerStep(e)
  BY <1>3 DEF FailLostExternalRun, Publishable
<1>4. ASSUME NEW d \in Dispatches, BecomeDue(d) PROVE OwnerStep(e)
  BY <1>4 DEF BecomeDue
<1>5. ASSUME NEW d \in Dispatches, ExpireLease(d) PROVE OwnerStep(e)
  BY <1>5 DEF ExpireLease
<1>6. ASSUME NEW d \in Dispatches, ClaimGoesStale(d) PROVE OwnerStep(e)
  BY <1>6 DEF ClaimGoesStale
<1>7. ASSUME NEW d \in Dispatches, ResolveAccounting(d) PROVE OwnerStep(e)
  BY <1>7 DEF ResolveAccounting, SetAnswer
<1>8. ASSUME NEW w \in Workers, NEW d \in Dispatches, NEW t \in Tokens,
             ClaimRun(w, d, t)
      PROVE  OwnerStep(e)
  BY <1>8 DEF ClaimRun, Claimable
<1>9. ASSUME NEW d \in Dispatches, NEW t \in Tokens, ClaimExhausted(d, t)
      PROVE  OwnerStep(e)
  BY <1>9 DEF ClaimExhausted, Claimable
<1>10. ASSUME NEW p \in Publishers, NEW d \in Dispatches, PublishClaim(p, d)
      PROVE  OwnerStep(e)
  BY <1>10 DEF PublishClaim, Publishable
<1>11. ASSUME NEW p \in Publishers, SendOk(p) PROVE OwnerStep(e)
  BY <1>11 DEF SendOk
<1>12. ASSUME NEW p \in Publishers, SendError(p) PROVE OwnerStep(e)
  BY <1>12 DEF SendError
<1>13. ASSUME NEW p \in Publishers, RevertToPending(p) PROVE OwnerStep(e)
  BY <1>13 DEF RevertToPending, PublisherOwns
<1>14. ASSUME NEW p \in Publishers, MarkPublished(p) PROVE OwnerStep(e)
  BY <1>14 DEF MarkPublished, PublisherOwns
<1>15. ASSUME NEW p \in Publishers, PublisherCrash(p) PROVE OwnerStep(e)
  BY <1>15 DEF PublisherCrash
<1>16. ASSUME NEW m \in broker, DropMessage(m) PROVE OwnerStep(e)
  BY <1>16 DEF DropMessage
<1>17. ASSUME NEW w \in Workers, TargetBegin(w) PROVE OwnerStep(e)
  BY <1>17 DEF TargetBegin, WorkerAt
<1>18. ASSUME NEW w \in Workers, TargetSkip(w) PROVE OwnerStep(e)
  BY <1>18 DEF TargetSkip, WorkerAt
<1>19. ASSUME NEW w \in Workers, TargetSave(w) PROVE OwnerStep(e)
  BY <1>19 DEF TargetSave, WorkerAt
<1>20. ASSUME NEW w \in Workers, TargetCross(w) PROVE OwnerStep(e)
  BY <1>20 DEF TargetCross, WorkerAt
<1>21. ASSUME NEW w \in Workers, TargetReturn(w) PROVE OwnerStep(e)
  BY <1>21 DEF TargetReturn, WorkerAt
<1>22. ASSUME NEW w \in Workers, TargetLockBusy(w) PROVE OwnerStep(e)
  BY <1>22 DEF TargetLockBusy, WorkerAt
<1>23. ASSUME NEW w \in Workers, TargetRaiseSafe(w) PROVE OwnerStep(e)
  BY <1>23 DEF TargetRaiseSafe, WorkerAt
<1>24. ASSUME NEW w \in Workers, TargetRaiseError(w) PROVE OwnerStep(e)
  BY <1>24 DEF TargetRaiseError, WorkerAt
<1>25. ASSUME NEW w \in Workers, TargetUnavailable(w) PROVE OwnerStep(e)
  BY <1>25 DEF TargetUnavailable, WorkerAt
<1>26. ASSUME NEW w \in Workers, TargetRecord(w) PROVE OwnerStep(e)
  BY <1>26 DEF TargetRecord, WorkerAt, SetAnswer
<1>27. ASSUME NEW w \in Workers, TargetClaimAnswer(w) PROVE OwnerStep(e)
  BY <1>27 DEF TargetClaimAnswer, AtAnswer, ClaimFree, SetAnswer
<1>28. ASSUME NEW w \in Workers, TargetAnswerTaken(w) PROVE OwnerStep(e)
  BY <1>28 DEF TargetAnswerTaken, WorkerAt, AtAnswer
<1>29. ASSUME NEW w \in Workers, TargetApply(w) PROVE OwnerStep(e)
  BY <1>29 DEF TargetApply, WorkerAt, ApplyingPCs
<1>30. ASSUME NEW w \in Workers, TargetApplyFails(w) PROVE OwnerStep(e)
  BY <1>30 DEF TargetApplyFails, WorkerAt, ApplyingPCs, RaiseFromApply,
      SetAnswer
<1>31. ASSUME NEW w \in Workers, TargetConfirm(w) PROVE OwnerStep(e)
  BY <1>31 DEF TargetConfirm, WorkerAt, AppliedPCs, SetAnswer
<1>32. ASSUME NEW w \in Workers, TargetConfirmFails(w) PROVE OwnerStep(e)
  BY <1>32 DEF TargetConfirmFails, WorkerAt, AppliedPCs, RaiseFromApply
<1>33. ASSUME NEW w \in Workers, TargetUnresolved(w) PROVE OwnerStep(e)
  BY <1>33 DEF TargetUnresolved, WorkerAt
<1>34. ASSUME NEW w \in Workers, FinishSucceeded(w) PROVE OwnerStep(e)
  BY <1>34 DEF FinishSucceeded, FreeWorker, WorkerOwns
<1>35. ASSUME NEW w \in Workers, FinishStale(w) PROVE OwnerStep(e)
  BY <1>35 DEF FinishStale, FreeWorker, RaisedPCs
<1>36. ASSUME NEW w \in Workers, FinishFailed(w) PROVE OwnerStep(e)
  BY <1>36 DEF FinishFailed, WorkerAt, WorkerOwns, RaisedPCs, MarkingPCs
<1>37. ASSUME NEW w \in Workers, MarkDomainJob(w) PROVE OwnerStep(e)
  BY <1>37 DEF MarkDomainJob, FreeWorker
<1>38. ASSUME NEW w \in Workers, WorkerCrash(w) PROVE OwnerStep(e)
  BY <1>38 DEF WorkerCrash, FreeWorker
<1>39. CASE UNCHANGED vars
  BY <1>39 DEF vars
<1> HIDE DEF TypeOK, LeasedStates, OwnerStep, rowVars
<1> QED
  BY <1>1, <1>2, <1>3, <1>4, <1>5, <1>6, <1>7, <1>8, <1>9, <1>10, <1>11,
      <1>12, <1>13, <1>14, <1>15, <1>16, <1>17, <1>18, <1>19, <1>20, <1>21,
      <1>22, <1>23, <1>24, <1>25, <1>26, <1>27, <1>28, <1>29, <1>30, <1>31,
      <1>32, <1>33, <1>34, <1>35, <1>36, <1>37, <1>38, <1>39
  DEF Next, DispatchStep, ClaimStep, PublisherStep, WorkerStep, TargetStep,
      AnswerStep

(* A worker that lost its claim cannot end another worker's run            *)
(* (the compare-and-set updates of execute_claimed_dispatch).              *)
THEOREM OwnerFinishes == Spec => OnlyOwnerFinishes
<1>1. TypeOK /\ [Next]_vars => [\A d \in Dispatches : OwnerStep(d)]_vars
  BY OwnerStepLemma
<1> QED
  BY <1>1, TypeCorrect, PTL DEF Spec, OnlyOwnerFinishes
=============================================================================
