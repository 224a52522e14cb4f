--------------------------- MODULE DurableDispatch ---------------------------
(***************************************************************************)
(* Durable delivery of background jobs: apps/core/dispatch.py.             *)
(*                                                                         *)
(* A BackgroundJobDispatch row is the source of truth.  A publisher (the   *)
(* on_commit callback of enqueue_durable_task, or the beat task that calls *)
(* publish_due_dispatches) claims a due row with a fresh token and sends   *)
(* <<dispatch, token>> through Celery; a worker that receives the message  *)
(* claims the row with that token, runs the target task and writes the     *)
(* outcome back with a compare-and-set on (RUNNING, token).  Publishers    *)
(* and workers may be killed between any two of their database steps; the  *)
(* broker loses, delays and redelivers messages.                           *)
(*                                                                         *)
(* Each row delivers one domain job.  Five kinds of row are modelled:      *)
(*   "parse"  products.tasks.parse_single_part           (replayable)      *)
(*   "bulk"   products.tasks.process_bulk_product_action (replayable, one  *)
(*            batch, one transaction)                                      *)
(*   "media"  media_processing.tasks.process_media_job   (never replayed)  *)
(*   "resume" the same task on the job of a media row, enqueued when the   *)
(*            claim to apply the provider's stored answer went stale       *)
(*   "ai"     ai_agent.tasks.generate_description_task   (never replayed,  *)
(*            no domain branch in dispatch.py)                             *)
(* A media job keeps the provider's answer as a checkpoint, so that local  *)
(* work on it can be repeated when the submission must not be.             *)
(* The columns result, last_error, celery_task_id and the time stamps are  *)
(* left out: no guard of dispatch.py reads them for these targets.         *)
(***************************************************************************)
EXTENDS Integers

CONSTANTS
    Dispatches,      \* rows of BackgroundJobDispatch
    Publishers,      \* processes inside publish_dispatch
    Workers,         \* Celery processes inside execute_background_dispatch
    Tokens,          \* the uuid4 values used as claim_token
    NoToken,         \* claim_token = None
    NoDispatch,      \* an idle process works on no row
    KindOf,          \* the target task of each row
    JobOf,           \* the row whose domain job a row works on: itself, but
                     \* for a resume row the media row
    ClaimOf,         \* the apply claim, counted per job, that a resume row
                     \* is keyed by (media-checkpoint-resume:job:digest:token)
    Refused,         \* media jobs that the provider answers with a failure
    MaxRun,          \* max_run_attempts
    LongLease        \* rows whose execution_timeout_seconds outlasts Celery's
                     \* hard time limit (3700 by default; 90 or 180 in places)

Kinds == {"parse", "bulk", "media", "ai", "resume"}

ASSUME DispatchAssumption ==
    /\ KindOf \in [Dispatches -> Kinds]
    /\ JobOf \in [Dispatches -> Dispatches]
    /\ \A d \in Dispatches :
         IF KindOf[d] = "resume" THEN KindOf[JobOf[d]] = "media"
                                 ELSE JobOf[d] = d
    /\ ClaimOf \in [Dispatches -> Nat]
    /\ MaxRun \in Nat \ {0}
    /\ NoToken \notin Tokens
    /\ NoDispatch \notin Dispatches
    /\ LongLease \subseteq Dispatches

VARIABLES
    (* The columns of the persisted rows. *)
    status, due, claim_token, lease, run_attempts,
    job,                    \* status of the domain job each row delivers
    checkpoint,             \* provider_response_state of a media job
    claims,                 \* how many apply tokens it has issued; while it is
                            \* APPLYING the last one is the owner's
    stale_claims,           \* those of them older than ten minutes
    broker,                 \* <<dispatch, token>> messages still deliverable
    ppc, pdisp, ptoken,     \* program counter and locals of the publishers
    wpc, wdisp, wtoken,     \* program counter and locals of the workers
    wclaim,                 \* the apply token a worker holds, 0 for none
    executed,               \* history: the messages whose execution has begun
                            \* and that may still be delivered again
    crossings               \* history: how often the target crossed the
                            \* provider boundary; 2 is more than once

rowVars == <<status, due, claim_token, lease, run_attempts>>
pubVars == <<ppc, pdisp, ptoken>>
wrkVars == <<wpc, wdisp, wtoken, wclaim>>
answerVars == <<checkpoint, claims, stale_claims>>
history == <<executed, crossings>>
vars == <<rowVars, job, answerVars, broker, pubVars, wrkVars, history>>

(* cancelled is a status nothing in dispatch.py assigns. *)
TerminalStates == {"succeeded", "failed"}
LeasedStates == {"publishing", "published", "running"}
Statuses == {"absent", "pending"} \union LeasedStates \union TerminalStates

(* The rows that run process_media_job. *)
MediaTask(d) == KindOf[d] \in {"media", "resume"}

(* _NO_AUTOMATIC_REPLAY_TASKS *)
NoReplay(d) == MediaTask(d) \/ KindOf[d] = "ai"

JobStatuses ==
    {"none",         \* the kind has no domain branch
     "queued",       \* PENDING / QUEUED
     "running",      \* RUNNING / PROCESSING
     "done",         \* finished by the target: SUCCESS, NOT_FOUND, SUBMITTED...
     "rejected",     \* media: FAILED by an applied provider answer
     "safe_failed",  \* media: FAILED, error_code = submission_failed
     "uncertain",    \* media: FAILED, error_code = outcome_uncertain
     "failed"}       \* FAILED for any other reason

(* ProviderResponseState; "resolved" is ACCOUNTING_RESOLVED. *)
CheckpointStates == {"none", "recorded", "applying", "applied", "resolved"}

PublisherPCs == {"idle", "sending", "sent", "errored"}

(* Inside task.run: before its lock or claim, after it, about to call the  *)
(* provider, after the call.                                               *)
ExecutingPCs == {"claimed", "begun", "ready", "crossed"}
(* media, with the provider's answer in hand: the answer is stored; it is  *)
(* being applied; the job is saved and the claim not yet closed.  A worker *)
(* that called the provider itself takes the first of each pair: whatever  *)
(* goes wrong is MediaProviderOutcomeUncertain.  One that found the answer *)
(* stored takes the second.  Last, the two exceptions before their handler.*)
ApplyingPCs == {"applying", "reapplying"}
AppliedPCs == {"applied", "reapplied"}
ApplyPCs == ApplyingPCs \union AppliedPCs
AnswerPCs == {"recorded", "unresolved", "unsafe"} \union ApplyPCs
InsidePCs == ExecutingPCs \union AnswerPCs
(* task.run raised: SafeRetryableDispatchError, an exception marked        *)
(* outcome_uncertain, any other; or the task is not registered / allowed.  *)
RaisedPCs == {"raised_safe", "raised_uncertain", "raised_error",
              "unregistered", "not_allowed"}
(* _finish_failed has updated the row and not yet the domain job.          *)
MarkingPCs == {"mark_retry", "mark_failed", "mark_uncertain"}
WorkerPCs == InsidePCs \union RaisedPCs \union MarkingPCs
             \union {"idle", "returned"}

(* Every row, message and process has its shape, and a busy process knows  *)
(* the dispatch and the token it works with.                               *)
TypeOK ==
    /\ status \in [Dispatches -> Statuses]
    /\ due \in [Dispatches -> BOOLEAN]
    /\ claim_token \in [Dispatches -> Tokens \union {NoToken}]
    /\ lease \in [Dispatches -> {"none", "live", "expired"}]
    /\ run_attempts \in [Dispatches -> Nat]
    /\ job \in [Dispatches -> JobStatuses]
    /\ checkpoint \in [Dispatches -> CheckpointStates]
    /\ claims \in [Dispatches -> Nat]
    /\ stale_claims \in [Dispatches -> SUBSET Nat]
    /\ broker \subseteq Dispatches \X Tokens
    /\ ppc \in [Publishers -> PublisherPCs]
    /\ pdisp \in [Publishers -> Dispatches \union {NoDispatch}]
    /\ ptoken \in [Publishers -> Tokens \union {NoToken}]
    /\ \A p \in Publishers :
         ppc[p] # "idle" => pdisp[p] \in Dispatches /\ ptoken[p] \in Tokens
    /\ wpc \in [Workers -> WorkerPCs]
    /\ wdisp \in [Workers -> Dispatches \union {NoDispatch}]
    /\ wtoken \in [Workers -> Tokens \union {NoToken}]
    /\ wclaim \in [Workers -> Nat]
    /\ \A w \in Workers :
         wpc[w] # "idle" => wdisp[w] \in Dispatches /\ wtoken[w] \in Tokens
    /\ executed \subseteq broker
    /\ crossings \in [Dispatches -> 0..2]

Init ==
    /\ status = [d \in Dispatches |-> "absent"]
    /\ due = [d \in Dispatches |-> FALSE]
    /\ claim_token = [d \in Dispatches |-> NoToken]
    /\ lease = [d \in Dispatches |-> "none"]
    /\ run_attempts = [d \in Dispatches |-> 0]
    /\ job = [d \in Dispatches |->
                IF KindOf[d] \in {"ai", "resume"} THEN "none" ELSE "queued"]
    /\ checkpoint = [d \in Dispatches |-> "none"]
    /\ claims = [d \in Dispatches |-> 0]
    /\ stale_claims = [d \in Dispatches |-> {}]
    /\ broker = {}
    /\ ppc = [p \in Publishers |-> "idle"]
    /\ pdisp = [p \in Publishers |-> NoDispatch]
    /\ ptoken = [p \in Publishers |-> NoToken]
    /\ wpc = [w \in Workers |-> "idle"]
    /\ wdisp = [w \in Workers |-> NoDispatch]
    /\ wtoken = [w \in Workers |-> NoToken]
    /\ wclaim = [w \in Workers |-> 0]
    /\ executed = {}
    /\ crossings = [d \in Dispatches |-> 0]

(* A process returns, or is killed. *)
FreePublisher(p) ==
    /\ ppc' = [ppc EXCEPT ![p] = "idle"]
    /\ pdisp' = [pdisp EXCEPT ![p] = NoDispatch]
    /\ ptoken' = [ptoken EXCEPT ![p] = NoToken]

FreeWorker(w) ==
    /\ wpc' = [wpc EXCEPT ![w] = "idle"]
    /\ wdisp' = [wdisp EXCEPT ![w] = NoDispatch]
    /\ wtoken' = [wtoken EXCEPT ![w] = NoToken]
    /\ wclaim' = [wclaim EXCEPT ![w] = 0]

(* A process takes a step and keeps its locals. *)
PublisherAt(p, pc) ==
    ppc' = [ppc EXCEPT ![p] = pc] /\ UNCHANGED <<pdisp, ptoken>>

WorkerAt(w, pc) ==
    wpc' = [wpc EXCEPT ![w] = pc] /\ UNCHANGED <<wdisp, wtoken, wclaim>>

-----------------------------------------------------------------------------
(* Domain side effects of dispatch.py on the job a row delivers.           *)

JobStatus(d) == job[JobOf[d]]
Answer(d) == checkpoint[JobOf[d]]

SetJob(d, s) == job' = [job EXCEPT ![JobOf[d]] = s]

(* _mark_retrying_domain_job *)
RetriedJob(d) ==
    IF \/ KindOf[d] = "parse" /\ JobStatus(d) \in {"running", "failed"}
       \/ KindOf[d] = "bulk" /\ JobStatus(d) = "running"
       \/ MediaTask(d) /\ JobStatus(d) = "safe_failed"
    THEN "queued" ELSE JobStatus(d)

(* _mark_terminal_domain_failure: the statuses each kind overwrites. *)
TerminatedJob(d, uncertain) ==
    IF \/ /\ KindOf[d] \in {"parse", "bulk"}
          /\ JobStatus(d) \in {"queued", "running"}
       \/ /\ MediaTask(d) /\ JobStatus(d) # "done"
          /\ uncertain => Answer(d) \notin {"applied", "resolved"}
    THEN IF MediaTask(d) /\ uncertain THEN "uncertain" ELSE "failed"
    ELSE JobStatus(d)

(* _prepare_recovered_domain_job: provider_job_id is empty until the answer *)
(* is stored, and stays so when a provider that answers at once names none. *)
PreparedJobs(d, runs) ==
    IF runs > 1 /\ MediaTask(d) /\ JobStatus(d) = "running"
    THEN IF Answer(d) = "none" THEN {"queued"} ELSE {"queued", "running"}
    ELSE {JobStatus(d)}

-----------------------------------------------------------------------------
(* enqueue_durable_task.                                                   *)

(* resume_stale_media_provider_checkpoints has seen this apply claim older  *)
(* than ten minutes; it may act on that list at any later moment.           *)
ResumeDue(d) == KindOf[d] = "resume" /\ ClaimOf[d] \in stale_claims[JobOf[d]]

(* First enqueue: the row and the domain job commit together; available_at *)
(* may lie in the future.                                                  *)
Enqueue(d) ==
    /\ status[d] = "absent"
    /\ KindOf[d] = "resume" => ResumeDue(d)
    /\ status' = [status EXCEPT ![d] = "pending"]
    /\ \E now \in BOOLEAN :
         /\ KindOf[d] = "resume" => now
         /\ due' = [due EXCEPT ![d] = now]
    /\ UNCHANGED <<claim_token, lease, run_attempts, job, broker, pubVars,
                   wrkVars, answerVars, history>>

(* The parse advisory lock is held while a worker is inside run_parse_job. *)
LockHeld(d) ==
    \E w \in Workers : wdisp[w] = d /\ wpc[w] \in {"begun", "ready", "crossed"}

(* What the callers of enqueue_durable_task(revive_failed=True) require:   *)
(* the media view a retryable submission, the beat task a stale apply      *)
(* claim, the paid search recovery a failed parse job whose advisory lock  *)
(* is free.                                                                *)
Revivable(d) ==
    \/ KindOf[d] = "media" /\ JobStatus(d) = "safe_failed"
    \/ ResumeDue(d)
    \/ KindOf[d] = "parse" /\ JobStatus(d) = "failed" /\ ~LockHeld(d)

Revive(d) ==
    /\ status[d] = "failed"
    /\ Revivable(d)
    /\ status' = [status EXCEPT ![d] = "pending"]
    /\ due' = [due EXCEPT ![d] = TRUE]
    /\ claim_token' = [claim_token EXCEPT ![d] = NoToken]
    /\ lease' = [lease EXCEPT ![d] = "none"]
    /\ run_attempts' = [run_attempts EXCEPT ![d] = 0]
    /\ SetJob(d, IF KindOf[d] = "parse" THEN "queued" ELSE JobStatus(d))
    /\ UNCHANGED <<broker, pubVars, wrkVars, answerVars, history>>

-----------------------------------------------------------------------------
(* publish_dispatch and publish_due_dispatches.                            *)

(* A uuid4 differs from every token still held anywhere. *)
FreshToken(t) ==
    /\ \A d \in Dispatches : claim_token[d] # t /\ <<d, t>> \notin broker
    /\ \A p \in Publishers : ptoken[p] # t
    /\ \A w \in Workers : wtoken[w] # t

(* Mutant: only RUNNING leases are reclaimed. *)
PublishableRunningOnly(d) ==
    \/ status[d] = "pending" /\ due[d]
    \/ status[d] = "running" /\ lease[d] = "expired"

Publishable(d) ==
    \/ status[d] = "pending" /\ due[d]
    \/ status[d] \in LeasedStates /\ lease[d] = "expired"

(* Mutant: every lost run is replayed. *)
LostRunsReplayed(d) == FALSE

LostExternalRun(d) == status[d] = "running" /\ NoReplay(d)

(* First transaction of publish_dispatch: claim the row for sending. *)
PublishClaim(p, d) ==
    /\ ppc[p] = "idle"
    /\ Publishable(d)
    /\ ~LostExternalRun(d)
    /\ \E t \in Tokens :
         /\ FreshToken(t)
         /\ claim_token' = [claim_token EXCEPT ![d] = t]
         /\ ptoken' = [ptoken EXCEPT ![p] = t]
    /\ status' = [status EXCEPT ![d] = "publishing"]
    /\ lease' = [lease EXCEPT ![d] = "live"]
    /\ ppc' = [ppc EXCEPT ![p] = "sending"]
    /\ pdisp' = [pdisp EXCEPT ![p] = d]
    /\ UNCHANGED <<due, run_attempts, job, broker, wrkVars,
                   answerVars, history>>

(* Same transaction, the branch that fails closed: a no-replay target whose *)
(* worker was lost is failed, and its job marked, atomically.               *)
FailLostExternalRun(d) ==
    /\ Publishable(d)
    /\ LostExternalRun(d)
    /\ status' = [status EXCEPT ![d] = "failed"]
    /\ claim_token' = [claim_token EXCEPT ![d] = NoToken]
    /\ lease' = [lease EXCEPT ![d] = "none"]
    /\ SetJob(d, TerminatedJob(d, TRUE))
    /\ UNCHANGED <<due, run_attempts, broker, pubVars, wrkVars,
                   answerVars, history>>

(* apply_async succeeds ... *)
SendOk(p) ==
    /\ ppc[p] = "sending"
    /\ broker' = broker \union {<<pdisp[p], ptoken[p]>>}
    /\ PublisherAt(p, "sent")
    /\ UNCHANGED <<rowVars, job, wrkVars, answerVars, history>>

(* ... or raises, possibly after the broker has accepted the message. *)
SendError(p) ==
    /\ ppc[p] = "sending"
    /\ broker' = broker \/ broker' = broker \union {<<pdisp[p], ptoken[p]>>}
    /\ PublisherAt(p, "errored")
    /\ UNCHANGED <<rowVars, job, wrkVars, answerVars, history>>

(* The publisher still owns the claim it made. *)
PublisherOwns(p) ==
    status[pdisp[p]] = "publishing" /\ claim_token[pdisp[p]] = ptoken[p]

(* Compare-and-set back to PENDING with a retry delay. *)
RevertToPending(p) ==
    LET d == pdisp[p] IN
    /\ ppc[p] = "errored"
    /\ \/ /\ PublisherOwns(p)
          /\ status' = [status EXCEPT ![d] = "pending"]
          /\ due' = [due EXCEPT ![d] = FALSE]
          /\ claim_token' = [claim_token EXCEPT ![d] = NoToken]
          /\ lease' = [lease EXCEPT ![d] = "none"]
          /\ UNCHANGED run_attempts
       \/ ~PublisherOwns(p) /\ UNCHANGED rowVars
    /\ FreePublisher(p)
    /\ UNCHANGED <<job, broker, wrkVars, answerVars, history>>

(* Compare-and-set to PUBLISHED; a fast worker may already run the job. *)
MarkPublished(p) ==
    LET d == pdisp[p] IN
    /\ ppc[p] = "sent"
    /\ \/ /\ PublisherOwns(p)
          /\ status' = [status EXCEPT ![d] = "published"]
          /\ lease' = [lease EXCEPT ![d] = "live"]
          /\ UNCHANGED <<due, claim_token, run_attempts>>
       \/ ~PublisherOwns(p) /\ UNCHANGED rowVars
    /\ FreePublisher(p)
    /\ UNCHANGED <<job, broker, wrkVars, answerVars, history>>

PublisherCrash(p) ==
    /\ ppc[p] # "idle"
    /\ FreePublisher(p)
    /\ UNCHANGED <<rowVars, job, broker, wrkVars, answerVars, history>>

-----------------------------------------------------------------------------
(* The broker and the clock.                                               *)

(* A message is lost, or acknowledged, or given to a worker whose          *)
(* claim_dispatch returns None.  Until then it may be delivered again.     *)
DropMessage(m) ==
    /\ broker' = broker \ {m}
    /\ executed' = executed \ {m}
    /\ UNCHANGED <<rowVars, job, pubVars, wrkVars, answerVars, crossings>>

BecomeDue(d) ==
    /\ status[d] = "pending" /\ ~due[d]
    /\ due' = [due EXCEPT ![d] = TRUE]
    /\ UNCHANGED <<status, claim_token, lease, run_attempts, job, broker,
                   pubVars, wrkVars, answerVars, history>>

(* lease_expires_at passes.  A lease longer than the run: Celery has       *)
(* killed the worker (CELERY_TASK_TIME_LIMIT) before that.                 *)
ExpireLease(d) ==
    /\ lease[d] = "live"
    /\ d \in LongLease /\ status[d] = "running" =>
         \A w \in Workers : wdisp[w] = d => wtoken[w] # claim_token[d]
    /\ lease' = [lease EXCEPT ![d] = "expired"]
    /\ UNCHANGED <<status, due, claim_token, run_attempts, job, broker,
                   pubVars, wrkVars, answerVars, history>>

-----------------------------------------------------------------------------
(* claim_dispatch, for a message <<d, t>> of the broker.                   *)

(* Mutant: a redelivered message may claim a RUNNING row again. *)
ClaimableWhileRunning(d, t) == status[d] \in LeasedStates /\ claim_token[d] = t

(* Mutant: the token of the message is not compared. *)
ClaimableByAnyToken(d, t) == status[d] \in {"publishing", "published"}

Claimable(d, t) ==
    status[d] \in {"publishing", "published"} /\ claim_token[d] = t

ClaimRun(w, d, t) ==
    /\ wpc[w] = "idle"
    /\ <<d, t>> \in broker
    /\ Claimable(d, t)
    /\ run_attempts[d] < MaxRun
    /\ status' = [status EXCEPT ![d] = "running"]
    /\ lease' = [lease EXCEPT ![d] = "live"]
    /\ run_attempts' = [run_attempts EXCEPT ![d] = run_attempts[d] + 1]
    /\ \E s \in PreparedJobs(d, run_attempts[d] + 1) : SetJob(d, s)
    /\ executed' = executed \union {<<d, t>>}
    /\ wpc' = [wpc EXCEPT ![w] = "claimed"]
    /\ wdisp' = [wdisp EXCEPT ![w] = d]
    /\ wtoken' = [wtoken EXCEPT ![w] = t]
    /\ UNCHANGED <<due, claim_token, broker, pubVars, wclaim, answerVars,
                   crossings>>

(* The attempts are used up: the row fails, its token stays. *)
ClaimExhausted(d, t) ==
    /\ <<d, t>> \in broker
    /\ Claimable(d, t)
    /\ run_attempts[d] >= MaxRun
    /\ status' = [status EXCEPT ![d] = "failed"]
    /\ lease' = [lease EXCEPT ![d] = "none"]
    /\ SetJob(d, TerminatedJob(d, FALSE))
    /\ UNCHANGED <<due, claim_token, run_attempts, broker, pubVars, wrkVars,
                   answerVars, history>>

-----------------------------------------------------------------------------
(* The target task, as execute_claimed_dispatch sees it.                   *)

(* process_media_job: a job to submit, or one whose stored answer is still *)
(* to be applied.                                                          *)
MediaClaimable(d) ==
    \/ JobStatus(d) \in {"queued", "safe_failed"}
    \/ Answer(d) \in {"recorded", "applying"}

(* parse: take the advisory lock; media: claim the job by a conditional     *)
(* update; bulk: the job is still open.                                     *)
TargetBegin(w) ==
    LET d == wdisp[w] IN
    /\ wpc[w] = "claimed"
    /\ \/ KindOf[d] = "parse" /\ ~LockHeld(d) /\ UNCHANGED job
       \/ MediaTask(d) /\ MediaClaimable(d) /\ SetJob(d, "running")
       \/ KindOf[d] = "bulk" /\ JobStatus(d) = "queued" /\ UNCHANGED job
       \/ KindOf[d] = "ai" /\ UNCHANGED job
    /\ WorkerAt(w, "begun")
    /\ UNCHANGED <<rowVars, broker, pubVars, answerVars, history>>

(* A job in any other status is reported as is, without running. *)
TargetSkip(w) ==
    LET d == wdisp[w] IN
    /\ wpc[w] = "claimed"
    /\ \/ MediaTask(d) /\ ~MediaClaimable(d)
       \/ KindOf[d] = "bulk" /\ JobStatus(d) # "queued"
    /\ WorkerAt(w, "returned")
    /\ UNCHANGED <<rowVars, job, broker, pubVars, answerVars, history>>

(* The unconditional save of RUNNING / PROCESSING just before the call;    *)
(* submit_job gets there only when no answer is stored.                    *)
TargetSave(w) ==
    LET d == wdisp[w] IN
    /\ wpc[w] = "begun"
    /\ \/ KindOf[d] = "parse" /\ SetJob(d, "running")
       \/ MediaTask(d) /\ Answer(d) = "none" /\ SetJob(d, "running")
       \/ KindOf[d] = "ai" /\ UNCHANGED job
    /\ WorkerAt(w, "ready")
    /\ UNCHANGED <<rowVars, broker, pubVars, answerVars, history>>

(* The call that crosses the provider boundary. *)
TargetCross(w) ==
    LET j == JobOf[wdisp[w]] IN
    /\ wpc[w] = "ready"
    /\ crossings' = [crossings EXCEPT ![j] = IF crossings[j] = 0 THEN 1 ELSE 2]
    /\ WorkerAt(w, "crossed")
    /\ UNCHANGED <<rowVars, job, broker, pubVars, answerVars, executed>>

(* Normal return: parse finished its job or (euroauto) found it finished   *)
(* by an earlier run; bulk commits its whole batch; ai may return early,   *)
(* with nothing generated.  media returns from the steps below.            *)
TargetReturn(w) ==
    LET d == wdisp[w] IN
    /\ \/ wpc[w] = "crossed" /\ KindOf[d] = "parse" /\ SetJob(d, "done")
       \/ wpc[w] = "begun" /\ KindOf[d] = "parse" /\ crossings[d] > 0
          /\ JobStatus(d) \in {"done", "failed"} /\ UNCHANGED job
       \/ wpc[w] = "begun" /\ KindOf[d] = "bulk" /\ SetJob(d, "done")
       \/ wpc[w] \in {"begun", "ready", "crossed"} /\ KindOf[d] = "ai"
          /\ UNCHANGED job
    /\ WorkerAt(w, "returned")
    /\ UNCHANGED <<rowVars, broker, pubVars, answerVars, history>>

(* run_parse_job finds the advisory lock taken. *)
TargetLockBusy(w) ==
    /\ wpc[w] = "claimed"
    /\ KindOf[wdisp[w]] = "parse"
    /\ LockHeld(wdisp[w])
    /\ WorkerAt(w, "raised_safe")
    /\ UNCHANGED <<rowVars, job, broker, pubVars, answerVars, history>>

(* Mutant: an exception of the provider call is as safe as one before it. *)
TargetRaiseSafeAfterCall(w) ==
    /\ wpc[w] \in {"begun", "ready", "crossed", "unsafe"}
    /\ MediaTask(wdisp[w])
    /\ SetJob(wdisp[w], "safe_failed")
    /\ WorkerAt(w, "raised_safe")
    /\ UNCHANGED <<rowVars, broker, pubVars, answerVars, history>>

(* media: any exception of submit_job but the two named ones: before the   *)
(* provider call, or while a stored answer is applied; fail_job writes     *)
(* submission_failed unconditionally.                                      *)
TargetRaiseSafe(w) ==
    /\ wpc[w] \in {"begun", "ready", "unsafe"}
    /\ MediaTask(wdisp[w])
    /\ SetJob(wdisp[w], "safe_failed")
    /\ WorkerAt(w, "raised_safe")
    /\ UNCHANGED <<rowVars, broker, pubVars, answerVars, history>>

(* Every other exception.  parse saves FAILED first, unless it had already *)
(* finished the job; bulk rolls its transaction back.  A parse source and  *)
(* the AI provider may declare the outcome uncertain.                      *)
TargetRaiseError(w) ==
    LET d == wdisp[w] IN
    /\ \/ wpc[w] \in {"begun", "ready", "crossed"} /\ KindOf[d] = "parse"
          /\ SetJob(d, "failed")
       \/ wpc[w] = "crossed" /\ KindOf[d] = "parse" /\ SetJob(d, "done")
       \/ wpc[w] = "begun" /\ KindOf[d] = "bulk" /\ UNCHANGED job
       \/ wpc[w] \in ExecutingPCs /\ KindOf[d] = "ai" /\ UNCHANGED job
    /\ \/ WorkerAt(w, "raised_error")
       \/ KindOf[d] \in {"parse", "ai"} /\ WorkerAt(w, "raised_uncertain")
    /\ UNCHANGED <<rowVars, broker, pubVars, answerVars, history>>

(* The task name is no longer allowlisted, or not registered here. *)
TargetUnavailable(w) ==
    /\ wpc[w] = "claimed"
    /\ WorkerAt(w, "not_allowed") \/ WorkerAt(w, "unregistered")
    /\ UNCHANGED <<rowVars, job, broker, pubVars, answerVars, history>>

-----------------------------------------------------------------------------
(* media: the provider's answer, from its storage to its application.      *)

SetAnswer(j, a) == checkpoint' = [checkpoint EXCEPT ![j] = a]

(* _checkpoint_provider_result stores the answer before any local work; or *)
(* the call, or the storing of its answer, raises.                         *)
TargetRecord(w) ==
    LET j == JobOf[wdisp[w]] IN
    /\ wpc[w] = "crossed" /\ MediaTask(wdisp[w])
    /\ \/ /\ SetAnswer(j, IF checkpoint[j] = "none" THEN "recorded"
                          ELSE checkpoint[j])
          /\ WorkerAt(w, "recorded")
       \/ WorkerAt(w, "unresolved") /\ UNCHANGED checkpoint
    /\ UNCHANGED <<rowVars, job, broker, pubVars, claims, stale_claims,
                   history>>

(* Mutant: whoever finds a stored answer applies it. *)
ClaimFreeAlways(j) == checkpoint[j] \in {"recorded", "applying"}

(* _claim_provider_checkpoint_for_apply: the answer waits, or the claim of *)
(* whoever was applying it is older than ten minutes.                      *)
ClaimFree(j) ==
    \/ checkpoint[j] = "recorded"
    \/ checkpoint[j] = "applying" /\ claims[j] \in stale_claims[j]

AtAnswer(w) ==
    \/ wpc[w] = "recorded"
    \/ wpc[w] = "begun" /\ MediaTask(wdisp[w]) /\ Answer(wdisp[w]) # "none"

TargetClaimAnswer(w) ==
    LET j == JobOf[wdisp[w]] IN
    /\ AtAnswer(w)
    /\ ClaimFree(j)
    /\ SetAnswer(j, "applying")
    /\ claims' = [claims EXCEPT ![j] = claims[j] + 1]
    /\ wclaim' = [wclaim EXCEPT ![w] = claims[j] + 1]
    /\ wpc' = [wpc EXCEPT ![w] = IF wpc[w] = "begun" THEN "reapplying"
                                ELSE "applying"]
    /\ UNCHANGED <<rowVars, job, broker, pubVars, wdisp, wtoken, stale_claims,
                   history>>

(* Somebody else applies the answer now, or has: the task returns normally *)
(* with the job as it is.  The worker that called the provider takes the   *)
(* running claim for an exception of its own.                              *)
TargetAnswerTaken(w) ==
    LET j == JobOf[wdisp[w]] IN
    /\ AtAnswer(w)
    /\ ~ClaimFree(j)
    /\ WorkerAt(w, IF wpc[w] = "recorded" /\ checkpoint[j] = "applying"
                   THEN "unresolved" ELSE "returned")
    /\ UNCHANGED <<rowVars, job, broker, pubVars, answerVars, history>>

(* apply_provider_result ends with an unconditional save of the job:       *)
(* SUBMITTED or SUCCEEDED, or FAILED with the provider's error.            *)
TargetApply(w) ==
    LET d == wdisp[w] IN
    /\ wpc[w] \in ApplyingPCs
    /\ SetJob(d, IF JobOf[d] \in Refused THEN "rejected" ELSE "done")
    /\ WorkerAt(w, IF wpc[w] = "applying" THEN "applied" ELSE "reapplied")
    /\ UNCHANGED <<rowVars, broker, pubVars, answerVars, history>>

OwnsClaim(w) ==
    Answer(wdisp[w]) = "applying" /\ claims[JobOf[wdisp[w]]] = wclaim[w]

(* What an exception while applying becomes: uncertain for the worker that *)
(* called the provider; for the others as it comes, an accounting conflict *)
(* being uncertain too.                                                    *)
RaiseFromApply(w) ==
    \/ WorkerAt(w, "unresolved")
    \/ wpc[w] \in {"reapplying", "reapplied"} /\ WorkerAt(w, "unsafe")

(* It raises before that save: the claim, if still its own, is given back. *)
TargetApplyFails(w) ==
    LET j == JobOf[wdisp[w]] IN
    /\ wpc[w] \in ApplyingPCs
    /\ SetAnswer(j, IF OwnsClaim(w) THEN "recorded" ELSE checkpoint[j])
    /\ RaiseFromApply(w)
    /\ UNCHANGED <<rowVars, job, broker, pubVars, claims, stale_claims,
                   history>>

(* The transaction that closes the claim, when it is still its own. *)
TargetConfirm(w) ==
    LET j == JobOf[wdisp[w]] IN
    /\ wpc[w] \in AppliedPCs
    /\ OwnsClaim(w)
    /\ SetAnswer(j, "applied")
    /\ WorkerAt(w, "returned")
    /\ UNCHANGED <<rowVars, job, broker, pubVars, claims, stale_claims,
                   history>>

(* It finds the claim lost, or fails and leaves the claim as it is. *)
TargetConfirmFails(w) ==
    /\ wpc[w] \in AppliedPCs
    /\ IF OwnsClaim(w) THEN RaiseFromApply(w) ELSE WorkerAt(w, "unresolved")
    /\ UNCHANGED <<rowVars, job, broker, pubVars, answerVars, history>>

(* Mutant: no stored answer counts as resolved. *)
ResolvedUnlessRecorded(d) == Answer(d) # "recorded"

(* fail_job_if_checkpoint_unresolved finds a newer owner of the answer. *)
ResolvedElsewhere(d) ==
    Answer(d) \in {"applying", "applied", "resolved"} \/ JobStatus(d) = "done"

(* MediaProviderOutcomeUncertain: the job is marked, unless it is resolved *)
(* elsewhere; then the task returns normally, with the job as it is.       *)
TargetUnresolved(w) ==
    LET d == wdisp[w] IN
    /\ wpc[w] = "unresolved"
    /\ IF ResolvedElsewhere(d) THEN WorkerAt(w, "returned") /\ UNCHANGED job
       ELSE WorkerAt(w, "raised_error") /\ SetJob(d, "uncertain")
    /\ UNCHANGED <<rowVars, broker, pubVars, answerVars, history>>

(* Ten minutes pass over the current apply claim of a job. *)
ClaimGoesStale(j) ==
    /\ checkpoint[j] = "applying" /\ claims[j] \notin stale_claims[j]
    /\ stale_claims' = [stale_claims EXCEPT ![j] = @ \union {claims[j]}]
    /\ UNCHANGED <<rowVars, job, broker, pubVars, wrkVars, checkpoint, claims,
                   history>>

(* reconcile_media_provider_outcome with release or settle-reserved: an    *)
(* operator closes the accounting of an uncertain job.                     *)
ResolveAccounting(j) ==
    /\ KindOf[j] = "media" /\ job[j] = "uncertain"
    /\ checkpoint[j] \in {"none", "recorded"}
    /\ SetAnswer(j, IF checkpoint[j] = "recorded" THEN "resolved" ELSE "none")
    /\ job' = [job EXCEPT ![j] = "failed"]
    /\ UNCHANGED <<rowVars, broker, pubVars, wrkVars, claims, stale_claims,
                   history>>

-----------------------------------------------------------------------------
(* execute_claimed_dispatch writes the outcome.                            *)

WorkerOwns(w) ==
    status[wdisp[w]] = "running" /\ claim_token[wdisp[w]] = wtoken[w]

FinishSucceeded(w) ==
    LET d == wdisp[w] IN
    /\ wpc[w] = "returned"
    /\ \/ /\ WorkerOwns(w)
          /\ status' = [status EXCEPT ![d] = "succeeded"]
          /\ lease' = [lease EXCEPT ![d] = "none"]
          /\ UNCHANGED <<due, claim_token, run_attempts>>
       \/ ~WorkerOwns(w) /\ UNCHANGED rowVars
    /\ FreeWorker(w)
    /\ UNCHANGED <<job, broker, pubVars, answerVars, history>>

OutcomeUncertain(w) ==
    \/ wpc[w] = "raised_uncertain"
    \/ wpc[w] = "raised_error" /\ NoReplay(wdisp[w])

(* An unregistered task is always retried, one not allowed never. *)
TerminalFailure(w) ==
    \/ OutcomeUncertain(w)
    \/ wpc[w] = "not_allowed"
    \/ wpc[w] \in {"raised_error", "raised_safe"}
       /\ run_attempts[wdisp[w]] >= MaxRun

(* _finish_failed of a worker that lost its claim: no effect. *)
FinishStale(w) ==
    /\ wpc[w] \in RaisedPCs
    /\ ~WorkerOwns(w)
    /\ FreeWorker(w)
    /\ UNCHANGED <<rowVars, job, broker, pubVars, answerVars, history>>

(* _finish_failed up to its conditional update, which commits on its own:  *)
(* the domain job is marked in a later transaction.                        *)
FinishFailed(w) ==
    LET d == wdisp[w] IN
    /\ wpc[w] \in RaisedPCs
    /\ WorkerOwns(w)
    /\ claim_token' = [claim_token EXCEPT ![d] = NoToken]
    /\ lease' = [lease EXCEPT ![d] = "none"]
    /\ \/ /\ TerminalFailure(w)
          /\ status' = [status EXCEPT ![d] = "failed"]
          /\ UNCHANGED due
          /\ WorkerAt(w, IF OutcomeUncertain(w) THEN "mark_uncertain"
                         ELSE "mark_failed")
       \/ /\ ~TerminalFailure(w)
          /\ status' = [status EXCEPT ![d] = "pending"]
          /\ due' = [due EXCEPT ![d] = FALSE]
          /\ WorkerAt(w, "mark_retry")
    /\ UNCHANGED <<run_attempts, job, broker, pubVars, answerVars, history>>

(* _finish_failed, the rest: tell the domain job. *)
MarkDomainJob(w) ==
    LET d == wdisp[w] IN
    /\ \/ wpc[w] = "mark_retry" /\ SetJob(d, RetriedJob(d))
       \/ wpc[w] = "mark_failed" /\ SetJob(d, TerminatedJob(d, FALSE))
       \/ wpc[w] = "mark_uncertain" /\ SetJob(d, TerminatedJob(d, TRUE))
    /\ FreeWorker(w)
    /\ UNCHANGED <<rowVars, broker, pubVars, answerVars, history>>

(* A killed worker leaves the database as it is. *)
WorkerCrash(w) ==
    /\ wpc[w] # "idle"
    /\ FreeWorker(w)
    /\ UNCHANGED <<rowVars, job, broker, pubVars, answerVars, history>>

-----------------------------------------------------------------------------
AnswerStep(w) ==
    \/ TargetRecord(w) \/ TargetClaimAnswer(w) \/ TargetAnswerTaken(w)
    \/ TargetApply(w) \/ TargetApplyFails(w) \/ TargetConfirm(w)
    \/ TargetConfirmFails(w) \/ TargetUnresolved(w)

TargetStep(w) ==
    \/ TargetBegin(w) \/ TargetSkip(w) \/ TargetSave(w) \/ TargetCross(w)
    \/ TargetReturn(w) \/ TargetLockBusy(w) \/ TargetRaiseSafe(w)
    \/ TargetRaiseError(w) \/ TargetUnavailable(w) \/ AnswerStep(w)

WorkerStep(w) ==
    \/ TargetStep(w) \/ FinishSucceeded(w) \/ FinishStale(w) \/ FinishFailed(w)
    \/ MarkDomainJob(w)

PublisherStep(p) ==
    SendOk(p) \/ SendError(p) \/ RevertToPending(p) \/ MarkPublished(p)

ClaimStep(d) ==
    \E t \in Tokens :
        ClaimExhausted(d, t) \/ \E w \in Workers : ClaimRun(w, d, t)

DispatchStep(d) ==
    \/ Enqueue(d) \/ Revive(d) \/ FailLostExternalRun(d)
    \/ BecomeDue(d) \/ ExpireLease(d) \/ ClaimStep(d)
    \/ ClaimGoesStale(d) \/ ResolveAccounting(d)
    \/ \E p \in Publishers : PublishClaim(p, d)

Next ==
    \/ \E d \in Dispatches : DispatchStep(d)
    \/ \E p \in Publishers : PublisherStep(p) \/ PublisherCrash(p)
    \/ \E m \in broker : DropMessage(m)
    \/ \E w \in Workers : WorkerStep(w) \/ WorkerCrash(w)

Spec == Init /\ [][Next]_vars

(***************************************************************************)
(* Fairness.  The beat task runs forever (publishing, failing lost runs,   *)
(* time).  A broker that is up often enough lets a publisher send and a    *)
(* worker receive a message while its token is still current: strong       *)
(* fairness, since a crash or an expiry can disable either step.  A live   *)
(* process takes its next step.                                            *)
(***************************************************************************)
Fairness ==
    /\ \A d \in Dispatches :
         /\ WF_vars(\E p \in Publishers : PublishClaim(p, d))
         /\ WF_vars(FailLostExternalRun(d))
         /\ WF_vars(BecomeDue(d)) /\ WF_vars(ExpireLease(d))
         /\ SF_vars(ClaimStep(d))
    /\ \A p \in Publishers : SF_vars(SendOk(p)) /\ WF_vars(PublisherStep(p))
    /\ \A w \in Workers : WF_vars(WorkerStep(w))
    /\ WF_vars(\E m \in broker : DropMessage(m))

FairSpec == Spec /\ Fairness

-----------------------------------------------------------------------------
(* Safety.                                                                 *)

(* A target that may charge the tenant or submit work to a provider        *)
(* crosses that boundary at most once in the whole life of its dispatch,   *)
(* whatever publishers, workers and the broker do, revivals included       *)
(* (_NO_AUTOMATIC_REPLAY_TASKS, SafeRetryableDispatchError).               *)
ProviderBoundaryAtMostOnce ==
    \A d \in Dispatches : KindOf[d] \in {"media", "ai"} => crossings[d] <= 1

(* A claim token is executed at most once: no redelivered or stale message *)
(* starts it again, neither beside the worker that has it nor after that   *)
(* one returned, raised, was killed or lost its lease (claim_dispatch).    *)
TokenExecutedOnce ==
    [][\A w \in Workers : wpc[w] = "idle" /\ wpc'[w] = "claimed"
                             => <<wdisp'[w], wtoken'[w]>> \notin executed]_vars

(* A media job that was submitted to the provider is never open for        *)
(* submission again: whatever deliveries, late domain marks, retries and   *)
(* resumptions do to its status, it is queued or retryable only while the  *)
(* stored answer makes submit_job apply that answer instead of calling the *)
(* provider.                                                               *)
NeverResubmittable ==
    \A d \in Dispatches :
        KindOf[d] = "media" /\ crossings[d] > 0
            => job[d] \notin {"queued", "safe_failed"} \/ checkpoint[d] # "none"

(* When the lease outlasts Celery's hard time limit (3700 s against        *)
(* CELERY_TASK_TIME_LIMIT = 3600), no two workers ever execute the same    *)
(* dispatch, replayable targets included.                                  *)
SingleExecutor ==
    \A v, w \in Workers :
        v # w /\ wdisp[v] = wdisp[w] /\ wdisp[v] \in LongLease
            => ~(wpc[v] \in InsidePCs /\ wpc[w] \in InsidePCs)

(* A dispatch that SUCCEEDED is never run again, so a job left queued or   *)
(* running behind it would stay so for good.  A batch is closed.  A media  *)
(* job is closed, or the provider's answer is stored: then a worker that   *)
(* found another one applying it may have returned early, and the answer   *)
(* can still be applied without the provider.  A parse job has no such     *)
(* promise: the mark of an earlier attempt is not fenced by the claim      *)
(* token and can queue it again after a later one succeeded.               *)
SucceededJobClosed ==
    \A d \in Dispatches :
        status[d] = "succeeded" /\ KindOf[d] # "parse"
            => \/ JobStatus(d) \notin {"queued", "running"}
               \/ MediaTask(d) /\ Answer(d) # "none"

(* One worker at a time applies a stored answer: of two that do, the claim *)
(* of one is older than ten minutes, whoever crashed, failed and resumed   *)
(* in between (_claim_provider_checkpoint_for_apply,                       *)
(* _release_provider_checkpoint_claim).                                    *)
OneApplier ==
    \A v, w \in Workers :
        LET j == JobOf[wdisp[w]] IN
        /\ v # w /\ wpc[v] \in ApplyPCs /\ wpc[w] \in ApplyPCs
        /\ JobOf[wdisp[v]] = j
        => wclaim[v] \in stale_claims[j] \/ wclaim[w] \in stale_claims[j]

OwnerStep(d) ==
    status[d] = "running" /\ status'[d] # "running" =>
        \/ lease[d] = "expired"
        \/ \E w \in Workers : /\ wdisp[w] = d /\ wtoken[w] = claim_token[d]
                              /\ wpc'[w] # wpc[w]

(* A dispatch stops RUNNING only by the worker that holds its token, or    *)
(* after its lease expired: a worker that lost its claim changes nothing   *)
(* (the compare-and-set updates of execute_claimed_dispatch).              *)
OnlyOwnerFinishes == [][\A d \in Dispatches : OwnerStep(d)]_vars

TerminalStep(d) ==
    status[d] \in TerminalStates =>
        \/ /\ status'[d] = status[d] /\ claim_token'[d] = claim_token[d]
           /\ lease'[d] = lease[d] /\ run_attempts'[d] = run_attempts[d]
        \/ /\ status[d] = "failed" /\ status'[d] = "pending"
           /\ claim_token'[d] = NoToken /\ run_attempts'[d] = 0

(* A finished dispatch never changes, except that a failed one is revived  *)
(* whole, with a fresh budget of attempts; in particular late publisher    *)
(* updates do not resurrect it.                                            *)
TerminalStaysTerminal == [][\A d \in Dispatches : TerminalStep(d)]_vars

-----------------------------------------------------------------------------
(* Liveness.                                                               *)

(* Every persisted dispatch is eventually finished, despite lost messages  *)
(* and killed publishers and workers (publish_due_dispatches reclaims      *)
(* every expired lease, max_run_attempts bounds the runs).                 *)
EventuallyTerminal ==
    \A d \in Dispatches :
        status[d] = "pending" ~> status[d] \in TerminalStates

=============================================================================
