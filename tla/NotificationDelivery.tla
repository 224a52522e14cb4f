------------------------- MODULE NotificationDelivery -------------------------
(***************************************************************************)
(* Delivery of tenant notifications: apps/notifications/services.py, the   *)
(* Celery task send_notification_task and the operator's command           *)
(* reconcile_notification_delivery.                                        *)
(*                                                                         *)
(* A logical event is published one or more times (producers redeliver);   *)
(* each publication is a task that runs, is redelivered when its worker is *)
(* lost (acks_late, reject_on_worker_lost) and retries itself a bounded    *)
(* number of times.  A NotificationDelivery row per event and channel      *)
(* decides who may call the provider.  The claim of a row carries no       *)
(* token: whoever finds it SENDING may finish it.                          *)
(*                                                                         *)
(* The row's fingerprint is the recipient it was created for (the text of  *)
(* an event never changes).  A switched-off notification level, a missing  *)
(* settings row and an empty address are one case: no recipient.           *)
(***************************************************************************)
EXTENDS Integers

CONSTANTS
    Events,          \* logical notifications: values of event_key
    Tasks,           \* publications of send_notification_task
    LevelOf,         \* the level of each event
    Recipients,      \* chat ids and addresses
    NoRecipient,     \* the channel is not configured
    Changeable,      \* channels whose settings change in the instance
    NoEvent,
    MaxRetries       \* NOTIFICATION_DELIVERY_MAX_RETRIES

Channels == {"telegram", "email"}
Levels == {"error", "success", "critical", "billing"}

ASSUME NotificationAssumption ==
    /\ LevelOf \in [Events -> Levels]
    /\ NoRecipient \notin Recipients
    /\ Changeable \subseteq Channels
    /\ NoEvent \notin Events
    /\ MaxRetries \in Nat

(* uniq_notification_event_channel *)
Rows == Events \X Channels

(* TenantNotificationSettings *)
Settings == [Channels -> Recipients \union {NoRecipient}]
NoSettings == [c \in Channels |-> NoRecipient]

VARIABLES
    (* The columns of NotificationDelivery.  stale: SENDING for longer than  *)
    (* the claim timeout; window: the age of the row.                        *)
    dstatus, stale, window, recipient_of, reconciled,
    recipient,                           \* the tenant's current settings
    tpc, tevent, tchannel, tretries,     \* the tasks and their locals;
    tsettings, tfailure, tsent,          \* tsettings: the settings it has read
    messages     \* history: messages each recipient got; 2 is more than one

rowVars == <<dstatus, stale, window, recipient_of, reconciled>>
taskVars == <<tpc, tevent, tchannel, tretries, tsettings, tfailure, tsent>>
histVars == <<messages>>
vars == <<rowVars, recipient, taskVars, histVars>>

DeliveryStatuses == {"absent", "pending", "sending", "sent", "failed",
                     "outcome_uncertain"}
FinishedTasks == {"done", "failed"}
TaskPCs ==
    {"absent", "queued",
     "claim",        \* before _claim_channel
     "send",         \* the claim is committed, the provider is called next
     "finish",       \* the provider answered or failed
     "end",          \* every channel of the level was tried
     "exhausted"}    \* before mark_notification_event_exhausted
        \union FinishedTasks

TypeOK ==
    /\ dstatus \in [Rows -> DeliveryStatuses]
    /\ stale \in [Rows -> BOOLEAN]
    /\ window \in [Rows -> {"open", "closing", "expired"}]
    /\ recipient_of \in [Rows -> Recipients \union {NoRecipient}]
    /\ reconciled \in [Rows -> {"none", "sent", "failed"}]
    /\ recipient \in Settings
    /\ tpc \in [Tasks -> TaskPCs]
    /\ tevent \in [Tasks -> Events \union {NoEvent}]
    /\ tchannel \in [Tasks -> Channels]
    /\ tretries \in [Tasks -> 0..MaxRetries]
    /\ tsettings \in [Tasks -> Settings]
    /\ tfailure \in [Tasks -> {"none", "permanent", "retryable"}]
    /\ tsent \in [Tasks -> BOOLEAN]
    /\ messages \in [Rows -> 0..2]
    /\ \A t \in Tasks : tpc[t] # "absent" => tevent[t] \in Events

Init ==
    /\ dstatus = [k \in Rows |-> "absent"]
    /\ stale = [k \in Rows |-> FALSE]
    /\ window = [k \in Rows |-> "open"]
    /\ recipient_of = [k \in Rows |-> NoRecipient]
    /\ reconciled = [k \in Rows |-> "none"]
    /\ recipient \in Settings
    /\ tpc = [t \in Tasks |-> "absent"]
    /\ tevent = [t \in Tasks |-> NoEvent]
    /\ tchannel = [t \in Tasks |-> "telegram"]
    /\ tretries = [t \in Tasks |-> 0]
    /\ tsettings = [t \in Tasks |-> NoSettings]
    /\ tfailure = [t \in Tasks |-> "none"]
    /\ tsent = [t \in Tasks |-> FALSE]
    /\ messages = [k \in Rows |-> 0]

-----------------------------------------------------------------------------
(* notify: the channels of a level, in the order they are tried              *)

FirstChannel(e) == IF LevelOf[e] = "billing" THEN "email" ELSE "telegram"

HasNextChannel(t) ==
    LevelOf[tevent[t]] = "critical" /\ tchannel[t] = "telegram"

RowOf(t) == <<tevent[t], tchannel[t]>>

(* The next channel of the level, or the end of notify. *)
Advance(t) ==
    /\ tpc' = [tpc EXCEPT ![t] = IF HasNextChannel(t) THEN "claim" ELSE "end"]
    /\ tchannel' = [tchannel EXCEPT ![t] =
                        IF HasNextChannel(t) THEN "email" ELSE @]

(* The run ends or is cut off: its locals are gone. *)
Leave(t, pc) ==
    /\ tpc' = [tpc EXCEPT ![t] = pc]
    /\ tchannel' = [tchannel EXCEPT ![t] = "telegram"]
    /\ tsettings' = [tsettings EXCEPT ![t] = NoSettings]
    /\ tfailure' = [tfailure EXCEPT ![t] = "none"]
    /\ tsent' = [tsent EXCEPT ![t] = FALSE]

(* The failure of one channel joins those of the channels before it: the     *)
(* notification is retryable when one of them is.                            *)
Note(t, failure) ==
    tfailure' = [tfailure EXCEPT ![t] =
                     IF @ = "retryable" \/ failure = "none" THEN @ ELSE failure]

(* A producer publishes the event: apply_async, a redelivered parent task or *)
(* a second run of the billing outbox.                                       *)
PublishTask(t, e) ==
    /\ tpc[t] = "absent"
    /\ tpc' = [tpc EXCEPT ![t] = "queued"]
    /\ tevent' = [tevent EXCEPT ![t] = e]
    /\ UNCHANGED <<rowVars, recipient, tchannel, tretries, tsettings, tfailure,
                   tsent, histVars>>

(* The task starts: notify reads the tenant's settings once. *)
StartTask(t) ==
    /\ tpc[t] = "queued"
    /\ tpc' = [tpc EXCEPT ![t] = "claim"]
    /\ tchannel' = [tchannel EXCEPT ![t] = FirstChannel(tevent[t])]
    /\ tsettings' = [tsettings EXCEPT ![t] = recipient]
    /\ tfailure' = [tfailure EXCEPT ![t] = "none"]
    /\ UNCHANGED <<rowVars, recipient, tevent, tretries, tsent, histVars>>

-----------------------------------------------------------------------------
(* _claim_channel: one transaction under the tenant and the row lock         *)

(* Another worker holds the row. *)
InFlight(k) == dstatus[k] = "sending" /\ ~stale[k]

(* A worker was lost with the row, and nobody knows whether Telegram got the *)
(* message.                                                                  *)
LostTelegram(k) == dstatus[k] = "sending" /\ k[2] = "telegram"

(* The outcome is uncertain and the operator has to look at it. *)
NeedsReview(k) ==
    dstatus[k] = "outcome_uncertain" /\ (k[2] = "telegram" \/ window[k] # "open")

(* The 23 hours in which an email may be sent again are over. *)
TooLate(k) == k[2] = "email" /\ window[k] # "open"

(* Mutant: a lost Telegram worker is replayed like an email worker. *)
ClaimDecisionReplayed(k) ==
    IF dstatus[k] = "sent" THEN "skip"
    ELSE IF dstatus[k] = "failed" \/ NeedsReview(k) THEN "permanent"
    ELSE IF InFlight(k) THEN "busy"
    ELSE IF TooLate(k) THEN "close" ELSE "claim"

(* What the locked row says: "skip" and "permanent" change nothing, "close"  *)
(* makes the outcome uncertain, "claim" hands the row to this task.          *)
ClaimDecision(k) ==
    IF dstatus[k] = "sent" THEN "skip"
    ELSE IF dstatus[k] = "failed" \/ NeedsReview(k) THEN "permanent"
    ELSE IF InFlight(k) THEN "busy"
    ELSE IF LostTelegram(k) \/ TooLate(k) THEN "close" ELSE "claim"

RecipientOf(t) == tsettings[t][tchannel[t]]

(* The channel has no recipient: _deliver_* returns without a row. *)
NoChannel(t) ==
    /\ tpc[t] = "claim"
    /\ RecipientOf(t) = NoRecipient
    /\ Advance(t)
    /\ UNCHANGED <<rowVars, recipient, tevent, tretries, tsettings,
                   tfailure, tsent, histVars>>

(* get_or_create finds a row with another fingerprint: ValueError, a         *)
(* permanent producer error that ends the task at once.                      *)
FingerprintConflict(t) ==
    LET k == RowOf(t)
    IN  /\ tpc[t] = "claim"
        /\ RecipientOf(t) # NoRecipient
        /\ dstatus[k] # "absent"
        /\ recipient_of[k] # RecipientOf(t)
        /\ Leave(t, "failed")
        /\ UNCHANGED <<rowVars, recipient, tevent, tretries, histVars>>

SameFingerprint(t) ==
    /\ RecipientOf(t) # NoRecipient
    /\ \/ dstatus[RowOf(t)] = "absent"
       \/ recipient_of[RowOf(t)] = RecipientOf(t)

(* The row is not handed out. *)
ClaimRefused(t) ==
    LET k == RowOf(t)
        decision == ClaimDecision(k)
    IN  /\ tpc[t] = "claim"
        /\ SameFingerprint(t)
        /\ decision # "claim"
        /\ dstatus' = IF decision = "close"
                      THEN [dstatus EXCEPT ![k] = "outcome_uncertain"]
                      ELSE dstatus
        /\ Note(t, IF decision = "skip" THEN "none"
                   ELSE IF decision = "busy" THEN "retryable" ELSE "permanent")
        /\ stale' = [stale EXCEPT ![k] = IF decision = "close" THEN FALSE ELSE @]
        /\ Advance(t)
        /\ UNCHANGED <<window, recipient_of, reconciled, recipient, tevent,
                       tretries, tsettings, tsent, histVars>>

ClaimChannel(t) ==
    LET k == RowOf(t)
    IN  /\ tpc[t] = "claim"
        /\ SameFingerprint(t)
        /\ ClaimDecision(k) = "claim"
        /\ dstatus' = [dstatus EXCEPT ![k] = "sending"]
        /\ stale' = [stale EXCEPT ![k] = FALSE]
        /\ recipient_of' = [recipient_of EXCEPT ![k] = RecipientOf(t)]
        /\ tpc' = [tpc EXCEPT ![t] = "send"]
        /\ UNCHANGED <<window, reconciled, recipient, tevent, tchannel,
                       tretries, tsettings, tfailure, tsent, histVars>>

-----------------------------------------------------------------------------
(* The provider and _finish_channel                                          *)

(* Telegram delivers every accepted request.  The email provider drops a     *)
(* request whose idempotency key it still remembers (24 hours).              *)
Received(k) ==
    IF k[2] = "email" /\ window[k] # "expired"
    THEN 1
    ELSE IF messages[k] = 0 THEN 1 ELSE 2

(* The request is accepted or not; an accepted one may look like a failure   *)
(* to the worker (a lost answer), never the other way round.                 *)
Send(t, accepted, answered) ==
    LET k == RowOf(t)
    IN  /\ tpc[t] = "send"
        /\ answered => accepted
        /\ messages' = IF accepted
                       THEN [messages EXCEPT ![k] = Received(k)]
                       ELSE messages
        /\ tsent' = [tsent EXCEPT ![t] = answered]
        /\ tpc' = [tpc EXCEPT ![t] = "finish"]
        /\ UNCHANGED <<rowVars, recipient, tevent, tchannel, tretries,
                       tsettings, tfailure>>

(* An email may be sent again with the same key, a Telegram message may not. *)
FinalStatus(t) ==
    IF tsent[t] THEN "sent"
    ELSE IF tchannel[t] = "email" THEN "pending" ELSE "outcome_uncertain"

MayFinish(k) == dstatus[k] = "sending"

FinishChannel(t) ==
    LET k == RowOf(t)
    IN  /\ tpc[t] = "finish"
        /\ dstatus' = IF MayFinish(k)
                      THEN [dstatus EXCEPT ![k] = FinalStatus(t)]
                      ELSE dstatus
        /\ Note(t, IF tsent[t] THEN "none"
                   ELSE IF tchannel[t] = "email" THEN "retryable" ELSE "permanent")
        /\ stale' = [stale EXCEPT ![k] = FALSE]
        /\ tsent' = [tsent EXCEPT ![t] = FALSE]
        /\ Advance(t)
        /\ UNCHANGED <<window, recipient_of, reconciled, recipient, tevent,
                       tretries, tsettings, messages>>

-----------------------------------------------------------------------------
(* The end of send_notification_task                                         *)

(* Mutant: the retry is published with the number of the current attempt. *)
RetryUncounted(t) ==
    /\ Leave(t, "queued")
    /\ UNCHANGED tretries

(* self.retry publishes the next attempt. *)
Retry(t) ==
    /\ Leave(t, "queued")
    /\ tretries' = [tretries EXCEPT ![t] = @ + 1]

CanRetry(t) == tretries[t] < MaxRetries

Conclude(t) ==
    /\ tpc[t] = "end"
    /\ \/ /\ tfailure[t] = "none"
          /\ Leave(t, "done")
          /\ UNCHANGED tretries
       \/ /\ tfailure[t] = "permanent"
          /\ Leave(t, "failed")
          /\ UNCHANGED tretries
       \/ /\ tfailure[t] = "retryable"
          /\ CanRetry(t)
          /\ Retry(t)
       \/ /\ tfailure[t] = "retryable"
          /\ ~CanRetry(t)
          /\ Leave(t, "exhausted")
          /\ UNCHANGED tretries
    /\ UNCHANGED <<rowVars, recipient, tevent, histVars>>

(* mark_notification_event_exhausted *)
MarkExhausted(t) ==
    /\ tpc[t] = "exhausted"
    /\ dstatus' = [k \in Rows |->
                      IF k[1] = tevent[t] /\ dstatus[k] = "pending"
                      THEN "outcome_uncertain" ELSE dstatus[k]]
    /\ Leave(t, "failed")
    /\ UNCHANGED <<stale, window, recipient_of, reconciled, recipient, tevent,
                   tretries, histVars>>

(* Any other exception, such as a database error in _claim_channel or in     *)
(* _finish_channel: bounded retries, nothing is marked at their end.         *)
OtherError(t) ==
    /\ tpc[t] \in {"claim", "finish"}
    /\ \/ /\ CanRetry(t)
          /\ Retry(t)
       \/ /\ ~CanRetry(t)
          /\ Leave(t, "failed")
          /\ UNCHANGED tretries
    /\ UNCHANGED <<rowVars, recipient, tevent, histVars>>

(* The worker is lost: the unacknowledged message is delivered again. *)
WorkerLost(t) ==
    /\ tpc[t] \in {"claim", "send", "finish", "end", "exhausted"}
    /\ Leave(t, "queued")
    /\ UNCHANGED <<rowVars, recipient, tevent, tretries, histVars>>

-----------------------------------------------------------------------------
(* Time, the operator and the tenant                                         *)

(* NOTIFICATION_DELIVERY_CLAIM_TIMEOUT_SECONDS passes (120 s by default,     *)
(* shorter than the task time limit: the worker may be alive).               *)
ClaimGoesStale(k) ==
    /\ dstatus[k] = "sending"
    /\ ~stale[k]
    /\ stale' = [stale EXCEPT ![k] = TRUE]
    /\ UNCHANGED <<dstatus, window, recipient_of, reconciled, recipient,
                   taskVars, histVars>>

(* 23 hours after created_at: no further claim. *)
WindowCloses(k) ==
    /\ k[2] = "email"
    /\ dstatus[k] # "absent"
    /\ window[k] = "open"
    /\ window' = [window EXCEPT ![k] = "closing"]
    /\ UNCHANGED <<dstatus, stale, recipient_of, reconciled, recipient,
                   taskVars, histVars>>

(* 24 hours: the provider forgets the key.  CELERY_TASK_TIME_LIMIT, one hour, *)
(* has ended every task that claimed the row before the window closed.        *)
WindowExpires(k) ==
    /\ window[k] = "closing"
    /\ \A t \in Tasks : tpc[t] = "send" => RowOf(t) # k
    /\ window' = [window EXCEPT ![k] = "expired"]
    /\ UNCHANGED <<dstatus, stale, recipient_of, reconciled, recipient,
                   taskVars, histVars>>

(* reconcile_notification_delivery *)
Reconcile(k, action) ==
    /\ reconciled[k] = "none"
    /\ \/ dstatus[k] = "sending" /\ stale[k]
       \/ dstatus[k] = "outcome_uncertain"
    /\ dstatus' = [dstatus EXCEPT ![k] = action]
    /\ reconciled' = [reconciled EXCEPT ![k] = action]
    /\ stale' = [stale EXCEPT ![k] = FALSE]
    /\ UNCHANGED <<window, recipient_of, recipient, taskVars, histVars>>

ChangeSettings(c, r) ==
    /\ recipient[c] # r
    /\ recipient' = [recipient EXCEPT ![c] = r]
    /\ UNCHANGED <<rowVars, taskVars, histVars>>

-----------------------------------------------------------------------------
ClaimStep(t) ==
    NoChannel(t) \/ FingerprintConflict(t) \/ ClaimRefused(t) \/ ClaimChannel(t)

SendStep(t) ==
    \E accepted, answered \in BOOLEAN : Send(t, accepted, answered)

RunStep(t) ==
    \/ StartTask(t)
    \/ ClaimStep(t)
    \/ SendStep(t)
    \/ FinishChannel(t)
    \/ Conclude(t)
    \/ MarkExhausted(t)

TaskStep(t) ==
    \/ \E e \in Events : PublishTask(t, e)
    \/ RunStep(t)
    \/ OtherError(t)
    \/ WorkerLost(t)

RowStep(k) ==
    \/ ClaimGoesStale(k)
    \/ WindowCloses(k)
    \/ WindowExpires(k)
    \/ \E action \in {"sent", "failed"} : Reconcile(k, action)

Next ==
    \/ \E t \in Tasks : TaskStep(t)
    \/ \E k \in Rows : RowStep(k)
    \/ \E c \in Changeable, r \in Recipients \union {NoRecipient} :
           ChangeSettings(c, r)

Spec == Init /\ [][Next]_vars

(* A queued task is started, and its worker is not lost for ever at the same *)
(* place: a step that is possible again and again on a channel is taken.     *)
Fairness ==
    \A t \in Tasks :
        /\ WF_vars(StartTask(t))
        /\ \A c \in Channels :
              /\ SF_vars(tchannel[t] = c /\ ClaimStep(t))
              /\ SF_vars(tchannel[t] = c /\ SendStep(t))
              /\ SF_vars(tchannel[t] = c /\ FinishChannel(t))
        /\ SF_vars(Conclude(t))
        /\ SF_vars(MarkExhausted(t))

FairSpec == Spec /\ Fairness

-----------------------------------------------------------------------------
(* Properties                                                                *)

(* "Deliver once; ambiguous Telegram outcomes are never auto-replayed": one  *)
(* event reaches a chat at most once, whatever is republished, redelivered,  *)
(* lost or overtaken.                                                        *)
TelegramAtMostOnce == \A e \in Events : messages[<<e, "telegram">>] <= 1

(* "an automatic retry can never become a second send": retries, and workers *)
(* that overtake each other, stay inside the provider's idempotency window.  *)
EmailAtMostOnce == \A e \in Events : messages[<<e, "email">>] <= 1

(* A delivered or reconciled channel keeps its result: no late worker, retry *)
(* or exhausted sequence changes a row that is SENT or FAILED.               *)
ClosedRowStep(k) ==
    dstatus[k] \in {"sent", "failed"} => dstatus'[k] = dstatus[k]

ClosedRowsStayClosed == [][\A k \in Rows : ClosedRowStep(k)]_vars

(* Retries are bounded: every publication ends, delivered or failed, however *)
(* tasks, retries and redeliveries meet on the same rows.                    *)
TasksFinish ==
    \A t \in Tasks : tpc[t] = "queued" ~> tpc[t] \in FinishedTasks
==============================================================================
