---------------------------- MODULE BillingOutbox -----------------------------
(***************************************************************************)
(* The transactional outbox of billing: apps/billing/outbox.py.            *)
(*                                                                         *)
(* A BillingOutboxEvent is written in the transaction of the financial     *)
(* change.  Dispatchers (the on_commit kick, the beat task of every minute *)
(* and the operator's command, the only one that may force) claim an event *)
(* with a fresh token, publish its Celery task and then mark the event or  *)
(* reschedule it, each time with a compare-and-set on (PROCESSING, token). *)
(* A dispatcher may be killed between any two of these.  _candidate_ids    *)
(* only preselects: _claim_event repeats its conditions under the row      *)
(* lock, so the claim alone is modelled.                                   *)
(***************************************************************************)
EXTENDS Integers

CONSTANTS
    Events,
    Dispatchers,
    Tokens, NoToken, NoEvent,
    MaxAttempts,     \* BILLING_OUTBOX_MAX_ATTEMPTS
    AttemptsCap,     \* the counter is not followed beyond this value
    Forced           \* events the operator retries by hand in the instance

ASSUME OutboxAssumption ==
    /\ NoToken \notin Tokens
    /\ NoEvent \notin Events
    /\ MaxAttempts \in Nat \ {0}
    /\ AttemptsCap \in Nat
    /\ AttemptsCap > MaxAttempts
    /\ Forced \subseteq Events

VARIABLES
    (* The columns of BillingOutboxEvent. *)
    bstatus, processing_token, attempts,
    due,                       \* next_attempt_at is NULL or has passed
    stale,                     \* PROCESSING for longer than the timeout
    dpc, devent, dtoken,       \* the dispatchers and their locals
    published                  \* history: the broker accepted the task

eventVars == <<bstatus, processing_token, attempts, due, stale>>
dispVars == <<dpc, devent, dtoken>>
vars == <<eventVars, dispVars, published>>

EventStatuses == {"absent", "pending", "processing", "dispatched", "dead"}
DispatcherPCs ==
    {"idle",
     "claimed",     \* _claim_event committed
     "published",   \* apply_async returned
     "errored"}     \* _publish_event raised

TypeOK ==
    /\ bstatus \in [Events -> EventStatuses]
    /\ processing_token \in [Events -> Tokens \union {NoToken}]
    /\ attempts \in [Events -> 0..AttemptsCap]
    /\ due \in [Events -> BOOLEAN]
    /\ stale \in [Events -> BOOLEAN]
    /\ dpc \in [Dispatchers -> DispatcherPCs]
    /\ devent \in [Dispatchers -> Events \union {NoEvent}]
    /\ dtoken \in [Dispatchers -> Tokens \union {NoToken}]
    /\ published \in [Events -> BOOLEAN]
    /\ \A d \in Dispatchers :
         dpc[d] # "idle" => devent[d] \in Events /\ dtoken[d] \in Tokens

Init ==
    /\ bstatus = [e \in Events |-> "absent"]
    /\ processing_token = [e \in Events |-> NoToken]
    /\ attempts = [e \in Events |-> 0]
    /\ due = [e \in Events |-> FALSE]
    /\ stale = [e \in Events |-> FALSE]
    /\ dpc = [d \in Dispatchers |-> "idle"]
    /\ devent = [d \in Dispatchers |-> NoEvent]
    /\ dtoken = [d \in Dispatchers |-> NoToken]
    /\ published = [e \in Events |-> FALSE]

(* The dispatcher continues with the next candidate, or is killed. *)
FreeDispatcher(d) ==
    /\ dpc' = [dpc EXCEPT ![d] = "idle"]
    /\ devent' = [devent EXCEPT ![d] = NoEvent]
    /\ dtoken' = [dtoken EXCEPT ![d] = NoToken]

(* _enqueue inside the financial transaction; a repeated key finds the row. *)
Enqueue(e) ==
    /\ bstatus[e] = "absent"
    /\ bstatus' = [bstatus EXCEPT ![e] = "pending"]
    /\ due' = [due EXCEPT ![e] = TRUE]
    /\ UNCHANGED <<processing_token, attempts, stale, dispVars, published>>

-----------------------------------------------------------------------------
(* _claim_event                                                              *)

(* uuid4: a value that no row and no process holds. *)
FreshToken(token) ==
    /\ \A e \in Events : processing_token[e] # token
    /\ \A d \in Dispatchers : dtoken[d] # token

(* Mutant: an event left in PROCESSING by a killed dispatcher is not taken. *)
ClaimableNotStale(e, force) ==
    \/ bstatus[e] = "pending" /\ (force \/ due[e])
    \/ bstatus[e] = "dead" /\ force

Claimable(e, force) ==
    \/ bstatus[e] = "pending" /\ (force \/ due[e])
    \/ bstatus[e] = "processing" /\ stale[e]
    \/ bstatus[e] = "dead" /\ force

CountAttempt(n) == IF n < AttemptsCap THEN n + 1 ELSE n

Claim(d, e, token, force) ==
    /\ dpc[d] = "idle"
    /\ force => e \in Forced
    /\ Claimable(e, force)
    /\ FreshToken(token)
    /\ bstatus' = [bstatus EXCEPT ![e] = "processing"]
    /\ processing_token' = [processing_token EXCEPT ![e] = token]
    /\ stale' = [stale EXCEPT ![e] = FALSE]
    /\ attempts' = [attempts EXCEPT ![e] = CountAttempt(@)]
    /\ dpc' = [dpc EXCEPT ![d] = "claimed"]
    /\ devent' = [devent EXCEPT ![d] = e]
    /\ dtoken' = [dtoken EXCEPT ![d] = token]
    /\ UNCHANGED <<due, published>>

-----------------------------------------------------------------------------
(* _publish_event                                                            *)

PublishOk(d) ==
    /\ dpc[d] = "claimed"
    /\ published' = [published EXCEPT ![devent[d]] = TRUE]
    /\ dpc' = [dpc EXCEPT ![d] = "published"]
    /\ UNCHANGED <<eventVars, devent, dtoken>>

(* apply_async raises, before or after the broker accepted the message; a    *)
(* damaged payload is refused before it.                                     *)
PublishError(d, accepted) ==
    /\ dpc[d] = "claimed"
    /\ published' = [published EXCEPT ![devent[d]] = @ \/ accepted]
    /\ dpc' = [dpc EXCEPT ![d] = "errored"]
    /\ UNCHANGED <<eventVars, devent, dtoken>>

-----------------------------------------------------------------------------
(* _mark_dispatched and _reschedule                                          *)

(* Mutant: the token is not compared. *)
OwnsProcessing(d) == bstatus[devent[d]] = "processing"

Owns(d) ==
    /\ bstatus[devent[d]] = "processing"
    /\ processing_token[devent[d]] = dtoken[d]

MarkDispatched(d) ==
    LET e == devent[d]
    IN  /\ dpc[d] = "published"
        /\ IF Owns(d)
           THEN /\ bstatus' = [bstatus EXCEPT ![e] = "dispatched"]
                /\ processing_token' = [processing_token EXCEPT ![e] = NoToken]
                /\ stale' = [stale EXCEPT ![e] = FALSE]
                /\ due' = [due EXCEPT ![e] = TRUE]
                /\ UNCHANGED attempts
           ELSE UNCHANGED eventVars
        /\ FreeDispatcher(d)
        /\ UNCHANGED published

Exhausted(e) == attempts[e] >= MaxAttempts

RescheduledStatus(e) == IF Exhausted(e) THEN "dead" ELSE "pending"

Reschedule(d) ==
    LET e == devent[d]
    IN  /\ dpc[d] = "errored"
        /\ IF Owns(d)
           THEN /\ bstatus' = [bstatus EXCEPT ![e] = RescheduledStatus(e)]
                /\ processing_token' = [processing_token EXCEPT ![e] = NoToken]
                /\ stale' = [stale EXCEPT ![e] = FALSE]
                /\ due' = [due EXCEPT ![e] = Exhausted(e)]
                /\ UNCHANGED attempts
           ELSE UNCHANGED eventVars
        /\ FreeDispatcher(d)
        /\ UNCHANGED published

DispatcherCrash(d) ==
    /\ dpc[d] # "idle"
    /\ FreeDispatcher(d)
    /\ UNCHANGED <<eventVars, published>>

(* The backoff delay passes. *)
BecomeDue(e) ==
    /\ bstatus[e] = "pending"
    /\ ~due[e]
    /\ due' = [due EXCEPT ![e] = TRUE]
    /\ UNCHANGED <<bstatus, processing_token, attempts, stale, dispVars,
                   published>>

(* BILLING_OUTBOX_PROCESSING_TIMEOUT_SECONDS passes (300 s by default; the   *)
(* dispatcher may be alive, the Celery time limit is 3600 s).                *)
BecomeStale(e) ==
    /\ bstatus[e] = "processing"
    /\ ~stale[e]
    /\ stale' = [stale EXCEPT ![e] = TRUE]
    /\ UNCHANGED <<bstatus, processing_token, attempts, due, dispVars,
                   published>>

-----------------------------------------------------------------------------
ClaimStep(d) ==
    \E e \in Events, token \in Tokens, force \in BOOLEAN :
        Claim(d, e, token, force)

PublishStep(d) ==
    PublishOk(d) \/ \E accepted \in BOOLEAN : PublishError(d, accepted)

FinishStep(d) == MarkDispatched(d) \/ Reschedule(d)

DispatcherStep(d) ==
    ClaimStep(d) \/ PublishStep(d) \/ FinishStep(d) \/ DispatcherCrash(d)

EventStep(e) == Enqueue(e) \/ BecomeDue(e) \/ BecomeStale(e)

Next ==
    \/ \E d \in Dispatchers : DispatcherStep(d)
    \/ \E e \in Events : EventStep(e)

Spec == Init /\ [][Next]_vars

(* Time passes; the beat task runs every minute, so an event that may be     *)
(* claimed again and again is claimed by some dispatcher; and dispatchers    *)
(* are not for ever killed, or delayed beyond the processing timeout, between *)
(* a claim and its end.                                                      *)
Fairness ==
    /\ \A e \in Events :
          /\ WF_vars(BecomeDue(e))
          /\ WF_vars(BecomeStale(e))
          /\ SF_vars(\E d \in Dispatchers, token \in Tokens :
                         Claim(d, e, token, FALSE))
    /\ \A d \in Dispatchers :
          /\ SF_vars(PublishStep(d) /\ Owns(d))
          /\ SF_vars(FinishStep(d) /\ Owns(d))
          /\ WF_vars(FinishStep(d))

FairSpec == Spec /\ Fairness

-----------------------------------------------------------------------------
(* Properties                                                                *)

(* No side effect is lost: an event is DISPATCHED only when the broker       *)
(* accepted its task, however claims overtake each other.                    *)
DispatchedWasPublished ==
    \A e \in Events : bstatus[e] = "dispatched" => published[e]

(* DISPATCHED is final: neither a dispatcher that was overtaken, nor the     *)
(* error of an earlier publication, nor --force reopens the event.           *)
DispatchedStep(e) == bstatus[e] = "dispatched" => bstatus'[e] = "dispatched"

DispatchedIsFinal == [][\A e \in Events : DispatchedStep(e)]_vars

(* Only the claim that owns the event ends it: before its own last update    *)
(* neither an overtaken dispatcher, whose publication succeeded or failed    *)
(* late, nor another claim takes the event away from the dispatcher that     *)
(* holds it (_mark_dispatched and _reschedule filter on the token).          *)
OverruledStep(d) ==
    dpc[d] # "idle" /\ Owns(d) /\ ~stale[devent[d]] /\ dpc'[d] # "idle"
        => Owns(d)'

ClaimNotOverruled == [][\A d \in Dispatchers : OverruledStep(d)]_vars

(* An event is given up only after MAX_ATTEMPTS claims. *)
DeadAfterMaxAttempts ==
    \A e \in Events : bstatus[e] = "dead" => attempts[e] >= MaxAttempts

(* Every committed event is dispatched or given up, although dispatchers are *)
(* killed and the broker fails.                                              *)
EventuallyClosed ==
    \A e \in Events :
        bstatus[e] = "pending" ~> bstatus[e] \in {"dispatched", "dead"}
==============================================================================
