------------------------------ MODULE Payments ------------------------------
(***************************************************************************)
(* Checkout, payment webhooks and reconciliation of one tenant:            *)
(* apps/billing/services.py, webhook_processing.py and reconciliation.py.  *)
(*                                                                         *)
(* A browser key starts a checkout: an Invoice row is committed first, the *)
(* provider (YooKassa) is called outside any transaction, its answer is    *)
(* written back in a second transaction.  Webhook handlers and the beat    *)
(* reconciler claim a BillingWebhookEvent row, read the authoritative      *)
(* object from the provider, apply it to the Invoice in one transaction    *)
(* and finalize the event in another.  All of them run concurrently, may   *)
(* be killed between any two of these steps, and notifications are lost,   *)
(* repeated, delayed and reordered.                                        *)
(*                                                                         *)
(* Abstractions.  provider_idempotency_key is uuid5(tenant, client key),   *)
(* so the invoice created for key k, and its payment, are named k.  Time   *)
(* passes between any two steps: next_reconciliation_at and the freshness  *)
(* of a claim only delay a step and are left out.  checkout_state is left  *)
(* out too: every pending invoice is in one of the states the queries list *)
(* and a manual one is recognised by its status.  A claim token is the     *)
(* process that holds it: a process holds one claim at a time and forgets  *)
(* it when it dies.  Legacy rows (no snapshot, no client key) are not      *)
(* modelled, nor are the branches that need a provider that breaks its     *)
(* idempotency promise (two payment ids for one key).                      *)
(***************************************************************************)
EXTENDS Integers, FiniteSets

CONSTANTS
    Keys,            \* browser checkout keys = invoices = payments
    PayloadOf,       \* checkout_payload_hash of a key
    Topups,          \* the payloads that buy AI credits
    OddChoices,      \* which payments may turn out to be test ones, or of
                     \* another amount: a set of sets of payments
    Refunds,         \* provider references of refunds and chargebacks
    RefundOf,        \* the payment a refund belongs to
    RefundAmount,
    Chargebacks,     \* the references an operator records by hand
    Price,           \* Invoice.amount
    Notified,        \* events the provider may notify; the others are lost
    Procs,           \* web and worker processes
    NoKey, NoProc, NoEvent,
    Starts,          \* the subscription statuses a behaviour may start in
    MaxAttempts,     \* YOOKASSA_RECONCILIATION_MAX_ATTEMPTS for the calls of
    MaxPolls,        \* a checkout, and for the polls of invoices and events
    MaxKeys,         \* BILLING_CHECKOUT_MAX_KEYS_PER_INVOICE
    MaxVersion       \* bound on billing_version

Events == ({"succeeded", "canceled"} \X Keys)
            \cup ({"refund"} \X (Refunds \ Chargebacks))

SubStatuses == {"trial", "active", "lapsed", "past_due", "cancelled"}

ASSUME PaymentsAssumption ==
    /\ Topups \subseteq {PayloadOf[k] : k \in Keys}
    /\ OddChoices \subseteq SUBSET Keys
    /\ Chargebacks \subseteq Refunds
    /\ Notified \subseteq Events
    /\ RefundOf \in [Refunds -> Keys]
    /\ RefundAmount \in [Refunds -> Nat \ {0}]
    /\ Starts \subseteq SubStatuses
    /\ Price \in Nat \ {0}
    /\ MaxAttempts \in Nat \ {0} /\ MaxPolls \in Nat \ {0}
    /\ MaxKeys \in Nat \ {0}
    /\ MaxVersion \in Nat
    /\ NoKey \notin Keys /\ NoProc \notin Procs /\ NoEvent \notin Events

VARIABLES
    (* Invoice *)
    status, payment_id, attempts, age, polls, paid_at, refund_review,
    expected_version, refunded,
    client_key,          \* CheckoutIntentKey: browser key -> invoice
    (* Subscription: status, with "lapsed" for an active one whose term is   *)
    (* over but was not swept yet, and billing_version                       *)
    sub, version,
    (* BillingWebhookEvent *)
    decision, claim, known_payment, tries,
    reversal,            \* PaymentReversal rows
    (* the provider *)
    payment, refunded_at_provider, odd,
    created,             \* history: payments opened for an idempotency key
    granted,             \* history: entitlements delivered for an invoice
    (* processes: program counter and locals *)
    pc, inv, key, ev, verdict

invoiceVars == <<status, payment_id, attempts, age, polls, paid_at,
                 refund_review, expected_version, refunded>>
subVars == <<sub, version>>
eventVars == <<decision, claim, known_payment, tries>>
providerVars == <<payment, refunded_at_provider, odd, created>>
procVars == <<pc, inv, key, ev, verdict>>
vars == <<invoiceVars, client_key, subVars, eventVars, reversal,
          providerVars, granted, procVars>>

InvoiceStatuses == {"absent", "pending", "paid", "failed", "manual_review",
                    "partially_refunded", "refunded"}
SettledStatuses == {"paid", "partially_refunded", "refunded"}
FinalDecisions == {"applied", "ignored", "manual_review"}
Decisions == FinalDecisions \cup {"none", "received", "error"}
(* How a claimed event is going to be finalized; "unavailable" is an error  *)
(* without a payment id.                                                    *)
Verdicts == FinalDecisions \cup {"none", "error", "unavailable"}
PaymentStatuses == {"none", "pending", "succeeded", "canceled"}
ReversalStatuses == {"none", "manual_review", "applied"}
PCs == {"idle", "bind", "resume", "call", "save", "process", "finalize",
        "poll", "recover", "mark"}

IsTopup(i) == PayloadOf[i] \in Topups

(* The payment a webhook event is about. *)
PaymentOf(e) == IF e[1] = "refund" THEN RefundOf[e[2]] ELSE e[2]

InvoiceType ==
    /\ status \in [Keys -> InvoiceStatuses]
    /\ payment_id \in [Keys -> BOOLEAN]
    /\ attempts \in [Keys -> 0..MaxAttempts]
    /\ age \in [Keys -> {"none", "recent", "old", "forgotten"}]
    /\ polls \in [Keys -> 0..MaxPolls]
    /\ paid_at \in [Keys -> BOOLEAN]
    /\ refund_review \in [Keys -> BOOLEAN]
    /\ expected_version \in [Keys -> Nat]
    /\ refunded \in [Keys -> Nat]

RowType ==
    /\ client_key \in [Keys -> Keys \cup {NoKey}]
    /\ sub \in SubStatuses
    /\ version \in Nat
    /\ decision \in [Events -> Decisions]
    /\ claim \in [Events -> Procs \cup {NoProc}]
    /\ known_payment \in [Refunds -> BOOLEAN]
    /\ tries \in [Events -> 0..MaxPolls]
    /\ reversal \in [Refunds -> ReversalStatuses]

ProviderType ==
    /\ payment \in [Keys -> PaymentStatuses]
    /\ refunded_at_provider \in [Refunds -> BOOLEAN]
    /\ odd \subseteq Keys
    /\ created \in [Keys -> Nat]
    /\ granted \in [Keys -> Nat]

ProcType ==
    /\ pc \in [Procs -> PCs]
    /\ inv \in [Procs -> Keys \cup {NoKey}]
    /\ key \in [Procs -> Keys \cup {NoKey}]
    /\ ev \in [Procs -> Events \cup {NoEvent}]
    /\ verdict \in [Procs -> Verdicts]

TypeOK == InvoiceType /\ RowType /\ ProviderType /\ ProcType

Init ==
    /\ status = [i \in Keys |-> "absent"]
    /\ payment_id = [i \in Keys |-> FALSE]
    /\ attempts = [i \in Keys |-> 0]
    /\ age = [i \in Keys |-> "none"]
    /\ polls = [i \in Keys |-> 0]
    /\ paid_at = [i \in Keys |-> FALSE]
    /\ refund_review = [i \in Keys |-> FALSE]
    /\ expected_version = [i \in Keys |-> 0]
    /\ refunded = [i \in Keys |-> 0]
    /\ client_key = [k \in Keys |-> NoKey]
    /\ sub \in Starts /\ version = 1
    /\ decision = [e \in Events |-> "none"]
    /\ claim = [e \in Events |-> NoProc]
    /\ known_payment = [r \in Refunds |-> FALSE]
    /\ tries = [e \in Events |-> 0]
    /\ reversal = [r \in Refunds |-> "none"]
    /\ payment = [i \in Keys |-> "none"]
    /\ refunded_at_provider = [r \in Refunds |-> FALSE]
    /\ odd \in OddChoices
    /\ created = [i \in Keys |-> 0]
    /\ granted = [i \in Keys |-> 0]
    /\ pc = [p \in Procs |-> "idle"]
    /\ inv = [p \in Procs |-> NoKey]
    /\ key = [p \in Procs |-> NoKey]
    /\ ev = [p \in Procs |-> NoEvent]
    /\ verdict = [p \in Procs |-> "none"]
-----------------------------------------------------------------------------
(* Process bookkeeping: a process returns to its pool and forgets. *)
Idle(p) ==
    /\ pc' = [pc EXCEPT ![p] = "idle"]
    /\ inv' = [inv EXCEPT ![p] = NoKey]
    /\ key' = [key EXCEPT ![p] = NoKey]
    /\ ev' = [ev EXCEPT ![p] = NoEvent]
    /\ verdict' = [verdict EXCEPT ![p] = "none"]

(* A process works on invoice i, reached through browser key k, at step s. *)
WorkOn(p, s, i, k) ==
    /\ pc' = [pc EXCEPT ![p] = s]
    /\ inv' = [inv EXCEPT ![p] = i]
    /\ key' = [key EXCEPT ![p] = k]
    /\ UNCHANGED <<ev, verdict>>

(* A worker is killed or its connection is lost between two of its steps.  *)
(* Its token stays on the row, and nobody has it any more.                 *)
Crash(p) ==
    /\ pc[p] # "idle"
    /\ claim' = [e \in Events |-> IF claim[e] = p THEN NoProc ELSE claim[e]]
    /\ Idle(p)
    /\ UNCHANGED <<invoiceVars, client_key, subVars, decision, known_payment,
                   tries, reversal, providerVars, granted>>
-----------------------------------------------------------------------------
(* Checkout. *)

(* _blocks_subscription_checkout, _is_unsettled_checkout_manual *)
BlocksCheckout(i) == status[i] = "manual_review" /\ ~paid_at[i]
UnsettledManual(i) == BlocksCheckout(i) /\ ~refund_review[i]

(* effective_status = active and access_mode = full *)
SubscriptionActive == sub = "active"

(* The invoice a browser key already stands for, as alias or as its origin. *)
CheckoutIntentForClientKey(k) ==
    IF client_key[k] # NoKey THEN client_key[k]
    ELSE IF status[k] # "absent" THEN k ELSE NoKey

PendingIntents(topup) ==
    {i \in Keys : status[i] = "pending" /\ IsTopup(i) = topup}

(* Invoice.objects.create under the Subscription lock *)
CreateInvoice(k) ==
    /\ status' = [status EXCEPT ![k] = "pending"]
    /\ expected_version' =
         [expected_version EXCEPT ![k] = IF IsTopup(k) THEN 0 ELSE version]
    /\ UNCHANGED <<payment_id, attempts, age, polls, paid_at, refund_review,
                   refunded>>

(* Mutant: a quarantined unpaid checkout no longer blocks a new one. *)
SubscriptionCheckoutNoQuarantine(p, k) ==
    LET known == CheckoutIntentForClientKey(k)
        same == {i \in PendingIntents(FALSE) : PayloadOf[i] = PayloadOf[k]}
    IN
    /\ pc[p] = "idle" /\ ~IsTopup(k)
    /\ \/ /\ known # NoKey
          /\ WorkOn(p, "bind", known, k) /\ UNCHANGED invoiceVars
       \/ /\ known = NoKey /\ ~SubscriptionActive
          /\ \/ /\ same # {} /\ \E i \in same : WorkOn(p, "bind", i, k)
                /\ UNCHANGED invoiceVars
             \/ /\ PendingIntents(FALSE) = {}
                /\ CreateInvoice(k) /\ WorkOn(p, "bind", k, k)
    /\ UNCHANGED <<client_key, subVars, eventVars, reversal, providerVars,
                   granted>>

(* create_payment, first transaction: one intent per tenant at a time.  The *)
(* refused requests (manual review, active subscription, another checkout   *)
(* in progress) change nothing.                                             *)
SubscriptionCheckout(p, k) ==
    LET known == CheckoutIntentForClientKey(k)
        same == {i \in PendingIntents(FALSE) : PayloadOf[i] = PayloadOf[k]}
    IN
    /\ pc[p] = "idle" /\ ~IsTopup(k)
    /\ \A i \in Keys : ~IsTopup(i) => ~BlocksCheckout(i)
    /\ \/ /\ known # NoKey
          /\ WorkOn(p, "bind", known, k) /\ UNCHANGED invoiceVars
       \/ /\ known = NoKey /\ ~SubscriptionActive
          /\ \/ /\ same # {} /\ \E i \in same : WorkOn(p, "bind", i, k)
                /\ UNCHANGED invoiceVars
             \/ /\ PendingIntents(FALSE) = {}
                /\ CreateInvoice(k) /\ WorkOn(p, "bind", k, k)
    /\ UNCHANGED <<client_key, subVars, eventVars, reversal, providerVars,
                   granted>>

(* create_ai_topup_payment, first transaction: identical packages coalesce. *)
TopupCheckout(p, k) ==
    LET known == CheckoutIntentForClientKey(k)
        same == {i \in PendingIntents(TRUE) : PayloadOf[i] = PayloadOf[k]}
    IN
    /\ pc[p] = "idle" /\ IsTopup(k)
    /\ IF known = NoKey /\ same = {}
         THEN CreateInvoice(k) /\ WorkOn(p, "bind", k, k)
         ELSE /\ \E i \in IF known = NoKey THEN same ELSE {known} :
                    WorkOn(p, "bind", i, k)
              /\ UNCHANGED invoiceVars
    /\ UNCHANGED <<client_key, subVars, eventVars, reversal, providerVars,
                   granted>>

(* The keys invoice i has accepted; its own one is reserved before it is   *)
(* bound.                                                                  *)
AcceptedKeys(i) == {k \in Keys : client_key[k] = i} \cup {i}

(* _bind_checkout_client_key, its own transaction; a conflicting key or one *)
(* over the limit is refused.                                               *)
BindClientKey(p) ==
    LET i == inv[p]
        k == key[p]
        conflict == \/ status[k] # "absent" /\ k # i
                    \/ client_key[k] \notin {NoKey, i}
        full == /\ client_key[k] = NoKey /\ k # i
                /\ Cardinality(AcceptedKeys(i)) >= MaxKeys
    IN
    /\ pc[p] = "bind"
    /\ IF conflict \/ full
         THEN Idle(p) /\ UNCHANGED client_key
         ELSE /\ client_key' = [client_key EXCEPT ![k] = i]
              /\ WorkOn(p, "resume", i, NoKey)
    /\ UNCHANGED <<invoiceVars, subVars, eventVars, reversal, providerVars,
                   granted>>

(* Mutant: the provider's idempotency horizon is not considered. *)
CheckoutManualReasonNoHorizon(i) ==
    \/ ~IsTopup(i) /\ SubscriptionActive
    \/ ~payment_id[i] /\ attempts[i] >= MaxAttempts

(* The reasons to quarantine an intent instead of calling the provider. *)
CheckoutManualReason(i) ==
    \/ ~IsTopup(i) /\ SubscriptionActive
    \/ /\ ~payment_id[i]
       /\ attempts[i] >= MaxAttempts \/ age[i] \in {"old", "forgotten"}

(* _mark_invoice_manual_review_locked *)
MarkManual(i) == status' = [status EXCEPT ![i] = "manual_review"]

(* _resume_checkout_intent, first transaction.  A stored confirmation URL  *)
(* is returned; otherwise the attempt is counted and the call follows.     *)
ResumeCheckout(p, i) ==
    /\ \/ /\ status[i] # "pending"
          /\ Idle(p) /\ UNCHANGED <<status, attempts, age>>
       \/ /\ status[i] = "pending" /\ CheckoutManualReason(i)
          /\ MarkManual(i) /\ Idle(p) /\ UNCHANGED <<attempts, age>>
       \/ /\ status[i] = "pending" /\ ~CheckoutManualReason(i)
          /\ payment_id[i]
          /\ Idle(p) /\ UNCHANGED <<status, attempts, age>>
       \/ /\ status[i] = "pending" /\ ~CheckoutManualReason(i)
          /\ ~payment_id[i]
          /\ attempts' = [attempts EXCEPT ![i] = @ + 1]
          /\ age' = [age EXCEPT ![i] = IF @ = "none" THEN "recent" ELSE @]
          /\ WorkOn(p, "call", i, NoKey) /\ UNCHANGED status
    /\ UNCHANGED <<payment_id, polls, paid_at, refund_review,
                   expected_version, refunded, client_key, subVars,
                   eventVars, reversal, providerVars, granted>>

(* A browser request goes on from its bound key; the reconciler picks up an *)
(* intent whose payment id was never stored.                                *)
ResumeBound(p) == pc[p] = "resume" /\ ResumeCheckout(p, inv[p])
ResumeIntent(p, i) ==
    /\ pc[p] = "idle" /\ status[i] = "pending" /\ ~payment_id[i]
    /\ ResumeCheckout(p, i)

(* The provider (external) handles a create request.  It answers a known    *)
(* idempotency key with the payment it opened for it, as long as it         *)
(* remembers the key.                                                       *)
ProviderCreates(p) ==
    LET i == inv[p]
        fresh == payment[i] = "none" \/ age[i] = "forgotten"
    IN
    /\ pc[p] = "call"
    /\ payment' = [payment EXCEPT ![i] = IF fresh THEN "pending" ELSE @]
    /\ created' = [created EXCEPT ![i] = IF fresh THEN @ + 1 ELSE @]
    /\ pc' = [pc EXCEPT ![p] = "save"]
    /\ UNCHANGED <<invoiceVars, client_key, subVars, eventVars, reversal,
                   refunded_at_provider, odd, granted, inv, key, ev, verdict>>

(* The call fails, before the provider acted or after: the error branch     *)
(* only moves the next attempt into the future.                             *)
CheckoutCallFails(p) ==
    /\ pc[p] \in {"call", "save"}
    /\ Idle(p)
    /\ UNCHANGED <<invoiceVars, client_key, subVars, eventVars, reversal,
                   providerVars, granted>>

(* _resume_checkout_intent, second transaction: the payment id and the     *)
(* confirmation URL are stored whatever the invoice has become meanwhile.  *)
SaveCheckout(p) ==
    /\ pc[p] = "save"
    /\ payment_id' = [payment_id EXCEPT ![inv[p]] = TRUE]
    /\ Idle(p)
    /\ UNCHANGED <<status, attempts, age, polls, paid_at, refund_review,
                   expected_version, refunded, client_key, subVars,
                   eventVars, reversal, providerVars, granted>>

(* _PROVIDER_IDEMPOTENCY_HORIZON (23 hours after the first attempt) passes; *)
(* an hour later the provider forgets the key.  A call lasts seconds, so    *)
(* none that started before the horizon is still in flight then.  Nothing   *)
(* reads the age of an intent whose payment id is stored.                   *)
HorizonPasses(i) ==
    /\ ~payment_id[i]
    /\ \/ /\ age[i] = "recent"
          /\ age' = [age EXCEPT ![i] = "old"]
       \/ /\ age[i] = "old"
          /\ \A p \in Procs : pc[p] = "call" => inv[p] # i
          /\ age' = [age EXCEPT ![i] = "forgotten"]
    /\ UNCHANGED <<status, payment_id, attempts, polls, paid_at,
                   refund_review, expected_version, refunded, client_key,
                   subVars, eventVars, reversal, providerVars, granted,
                   procVars>>
-----------------------------------------------------------------------------
(* The provider (external) and the passing of subscription time. *)

CustomerPays(i) ==
    /\ payment[i] = "pending"
    /\ \E s \in {"succeeded", "canceled"} :
          payment' = [payment EXCEPT ![i] = s]
    /\ UNCHANGED <<invoiceVars, client_key, subVars, eventVars, reversal,
                   refunded_at_provider, odd, created, granted, procVars>>

ProviderRefunds(r) ==
    /\ r \notin Chargebacks /\ payment[RefundOf[r]] = "succeeded"
    /\ ~refunded_at_provider[r]
    /\ refunded_at_provider' = [refunded_at_provider EXCEPT ![r] = TRUE]
    /\ UNCHANGED <<invoiceVars, client_key, subVars, eventVars, reversal,
                   payment, odd, created, granted, procVars>>

(* Every writer of the subscription advances billing_version. *)
Subscribe(s) ==
    /\ version < MaxVersion
    /\ sub' = s /\ version' = version + 1
    /\ UNCHANGED <<invoiceVars, client_key, eventVars, reversal,
                   providerVars, granted, procVars>>

(* current_period_end passes: effective_status is no longer active. *)
TermEnds ==
    /\ sub = "active" /\ sub' = "lapsed"
    /\ UNCHANGED <<invoiceVars, client_key, version, eventVars, reversal,
                   providerVars, granted, procVars>>

ExtendTrial == sub \notin {"active", "lapsed"} /\ Subscribe("trial")
UpgradePlan == Subscribe("active")
RefreshAICreditPeriod == sub = "active" /\ Subscribe("active")
CheckExpiredTrials == sub \in {"trial", "lapsed"} /\ Subscribe("past_due")
CheckGracePeriodExpired == sub = "past_due" /\ Subscribe("cancelled")
-----------------------------------------------------------------------------
(* What an authoritative object does to its invoice. *)

(* handle_payment_success_webhook returns True. *)
SuccessApplies(i) ==
    \/ status[i] \in SettledStatuses
    \/ /\ status[i] = "pending" \/ UnsettledManual(i)
       /\ IsTopup(i) \/ version = expected_version[i]

(* Mutant: a repeated success is delivered again. *)
PaymentSuccessAgain(i) ==
    IF ~SuccessApplies(i)
      THEN MarkManual(i) /\ UNCHANGED <<paid_at, granted, subVars>>
    ELSE /\ status' = [status EXCEPT ![i] = "paid"]
         /\ paid_at' = [paid_at EXCEPT ![i] = TRUE]
         /\ granted' = [granted EXCEPT ![i] = @ + 1]
         /\ IF IsTopup(i)
              THEN UNCHANGED subVars
              ELSE sub' = "active" /\ version' = version + 1

(* handle_payment_success_webhook with the quarantine its callers add to a  *)
(* refusal: a repeated success changes nothing, a version the checkout did  *)
(* not expect quarantines the invoice, everything else is delivered: the    *)
(* credits, or a new paid term.                                             *)
PaymentSuccess(i) ==
    IF status[i] \in SettledStatuses
      THEN UNCHANGED <<status, paid_at, granted, subVars>>
    ELSE IF ~SuccessApplies(i)
      THEN MarkManual(i) /\ UNCHANGED <<paid_at, granted, subVars>>
    ELSE /\ status' = [status EXCEPT ![i] = "paid"]
         /\ paid_at' = [paid_at EXCEPT ![i] = TRUE]
         /\ granted' = [granted EXCEPT ![i] = @ + 1]
         /\ IF IsTopup(i)
              THEN UNCHANGED subVars
              ELSE sub' = "active" /\ version' = version + 1

(* handle_payment_failed_webhook returns True. *)
CancelApplies(i) == status[i] \in {"failed", "pending"} \/ UnsettledManual(i)

PaymentFailed(i) ==
    /\ IF CancelApplies(i)
         THEN status' = [status EXCEPT ![i] = "failed"] ELSE MarkManual(i)
    /\ UNCHANGED <<paid_at, granted, subVars>>

(* handle_reversal_success: a reference is applied once; what cannot be     *)
(* taken back automatically waits for a person.                             *)
Reverse(r, shortfall) ==
    LET i == RefundOf[r]
        total == refunded[i] + RefundAmount[r]
        refused == \/ status[i] \notin {"paid", "partially_refunded",
                                        "manual_review"}
                   \/ total > Price
        applied == ~refused /\ IsTopup(i) /\ ~shortfall
    IN
    IF reversal[r] # "none"
      THEN UNCHANGED <<status, refund_review, refunded, reversal>>
      ELSE /\ reversal' = [reversal EXCEPT ![r] =
                             IF applied THEN "applied" ELSE "manual_review"]
           /\ refunded' = [refunded EXCEPT ![i] = IF refused THEN @ ELSE total]
           /\ refund_review' = [refund_review EXCEPT ![i] = @ \/ ~applied]
           /\ status' = [status EXCEPT ![i] =
                           IF ~applied THEN "manual_review"
                           ELSE IF total = Price THEN "refunded"
                           ELSE "partially_refunded"]

(* record_chargeback *)
RecordChargeback(r) ==
    /\ r \in Chargebacks /\ payment_id[RefundOf[r]]
    /\ payment[RefundOf[r]] = "succeeded"
    /\ \E shortfall \in BOOLEAN : Reverse(r, shortfall)
    /\ UNCHANGED <<payment_id, attempts, age, polls, paid_at,
                   expected_version, client_key, subVars, eventVars,
                   providerVars, granted, procVars>>
-----------------------------------------------------------------------------
(* Webhook events. *)

(* claim_webhook_event: an unfinished event is taken over, whoever held it. *)
ClaimEvent(p, e) ==
    /\ decision[e] \notin FinalDecisions
    /\ decision' = [decision EXCEPT ![e] = "received"]
    /\ claim' = [claim EXCEPT ![e] = p]
    /\ pc' = [pc EXCEPT ![p] = "process"]
    /\ ev' = [ev EXCEPT ![p] = e]
    /\ inv' = [inv EXCEPT ![p] = NoKey]
    /\ UNCHANGED <<known_payment, key, verdict>>

(* YooKassaWebhookView.post: a notification about an object the provider    *)
(* has.  Nothing says that it is the first, the last or a true one.         *)
ReceiveWebhook(p, e) ==
    /\ pc[p] = "idle" /\ e \in Notified
    /\ payment[PaymentOf(e)] # "none"
    /\ e[1] = "refund" => refunded_at_provider[e[2]]
    /\ ClaimEvent(p, e)
    /\ UNCHANGED <<invoiceVars, client_key, subVars, tries, reversal,
                   providerVars, granted>>

(* Mutant: an event whose worker died before it decided is not picked up. *)
ReconcileEventErrorsOnly(p, e) ==
    /\ pc[p] = "idle"
    /\ decision[e] = "error" /\ tries[e] < MaxPolls
    /\ tries' = [tries EXCEPT ![e] = @ + 1]
    /\ ClaimEvent(p, e)
    /\ UNCHANGED <<invoiceVars, client_key, subVars, reversal, providerVars,
                   granted>>

(* claim_webhook_event_for_reconciliation *)
ReconcileEvent(p, e) ==
    /\ pc[p] = "idle"
    /\ decision[e] \in {"received", "error"} /\ tries[e] < MaxPolls
    /\ tries' = [tries EXCEPT ![e] = @ + 1]
    /\ ClaimEvent(p, e)
    /\ UNCHANGED <<invoiceVars, client_key, subVars, reversal, providerVars,
                   granted>>

(* The statuses of an invoice that agree with an event. *)
CompatibleStatuses(kind) ==
    IF kind = "succeeded" THEN SettledStatuses
    ELSE IF kind = "canceled" THEN {"failed"}
    ELSE {"partially_refunded", "refunded"}

(* _finalize_exhausted_event: the event and an invoice that disagrees with  *)
(* it are handed to a person in one transaction.  It checks again what the  *)
(* claim that led to it saw.                                                *)
FinalizeExhausted(e) ==
    LET i == PaymentOf(e)
        found == payment_id[i] /\ (e[1] = "refund" => known_payment[e[2]])
        mark == found /\ status[i] \notin CompatibleStatuses(e[1])
    IN
    /\ decision[e] \in {"received", "error"} /\ tries[e] >= MaxPolls
    /\ decision' = [decision EXCEPT ![e] = "manual_review"]
    /\ claim' = [claim EXCEPT ![e] = NoProc]
    /\ IF mark
         THEN /\ MarkManual(i)
              /\ refund_review' =
                   [refund_review EXCEPT ![i] = @ \/ e[1] = "refund"]
         ELSE UNCHANGED <<status, refund_review>>
    /\ UNCHANGED <<payment_id, attempts, age, polls, paid_at,
                   expected_version, refunded, client_key, subVars,
                   known_payment, tries, reversal, providerVars, granted,
                   procVars>>

Conclude(p, d) ==
    /\ pc' = [pc EXCEPT ![p] = "finalize"]
    /\ verdict' = [verdict EXCEPT ![p] = d]
    /\ UNCHANGED <<inv, key, ev>>

(* The status an event announces. *)
Announced(e) == IF e[1] = "canceled" THEN "canceled" ELSE "succeeded"

(* process_claimed_yookassa_event reads the authoritative object, then      *)
(* works on the invoice.  The announced statuses are final at the provider, *)
(* so the read is one step with what follows it.                            *)
(*                                                                          *)
(* The API fails; or it answers with a status that is not the announced one *)
(* (_finalize_status_mismatch): the one before it is an error to retry, a   *)
(* final one closes the event; or the payment has no invoice yet.           *)
EventNotConfirmed(p) ==
    LET e == ev[p]
        i == PaymentOf(e)
    IN
    /\ pc[p] = "process"
    /\ \/ Conclude(p, "unavailable")
       \/ Conclude(p, "error")
       \/ payment[i] \notin {"pending", Announced(e)} /\ Conclude(p, "ignored")
    /\ UNCHANGED <<invoiceVars, client_key, subVars, eventVars, reversal,
                   providerVars, granted>>

Confirmed(p) ==
    /\ pc[p] = "process"
    /\ payment[PaymentOf(ev[p])] = Announced(ev[p])
    /\ payment_id[PaymentOf(ev[p])]

(* A test payment, or one of another amount, quarantines its invoice; only  *)
(* the second asks for a review of its refund.                              *)
QuarantineOddPayment(p) ==
    LET i == PaymentOf(ev[p]) IN
    /\ Confirmed(p) /\ i \in odd
    /\ MarkManual(i)
    /\ \/ refund_review' =
            [refund_review EXCEPT ![i] = @ \/ ev[p][1] = "refund"]
       \/ UNCHANGED refund_review
    /\ Conclude(p, "manual_review")
    /\ UNCHANGED <<payment_id, attempts, age, polls, paid_at,
                   expected_version, refunded, client_key, subVars,
                   eventVars, reversal, providerVars, granted>>

ApplyPaymentEvent(p) ==
    LET e == ev[p]
        i == PaymentOf(e)
        applies == IF e[1] = "succeeded" THEN SuccessApplies(i)
                   ELSE CancelApplies(i)
    IN
    /\ Confirmed(p) /\ i \notin odd /\ e[1] # "refund"
    /\ IF e[1] = "succeeded" THEN PaymentSuccess(i) ELSE PaymentFailed(i)
    /\ Conclude(p, IF applies THEN "applied" ELSE "manual_review")
    /\ UNCHANGED <<payment_id, attempts, age, polls, refund_review,
                   expected_version, refunded, client_key, eventVars,
                   reversal, providerVars>>

ApplyRefundEvent(p) ==
    LET r == ev[p][2] IN
    /\ Confirmed(p) /\ ev[p][1] = "refund" /\ RefundOf[r] \notin odd
    /\ \E shortfall \in BOOLEAN : Reverse(r, shortfall)
    /\ Conclude(p, reversal'[r])
    /\ UNCHANGED <<payment_id, attempts, age, polls, paid_at,
                   expected_version, client_key, subVars, eventVars,
                   providerVars, granted>>

(* The columns finalize_webhook_event writes; payment_id only matters for   *)
(* a refund event, which is looked up by it.                                *)
WriteDecision(e, d) ==
    /\ decision' = [decision EXCEPT ![e] =
                      IF d = "unavailable" THEN "error" ELSE d]
    /\ claim' = [claim EXCEPT ![e] = NoProc]
    /\ known_payment' = IF e[1] # "refund" THEN known_payment
                        ELSE [known_payment EXCEPT ![e[2]] = d # "unavailable"]

(* Mutant: a worker whose claim was taken over still writes its decision. *)
FinalizeEventStale(p) ==
    LET e == ev[p] IN
    /\ pc[p] = "finalize"
    /\ WriteDecision(e, verdict[p])
    /\ Idle(p)
    /\ UNCHANGED <<invoiceVars, client_key, subVars, tries, reversal,
                   providerVars, granted>>

(* finalize_webhook_event: a compare-and-set on the claim. *)
FinalizeEvent(p) ==
    LET e == ev[p] IN
    /\ pc[p] = "finalize"
    /\ IF decision[e] \in FinalDecisions \/ claim[e] # p
         THEN UNCHANGED <<decision, claim, known_payment>>
         ELSE WriteDecision(e, verdict[p])
    /\ Idle(p)
    /\ UNCHANGED <<invoiceVars, client_key, subVars, tries, reversal,
                   providerVars, granted>>
-----------------------------------------------------------------------------
(* The invoice side of the reconciler. *)

(* Mutant: an invoice out of polls is skipped instead of quarantined. *)
ClaimProviderInvoiceSkips(p, i) ==
    /\ pc[p] = "idle"
    /\ status[i] = "pending" /\ payment_id[i] /\ polls[i] < MaxPolls
    /\ polls' = [polls EXCEPT ![i] = @ + 1]
    /\ WorkOn(p, "poll", i, NoKey) /\ UNCHANGED status
    /\ UNCHANGED <<payment_id, attempts, age, paid_at, refund_review,
                   expected_version, refunded, client_key, subVars,
                   eventVars, reversal, providerVars, granted>>

(* _claim_provider_invoice of a pending invoice: the poll is counted before  *)
(* it is made, and one too many quarantines the invoice.                     *)
ClaimProviderInvoice(p, i) ==
    /\ pc[p] = "idle"
    /\ status[i] = "pending" /\ payment_id[i]
    /\ IF polls[i] >= MaxPolls
         THEN MarkManual(i) /\ UNCHANGED <<polls, procVars>>
         ELSE /\ polls' = [polls EXCEPT ![i] = @ + 1]
              /\ WorkOn(p, "poll", i, NoKey) /\ UNCHANGED status
    /\ UNCHANGED <<payment_id, attempts, age, paid_at, refund_review,
                   expected_version, refunded, client_key, subVars,
                   eventVars, reversal, providerVars, granted>>

(* ... and of a quarantined one, by an operator (--force), not counted. *)
ForceProviderInvoice(p, i) ==
    /\ pc[p] = "idle"
    /\ UnsettledManual(i) /\ payment_id[i]
    /\ WorkOn(p, "recover", i, NoKey)
    /\ UNCHANGED <<invoiceVars, client_key, subVars, eventVars, reversal,
                   providerVars, granted>>

(* _process_payment_state: a failed read or a payment still open ends it. *)
PollWaits(p) ==
    /\ pc[p] \in {"poll", "recover"}
    /\ Idle(p)
    /\ UNCHANGED <<invoiceVars, client_key, subVars, eventVars, reversal,
                   providerVars, granted>>

(* The poll finds its payment closed. *)
Polled(p, s) ==
    pc[p] = s /\ payment[inv[p]] \in {"succeeded", "canceled"}

(* Amount, currency and the test flag come before the payment's state. *)
QuarantineOddPoll(p) ==
    /\ pc[p] \in {"poll", "recover"} /\ payment[inv[p]] # "none"
    /\ inv[p] \in odd
    /\ MarkManual(inv[p]) /\ Idle(p)
    /\ UNCHANGED <<payment_id, attempts, age, polls, paid_at, refund_review,
                   expected_version, refunded, client_key, subVars,
                   eventVars, reversal, providerVars, granted>>

(* The operator's read closes the unpaid checkout directly. *)
ResolveRecovered(p) ==
    LET i == inv[p] IN
    /\ Polled(p, "recover") /\ i \notin odd
    /\ IF payment[i] = "succeeded" THEN PaymentSuccess(i) ELSE PaymentFailed(i)
    /\ Idle(p)
    /\ UNCHANGED <<payment_id, attempts, age, polls, refund_review,
                   expected_version, refunded, client_key, eventVars,
                   reversal, providerVars>>

(* The beat's read goes through the event: claimed, processed like a        *)
(* webhook; already closed while the invoice is pending, quarantined next.  *)
ProcessPolled(p) ==
    LET i == inv[p]
        e == <<payment[i], i>>
    IN
    /\ Polled(p, "poll") /\ i \notin odd
    /\ \/ ClaimEvent(p, e)
       \/ /\ decision[e] \in FinalDecisions /\ status[i] = "pending"
          /\ pc' = [pc EXCEPT ![p] = "mark"]
          /\ UNCHANGED <<decision, claim, known_payment, inv, key, ev, verdict>>
       \/ /\ decision[e] \in FinalDecisions /\ status[i] # "pending"
          /\ Idle(p) /\ UNCHANGED <<decision, claim, known_payment>>
    /\ UNCHANGED <<invoiceVars, client_key, subVars, tries, reversal,
                   providerVars, granted>>

(* mark_invoice_manual_review, a transaction of its own: the status is not  *)
(* read again.  A poll that processed the event itself and finds the        *)
(* invoice pending afterwards marks it as well; here the next poll does.    *)
MarkStillPending(p) ==
    /\ pc[p] = "mark"
    /\ MarkManual(inv[p]) /\ Idle(p)
    /\ UNCHANGED <<payment_id, attempts, age, polls, paid_at, refund_review,
                   expected_version, refunded, client_key, subVars,
                   eventVars, reversal, providerVars, granted>>
-----------------------------------------------------------------------------
Checkout(p) ==
    \/ \E k \in Keys : SubscriptionCheckout(p, k) \/ TopupCheckout(p, k)
    \/ BindClientKey(p) \/ ResumeBound(p)
    \/ ProviderCreates(p) \/ CheckoutCallFails(p) \/ SaveCheckout(p)

ProcessEvent(p) ==
    \/ EventNotConfirmed(p) \/ QuarantineOddPayment(p)
    \/ ApplyPaymentEvent(p) \/ ApplyRefundEvent(p) \/ FinalizeEvent(p)

Reconcile(p) ==
    \/ \E e \in Events : ReconcileEvent(p, e)
    \/ \E i \in Keys : \/ ResumeIntent(p, i)
                       \/ ClaimProviderInvoice(p, i)
                       \/ ForceProviderInvoice(p, i)
    \/ PollWaits(p) \/ QuarantineOddPoll(p) \/ ResolveRecovered(p)
    \/ ProcessPolled(p) \/ MarkStillPending(p)

Environment ==
    \/ \E i \in Keys : CustomerPays(i) \/ HorizonPasses(i)
    \/ \E r \in Refunds : ProviderRefunds(r) \/ RecordChargeback(r)
    \/ TermEnds \/ ExtendTrial \/ RefreshAICreditPeriod \/ UpgradePlan
    \/ CheckExpiredTrials \/ CheckGracePeriodExpired

Next ==
    \/ \E p \in Procs : \/ Checkout(p) \/ ProcessEvent(p) \/ Reconcile(p)
                        \/ Crash(p)
                        \/ \E e \in Events : ReceiveWebhook(p, e)
    \/ \E e \in Events : FinalizeExhausted(e)
    \/ Environment

Spec == Init /\ [][Next]_vars
(* A worker that has started goes on, or dies; the beat task keeps running  *)
(* and is not killed at the same point of the same row every time.          *)
Step(p) ==
    \/ BindClientKey(p) \/ ResumeBound(p)
    \/ ProviderCreates(p) \/ CheckoutCallFails(p) \/ SaveCheckout(p)
    \/ ProcessEvent(p)
    \/ PollWaits(p) \/ QuarantineOddPoll(p) \/ ResolveRecovered(p)
    \/ ProcessPolled(p) \/ MarkStillPending(p)

SweepInvoice(i) ==
    \E p \in Procs : ResumeIntent(p, i) \/ ClaimProviderInvoice(p, i)
SweepEvent(e) == FinalizeExhausted(e) \/ \E p \in Procs : ReconcileEvent(p, e)

Fairness ==
    /\ \A p \in Procs : WF_vars(Step(p))
    /\ \A i \in Keys : SF_vars(SweepInvoice(i))
    /\ \A e \in Events : SF_vars(SweepEvent(e))

FairSpec == Spec /\ Fairness
-----------------------------------------------------------------------------
(* Properties. *)

(* One idempotency key never opens a second payment at the provider, however *)
(* often a lost answer is retried: the intent is quarantined before the      *)
(* provider forgets the key (_resume_checkout_intent).                       *)
OnePaymentPerIntent == \A i \in Keys : created[i] <= 1

(* The Subscription row as a mutex: of all plan checkouts of the tenant at   *)
(* most one may still be paid by the customer, counting the quarantined ones *)
(* and the calls whose answer was lost.                                      *)
OneOpenPlanPayment ==
    \A i, j \in Keys :
       (i # j /\ ~IsTopup(i) /\ ~IsTopup(j)) =>
          ~(payment[i] = "pending" /\ payment[j] = "pending")

(* The books agree with the provider: an invoice is marked failed only if    *)
(* its payment was cancelled, and carries a payment date exactly if it was   *)
(* delivered, once, for a genuine payment that succeeded.                    *)
BooksMatchProvider ==
    \A i \in Keys :
       /\ status[i] = "failed" => payment[i] = "canceled"
       /\ paid_at[i] <=> granted[i] = 1
       /\ granted[i] <= 1
       /\ granted[i] = 1 => payment[i] = "succeeded" /\ i \notin odd

(* The browser keys one checkout accepts are bounded, however many tabs bind *)
(* theirs at the same time (CheckoutKeyLimitError).                          *)
KeyLimit == \A i \in Keys : Cardinality(AcceptedKeys(i)) <= MaxKeys

(* Refunds and chargebacks together never take back more than was paid. *)
RefundBounded == \A i \in Keys : refunded[i] <= Price

(* The decision on an event is final: no late worker, retry or reconciler    *)
(* replaces it.                                                              *)
DecisionsFinal ==
    [][\A e \in Events :
          decision[e] \in FinalDecisions => decision'[e] = decision[e]]_vars

(* What the customer is promised, independently of all the machinery. *)
P == INSTANCE Purchase
       WITH Purchases <- Keys,
            Exclusive <- {i \in Keys : ~IsTopup(i)},
            money <- payment, delivered <- granted

ImplementsPurchase == P!Spec

(* No checkout stays open for ever: it is paid, cancelled or handed to a     *)
(* person, even if every notification is lost.                               *)
CheckoutResolves ==
    \A i \in Keys : status[i] = "pending" ~> status[i] # "pending"

(* No accepted event stays undecided for ever. *)
EventResolves ==
    \A e \in Events :
       decision[e] \in {"received", "error"} ~> decision[e] \in FinalDecisions
=============================================================================
