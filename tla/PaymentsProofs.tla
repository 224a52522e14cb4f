--------------------------- MODULE PaymentsProofs ---------------------------
(***************************************************************************)
(* The promises of checkout, webhooks and reconciliation for any number of *)
(* checkouts, workers, events and refunds, and the refinement of Purchase. *)
(*                                                                         *)
(* IInv is the inductive invariant.  ProcInv says what a worker remembers  *)
(* between two of its steps, MoneyInv ties the invoice to the provider's   *)
(* payment and to what was delivered, OneUnsettled is the mutex the lock   *)
(* on the Subscription row implements: an intent that can still be paid,   *)
(* sent to the provider or not, excludes every other plan intent.          *)
(***************************************************************************)
EXTENDS Payments, FiniteSetTheorems, TLAPS

(* The steps of the other writers of the subscription. *)
SubscriptionStep ==
    \/ TermEnds \/ ExtendTrial \/ RefreshAICreditPeriod \/ UpgradePlan
    \/ CheckExpiredTrials \/ CheckGracePeriodExpired
-----------------------------------------------------------------------------
(* What a process in the middle of its work relies on: the invoice it      *)
(* remembers exists, the call it makes is inside the provider's horizon,   *)
(* the answer it is about to save was given.                               *)
ProcInv ==
    \A p \in Procs :
       /\ pc[p] \in {"bind", "resume", "call", "save", "poll", "recover",
                     "mark"}
             => inv[p] \in Keys /\ status[inv[p]] # "absent"
       /\ pc[p] = "bind" => key[p] \in Keys
       /\ pc[p] \in {"process", "finalize"} => ev[p] \in Events
       /\ pc[p] = "finalize" => verdict[p] # "none"
       /\ pc[p] = "call" => age[inv[p]] \in {"recent", "old"}
       /\ pc[p] = "save" => payment[inv[p]] # "none"

(* A bound browser key leads to an invoice. *)
AliasInv ==
    \A k \in Keys : client_key[k] # NoKey => status[client_key[k]] # "absent"

(* The invoice, its payment and what was delivered for it. *)
MoneyInv ==
    \A i \in Keys :
       /\ payment_id[i] => payment[i] # "none"
       /\ status[i] = "absent" => payment[i] = "none"
       /\ status[i] = "failed" => payment[i] = "canceled"
       /\ status[i] \in SettledStatuses => payment[i] = "succeeded"
       /\ status[i] = "pending" => ~paid_at[i]
       /\ granted[i] = IF paid_at[i] THEN 1 ELSE 0
       /\ paid_at[i] => payment[i] = "succeeded" /\ i \notin odd
       /\ created[i] = IF payment[i] = "none" THEN 0 ELSE 1

(* A plan intent the customer may still pay, now or after the call. *)
Unsettled(i) ==
    ~IsTopup(i) /\ status[i] # "absent" /\ payment[i] \in {"none", "pending"}
OneUnsettled == \A i, j \in Keys : Unsettled(i) /\ Unsettled(j) => i = j

IInv == TypeOK /\ ProcInv /\ AliasInv /\ MoneyInv /\ OneUnsettled

-----------------------------------------------------------------------------
(* An event is about a payment. *)
LEMMA PaymentKey == ASSUME NEW e \in Events PROVE PaymentOf(e) \in Keys
  BY PaymentsAssumption DEF Events, PaymentOf

(* A process that returns to its pool ... *)
LEMMA IdleType ==
    ASSUME ProcType, NEW p \in Procs, Idle(p) PROVE ProcType'
  BY DEF ProcType, Idle, PCs, Verdicts, FinalDecisions

(* one that moves on with an invoice ... *)
LEMMA WorkOnType ==
    ASSUME ProcType, NEW p \in Procs, NEW s \in PCs,
           NEW i \in Keys \cup {NoKey}, NEW k \in Keys \cup {NoKey},
           WorkOn(p, s, i, k)
    PROVE  ProcType'
  BY DEF ProcType, WorkOn

(* one that has decided about its event ... *)
LEMMA ConcludeType ==
    ASSUME ProcType, NEW p \in Procs, NEW d \in Verdicts, Conclude(p, d)
    PROVE  ProcType'
  BY DEF ProcType, Conclude, PCs

(* Quarantining an invoice ... *)
LEMMA MarkManualType ==
    ASSUME InvoiceType, NEW i \in Keys, MarkManual(i)
    PROVE  status' \in [Keys -> InvoiceStatuses]
  BY DEF InvoiceType, MarkManual, InvoiceStatuses

(* delivering it ... *)
LEMMA PaymentSuccessType ==
    ASSUME InvoiceType, RowType, granted \in [Keys -> Nat],
           NEW i \in Keys, PaymentSuccess(i)
    PROVE  /\ status' \in [Keys -> InvoiceStatuses]
           /\ paid_at' \in [Keys -> BOOLEAN]
           /\ granted' \in [Keys -> Nat]
           /\ sub' \in SubStatuses /\ version' \in Nat
<1> USE DEF InvoiceType, RowType
<1>1. \/ UNCHANGED <<status, paid_at, granted>>
      \/ MarkManual(i) /\ UNCHANGED <<paid_at, granted>>
      \/ /\ status' = [status EXCEPT ![i] = "paid"]
         /\ paid_at' = [paid_at EXCEPT ![i] = TRUE]
         /\ granted' = [granted EXCEPT ![i] = @ + 1]
  BY DEF PaymentSuccess
<1>2. \/ UNCHANGED subVars
      \/ sub' = "active" /\ version' = version + 1
  BY DEF PaymentSuccess
<1>3. status' \in [Keys -> InvoiceStatuses]
  BY <1>1, MarkManualType DEF InvoiceStatuses
<1>4. granted' \in [Keys -> Nat]
  BY <1>1
<1>5. paid_at' \in [Keys -> BOOLEAN]
  BY <1>1
<1>6. sub' \in SubStatuses /\ version' \in Nat
  BY <1>2 DEF subVars, SubStatuses
<1> QED
  BY <1>3, <1>4, <1>5, <1>6

(* cancelling it ... *)
LEMMA PaymentFailedType ==
    ASSUME InvoiceType, NEW i \in Keys, PaymentFailed(i)
    PROVE  status' \in [Keys -> InvoiceStatuses]
  BY MarkManualType DEF InvoiceType, PaymentFailed, InvoiceStatuses

(* and refunding it keep their columns in shape. *)
LEMMA ReverseType ==
    ASSUME InvoiceType, RowType, NEW r \in Refunds, NEW shortfall \in BOOLEAN,
           Reverse(r, shortfall)
    PROVE  /\ status' \in [Keys -> InvoiceStatuses]
           /\ refund_review' \in [Keys -> BOOLEAN]
           /\ refunded' \in [Keys -> Nat]
           /\ reversal' \in [Refunds -> ReversalStatuses]
           /\ reversal'[r] \in {"applied", "manual_review"}
<1> USE PaymentsAssumption DEF InvoiceType, RowType
<1> DEFINE i == RefundOf[r]
<1>1. i \in Keys /\ RefundAmount[r] \in Nat
  OBVIOUS
<1>2. CASE reversal[r] # "none"
  BY <1>2 DEF Reverse, ReversalStatuses
<1>3. CASE reversal[r] = "none"
  <2>1. PICK applied \in BOOLEAN, refused \in BOOLEAN :
          /\ reversal' = [reversal EXCEPT ![r] =
                             IF applied THEN "applied" ELSE "manual_review"]
          /\ refunded' = [refunded EXCEPT ![i] =
                            IF refused THEN @
                            ELSE refunded[i] + RefundAmount[r]]
          /\ refund_review' = [refund_review EXCEPT ![i] = @ \/ ~applied]
          /\ status' = [status EXCEPT ![i] =
                           IF ~applied THEN "manual_review"
                           ELSE IF refunded[i] + RefundAmount[r] = Price
                             THEN "refunded" ELSE "partially_refunded"]
    BY <1>3, Zenon DEF Reverse
  <2>2. status' \in [Keys -> InvoiceStatuses]
    BY <2>1, <1>1 DEF InvoiceStatuses
  <2>3. refund_review' \in [Keys -> BOOLEAN]
    BY <2>1, <1>1
  <2>4. refunded' \in [Keys -> Nat]
    BY <2>1, <1>1
  <2>5. reversal' \in [Refunds -> ReversalStatuses]
    BY <2>1, <1>1 DEF ReversalStatuses
  <2>6. reversal'[r] \in {"applied", "manual_review"}
    BY <2>1
  <2> QED
    BY <2>2, <2>3, <2>4, <2>5, <2>6
<1> QED
  BY <1>2, <1>3

(* The columns a resumed checkout may change. *)
LEMMA ResumeReaches ==
    ASSUME TypeOK, NEW p \in Procs, NEW i \in Keys, ResumeCheckout(p, i)
    PROVE  /\ \/ UNCHANGED status \/ MarkManual(i)
           /\ \/ UNCHANGED <<attempts, age>>
              \/ /\ attempts[i] < MaxAttempts
                 /\ attempts' = [attempts EXCEPT ![i] = @ + 1]
                 /\ age' = [age EXCEPT ![i] =
                              IF @ = "none" THEN "recent" ELSE @]
           /\ UNCHANGED <<payment_id, polls, paid_at, refund_review,
                          expected_version, refunded>>
  BY PaymentsAssumption
  DEF TypeOK, InvoiceType, ResumeCheckout, CheckoutManualReason

(* Every action keeps the shape of the rows and of the processes. *)
LEMMA TypeStep == TypeOK /\ ProcInv /\ [Next]_vars => TypeOK'
<1> SUFFICES ASSUME TypeOK, ProcInv, [Next]_vars
             PROVE  TypeOK'
  OBVIOUS
<1> USE PaymentsAssumption
<1>1. ASSUME NEW p \in Procs, NEW k \in Keys, SubscriptionCheckout(p, k)
      PROVE  TypeOK'
  <2>1. InvoiceType'
    <3>1. \/ UNCHANGED invoiceVars
          \/ CreateInvoice(k)
      BY <1>1 DEF SubscriptionCheckout
    <3>2. CASE CreateInvoice(k)
      <4>1. status' \in [Keys -> InvoiceStatuses]
        BY <3>2 DEF TypeOK, InvoiceType, CreateInvoice, InvoiceStatuses
      <4>2. expected_version' \in [Keys -> Nat]
        BY <3>2 DEF TypeOK, InvoiceType, RowType, CreateInvoice
      <4> QED
        BY <3>2, <4>1, <4>2 DEF TypeOK, InvoiceType, CreateInvoice
    <3> QED
      BY <3>1, <3>2 DEF TypeOK, InvoiceType, invoiceVars
  <2>2. RowType'
    BY <1>1
    DEF TypeOK, RowType, SubscriptionCheckout, invoiceVars, subVars,
        eventVars, providerVars
  <2>3. ProviderType'
    BY <1>1
    DEF TypeOK, ProviderType, SubscriptionCheckout, invoiceVars, subVars,
        eventVars, providerVars
  <2>4. ProcType'
    <3>1. CheckoutIntentForClientKey(k) \in Keys \cup {NoKey}
      BY DEF TypeOK, RowType, CheckoutIntentForClientKey
    <3>2. PICK i \in Keys \cup {NoKey} : WorkOn(p, "bind", i, k)
      BY <1>1, <3>1 DEF SubscriptionCheckout, PendingIntents
    <3> QED
      BY <3>2, WorkOnType DEF TypeOK, PCs
  <2> QED
    BY <2>1, <2>2, <2>3, <2>4 DEF TypeOK
<1>2. ASSUME NEW p \in Procs, NEW k \in Keys, TopupCheckout(p, k)
      PROVE  TypeOK'
  <2>1. InvoiceType'
    <3>1. \/ UNCHANGED invoiceVars
          \/ CreateInvoice(k)
      BY <1>2 DEF TopupCheckout
    <3>2. CASE CreateInvoice(k)
      <4>1. status' \in [Keys -> InvoiceStatuses]
        BY <3>2 DEF TypeOK, InvoiceType, CreateInvoice, InvoiceStatuses
      <4>2. expected_version' \in [Keys -> Nat]
        BY <3>2 DEF TypeOK, InvoiceType, RowType, CreateInvoice
      <4> QED
        BY <3>2, <4>1, <4>2 DEF TypeOK, InvoiceType, CreateInvoice
    <3> QED
      BY <3>1, <3>2 DEF TypeOK, InvoiceType, invoiceVars
  <2>2. RowType'
    BY <1>2
    DEF TypeOK, RowType, TopupCheckout, invoiceVars, subVars, eventVars,
        providerVars
  <2>3. ProviderType'
    BY <1>2
    DEF TypeOK, ProviderType, TopupCheckout, invoiceVars, subVars, eventVars,
        providerVars
  <2>4. ProcType'
    <3>1. CheckoutIntentForClientKey(k) \in Keys \cup {NoKey}
      BY DEF TypeOK, RowType, CheckoutIntentForClientKey
    <3>2. PICK i \in Keys \cup {NoKey} : WorkOn(p, "bind", i, k)
      BY <1>2, <3>1 DEF TopupCheckout, PendingIntents
    <3> QED
      BY <3>2, WorkOnType DEF TypeOK, PCs
  <2> QED
    BY <2>1, <2>2, <2>3, <2>4 DEF TypeOK
<1>3. ASSUME NEW p \in Procs, BindClientKey(p)
      PROVE  TypeOK'
  <2>1. InvoiceType'
    BY <1>3
    DEF TypeOK, InvoiceType, BindClientKey, invoiceVars, subVars, eventVars,
        providerVars
  <2>2. RowType'
    BY <1>3
    DEF TypeOK, RowType, SubStatuses, Decisions, FinalDecisions,
        ReversalStatuses, InvoiceType, ProcType, BindClientKey, WorkOn, Idle,
        invoiceVars, subVars, eventVars, providerVars
  <2>3. ProviderType'
    BY <1>3
    DEF TypeOK, ProviderType, BindClientKey, invoiceVars, subVars, eventVars,
        providerVars
  <2>4. ProcType'
    <3>1. Idle(p) \/ WorkOn(p, "resume", inv[p], NoKey)
      BY <1>3 DEF BindClientKey
    <3> QED
      BY <3>1, IdleType, WorkOnType DEF TypeOK, ProcType, PCs
  <2> QED
    BY <2>1, <2>2, <2>3, <2>4 DEF TypeOK
<1>4. ASSUME NEW p \in Procs, ResumeBound(p)
      PROVE  TypeOK'
  <2>1. InvoiceType'
    <3>1. /\ \/ UNCHANGED status \/ MarkManual(inv[p])
          /\ \/ UNCHANGED <<attempts, age>>
             \/ /\ attempts[inv[p]] < MaxAttempts
                /\ attempts' = [attempts EXCEPT ![inv[p]] = @ + 1]
                /\ age' = [age EXCEPT ![inv[p]] =
                             IF @ = "none" THEN "recent" ELSE @]
          /\ UNCHANGED <<payment_id, polls, paid_at, refund_review,
                         expected_version, refunded>>
      BY <1>4, ResumeReaches DEF ResumeBound, ProcInv
    <3>2. inv[p] \in Keys
      BY <1>4 DEF ResumeBound, ProcInv
    <3>3. status' \in [Keys -> InvoiceStatuses]
      BY <3>1, <3>2, MarkManualType DEF TypeOK, InvoiceType
    <3>4. attempts' \in [Keys -> 0..MaxAttempts]
      BY <3>1, <3>2 DEF TypeOK, InvoiceType
    <3>5. age' \in [Keys -> {"none", "recent", "old", "forgotten"}]
      BY <3>1, <3>2 DEF TypeOK, InvoiceType
    <3> QED
      BY <3>1, <3>3, <3>4, <3>5 DEF TypeOK, InvoiceType
  <2>2. RowType'
    BY <1>4
    DEF TypeOK, RowType, ResumeBound, ResumeCheckout, subVars, eventVars,
        providerVars
  <2>3. ProviderType'
    BY <1>4
    DEF TypeOK, ProviderType, ResumeBound, ResumeCheckout, subVars,
        eventVars, providerVars
  <2>4. ProcType'
    <3>1. Idle(p) \/ WorkOn(p, "call", inv[p], NoKey)
      BY <1>4 DEF ResumeBound, ResumeCheckout
    <3>2. inv[p] \in Keys
      BY <1>4 DEF ResumeBound, ProcInv
    <3> QED
      BY <3>1, <3>2, IdleType, WorkOnType DEF TypeOK, PCs
  <2> QED
    BY <2>1, <2>2, <2>3, <2>4 DEF TypeOK
<1>5. ASSUME NEW p \in Procs, NEW i \in Keys, ResumeIntent(p, i)
      PROVE  TypeOK'
  <2>1. InvoiceType'
    <3>1. /\ \/ UNCHANGED status \/ MarkManual(i)
          /\ \/ UNCHANGED <<attempts, age>>
             \/ /\ attempts[i] < MaxAttempts
                /\ attempts' = [attempts EXCEPT ![i] = @ + 1]
                /\ age' = [age EXCEPT ![i] =
                             IF @ = "none" THEN "recent" ELSE @]
          /\ UNCHANGED <<payment_id, polls, paid_at, refund_review,
                         expected_version, refunded>>
      BY <1>5, ResumeReaches DEF ResumeIntent
    <3>2. i \in Keys
      BY <1>5 DEF ResumeIntent, ProcInv
    <3>3. status' \in [Keys -> InvoiceStatuses]
      BY <3>1, <3>2, MarkManualType DEF TypeOK, InvoiceType
    <3>4. attempts' \in [Keys -> 0..MaxAttempts]
      BY <3>1, <3>2 DEF TypeOK, InvoiceType
    <3>5. age' \in [Keys -> {"none", "recent", "old", "forgotten"}]
      BY <3>1, <3>2 DEF TypeOK, InvoiceType
    <3> QED
      BY <3>1, <3>3, <3>4, <3>5 DEF TypeOK, InvoiceType
  <2>2. RowType'
    BY <1>5
    DEF TypeOK, RowType, ResumeIntent, ResumeCheckout, subVars, eventVars,
        providerVars
  <2>3. ProviderType'
    BY <1>5
    DEF TypeOK, ProviderType, ResumeIntent, ResumeCheckout, subVars,
        eventVars, providerVars
  <2>4. ProcType'
    <3>1. Idle(p) \/ WorkOn(p, "call", i, NoKey)
      BY <1>5 DEF ResumeIntent, ResumeCheckout
    <3>2. i \in Keys
      BY <1>5 DEF ResumeIntent, ProcInv
    <3> QED
      BY <3>1, <3>2, IdleType, WorkOnType DEF TypeOK, PCs
  <2> QED
    BY <2>1, <2>2, <2>3, <2>4 DEF TypeOK
<1>6. ASSUME NEW p \in Procs, ProviderCreates(p)
      PROVE  TypeOK'
  <2>1. InvoiceType'
    BY <1>6
    DEF TypeOK, InvoiceType, ProviderCreates, invoiceVars, subVars, eventVars
  <2>2. RowType'
    BY <1>6
    DEF TypeOK, RowType, ProviderCreates, invoiceVars, subVars, eventVars
  <2>3. ProviderType'
    <3>1. inv[p] \in Keys
      BY <1>6 DEF ProviderCreates, ProcInv
    <3>2. payment' \in [Keys -> PaymentStatuses]
      BY <1>6, <3>1 DEF TypeOK, ProviderType, ProviderCreates, PaymentStatuses
    <3>3. created' \in [Keys -> Nat]
      BY <1>6, <3>1 DEF TypeOK, ProviderType, ProviderCreates
    <3> QED
      BY <1>6, <3>2, <3>3 DEF TypeOK, ProviderType, ProviderCreates
  <2>4. ProcType'
    BY <1>6
    DEF TypeOK, ProcType, PCs, Verdicts, FinalDecisions, InvoiceType,
        ProviderCreates, invoiceVars, subVars, eventVars
  <2> QED
    BY <2>1, <2>2, <2>3, <2>4 DEF TypeOK
<1>7. ASSUME NEW p \in Procs, CheckoutCallFails(p)
      PROVE  TypeOK'
  <2>1. InvoiceType'
    BY <1>7
    DEF TypeOK, InvoiceType, CheckoutCallFails, invoiceVars, subVars,
        eventVars, providerVars
  <2>2. RowType'
    BY <1>7
    DEF TypeOK, RowType, CheckoutCallFails, invoiceVars, subVars, eventVars,
        providerVars
  <2>3. ProviderType'
    BY <1>7
    DEF TypeOK, ProviderType, CheckoutCallFails, invoiceVars, subVars,
        eventVars, providerVars
  <2>4. ProcType'
    BY <1>7
    DEF TypeOK, ProcType, PCs, Verdicts, FinalDecisions, InvoiceType,
        CheckoutCallFails, Idle, invoiceVars, subVars, eventVars,
        providerVars
  <2> QED
    BY <2>1, <2>2, <2>3, <2>4 DEF TypeOK
<1>8. ASSUME NEW p \in Procs, SaveCheckout(p)
      PROVE  TypeOK'
  <2>1. InvoiceType'
    BY <1>8
    DEF TypeOK, InvoiceType, InvoiceStatuses, ProcType, SaveCheckout, Idle,
        subVars, eventVars, providerVars
  <2>2. RowType'
    BY <1>8 DEF TypeOK, RowType, SaveCheckout, subVars, eventVars, providerVars
  <2>3. ProviderType'
    BY <1>8
    DEF TypeOK, ProviderType, SaveCheckout, subVars, eventVars, providerVars
  <2>4. ProcType'
    BY <1>8
    DEF TypeOK, ProcType, PCs, Verdicts, FinalDecisions, InvoiceType,
        SaveCheckout, Idle, subVars, eventVars, providerVars
  <2> QED
    BY <2>1, <2>2, <2>3, <2>4 DEF TypeOK
<1>9. ASSUME NEW p \in Procs, EventNotConfirmed(p)
      PROVE  TypeOK'
  <2>1. InvoiceType'
    BY <1>9, PaymentKey
    DEF TypeOK, InvoiceType, EventNotConfirmed, invoiceVars, subVars,
        eventVars, providerVars
  <2>2. RowType'
    BY <1>9, PaymentKey
    DEF TypeOK, RowType, EventNotConfirmed, invoiceVars, subVars, eventVars,
        providerVars
  <2>3. ProviderType'
    BY <1>9, PaymentKey
    DEF TypeOK, ProviderType, EventNotConfirmed, invoiceVars, subVars,
        eventVars, providerVars
  <2>4. ProcType'
    <3>1. \E d \in {"unavailable", "error", "ignored"} : Conclude(p, d)
      BY <1>9 DEF EventNotConfirmed
    <3> QED
      BY <3>1, ConcludeType DEF TypeOK, Verdicts, FinalDecisions
  <2> QED
    BY <2>1, <2>2, <2>3, <2>4 DEF TypeOK
<1>10. ASSUME NEW p \in Procs, QuarantineOddPayment(p)
      PROVE  TypeOK'
  <2>1. InvoiceType'
    <3>1. status' \in [Keys -> InvoiceStatuses]
      BY <1>10, PaymentKey
      DEF TypeOK, InvoiceType, InvoiceStatuses, QuarantineOddPayment,
          MarkManual
    <3>2. refund_review' \in [Keys -> BOOLEAN]
      <4>1. CASE refund_review' = refund_review
        BY <4>1 DEF TypeOK, InvoiceType
      <4>2. CASE refund_review' # refund_review
        <5>1. refund_review' = [refund_review EXCEPT ![PaymentOf(ev[p])] =
                                  @ \/ ev[p][1] = "refund"]
          BY <1>10, <4>2 DEF QuarantineOddPayment
        <5> QED
          BY <5>1, Zenon DEF TypeOK, InvoiceType
      <4> QED
        BY <4>1, <4>2
    <3> QED
      BY <1>10, <3>1, <3>2 DEF TypeOK, InvoiceType, QuarantineOddPayment
  <2>2. RowType'
    BY <1>10, PaymentKey
    DEF TypeOK, RowType, QuarantineOddPayment, subVars, eventVars,
        providerVars
  <2>3. ProviderType'
    BY <1>10, PaymentKey
    DEF TypeOK, ProviderType, QuarantineOddPayment, subVars, eventVars,
        providerVars
  <2>4. ProcType'
    BY <1>10, PaymentKey
    DEF TypeOK, ProcType, PCs, Verdicts, FinalDecisions, InvoiceType,
        QuarantineOddPayment, Conclude, MarkManual, subVars, eventVars,
        providerVars
  <2> QED
    BY <2>1, <2>2, <2>3, <2>4 DEF TypeOK
<1>11. ASSUME NEW p \in Procs, ApplyPaymentEvent(p)
      PROVE  TypeOK'
  <2>1. InvoiceType'
    <3>1. ev[p] \in Events /\ PaymentOf(ev[p]) \in Keys
      BY <1>11, PaymentKey DEF ApplyPaymentEvent, Confirmed, ProcInv
    <3>2. \/ PaymentSuccess(PaymentOf(ev[p]))
          \/ PaymentFailed(PaymentOf(ev[p])) /\ UNCHANGED paid_at
      BY <1>11 DEF ApplyPaymentEvent, PaymentFailed
    <3>3. /\ status' \in [Keys -> InvoiceStatuses]
          /\ paid_at' \in [Keys -> BOOLEAN]
      BY <3>1, <3>2, PaymentSuccessType, PaymentFailedType
      DEF TypeOK, InvoiceType, ProviderType
    <3> QED
      BY <1>11, <3>3 DEF ApplyPaymentEvent, TypeOK, InvoiceType
  <2>2. RowType'
    BY <1>11, PaymentKey
    DEF TypeOK, RowType, SubStatuses, Decisions, FinalDecisions,
        ReversalStatuses, InvoiceType, ProcType, ApplyPaymentEvent, Conclude,
        PaymentSuccess, PaymentFailed, MarkManual, subVars, eventVars,
        providerVars
  <2>3. ProviderType'
    BY <1>11, PaymentKey
    DEF TypeOK, ProviderType, PaymentStatuses, InvoiceType, ProcType,
        ApplyPaymentEvent, Conclude, PaymentSuccess, PaymentFailed,
        MarkManual, subVars, eventVars, providerVars
  <2>4. ProcType'
    BY <1>11, PaymentKey
    DEF TypeOK, ProcType, PCs, Verdicts, FinalDecisions, InvoiceType,
        ApplyPaymentEvent, Conclude, PaymentSuccess, PaymentFailed,
        MarkManual, subVars, eventVars, providerVars
  <2> QED
    BY <2>1, <2>2, <2>3, <2>4 DEF TypeOK
<1>12. ASSUME NEW p \in Procs, ApplyRefundEvent(p)
      PROVE  TypeOK'
  <2>1. InvoiceType'
    <3>1. ev[p][2] \in Refunds
      BY <1>12 DEF ApplyRefundEvent, Confirmed, ProcInv, Events
    <3>2. PICK s \in BOOLEAN : Reverse(ev[p][2], s)
      BY <1>12 DEF ApplyRefundEvent
    <3>3. /\ status' \in [Keys -> InvoiceStatuses]
          /\ refund_review' \in [Keys -> BOOLEAN]
          /\ refunded' \in [Keys -> Nat]
      BY <3>1, <3>2, ReverseType DEF TypeOK
    <3> QED
      BY <1>12, <3>3 DEF ApplyRefundEvent, TypeOK, InvoiceType
  <2>2. RowType'
    <3>1. ev[p][2] \in Refunds
      BY <1>12 DEF ApplyRefundEvent, Confirmed, ProcInv, Events
    <3>2. PICK s \in BOOLEAN : Reverse(ev[p][2], s)
      BY <1>12 DEF ApplyRefundEvent
    <3>3. reversal' \in [Refunds -> ReversalStatuses]
      BY <3>1, <3>2, ReverseType DEF TypeOK
    <3> QED
      BY <1>12, <3>3 DEF ApplyRefundEvent, TypeOK, RowType, subVars, eventVars
  <2>3. ProviderType'
    BY <1>12
    DEF TypeOK, ProviderType, ApplyRefundEvent, subVars, eventVars,
        providerVars
  <2>4. ProcType'
    <3>1. ev[p][2] \in Refunds
      BY <1>12 DEF ApplyRefundEvent, Confirmed, ProcInv, Events
    <3>2. reversal'[ev[p][2]] \in {"applied", "manual_review"}
      BY <1>12, <3>1, ReverseType DEF ApplyRefundEvent, TypeOK
    <3>3. \E d \in {"applied", "manual_review"} : Conclude(p, d)
      BY <1>12, <3>2 DEF ApplyRefundEvent
    <3> QED
      BY <3>3, ConcludeType DEF TypeOK, Verdicts, FinalDecisions
  <2> QED
    BY <2>1, <2>2, <2>3, <2>4 DEF TypeOK
<1>13. ASSUME NEW p \in Procs, FinalizeEvent(p)
      PROVE  TypeOK'
  <2>1. InvoiceType'
    BY <1>13
    DEF TypeOK, InvoiceType, FinalizeEvent, invoiceVars, subVars,
        providerVars
  <2>2. RowType'
    <3>1. CASE UNCHANGED <<decision, claim, known_payment>>
      BY <1>13, <3>1 DEF FinalizeEvent, TypeOK, RowType, subVars
    <3>2. CASE WriteDecision(ev[p], verdict[p])
      <4>1. verdict[p] \in Verdicts \ {"none"}
        BY <1>13 DEF FinalizeEvent, ProcInv, TypeOK, ProcType
      <4>2. decision' \in [Events -> Decisions]
        BY <3>2, <4>1
        DEF WriteDecision, TypeOK, RowType, Verdicts, Decisions,
            FinalDecisions
      <4>3. claim' \in [Events -> Procs \cup {NoProc}]
        BY <3>2 DEF WriteDecision, TypeOK, RowType
      <4>4. known_payment' \in [Refunds -> BOOLEAN]
        BY <3>2 DEF WriteDecision, TypeOK, RowType
      <4> QED
        BY <1>13, <4>2, <4>3, <4>4 DEF FinalizeEvent, TypeOK, RowType, subVars
    <3> QED
      BY <1>13, <3>1, <3>2 DEF FinalizeEvent
  <2>3. ProviderType'
    BY <1>13
    DEF TypeOK, ProviderType, FinalizeEvent, invoiceVars, subVars,
        providerVars
  <2>4. ProcType'
    BY <1>13
    DEF TypeOK, ProcType, PCs, Verdicts, FinalDecisions, InvoiceType,
        FinalizeEvent, WriteDecision, Idle, invoiceVars, subVars,
        providerVars
  <2> QED
    BY <2>1, <2>2, <2>3, <2>4 DEF TypeOK
<1>14. ASSUME NEW p \in Procs, NEW e \in Events, ReconcileEvent(p, e)
      PROVE  TypeOK'
  <2>1. InvoiceType'
    BY <1>14
    DEF TypeOK, InvoiceType, ReconcileEvent, invoiceVars, subVars,
        providerVars
  <2>2. RowType'
    BY <1>14
    DEF TypeOK, RowType, SubStatuses, Decisions, FinalDecisions,
        ReversalStatuses, InvoiceType, ProcType, ReconcileEvent, ClaimEvent,
        invoiceVars, subVars, providerVars
  <2>3. ProviderType'
    BY <1>14
    DEF TypeOK, ProviderType, ReconcileEvent, invoiceVars, subVars,
        providerVars
  <2>4. ProcType'
    BY <1>14
    DEF TypeOK, ProcType, PCs, Verdicts, FinalDecisions, InvoiceType,
        ReconcileEvent, ClaimEvent, invoiceVars, subVars, providerVars
  <2> QED
    BY <2>1, <2>2, <2>3, <2>4 DEF TypeOK
<1>15. ASSUME NEW p \in Procs, NEW i \in Keys, ClaimProviderInvoice(p, i)
      PROVE  TypeOK'
  <2>1. InvoiceType'
    <3>1. \/ MarkManual(i) /\ UNCHANGED polls
          \/ /\ polls[i] < MaxPolls /\ UNCHANGED status
             /\ polls' = [polls EXCEPT ![i] = @ + 1]
      BY <1>15 DEF ClaimProviderInvoice, TypeOK, InvoiceType
    <3>2. status' \in [Keys -> InvoiceStatuses]
      BY <3>1, MarkManualType DEF TypeOK, InvoiceType
    <3>3. polls' \in [Keys -> 0..MaxPolls]
      BY <3>1 DEF TypeOK, InvoiceType
    <3> QED
      BY <1>15, <3>2, <3>3 DEF ClaimProviderInvoice, TypeOK, InvoiceType
  <2>2. RowType'
    BY <1>15
    DEF TypeOK, RowType, ClaimProviderInvoice, subVars, eventVars,
        providerVars, procVars
  <2>3. ProviderType'
    BY <1>15
    DEF TypeOK, ProviderType, ClaimProviderInvoice, subVars, eventVars,
        providerVars, procVars
  <2>4. ProcType'
    BY <1>15, SMTT(30)
    DEF TypeOK, ProcType, PCs, Verdicts, FinalDecisions, InvoiceType,
        ClaimProviderInvoice, WorkOn, MarkManual, subVars, eventVars,
        providerVars, procVars
  <2> QED
    BY <2>1, <2>2, <2>3, <2>4 DEF TypeOK
<1>16. ASSUME NEW p \in Procs, NEW i \in Keys, ForceProviderInvoice(p, i)
      PROVE  TypeOK'
  <2>1. InvoiceType'
    BY <1>16
    DEF TypeOK, InvoiceType, ForceProviderInvoice, invoiceVars, subVars,
        eventVars, providerVars
  <2>2. RowType'
    BY <1>16
    DEF TypeOK, RowType, ForceProviderInvoice, invoiceVars, subVars,
        eventVars, providerVars
  <2>3. ProviderType'
    BY <1>16
    DEF TypeOK, ProviderType, ForceProviderInvoice, invoiceVars, subVars,
        eventVars, providerVars
  <2>4. ProcType'
    BY <1>16
    DEF TypeOK, ProcType, PCs, Verdicts, FinalDecisions, InvoiceType,
        ForceProviderInvoice, WorkOn, invoiceVars, subVars, eventVars,
        providerVars
  <2> QED
    BY <2>1, <2>2, <2>3, <2>4 DEF TypeOK
<1>17. ASSUME NEW p \in Procs, PollWaits(p)
      PROVE  TypeOK'
  <2>1. InvoiceType'
    BY <1>17
    DEF TypeOK, InvoiceType, PollWaits, invoiceVars, subVars, eventVars,
        providerVars
  <2>2. RowType'
    BY <1>17
    DEF TypeOK, RowType, PollWaits, invoiceVars, subVars, eventVars,
        providerVars
  <2>3. ProviderType'
    BY <1>17
    DEF TypeOK, ProviderType, PollWaits, invoiceVars, subVars, eventVars,
        providerVars
  <2>4. ProcType'
    BY <1>17
    DEF TypeOK, ProcType, PCs, Verdicts, FinalDecisions, InvoiceType,
        PollWaits, Idle, invoiceVars, subVars, eventVars, providerVars
  <2> QED
    BY <2>1, <2>2, <2>3, <2>4 DEF TypeOK
<1>18. ASSUME NEW p \in Procs, QuarantineOddPoll(p)
      PROVE  TypeOK'
  <2>1. InvoiceType'
    BY <1>18
    DEF TypeOK, InvoiceType, InvoiceStatuses, ProcType, QuarantineOddPoll,
        Idle, MarkManual, subVars, eventVars, providerVars
  <2>2. RowType'
    BY <1>18
    DEF TypeOK, RowType, QuarantineOddPoll, subVars, eventVars, providerVars
  <2>3. ProviderType'
    BY <1>18
    DEF TypeOK, ProviderType, QuarantineOddPoll, subVars, eventVars,
        providerVars
  <2>4. ProcType'
    BY <1>18
    DEF TypeOK, ProcType, PCs, Verdicts, FinalDecisions, InvoiceType,
        QuarantineOddPoll, Idle, MarkManual, subVars, eventVars, providerVars
  <2> QED
    BY <2>1, <2>2, <2>3, <2>4 DEF TypeOK
<1>19. ASSUME NEW p \in Procs, ResolveRecovered(p)
      PROVE  TypeOK'
  <2>1. InvoiceType'
    <3>1. inv[p] \in Keys
      BY <1>19 DEF ResolveRecovered, Polled, ProcInv
    <3>2. \/ PaymentSuccess(inv[p])
          \/ PaymentFailed(inv[p]) /\ UNCHANGED paid_at
      BY <1>19 DEF ResolveRecovered, PaymentFailed
    <3>3. /\ status' \in [Keys -> InvoiceStatuses]
          /\ paid_at' \in [Keys -> BOOLEAN]
      BY <3>1, <3>2, PaymentSuccessType, PaymentFailedType
      DEF TypeOK, InvoiceType, ProviderType
    <3> QED
      BY <1>19, <3>3 DEF ResolveRecovered, TypeOK, InvoiceType
  <2>2. RowType'
    BY <1>19
    DEF TypeOK, RowType, SubStatuses, Decisions, FinalDecisions,
        ReversalStatuses, InvoiceType, ProcType, ResolveRecovered, Idle,
        PaymentSuccess, PaymentFailed, MarkManual, subVars, eventVars,
        providerVars
  <2>3. ProviderType'
    BY <1>19
    DEF TypeOK, ProviderType, PaymentStatuses, InvoiceType, ProcType,
        ResolveRecovered, Idle, PaymentSuccess, PaymentFailed, MarkManual,
        subVars, eventVars, providerVars
  <2>4. ProcType'
    BY <1>19
    DEF TypeOK, ProcType, PCs, Verdicts, FinalDecisions, InvoiceType,
        ResolveRecovered, Idle, PaymentSuccess, PaymentFailed, MarkManual,
        subVars, eventVars, providerVars
  <2> QED
    BY <2>1, <2>2, <2>3, <2>4 DEF TypeOK
<1>20. ASSUME NEW p \in Procs, ProcessPolled(p)
      PROVE  TypeOK'
  <2>1. InvoiceType'
    BY <1>20
    DEF TypeOK, InvoiceType, ProcessPolled, invoiceVars, subVars,
        providerVars
  <2>2. RowType'
    <3>1. <<payment[inv[p]], inv[p]>> \in Events
      BY <1>20 DEF ProcessPolled, Polled, ProcInv, Events
    <3> QED
      BY <1>20, <3>1
      DEF ProcessPolled, ClaimEvent, Idle, TypeOK, RowType, Decisions,
          FinalDecisions, subVars
  <2>3. ProviderType'
    BY <1>20
    DEF TypeOK, ProviderType, ProcessPolled, invoiceVars, subVars,
        providerVars
  <2>4. ProcType'
    <3>1. <<payment[inv[p]], inv[p]>> \in Events
      BY <1>20 DEF ProcessPolled, Polled, ProcInv, Events
    <3>2. CASE Idle(p)
      BY <3>2, IdleType DEF TypeOK
    <3>3. CASE ~Idle(p)
      BY <1>20, <3>1, <3>3 DEF ProcessPolled, ClaimEvent, TypeOK, ProcType, PCs
    <3> QED
      BY <3>2, <3>3
  <2> QED
    BY <2>1, <2>2, <2>3, <2>4 DEF TypeOK
<1>21. ASSUME NEW p \in Procs, MarkStillPending(p)
      PROVE  TypeOK'
  <2>1. InvoiceType'
    BY <1>21
    DEF TypeOK, InvoiceType, InvoiceStatuses, ProcType, MarkStillPending,
        Idle, MarkManual, subVars, eventVars, providerVars
  <2>2. RowType'
    BY <1>21
    DEF TypeOK, RowType, MarkStillPending, subVars, eventVars, providerVars
  <2>3. ProviderType'
    BY <1>21
    DEF TypeOK, ProviderType, MarkStillPending, subVars, eventVars,
        providerVars
  <2>4. ProcType'
    BY <1>21
    DEF TypeOK, ProcType, PCs, Verdicts, FinalDecisions, InvoiceType,
        MarkStillPending, Idle, MarkManual, subVars, eventVars, providerVars
  <2> QED
    BY <2>1, <2>2, <2>3, <2>4 DEF TypeOK
<1>22. ASSUME NEW p \in Procs, Crash(p)
      PROVE  TypeOK'
  <2>1. InvoiceType'
    BY <1>22 DEF TypeOK, InvoiceType, Crash, invoiceVars, subVars, providerVars
  <2>2. RowType'
    BY <1>22
    DEF TypeOK, RowType, SubStatuses, Decisions, FinalDecisions,
        ReversalStatuses, InvoiceType, ProcType, Crash, Idle, invoiceVars,
        subVars, providerVars
  <2>3. ProviderType'
    BY <1>22
    DEF TypeOK, ProviderType, Crash, invoiceVars, subVars, providerVars
  <2>4. ProcType'
    BY <1>22
    DEF TypeOK, ProcType, PCs, Verdicts, FinalDecisions, InvoiceType, Crash,
        Idle, invoiceVars, subVars, providerVars
  <2> QED
    BY <2>1, <2>2, <2>3, <2>4 DEF TypeOK
<1>23. ASSUME NEW p \in Procs, NEW e \in Events, ReceiveWebhook(p, e)
      PROVE  TypeOK'
  <2>1. InvoiceType'
    BY <1>23, PaymentKey
    DEF TypeOK, InvoiceType, ReceiveWebhook, invoiceVars, subVars,
        providerVars
  <2>2. RowType'
    BY <1>23, PaymentKey
    DEF TypeOK, RowType, SubStatuses, Decisions, FinalDecisions,
        ReversalStatuses, InvoiceType, ProcType, ReceiveWebhook, ClaimEvent,
        invoiceVars, subVars, providerVars
  <2>3. ProviderType'
    BY <1>23, PaymentKey
    DEF TypeOK, ProviderType, ReceiveWebhook, invoiceVars, subVars,
        providerVars
  <2>4. ProcType'
    BY <1>23, PaymentKey
    DEF TypeOK, ProcType, PCs, Verdicts, FinalDecisions, InvoiceType,
        ReceiveWebhook, ClaimEvent, invoiceVars, subVars, providerVars
  <2> QED
    BY <2>1, <2>2, <2>3, <2>4 DEF TypeOK
<1>24. ASSUME NEW e \in Events, FinalizeExhausted(e)
      PROVE  TypeOK'
  <2>1. InvoiceType'
    <3>1. PaymentOf(e) \in Keys
      BY PaymentKey
    <3>2. /\ \/ UNCHANGED status \/ MarkManual(PaymentOf(e))
          /\ \/ UNCHANGED refund_review
             \/ refund_review' = [refund_review EXCEPT ![PaymentOf(e)] =
                                    @ \/ e[1] = "refund"]
      BY <1>24 DEF FinalizeExhausted
    <3>3. status' \in [Keys -> InvoiceStatuses]
      BY <3>1, <3>2, MarkManualType DEF TypeOK, InvoiceType
    <3>4. refund_review' \in [Keys -> BOOLEAN]
      BY <3>1, <3>2, ZenonT(30) DEF TypeOK, InvoiceType
    <3> QED
      BY <1>24, <3>3, <3>4 DEF FinalizeExhausted, TypeOK, InvoiceType
  <2>2. RowType'
    BY <1>24, PaymentKey
    DEF TypeOK, RowType, SubStatuses, Decisions, FinalDecisions,
        ReversalStatuses, InvoiceType, ProcType, FinalizeExhausted,
        MarkManual, subVars, providerVars, procVars
  <2>3. ProviderType'
    BY <1>24, PaymentKey
    DEF TypeOK, ProviderType, FinalizeExhausted, subVars, providerVars,
        procVars
  <2>4. ProcType'
    BY <1>24, PaymentKey
    DEF TypeOK, ProcType, FinalizeExhausted, subVars, providerVars, procVars
  <2> QED
    BY <2>1, <2>2, <2>3, <2>4 DEF TypeOK
<1>25. ASSUME NEW i \in Keys, CustomerPays(i)
      PROVE  TypeOK'
  <2>1. InvoiceType'
    BY <1>25
    DEF TypeOK, InvoiceType, CustomerPays, invoiceVars, subVars, eventVars,
        procVars
  <2>2. RowType'
    BY <1>25
    DEF TypeOK, RowType, CustomerPays, invoiceVars, subVars, eventVars,
        procVars
  <2>3. ProviderType'
    BY <1>25
    DEF TypeOK, ProviderType, PaymentStatuses, InvoiceType, ProcType,
        CustomerPays, invoiceVars, subVars, eventVars, procVars
  <2>4. ProcType'
    BY <1>25
    DEF TypeOK, ProcType, CustomerPays, invoiceVars, subVars, eventVars,
        procVars
  <2> QED
    BY <2>1, <2>2, <2>3, <2>4 DEF TypeOK
<1>26. ASSUME NEW i \in Keys, HorizonPasses(i)
      PROVE  TypeOK'
  <2>1. InvoiceType'
    BY <1>26
    DEF TypeOK, InvoiceType, InvoiceStatuses, ProcType, HorizonPasses,
        subVars, eventVars, providerVars, procVars
  <2>2. RowType'
    BY <1>26
    DEF TypeOK, RowType, HorizonPasses, subVars, eventVars, providerVars,
        procVars
  <2>3. ProviderType'
    BY <1>26
    DEF TypeOK, ProviderType, HorizonPasses, subVars, eventVars,
        providerVars, procVars
  <2>4. ProcType'
    BY <1>26
    DEF TypeOK, ProcType, HorizonPasses, subVars, eventVars, providerVars,
        procVars
  <2> QED
    BY <2>1, <2>2, <2>3, <2>4 DEF TypeOK
<1>27. ASSUME NEW r \in Refunds, ProviderRefunds(r)
      PROVE  TypeOK'
  <2>1. InvoiceType'
    BY <1>27
    DEF TypeOK, InvoiceType, ProviderRefunds, invoiceVars, subVars,
        eventVars, procVars
  <2>2. RowType'
    BY <1>27
    DEF TypeOK, RowType, ProviderRefunds, invoiceVars, subVars, eventVars,
        procVars
  <2>3. ProviderType'
    BY <1>27
    DEF TypeOK, ProviderType, PaymentStatuses, InvoiceType, ProcType,
        ProviderRefunds, invoiceVars, subVars, eventVars, procVars
  <2>4. ProcType'
    BY <1>27
    DEF TypeOK, ProcType, ProviderRefunds, invoiceVars, subVars, eventVars,
        procVars
  <2> QED
    BY <2>1, <2>2, <2>3, <2>4 DEF TypeOK
<1>28. ASSUME NEW r \in Refunds, RecordChargeback(r)
      PROVE  TypeOK'
  <2>1. InvoiceType'
    <3>1. PICK s \in BOOLEAN : Reverse(r, s)
      BY <1>28 DEF RecordChargeback
    <3>2. /\ status' \in [Keys -> InvoiceStatuses]
          /\ refund_review' \in [Keys -> BOOLEAN]
          /\ refunded' \in [Keys -> Nat]
      BY <3>1, ReverseType DEF TypeOK
    <3> QED
      BY <1>28, <3>2 DEF RecordChargeback, TypeOK, InvoiceType
  <2>2. RowType'
    <3>1. PICK s \in BOOLEAN : Reverse(r, s)
      BY <1>28 DEF RecordChargeback
    <3>2. reversal' \in [Refunds -> ReversalStatuses]
      BY <3>1, ReverseType DEF TypeOK
    <3> QED
      BY <1>28, <3>2 DEF RecordChargeback, TypeOK, RowType, subVars, eventVars
  <2>3. ProviderType'
    BY <1>28
    DEF TypeOK, ProviderType, RecordChargeback, subVars, eventVars,
        providerVars, procVars
  <2>4. ProcType'
    BY <1>28
    DEF TypeOK, ProcType, RecordChargeback, subVars, eventVars, providerVars,
        procVars
  <2> QED
    BY <2>1, <2>2, <2>3, <2>4 DEF TypeOK
<1>29. CASE SubscriptionStep
  <2>1. InvoiceType'
    BY <1>29
    DEF TypeOK, InvoiceType, SubscriptionStep, TermEnds, ExtendTrial,
        RefreshAICreditPeriod, UpgradePlan, CheckExpiredTrials,
        CheckGracePeriodExpired, Subscribe, invoiceVars, eventVars,
        providerVars, procVars
  <2>2. RowType'
    BY <1>29
    DEF TypeOK, RowType, SubStatuses, Decisions, FinalDecisions,
        ReversalStatuses, InvoiceType, ProcType, SubscriptionStep, TermEnds,
        ExtendTrial, RefreshAICreditPeriod, UpgradePlan, CheckExpiredTrials,
        CheckGracePeriodExpired, Subscribe, invoiceVars, eventVars,
        providerVars, procVars
  <2>3. ProviderType'
    BY <1>29
    DEF TypeOK, ProviderType, SubscriptionStep, TermEnds, ExtendTrial,
        RefreshAICreditPeriod, UpgradePlan, CheckExpiredTrials,
        CheckGracePeriodExpired, Subscribe, invoiceVars, eventVars,
        providerVars, procVars
  <2>4. ProcType'
    BY <1>29
    DEF TypeOK, ProcType, SubscriptionStep, TermEnds, ExtendTrial,
        RefreshAICreditPeriod, UpgradePlan, CheckExpiredTrials,
        CheckGracePeriodExpired, Subscribe, invoiceVars, eventVars,
        providerVars, procVars
  <2> QED
    BY <2>1, <2>2, <2>3, <2>4 DEF TypeOK
<1>30. CASE UNCHANGED vars
  BY <1>30
  DEF vars, TypeOK, InvoiceType, RowType, ProviderType, ProcType,
      invoiceVars, subVars, eventVars, providerVars, procVars
<1> QED
  BY <1>1, <1>2, <1>3, <1>4, <1>5, <1>6, <1>7, <1>8, <1>9, <1>10, <1>11,
     <1>12, <1>13, <1>14, <1>15, <1>16, <1>17, <1>18, <1>19, <1>20, <1>21,
     <1>22, <1>23, <1>24, <1>25, <1>26, <1>27, <1>28, <1>29, <1>30
  DEF Next, Checkout, ProcessEvent, Reconcile, Environment, SubscriptionStep

(* What no step takes away from an invoice a process relies on. *)
Kept(i) ==
    /\ status[i] # "absent" => status'[i] # "absent"
    /\ payment[i] # "none" => payment'[i] # "none"
    /\ (/\ age[i] \in {"recent", "old"}
        /\ \E p \in Procs : pc[p] = "call" /\ inv[p] = i)
          => age'[i] \in {"recent", "old"}

(* No step takes it away. *)
LEMMA KeptStep ==
    TypeOK /\ ProcInv /\ [Next]_vars => \A q \in Keys : Kept(q)
<1> SUFFICES ASSUME TypeOK, ProcInv, [Next]_vars, NEW q \in Keys
             PROVE  Kept(q)
  OBVIOUS
<1>1. ASSUME NEW p \in Procs, NEW k \in Keys, SubscriptionCheckout(p, k)
      PROVE  Kept(q)
  BY <1>1
  DEF TypeOK, InvoiceType, ProviderType, ProcInv, Kept, SubscriptionCheckout,
      WorkOn, CreateInvoice, PendingIntents, CheckoutIntentForClientKey,
      invoiceVars, subVars, eventVars, providerVars
<1>2. ASSUME NEW p \in Procs, NEW k \in Keys, TopupCheckout(p, k)
      PROVE  Kept(q)
  BY <1>2
  DEF TypeOK, InvoiceType, ProviderType, ProcInv, Kept, TopupCheckout,
      WorkOn, CreateInvoice, PendingIntents, CheckoutIntentForClientKey,
      invoiceVars, subVars, eventVars, providerVars
<1>3. ASSUME NEW p \in Procs, BindClientKey(p)
      PROVE  Kept(q)
  BY <1>3
  DEF TypeOK, InvoiceType, ProviderType, ProcInv, Kept, BindClientKey,
      WorkOn, Idle, invoiceVars, subVars, eventVars, providerVars
<1>4. ASSUME NEW p \in Procs, ResumeBound(p)
      PROVE  Kept(q)
  BY <1>4
  DEF TypeOK, InvoiceType, ProviderType, ProcInv, Kept, ResumeBound,
      ResumeCheckout, WorkOn, Idle, MarkManual, CheckoutManualReason,
      subVars, eventVars, providerVars
<1>5. ASSUME NEW p \in Procs, NEW i \in Keys, ResumeIntent(p, i)
      PROVE  Kept(q)
  BY <1>5
  DEF TypeOK, InvoiceType, ProviderType, ProcInv, Kept, ResumeIntent,
      ResumeCheckout, WorkOn, Idle, MarkManual, CheckoutManualReason,
      subVars, eventVars, providerVars
<1>6. ASSUME NEW p \in Procs, ProviderCreates(p)
      PROVE  Kept(q)
  BY <1>6
  DEF TypeOK, InvoiceType, ProviderType, ProcInv, Kept, ProviderCreates,
      invoiceVars, subVars, eventVars
<1>7. ASSUME NEW p \in Procs, CheckoutCallFails(p)
      PROVE  Kept(q)
  BY <1>7
  DEF TypeOK, InvoiceType, ProviderType, ProcInv, Kept, CheckoutCallFails,
      Idle, invoiceVars, subVars, eventVars, providerVars
<1>8. ASSUME NEW p \in Procs, SaveCheckout(p)
      PROVE  Kept(q)
  BY <1>8
  DEF TypeOK, InvoiceType, ProviderType, ProcInv, Kept, SaveCheckout, Idle,
      subVars, eventVars, providerVars
<1>9. ASSUME NEW p \in Procs, EventNotConfirmed(p)
      PROVE  Kept(q)
  BY <1>9, PaymentKey
  DEF TypeOK, InvoiceType, ProviderType, ProcInv, Kept, EventNotConfirmed,
      Conclude, invoiceVars, subVars, eventVars, providerVars
<1>10. ASSUME NEW p \in Procs, QuarantineOddPayment(p)
      PROVE  Kept(q)
  BY <1>10, PaymentKey
  DEF TypeOK, InvoiceType, ProviderType, ProcInv, Kept, QuarantineOddPayment,
      Conclude, MarkManual, subVars, eventVars, providerVars
<1>11. ASSUME NEW p \in Procs, ApplyPaymentEvent(p)
      PROVE  Kept(q)
  BY <1>11, PaymentKey
  DEF TypeOK, InvoiceType, ProviderType, ProcInv, Kept, ApplyPaymentEvent,
      Conclude, PaymentSuccess, PaymentFailed, MarkManual, subVars,
      eventVars, providerVars
<1>12. ASSUME NEW p \in Procs, ApplyRefundEvent(p)
      PROVE  Kept(q)
  BY <1>12
  DEF TypeOK, InvoiceType, ProviderType, ProcInv, Kept, ApplyRefundEvent,
      Conclude, Reverse, subVars, eventVars, providerVars
<1>13. ASSUME NEW p \in Procs, FinalizeEvent(p)
      PROVE  Kept(q)
  BY <1>13
  DEF TypeOK, InvoiceType, ProviderType, ProcInv, Kept, FinalizeEvent,
      WriteDecision, Idle, invoiceVars, subVars, providerVars
<1>14. ASSUME NEW p \in Procs, NEW e \in Events, ReconcileEvent(p, e)
      PROVE  Kept(q)
  BY <1>14
  DEF TypeOK, InvoiceType, ProviderType, ProcInv, Kept, ReconcileEvent,
      ClaimEvent, invoiceVars, subVars, providerVars
<1>15. ASSUME NEW p \in Procs, NEW i \in Keys, ClaimProviderInvoice(p, i)
      PROVE  Kept(q)
  BY <1>15
  DEF TypeOK, InvoiceType, ProviderType, ProcInv, Kept, ClaimProviderInvoice,
      WorkOn, MarkManual, subVars, eventVars, providerVars, procVars
<1>16. ASSUME NEW p \in Procs, NEW i \in Keys, ForceProviderInvoice(p, i)
      PROVE  Kept(q)
  BY <1>16
  DEF TypeOK, InvoiceType, ProviderType, ProcInv, Kept, ForceProviderInvoice,
      WorkOn, invoiceVars, subVars, eventVars, providerVars
<1>17. ASSUME NEW p \in Procs, PollWaits(p)
      PROVE  Kept(q)
  BY <1>17
  DEF TypeOK, InvoiceType, ProviderType, ProcInv, Kept, PollWaits, Idle,
      invoiceVars, subVars, eventVars, providerVars
<1>18. ASSUME NEW p \in Procs, QuarantineOddPoll(p)
      PROVE  Kept(q)
  BY <1>18
  DEF TypeOK, InvoiceType, ProviderType, ProcInv, Kept, QuarantineOddPoll,
      Idle, MarkManual, subVars, eventVars, providerVars
<1>19. ASSUME NEW p \in Procs, ResolveRecovered(p)
      PROVE  Kept(q)
  BY <1>19
  DEF TypeOK, InvoiceType, ProviderType, ProcInv, Kept, ResolveRecovered,
      Idle, PaymentSuccess, PaymentFailed, MarkManual, subVars, eventVars,
      providerVars
<1>20. ASSUME NEW p \in Procs, ProcessPolled(p)
      PROVE  Kept(q)
  BY <1>20
  DEF TypeOK, InvoiceType, ProviderType, ProcInv, Kept, ProcessPolled,
      ClaimEvent, Idle, invoiceVars, subVars, providerVars
<1>21. ASSUME NEW p \in Procs, MarkStillPending(p)
      PROVE  Kept(q)
  BY <1>21
  DEF TypeOK, InvoiceType, ProviderType, ProcInv, Kept, MarkStillPending,
      Idle, MarkManual, subVars, eventVars, providerVars
<1>22. ASSUME NEW p \in Procs, Crash(p)
      PROVE  Kept(q)
  BY <1>22
  DEF TypeOK, InvoiceType, ProviderType, ProcInv, Kept, Crash, Idle,
      invoiceVars, subVars, providerVars
<1>23. ASSUME NEW p \in Procs, NEW e \in Events, ReceiveWebhook(p, e)
      PROVE  Kept(q)
  BY <1>23, PaymentKey
  DEF TypeOK, InvoiceType, ProviderType, ProcInv, Kept, ReceiveWebhook,
      ClaimEvent, invoiceVars, subVars, providerVars
<1>24. ASSUME NEW e \in Events, FinalizeExhausted(e)
      PROVE  Kept(q)
  BY <1>24, PaymentKey
  DEF TypeOK, InvoiceType, ProviderType, ProcInv, Kept, FinalizeExhausted,
      MarkManual, subVars, providerVars, procVars
<1>25. ASSUME NEW i \in Keys, CustomerPays(i)
      PROVE  Kept(q)
  BY <1>25
  DEF TypeOK, InvoiceType, ProviderType, ProcInv, Kept, CustomerPays,
      invoiceVars, subVars, eventVars, procVars
<1>26. ASSUME NEW i \in Keys, HorizonPasses(i)
      PROVE  Kept(q)
  BY <1>26
  DEF TypeOK, InvoiceType, ProviderType, ProcInv, Kept, HorizonPasses,
      subVars, eventVars, providerVars, procVars
<1>27. ASSUME NEW r \in Refunds, ProviderRefunds(r)
      PROVE  Kept(q)
  BY <1>27
  DEF TypeOK, InvoiceType, ProviderType, ProcInv, Kept, ProviderRefunds,
      invoiceVars, subVars, eventVars, procVars
<1>28. ASSUME NEW r \in Refunds, RecordChargeback(r)
      PROVE  Kept(q)
  BY <1>28
  DEF TypeOK, InvoiceType, ProviderType, ProcInv, Kept, RecordChargeback,
      Reverse, subVars, eventVars, providerVars, procVars
<1>29. CASE SubscriptionStep
  BY <1>29
  DEF TypeOK, InvoiceType, ProviderType, ProcInv, Kept, SubscriptionStep,
      TermEnds, ExtendTrial, RefreshAICreditPeriod, UpgradePlan,
      CheckExpiredTrials, CheckGracePeriodExpired, Subscribe, invoiceVars,
      eventVars, providerVars, procVars
<1>30. CASE UNCHANGED vars
  BY <1>30
  DEF TypeOK, InvoiceType, ProviderType, ProcInv, Kept, vars, invoiceVars,
      subVars, eventVars, providerVars, procVars
<1> QED
  BY <1>1, <1>2, <1>3, <1>4, <1>5, <1>6, <1>7, <1>8, <1>9, <1>10, <1>11,
     <1>12, <1>13, <1>14, <1>15, <1>16, <1>17, <1>18, <1>19, <1>20, <1>21,
     <1>22, <1>23, <1>24, <1>25, <1>26, <1>27, <1>28, <1>29, <1>30
  DEF Next, Checkout, ProcessEvent, Reconcile, Environment, SubscriptionStep

(* What a process relies on survives the steps of all the others.           *)
LEMMA ProcStep ==
    TypeOK /\ ProcInv /\ MoneyInv /\ AliasInv /\ [Next]_vars => ProcInv'
<1> SUFFICES ASSUME TypeOK, ProcInv, MoneyInv, AliasInv, [Next]_vars
             PROVE  ProcInv'
  OBVIOUS
<1>1. ASSUME NEW p \in Procs, NEW k \in Keys, SubscriptionCheckout(p, k)
      PROVE  ProcInv'
  <2>1. PICK i \in Keys : WorkOn(p, "bind", i, k) /\ status'[i] # "absent"
    <3>1. CASE CreateInvoice(k) /\ WorkOn(p, "bind", k, k)
      BY <3>1 DEF CreateInvoice, TypeOK, InvoiceType
    <3>2. CASE ~(CreateInvoice(k) /\ WorkOn(p, "bind", k, k))
      <4>1. CheckoutIntentForClientKey(k) # NoKey =>
              /\ CheckoutIntentForClientKey(k) \in Keys
              /\ status[CheckoutIntentForClientKey(k)] # "absent"
        BY DEF CheckoutIntentForClientKey, TypeOK, RowType, AliasInv
      <4>2. UNCHANGED status
        BY <1>1, <3>2 DEF SubscriptionCheckout, invoiceVars
      <4> QED
        BY <1>1, <3>2, <4>1, <4>2 DEF SubscriptionCheckout, PendingIntents
    <3> QED
      BY <3>1, <3>2
  <2>2. \A q \in Keys : Kept(q)
    BY KeptStep
  <2>4. UNCHANGED <<age, payment>>
    BY <1>1 DEF SubscriptionCheckout, providerVars, CreateInvoice, invoiceVars
  <2> QED
    BY <2>1, <2>2, <2>4
    DEF TypeOK, ProcType, InvoiceType, ProcInv, Kept, WorkOn
<1>2. ASSUME NEW p \in Procs, NEW k \in Keys, TopupCheckout(p, k)
      PROVE  ProcInv'
  <2>1. PICK i \in Keys : WorkOn(p, "bind", i, k) /\ status'[i] # "absent"
    <3>1. CASE CreateInvoice(k) /\ WorkOn(p, "bind", k, k)
      BY <3>1 DEF CreateInvoice, TypeOK, InvoiceType
    <3>2. CASE ~(CreateInvoice(k) /\ WorkOn(p, "bind", k, k))
      <4>1. CheckoutIntentForClientKey(k) # NoKey =>
              /\ CheckoutIntentForClientKey(k) \in Keys
              /\ status[CheckoutIntentForClientKey(k)] # "absent"
        BY DEF CheckoutIntentForClientKey, TypeOK, RowType, AliasInv
      <4>2. UNCHANGED status
        BY <1>2, <3>2 DEF TopupCheckout, invoiceVars
      <4> QED
        BY <1>2, <3>2, <4>1, <4>2 DEF TopupCheckout, PendingIntents
    <3> QED
      BY <3>1, <3>2
  <2>2. \A q \in Keys : Kept(q)
    BY KeptStep
  <2>4. UNCHANGED <<age, payment>>
    BY <1>2 DEF TopupCheckout, providerVars, CreateInvoice, invoiceVars
  <2> QED
    BY <2>1, <2>2, <2>4
    DEF TypeOK, ProcType, InvoiceType, ProcInv, Kept, WorkOn
<1>3. ASSUME NEW p \in Procs, BindClientKey(p)
      PROVE  ProcInv'
  <2>1. UNCHANGED <<status, age, payment>>
    BY <1>3 DEF BindClientKey, providerVars, invoiceVars
  <2>2. inv[p] \in Keys /\ status[inv[p]] # "absent"
    BY <1>3 DEF BindClientKey, ProcInv
  <2>3. Idle(p) \/ WorkOn(p, "resume", inv[p], NoKey)
    BY <1>3 DEF BindClientKey
  <2> QED
    BY <2>1, <2>2, <2>3 DEF Idle, WorkOn, ProcInv, TypeOK, ProcType
<1>4. ASSUME NEW p \in Procs, ResumeBound(p)
      PROVE  ProcInv'
  BY <1>4, KeptStep, PaymentsAssumption
  DEF TypeOK, InvoiceType, RowType, ProviderType, ProcType, ProcInv,
      MoneyInv, Kept, ResumeBound, ResumeCheckout, WorkOn, Idle, MarkManual,
      CheckoutManualReason, subVars, eventVars, providerVars
<1>5. ASSUME NEW p \in Procs, NEW i \in Keys, ResumeIntent(p, i)
      PROVE  ProcInv'
  BY <1>5, KeptStep, PaymentsAssumption
  DEF TypeOK, InvoiceType, RowType, ProviderType, ProcType, ProcInv,
      MoneyInv, Kept, ResumeIntent, ResumeCheckout, WorkOn, Idle, MarkManual,
      CheckoutManualReason, subVars, eventVars, providerVars
<1>6. ASSUME NEW p \in Procs, ProviderCreates(p)
      PROVE  ProcInv'
  BY <1>6, KeptStep, PaymentsAssumption
  DEF TypeOK, InvoiceType, RowType, ProviderType, ProcType, ProcInv,
      MoneyInv, Kept, ProviderCreates, invoiceVars, subVars, eventVars
<1>7. ASSUME NEW p \in Procs, CheckoutCallFails(p)
      PROVE  ProcInv'
  BY <1>7, KeptStep, PaymentsAssumption
  DEF TypeOK, InvoiceType, RowType, ProviderType, ProcType, ProcInv,
      MoneyInv, Kept, CheckoutCallFails, Idle, invoiceVars, subVars,
      eventVars, providerVars
<1>8. ASSUME NEW p \in Procs, SaveCheckout(p)
      PROVE  ProcInv'
  BY <1>8, KeptStep, PaymentsAssumption
  DEF TypeOK, InvoiceType, RowType, ProviderType, ProcType, ProcInv,
      MoneyInv, Kept, SaveCheckout, Idle, subVars, eventVars, providerVars
<1>9. ASSUME NEW p \in Procs, EventNotConfirmed(p)
      PROVE  ProcInv'
  BY <1>9, PaymentKey, KeptStep, PaymentsAssumption
  DEF TypeOK, InvoiceType, RowType, ProviderType, ProcType, ProcInv,
      MoneyInv, Kept, EventNotConfirmed, Conclude, invoiceVars, subVars,
      eventVars, providerVars
<1>10. ASSUME NEW p \in Procs, QuarantineOddPayment(p)
      PROVE  ProcInv'
  <2>1. PICK d \in Verdicts \ {"none"} : Conclude(p, d)
    BY <1>10, Zenon DEF QuarantineOddPayment, Verdicts, FinalDecisions
  <2>2. \A q \in Keys : Kept(q)
    BY KeptStep
  <2>3. ev[p] \in Events
    BY <1>10 DEF QuarantineOddPayment, Confirmed, ProcInv
  <2>4. UNCHANGED <<age, payment>>
    BY <1>10 DEF QuarantineOddPayment, providerVars
  <2> QED
    BY <2>1, <2>2, <2>3, <2>4
    DEF TypeOK, ProcType, InvoiceType, ProcInv, Kept, Conclude
<1>11. ASSUME NEW p \in Procs, ApplyPaymentEvent(p)
      PROVE  ProcInv'
  <2>1. PICK d \in Verdicts \ {"none"} : Conclude(p, d)
    BY <1>11, Zenon DEF ApplyPaymentEvent, Verdicts, FinalDecisions
  <2>2. \A q \in Keys : Kept(q)
    BY KeptStep
  <2>3. ev[p] \in Events
    BY <1>11 DEF ApplyPaymentEvent, Confirmed, ProcInv
  <2>4. UNCHANGED <<age, payment>>
    BY <1>11 DEF ApplyPaymentEvent, providerVars
  <2> QED
    BY <2>1, <2>2, <2>3, <2>4
    DEF TypeOK, ProcType, InvoiceType, ProcInv, Kept, Conclude
<1>12. ASSUME NEW p \in Procs, ApplyRefundEvent(p)
      PROVE  ProcInv'
  <2>0. ev[p][2] \in Refunds
    BY <1>12 DEF ApplyRefundEvent, Confirmed, ProcInv, Events
  <2>a. reversal'[ev[p][2]] \in {"applied", "manual_review"}
    BY <1>12, <2>0, ReverseType DEF ApplyRefundEvent, TypeOK
  <2>1. PICK d \in Verdicts \ {"none"} : Conclude(p, d)
    BY <1>12, <2>a DEF ApplyRefundEvent, Verdicts, FinalDecisions
  <2>2. \A q \in Keys : Kept(q)
    BY KeptStep
  <2>3. ev[p] \in Events
    BY <1>12 DEF ApplyRefundEvent, Confirmed, ProcInv
  <2>4. UNCHANGED <<age, payment>>
    BY <1>12 DEF ApplyRefundEvent, providerVars
  <2> QED
    BY <2>1, <2>2, <2>3, <2>4
    DEF TypeOK, ProcType, InvoiceType, ProcInv, Kept, Conclude
<1>13. ASSUME NEW p \in Procs, FinalizeEvent(p)
      PROVE  ProcInv'
  BY <1>13, KeptStep, PaymentsAssumption
  DEF TypeOK, InvoiceType, RowType, ProviderType, ProcType, ProcInv,
      MoneyInv, Kept, FinalizeEvent, WriteDecision, Idle, invoiceVars,
      subVars, providerVars
<1>14. ASSUME NEW p \in Procs, NEW e \in Events, ReconcileEvent(p, e)
      PROVE  ProcInv'
  BY <1>14, KeptStep, PaymentsAssumption
  DEF TypeOK, InvoiceType, RowType, ProviderType, ProcType, ProcInv,
      MoneyInv, Kept, ReconcileEvent, ClaimEvent, invoiceVars, subVars,
      providerVars
<1>15. ASSUME NEW p \in Procs, NEW i \in Keys, ClaimProviderInvoice(p, i)
      PROVE  ProcInv'
  BY <1>15, KeptStep, PaymentsAssumption
  DEF TypeOK, InvoiceType, RowType, ProviderType, ProcType, ProcInv,
      MoneyInv, Kept, ClaimProviderInvoice, WorkOn, MarkManual, subVars,
      eventVars, providerVars, procVars
<1>16. ASSUME NEW p \in Procs, NEW i \in Keys, ForceProviderInvoice(p, i)
      PROVE  ProcInv'
  BY <1>16, KeptStep, PaymentsAssumption
  DEF TypeOK, InvoiceType, RowType, ProviderType, ProcType, ProcInv,
      MoneyInv, Kept, ForceProviderInvoice, WorkOn, invoiceVars, subVars,
      eventVars, providerVars
<1>17. ASSUME NEW p \in Procs, PollWaits(p)
      PROVE  ProcInv'
  BY <1>17, KeptStep, PaymentsAssumption
  DEF TypeOK, InvoiceType, RowType, ProviderType, ProcType, ProcInv,
      MoneyInv, Kept, PollWaits, Idle, invoiceVars, subVars, eventVars,
      providerVars
<1>18. ASSUME NEW p \in Procs, QuarantineOddPoll(p)
      PROVE  ProcInv'
  BY <1>18, KeptStep, PaymentsAssumption
  DEF TypeOK, InvoiceType, RowType, ProviderType, ProcType, ProcInv,
      MoneyInv, Kept, QuarantineOddPoll, Idle, MarkManual, subVars,
      eventVars, providerVars
<1>19. ASSUME NEW p \in Procs, ResolveRecovered(p)
      PROVE  ProcInv'
  BY <1>19, KeptStep, PaymentsAssumption
  DEF TypeOK, InvoiceType, RowType, ProviderType, ProcType, ProcInv,
      MoneyInv, Kept, ResolveRecovered, Idle, PaymentSuccess, PaymentFailed,
      MarkManual, subVars, eventVars, providerVars
<1>20. ASSUME NEW p \in Procs, ProcessPolled(p)
      PROVE  ProcInv'
  <2>1. inv[p] \in Keys /\ <<payment[inv[p]], inv[p]>> \in Events
    BY <1>20 DEF ProcessPolled, Polled, ProcInv, Events
  <2>2. UNCHANGED <<status, age, payment>>
    BY <1>20 DEF ProcessPolled, providerVars, invoiceVars
  <2>3. CASE Idle(p)
    BY <2>2, <2>3 DEF Idle, ProcInv, TypeOK, ProcType
  <2>4. CASE ~Idle(p)
    <3>1. \/ /\ pc' = [pc EXCEPT ![p] = "process"]
             /\ ev' = [ev EXCEPT ![p] = <<payment[inv[p]], inv[p]>>]
             /\ inv' = [inv EXCEPT ![p] = NoKey]
             /\ UNCHANGED <<key, verdict>>
          \/ /\ pc' = [pc EXCEPT ![p] = "mark"]
             /\ status[inv[p]] = "pending"
             /\ UNCHANGED <<inv, key, ev, verdict>>
      BY <1>20, <2>4 DEF ProcessPolled, ClaimEvent
    <3> QED
      BY <2>1, <2>2, <3>1 DEF ProcInv, TypeOK, ProcType
  <2> QED
    BY <2>3, <2>4
<1>21. ASSUME NEW p \in Procs, MarkStillPending(p)
      PROVE  ProcInv'
  BY <1>21, KeptStep, PaymentsAssumption
  DEF TypeOK, InvoiceType, RowType, ProviderType, ProcType, ProcInv,
      MoneyInv, Kept, MarkStillPending, Idle, MarkManual, subVars, eventVars,
      providerVars
<1>22. ASSUME NEW p \in Procs, Crash(p)
      PROVE  ProcInv'
  BY <1>22, KeptStep, PaymentsAssumption
  DEF TypeOK, InvoiceType, RowType, ProviderType, ProcType, ProcInv,
      MoneyInv, Kept, Crash, Idle, invoiceVars, subVars, providerVars
<1>23. ASSUME NEW p \in Procs, NEW e \in Events, ReceiveWebhook(p, e)
      PROVE  ProcInv'
  BY <1>23, PaymentKey, KeptStep, PaymentsAssumption
  DEF TypeOK, InvoiceType, RowType, ProviderType, ProcType, ProcInv,
      MoneyInv, Kept, ReceiveWebhook, ClaimEvent, invoiceVars, subVars,
      providerVars
<1>24. ASSUME NEW e \in Events, FinalizeExhausted(e)
      PROVE  ProcInv'
  BY <1>24, PaymentKey, KeptStep, PaymentsAssumption
  DEF TypeOK, InvoiceType, RowType, ProviderType, ProcType, ProcInv,
      MoneyInv, Kept, FinalizeExhausted, MarkManual, subVars, providerVars,
      procVars
<1>25. ASSUME NEW i \in Keys, CustomerPays(i)
      PROVE  ProcInv'
  BY <1>25, KeptStep, PaymentsAssumption
  DEF TypeOK, InvoiceType, RowType, ProviderType, ProcType, ProcInv,
      MoneyInv, Kept, CustomerPays, invoiceVars, subVars, eventVars, procVars
<1>26. ASSUME NEW i \in Keys, HorizonPasses(i)
      PROVE  ProcInv'
  BY <1>26, KeptStep, PaymentsAssumption
  DEF TypeOK, InvoiceType, RowType, ProviderType, ProcType, ProcInv,
      MoneyInv, Kept, HorizonPasses, subVars, eventVars, providerVars,
      procVars
<1>27. ASSUME NEW r \in Refunds, ProviderRefunds(r)
      PROVE  ProcInv'
  BY <1>27, KeptStep, PaymentsAssumption
  DEF TypeOK, InvoiceType, RowType, ProviderType, ProcType, ProcInv,
      MoneyInv, Kept, ProviderRefunds, invoiceVars, subVars, eventVars,
      procVars
<1>28. ASSUME NEW r \in Refunds, RecordChargeback(r)
      PROVE  ProcInv'
  BY <1>28, KeptStep, PaymentsAssumption
  DEF TypeOK, InvoiceType, RowType, ProviderType, ProcType, ProcInv,
      MoneyInv, Kept, RecordChargeback, Reverse, subVars, eventVars,
      providerVars, procVars
<1>29. CASE SubscriptionStep
  BY <1>29, KeptStep, PaymentsAssumption
  DEF TypeOK, InvoiceType, RowType, ProviderType, ProcType, ProcInv,
      MoneyInv, Kept, SubscriptionStep, TermEnds, ExtendTrial,
      RefreshAICreditPeriod, UpgradePlan, CheckExpiredTrials,
      CheckGracePeriodExpired, Subscribe, invoiceVars, eventVars,
      providerVars, procVars
<1>30. CASE UNCHANGED vars
  BY <1>30
  DEF TypeOK, InvoiceType, RowType, ProviderType, ProcType, ProcInv,
      MoneyInv, Kept, vars, invoiceVars, subVars, eventVars, providerVars,
      procVars
<1> QED
  BY <1>1, <1>2, <1>3, <1>4, <1>5, <1>6, <1>7, <1>8, <1>9, <1>10, <1>11,
     <1>12, <1>13, <1>14, <1>15, <1>16, <1>17, <1>18, <1>19, <1>20, <1>21,
     <1>22, <1>23, <1>24, <1>25, <1>26, <1>27, <1>28, <1>29, <1>30
  DEF Next, Checkout, ProcessEvent, Reconcile, Environment, SubscriptionStep

(* Browser keys keep leading to invoices. *)
LEMMA AliasStep ==
    TypeOK /\ ProcInv /\ AliasInv /\ [Next]_vars => AliasInv'
<1> SUFFICES ASSUME TypeOK, ProcInv, AliasInv, [Next]_vars
             PROVE  AliasInv'
  OBVIOUS
<1>1. ASSUME NEW p \in Procs, NEW k \in Keys, SubscriptionCheckout(p, k)
      PROVE  AliasInv'
  BY <1>1, PaymentsAssumption, KeptStep
  DEF TypeOK, InvoiceType, RowType, AliasInv, ProcInv, Kept,
      SubscriptionCheckout, WorkOn, CreateInvoice, PendingIntents,
      CheckoutIntentForClientKey, invoiceVars, subVars, eventVars,
      providerVars
<1>2. ASSUME NEW p \in Procs, NEW k \in Keys, TopupCheckout(p, k)
      PROVE  AliasInv'
  BY <1>2, PaymentsAssumption, KeptStep
  DEF TypeOK, InvoiceType, RowType, AliasInv, ProcInv, Kept, TopupCheckout,
      WorkOn, CreateInvoice, PendingIntents, CheckoutIntentForClientKey,
      invoiceVars, subVars, eventVars, providerVars
<1>3. ASSUME NEW p \in Procs, BindClientKey(p)
      PROVE  AliasInv'
  BY <1>3, PaymentsAssumption, KeptStep
  DEF TypeOK, InvoiceType, RowType, AliasInv, ProcInv, Kept, BindClientKey,
      WorkOn, Idle, invoiceVars, subVars, eventVars, providerVars
<1>4. ASSUME NEW p \in Procs, ResumeBound(p)
      PROVE  AliasInv'
  BY <1>4, PaymentsAssumption, KeptStep
  DEF TypeOK, InvoiceType, RowType, AliasInv, ProcInv, Kept, ResumeBound,
      ResumeCheckout, WorkOn, Idle, MarkManual, CheckoutManualReason,
      subVars, eventVars, providerVars
<1>5. ASSUME NEW p \in Procs, NEW i \in Keys, ResumeIntent(p, i)
      PROVE  AliasInv'
  BY <1>5, PaymentsAssumption, KeptStep
  DEF TypeOK, InvoiceType, RowType, AliasInv, ProcInv, Kept, ResumeIntent,
      ResumeCheckout, WorkOn, Idle, MarkManual, CheckoutManualReason,
      subVars, eventVars, providerVars
<1>6. ASSUME NEW p \in Procs, ProviderCreates(p)
      PROVE  AliasInv'
  BY <1>6, PaymentsAssumption, KeptStep
  DEF TypeOK, InvoiceType, RowType, AliasInv, ProcInv, Kept, ProviderCreates,
      invoiceVars, subVars, eventVars
<1>7. ASSUME NEW p \in Procs, CheckoutCallFails(p)
      PROVE  AliasInv'
  BY <1>7, PaymentsAssumption, KeptStep
  DEF TypeOK, InvoiceType, RowType, AliasInv, ProcInv, Kept,
      CheckoutCallFails, Idle, invoiceVars, subVars, eventVars, providerVars
<1>8. ASSUME NEW p \in Procs, SaveCheckout(p)
      PROVE  AliasInv'
  BY <1>8, PaymentsAssumption, KeptStep
  DEF TypeOK, InvoiceType, RowType, AliasInv, ProcInv, Kept, SaveCheckout,
      Idle, subVars, eventVars, providerVars
<1>9. ASSUME NEW p \in Procs, EventNotConfirmed(p)
      PROVE  AliasInv'
  BY <1>9, PaymentKey, PaymentsAssumption, KeptStep
  DEF TypeOK, InvoiceType, RowType, AliasInv, ProcInv, Kept,
      EventNotConfirmed, Conclude, invoiceVars, subVars, eventVars,
      providerVars
<1>10. ASSUME NEW p \in Procs, QuarantineOddPayment(p)
      PROVE  AliasInv'
  BY <1>10, PaymentKey, PaymentsAssumption, KeptStep
  DEF TypeOK, InvoiceType, RowType, AliasInv, ProcInv, Kept,
      QuarantineOddPayment, Conclude, MarkManual, subVars, eventVars,
      providerVars
<1>11. ASSUME NEW p \in Procs, ApplyPaymentEvent(p)
      PROVE  AliasInv'
  BY <1>11, PaymentKey, PaymentsAssumption, KeptStep
  DEF TypeOK, InvoiceType, RowType, AliasInv, ProcInv, Kept,
      ApplyPaymentEvent, Conclude, PaymentSuccess, PaymentFailed, MarkManual,
      subVars, eventVars, providerVars
<1>12. ASSUME NEW p \in Procs, ApplyRefundEvent(p)
      PROVE  AliasInv'
  BY <1>12, PaymentsAssumption, KeptStep
  DEF TypeOK, InvoiceType, RowType, AliasInv, ProcInv, Kept,
      ApplyRefundEvent, Conclude, Reverse, subVars, eventVars, providerVars
<1>13. ASSUME NEW p \in Procs, FinalizeEvent(p)
      PROVE  AliasInv'
  BY <1>13, PaymentsAssumption, KeptStep
  DEF TypeOK, InvoiceType, RowType, AliasInv, ProcInv, Kept, FinalizeEvent,
      WriteDecision, Idle, invoiceVars, subVars, providerVars
<1>14. ASSUME NEW p \in Procs, NEW e \in Events, ReconcileEvent(p, e)
      PROVE  AliasInv'
  BY <1>14, PaymentsAssumption, KeptStep
  DEF TypeOK, InvoiceType, RowType, AliasInv, ProcInv, Kept, ReconcileEvent,
      ClaimEvent, invoiceVars, subVars, providerVars
<1>15. ASSUME NEW p \in Procs, NEW i \in Keys, ClaimProviderInvoice(p, i)
      PROVE  AliasInv'
  BY <1>15, PaymentsAssumption, KeptStep
  DEF TypeOK, InvoiceType, RowType, AliasInv, ProcInv, Kept,
      ClaimProviderInvoice, WorkOn, MarkManual, subVars, eventVars,
      providerVars, procVars
<1>16. ASSUME NEW p \in Procs, NEW i \in Keys, ForceProviderInvoice(p, i)
      PROVE  AliasInv'
  BY <1>16, PaymentsAssumption, KeptStep
  DEF TypeOK, InvoiceType, RowType, AliasInv, ProcInv, Kept,
      ForceProviderInvoice, WorkOn, invoiceVars, subVars, eventVars,
      providerVars
<1>17. ASSUME NEW p \in Procs, PollWaits(p)
      PROVE  AliasInv'
  BY <1>17, PaymentsAssumption, KeptStep
  DEF TypeOK, InvoiceType, RowType, AliasInv, ProcInv, Kept, PollWaits, Idle,
      invoiceVars, subVars, eventVars, providerVars
<1>18. ASSUME NEW p \in Procs, QuarantineOddPoll(p)
      PROVE  AliasInv'
  BY <1>18, PaymentsAssumption, KeptStep
  DEF TypeOK, InvoiceType, RowType, AliasInv, ProcInv, Kept,
      QuarantineOddPoll, Idle, MarkManual, subVars, eventVars, providerVars
<1>19. ASSUME NEW p \in Procs, ResolveRecovered(p)
      PROVE  AliasInv'
  BY <1>19, PaymentsAssumption, KeptStep
  DEF TypeOK, InvoiceType, RowType, AliasInv, ProcInv, Kept,
      ResolveRecovered, Idle, PaymentSuccess, PaymentFailed, MarkManual,
      subVars, eventVars, providerVars
<1>20. ASSUME NEW p \in Procs, ProcessPolled(p)
      PROVE  AliasInv'
  BY <1>20, PaymentsAssumption, KeptStep
  DEF TypeOK, InvoiceType, RowType, AliasInv, ProcInv, Kept, ProcessPolled,
      ClaimEvent, Idle, invoiceVars, subVars, providerVars
<1>21. ASSUME NEW p \in Procs, MarkStillPending(p)
      PROVE  AliasInv'
  BY <1>21, PaymentsAssumption, KeptStep
  DEF TypeOK, InvoiceType, RowType, AliasInv, ProcInv, Kept,
      MarkStillPending, Idle, MarkManual, subVars, eventVars, providerVars
<1>22. ASSUME NEW p \in Procs, Crash(p)
      PROVE  AliasInv'
  BY <1>22, PaymentsAssumption, KeptStep
  DEF TypeOK, InvoiceType, RowType, AliasInv, ProcInv, Kept, Crash, Idle,
      invoiceVars, subVars, providerVars
<1>23. ASSUME NEW p \in Procs, NEW e \in Events, ReceiveWebhook(p, e)
      PROVE  AliasInv'
  BY <1>23, PaymentKey, PaymentsAssumption, KeptStep
  DEF TypeOK, InvoiceType, RowType, AliasInv, ProcInv, Kept, ReceiveWebhook,
      ClaimEvent, invoiceVars, subVars, providerVars
<1>24. ASSUME NEW e \in Events, FinalizeExhausted(e)
      PROVE  AliasInv'
  BY <1>24, PaymentKey, PaymentsAssumption, KeptStep
  DEF TypeOK, InvoiceType, RowType, AliasInv, ProcInv, Kept,
      FinalizeExhausted, MarkManual, subVars, providerVars, procVars
<1>25. ASSUME NEW i \in Keys, CustomerPays(i)
      PROVE  AliasInv'
  BY <1>25, PaymentsAssumption, KeptStep
  DEF TypeOK, InvoiceType, RowType, AliasInv, ProcInv, Kept, CustomerPays,
      invoiceVars, subVars, eventVars, procVars
<1>26. ASSUME NEW i \in Keys, HorizonPasses(i)
      PROVE  AliasInv'
  BY <1>26, PaymentsAssumption, KeptStep
  DEF TypeOK, InvoiceType, RowType, AliasInv, ProcInv, Kept, HorizonPasses,
      subVars, eventVars, providerVars, procVars
<1>27. ASSUME NEW r \in Refunds, ProviderRefunds(r)
      PROVE  AliasInv'
  BY <1>27, PaymentsAssumption, KeptStep
  DEF TypeOK, InvoiceType, RowType, AliasInv, ProcInv, Kept, ProviderRefunds,
      invoiceVars, subVars, eventVars, procVars
<1>28. ASSUME NEW r \in Refunds, RecordChargeback(r)
      PROVE  AliasInv'
  BY <1>28, PaymentsAssumption, KeptStep
  DEF TypeOK, InvoiceType, RowType, AliasInv, ProcInv, Kept,
      RecordChargeback, Reverse, subVars, eventVars, providerVars, procVars
<1>29. CASE SubscriptionStep
  BY <1>29, PaymentsAssumption, KeptStep
  DEF TypeOK, InvoiceType, RowType, AliasInv, ProcInv, Kept,
      SubscriptionStep, TermEnds, ExtendTrial, RefreshAICreditPeriod,
      UpgradePlan, CheckExpiredTrials, CheckGracePeriodExpired, Subscribe,
      invoiceVars, eventVars, providerVars, procVars
<1>30. CASE UNCHANGED vars
  BY <1>30
  DEF TypeOK, InvoiceType, RowType, AliasInv, ProcInv, Kept, vars,
      invoiceVars, subVars, eventVars, providerVars, procVars
<1> QED
  BY <1>1, <1>2, <1>3, <1>4, <1>5, <1>6, <1>7, <1>8, <1>9, <1>10, <1>11,
     <1>12, <1>13, <1>14, <1>15, <1>16, <1>17, <1>18, <1>19, <1>20, <1>21,
     <1>22, <1>23, <1>24, <1>25, <1>26, <1>27, <1>28, <1>29, <1>30
  DEF Next, Checkout, ProcessEvent, Reconcile, Environment, SubscriptionStep

(* Every writer of an invoice or a payment keeps the books. *)
LEMMA MoneyStep ==
    TypeOK /\ ProcInv /\ MoneyInv /\ [Next]_vars => MoneyInv'
<1> SUFFICES ASSUME TypeOK, ProcInv, MoneyInv, [Next]_vars
             PROVE  MoneyInv'
  OBVIOUS
<1>1. ASSUME NEW p \in Procs, NEW k \in Keys, SubscriptionCheckout(p, k)
      PROVE  MoneyInv'
  BY <1>1, PaymentsAssumption
  DEF TypeOK, InvoiceType, RowType, ProviderType, ProcType, ProcInv,
      MoneyInv, SettledStatuses, SubscriptionCheckout, WorkOn, CreateInvoice,
      PendingIntents, CheckoutIntentForClientKey, invoiceVars, subVars,
      eventVars, providerVars
<1>2. ASSUME NEW p \in Procs, NEW k \in Keys, TopupCheckout(p, k)
      PROVE  MoneyInv'
  BY <1>2, PaymentsAssumption
  DEF TypeOK, InvoiceType, RowType, ProviderType, ProcType, ProcInv,
      MoneyInv, SettledStatuses, TopupCheckout, WorkOn, CreateInvoice,
      PendingIntents, CheckoutIntentForClientKey, invoiceVars, subVars,
      eventVars, providerVars
<1>3. ASSUME NEW p \in Procs, BindClientKey(p)
      PROVE  MoneyInv'
  BY <1>3, PaymentsAssumption
  DEF TypeOK, InvoiceType, RowType, ProviderType, ProcType, ProcInv,
      MoneyInv, SettledStatuses, BindClientKey, WorkOn, Idle, invoiceVars,
      subVars, eventVars, providerVars
<1>4. ASSUME NEW p \in Procs, ResumeBound(p)
      PROVE  MoneyInv'
  BY <1>4, PaymentsAssumption
  DEF TypeOK, InvoiceType, RowType, ProviderType, ProcType, ProcInv,
      MoneyInv, SettledStatuses, ResumeBound, ResumeCheckout, WorkOn, Idle,
      MarkManual, CheckoutManualReason, subVars, eventVars, providerVars
<1>5. ASSUME NEW p \in Procs, NEW i \in Keys, ResumeIntent(p, i)
      PROVE  MoneyInv'
  BY <1>5, PaymentsAssumption
  DEF TypeOK, InvoiceType, RowType, ProviderType, ProcType, ProcInv,
      MoneyInv, SettledStatuses, ResumeIntent, ResumeCheckout, WorkOn, Idle,
      MarkManual, CheckoutManualReason, subVars, eventVars, providerVars
<1>6. ASSUME NEW p \in Procs, ProviderCreates(p)
      PROVE  MoneyInv'
  BY <1>6, PaymentsAssumption
  DEF TypeOK, InvoiceType, RowType, ProviderType, ProcType, ProcInv,
      MoneyInv, SettledStatuses, ProviderCreates, invoiceVars, subVars,
      eventVars
<1>7. ASSUME NEW p \in Procs, CheckoutCallFails(p)
      PROVE  MoneyInv'
  BY <1>7, PaymentsAssumption
  DEF TypeOK, InvoiceType, RowType, ProviderType, ProcType, ProcInv,
      MoneyInv, SettledStatuses, CheckoutCallFails, Idle, invoiceVars,
      subVars, eventVars, providerVars
<1>8. ASSUME NEW p \in Procs, SaveCheckout(p)
      PROVE  MoneyInv'
  BY <1>8, PaymentsAssumption
  DEF TypeOK, InvoiceType, RowType, ProviderType, ProcType, ProcInv,
      MoneyInv, SettledStatuses, SaveCheckout, Idle, subVars, eventVars,
      providerVars
<1>9. ASSUME NEW p \in Procs, EventNotConfirmed(p)
      PROVE  MoneyInv'
  BY <1>9, PaymentKey, PaymentsAssumption
  DEF TypeOK, InvoiceType, RowType, ProviderType, ProcType, ProcInv,
      MoneyInv, SettledStatuses, EventNotConfirmed, Conclude, invoiceVars,
      subVars, eventVars, providerVars
<1>10. ASSUME NEW p \in Procs, QuarantineOddPayment(p)
      PROVE  MoneyInv'
  BY <1>10, PaymentKey, PaymentsAssumption
  DEF TypeOK, InvoiceType, RowType, ProviderType, ProcType, ProcInv,
      MoneyInv, SettledStatuses, QuarantineOddPayment, Conclude, MarkManual,
      subVars, eventVars, providerVars
<1>11. ASSUME NEW p \in Procs, ApplyPaymentEvent(p)
      PROVE  MoneyInv'
  <2> DEFINE i == PaymentOf(ev[p])
  <2>1. i \in Keys /\ i \notin odd
    BY <1>11, PaymentKey DEF ApplyPaymentEvent, Confirmed, ProcInv
  <2>2. UNCHANGED <<payment_id, payment, created, odd>>
    BY <1>11 DEF ApplyPaymentEvent, providerVars
  <2>3. CASE PaymentSuccess(i) /\ payment[i] = "succeeded"
    <3>1. \/ UNCHANGED <<status, paid_at, granted>>
          \/ MarkManual(i) /\ UNCHANGED <<paid_at, granted>>
             /\ status[i] # "absent"
          \/ /\ status' = [status EXCEPT ![i] = "paid"]
             /\ paid_at' = [paid_at EXCEPT ![i] = TRUE]
             /\ granted' = [granted EXCEPT ![i] = @ + 1]
             /\ ~paid_at[i]
      BY <2>1, <2>3
      DEF PaymentSuccess, SuccessApplies, UnsettledManual, BlocksCheckout,
          MoneyInv
    <3> QED
      BY <2>1, <2>2, <2>3, <3>1
      DEF MoneyInv, TypeOK, InvoiceType, ProviderType, SettledStatuses,
          MarkManual
  <2>4. CASE PaymentFailed(i) /\ payment[i] = "canceled"
    BY <2>1, <2>2, <2>4
    DEF MoneyInv, TypeOK, InvoiceType, ProviderType, SettledStatuses,
        MarkManual, PaymentFailed
  <2> QED
    BY <1>11, <2>3, <2>4, PaymentsAssumption
    DEF ApplyPaymentEvent, Confirmed, Announced, Events, ProcInv
<1>12. ASSUME NEW p \in Procs, ApplyRefundEvent(p)
      PROVE  MoneyInv'
  <2> DEFINE i == RefundOf[ev[p][2]]
  <2>1. /\ ev[p][2] \in Refunds /\ i \in Keys
        /\ payment[i] = "succeeded" /\ status[i] # "absent"
    BY <1>12, PaymentsAssumption
    DEF ApplyRefundEvent, Confirmed, ProcInv, Events, Announced, PaymentOf,
        MoneyInv
  <2>2. UNCHANGED <<payment_id, payment, created, odd, paid_at, granted>>
    BY <1>12 DEF ApplyRefundEvent, providerVars
  <2>3. \/ UNCHANGED status
        \/ \E s \in {"manual_review", "refunded", "partially_refunded"} :
              status' = [status EXCEPT ![i] = s]
    <3>1. PICK s \in BOOLEAN : Reverse(ev[p][2], s)
      BY <1>12 DEF ApplyRefundEvent
    <3> QED
      BY <3>1, Zenon DEF Reverse
  <2> QED
    BY <2>1, <2>2, <2>3
    DEF MoneyInv, TypeOK, InvoiceType, ProviderType, SettledStatuses
<1>13. ASSUME NEW p \in Procs, FinalizeEvent(p)
      PROVE  MoneyInv'
  BY <1>13, PaymentsAssumption
  DEF TypeOK, InvoiceType, RowType, ProviderType, ProcType, ProcInv,
      MoneyInv, SettledStatuses, FinalizeEvent, WriteDecision, Idle,
      invoiceVars, subVars, providerVars
<1>14. ASSUME NEW p \in Procs, NEW e \in Events, ReconcileEvent(p, e)
      PROVE  MoneyInv'
  BY <1>14, PaymentsAssumption
  DEF TypeOK, InvoiceType, RowType, ProviderType, ProcType, ProcInv,
      MoneyInv, SettledStatuses, ReconcileEvent, ClaimEvent, invoiceVars,
      subVars, providerVars
<1>15. ASSUME NEW p \in Procs, NEW i \in Keys, ClaimProviderInvoice(p, i)
      PROVE  MoneyInv'
  BY <1>15, PaymentsAssumption
  DEF TypeOK, InvoiceType, RowType, ProviderType, ProcType, ProcInv,
      MoneyInv, SettledStatuses, ClaimProviderInvoice, WorkOn, MarkManual,
      subVars, eventVars, providerVars, procVars
<1>16. ASSUME NEW p \in Procs, NEW i \in Keys, ForceProviderInvoice(p, i)
      PROVE  MoneyInv'
  BY <1>16, PaymentsAssumption
  DEF TypeOK, InvoiceType, RowType, ProviderType, ProcType, ProcInv,
      MoneyInv, SettledStatuses, ForceProviderInvoice, WorkOn, invoiceVars,
      subVars, eventVars, providerVars
<1>17. ASSUME NEW p \in Procs, PollWaits(p)
      PROVE  MoneyInv'
  BY <1>17, PaymentsAssumption
  DEF TypeOK, InvoiceType, RowType, ProviderType, ProcType, ProcInv,
      MoneyInv, SettledStatuses, PollWaits, Idle, invoiceVars, subVars,
      eventVars, providerVars
<1>18. ASSUME NEW p \in Procs, QuarantineOddPoll(p)
      PROVE  MoneyInv'
  BY <1>18, PaymentsAssumption
  DEF TypeOK, InvoiceType, RowType, ProviderType, ProcType, ProcInv,
      MoneyInv, SettledStatuses, QuarantineOddPoll, Idle, MarkManual,
      subVars, eventVars, providerVars
<1>19. ASSUME NEW p \in Procs, ResolveRecovered(p)
      PROVE  MoneyInv'
  <2> DEFINE i == inv[p]
  <2>1. i \in Keys /\ i \notin odd
    BY <1>19 DEF ResolveRecovered, Polled, ProcInv
  <2>2. UNCHANGED <<payment_id, payment, created, odd>>
    BY <1>19 DEF ResolveRecovered, providerVars
  <2>3. CASE PaymentSuccess(i) /\ payment[i] = "succeeded"
    <3>1. \/ UNCHANGED <<status, paid_at, granted>>
          \/ MarkManual(i) /\ UNCHANGED <<paid_at, granted>>
             /\ status[i] # "absent"
          \/ /\ status' = [status EXCEPT ![i] = "paid"]
             /\ paid_at' = [paid_at EXCEPT ![i] = TRUE]
             /\ granted' = [granted EXCEPT ![i] = @ + 1]
             /\ ~paid_at[i]
      BY <2>1, <2>3
      DEF PaymentSuccess, SuccessApplies, UnsettledManual, BlocksCheckout,
          MoneyInv
    <3> QED
      BY <2>1, <2>2, <2>3, <3>1
      DEF MoneyInv, TypeOK, InvoiceType, ProviderType, SettledStatuses,
          MarkManual
  <2>4. CASE PaymentFailed(i) /\ payment[i] = "canceled"
    BY <2>1, <2>2, <2>4
    DEF MoneyInv, TypeOK, InvoiceType, ProviderType, SettledStatuses,
        MarkManual, PaymentFailed
  <2> QED
    BY <1>19, <2>3, <2>4, PaymentsAssumption DEF ResolveRecovered, Polled
<1>20. ASSUME NEW p \in Procs, ProcessPolled(p)
      PROVE  MoneyInv'
  BY <1>20, PaymentsAssumption
  DEF TypeOK, InvoiceType, RowType, ProviderType, ProcType, ProcInv,
      MoneyInv, SettledStatuses, ProcessPolled, ClaimEvent, Idle,
      invoiceVars, subVars, providerVars
<1>21. ASSUME NEW p \in Procs, MarkStillPending(p)
      PROVE  MoneyInv'
  BY <1>21, PaymentsAssumption
  DEF TypeOK, InvoiceType, RowType, ProviderType, ProcType, ProcInv,
      MoneyInv, SettledStatuses, MarkStillPending, Idle, MarkManual, subVars,
      eventVars, providerVars
<1>22. ASSUME NEW p \in Procs, Crash(p)
      PROVE  MoneyInv'
  BY <1>22, PaymentsAssumption
  DEF TypeOK, InvoiceType, RowType, ProviderType, ProcType, ProcInv,
      MoneyInv, SettledStatuses, Crash, Idle, invoiceVars, subVars,
      providerVars
<1>23. ASSUME NEW p \in Procs, NEW e \in Events, ReceiveWebhook(p, e)
      PROVE  MoneyInv'
  BY <1>23, PaymentKey, PaymentsAssumption
  DEF TypeOK, InvoiceType, RowType, ProviderType, ProcType, ProcInv,
      MoneyInv, SettledStatuses, ReceiveWebhook, ClaimEvent, invoiceVars,
      subVars, providerVars
<1>24. ASSUME NEW e \in Events, FinalizeExhausted(e)
      PROVE  MoneyInv'
  BY <1>24, PaymentKey, PaymentsAssumption
  DEF TypeOK, InvoiceType, RowType, ProviderType, ProcType, ProcInv,
      MoneyInv, SettledStatuses, FinalizeExhausted, MarkManual, subVars,
      providerVars, procVars
<1>25. ASSUME NEW i \in Keys, CustomerPays(i)
      PROVE  MoneyInv'
  BY <1>25, PaymentsAssumption
  DEF TypeOK, InvoiceType, RowType, ProviderType, ProcType, ProcInv,
      MoneyInv, SettledStatuses, CustomerPays, invoiceVars, subVars,
      eventVars, procVars
<1>26. ASSUME NEW i \in Keys, HorizonPasses(i)
      PROVE  MoneyInv'
  BY <1>26, PaymentsAssumption
  DEF TypeOK, InvoiceType, RowType, ProviderType, ProcType, ProcInv,
      MoneyInv, SettledStatuses, HorizonPasses, subVars, eventVars,
      providerVars, procVars
<1>27. ASSUME NEW r \in Refunds, ProviderRefunds(r)
      PROVE  MoneyInv'
  BY <1>27, PaymentsAssumption
  DEF TypeOK, InvoiceType, RowType, ProviderType, ProcType, ProcInv,
      MoneyInv, SettledStatuses, ProviderRefunds, invoiceVars, subVars,
      eventVars, procVars
<1>28. ASSUME NEW r \in Refunds, RecordChargeback(r)
      PROVE  MoneyInv'
  BY <1>28, PaymentsAssumption
  DEF TypeOK, InvoiceType, RowType, ProviderType, ProcType, ProcInv,
      MoneyInv, SettledStatuses, RecordChargeback, Reverse, subVars,
      eventVars, providerVars, procVars
<1>29. CASE SubscriptionStep
  BY <1>29, PaymentsAssumption
  DEF TypeOK, InvoiceType, RowType, ProviderType, ProcType, ProcInv,
      MoneyInv, SettledStatuses, SubscriptionStep, TermEnds, ExtendTrial,
      RefreshAICreditPeriod, UpgradePlan, CheckExpiredTrials,
      CheckGracePeriodExpired, Subscribe, invoiceVars, eventVars,
      providerVars, procVars
<1>30. CASE UNCHANGED vars
  BY <1>30
  DEF TypeOK, InvoiceType, RowType, ProviderType, ProcType, ProcInv,
      MoneyInv, SettledStatuses, vars, invoiceVars, subVars, eventVars,
      providerVars, procVars
<1> QED
  BY <1>1, <1>2, <1>3, <1>4, <1>5, <1>6, <1>7, <1>8, <1>9, <1>10, <1>11,
     <1>12, <1>13, <1>14, <1>15, <1>16, <1>17, <1>18, <1>19, <1>20, <1>21,
     <1>22, <1>23, <1>24, <1>25, <1>26, <1>27, <1>28, <1>29, <1>30
  DEF Next, Checkout, ProcessEvent, Reconcile, Environment, SubscriptionStep

(* A checkout that can still be paid never reopens. *)
NotReopened(i) ==
    /\ payment'[i] \in {"none", "pending"} => payment[i] \in {"none", "pending"}
    /\ status'[i] # "absent" =>
         \/ status[i] # "absent"
         \/ IsTopup(i)
         \/ \A j \in Keys : ~Unsettled(j)

(* Nobody reopens a settled checkout or opens a second one. *)
LEMMA NotReopenedStep ==
    TypeOK /\ ProcInv /\ MoneyInv /\ [Next]_vars =>
       \A q \in Keys : NotReopened(q)
<1> SUFFICES ASSUME TypeOK, ProcInv, MoneyInv, [Next]_vars, NEW q \in Keys
             PROVE  NotReopened(q)
  OBVIOUS
<1>1. ASSUME NEW p \in Procs, NEW k \in Keys, SubscriptionCheckout(p, k)
      PROVE  NotReopened(q)
  <2>1. UNCHANGED payment
    BY <1>1 DEF SubscriptionCheckout, providerVars
  <2>2. CASE UNCHANGED invoiceVars
    BY <2>1, <2>2 DEF invoiceVars, NotReopened
  <2>3. CASE CreateInvoice(k) /\ PendingIntents(FALSE) = {}
    <3>1. ASSUME NEW j \in Keys, Unsettled(j) PROVE FALSE
      <4>1. status[j] # "pending"
        BY <2>3, <3>1 DEF PendingIntents, Unsettled
      <4>2. ~BlocksCheckout(j)
        BY <1>1, <3>1 DEF SubscriptionCheckout, Unsettled
      <4> QED
        BY <3>1, <4>1, <4>2
        DEF Unsettled, BlocksCheckout, MoneyInv, SettledStatuses, TypeOK,
            InvoiceType, InvoiceStatuses
    <3> QED
      BY <2>1, <2>3, <3>1 DEF CreateInvoice, TypeOK, InvoiceType, NotReopened
  <2> QED
    BY <1>1, <2>2, <2>3 DEF SubscriptionCheckout
<1>2. ASSUME NEW p \in Procs, NEW k \in Keys, TopupCheckout(p, k)
      PROVE  NotReopened(q)
  BY <1>2, PaymentsAssumption
  DEF TypeOK, InvoiceType, RowType, ProviderType, ProcInv, MoneyInv,
      NotReopened, TopupCheckout, WorkOn, CreateInvoice, PendingIntents,
      CheckoutIntentForClientKey, invoiceVars, subVars, eventVars,
      providerVars
<1>3. ASSUME NEW p \in Procs, BindClientKey(p)
      PROVE  NotReopened(q)
  BY <1>3, PaymentsAssumption
  DEF TypeOK, InvoiceType, RowType, ProviderType, ProcInv, MoneyInv,
      NotReopened, BindClientKey, WorkOn, Idle, invoiceVars, subVars,
      eventVars, providerVars
<1>4. ASSUME NEW p \in Procs, ResumeBound(p)
      PROVE  NotReopened(q)
  BY <1>4, PaymentsAssumption
  DEF TypeOK, InvoiceType, RowType, ProviderType, ProcInv, MoneyInv,
      NotReopened, ResumeBound, ResumeCheckout, WorkOn, Idle, MarkManual,
      CheckoutManualReason, subVars, eventVars, providerVars
<1>5. ASSUME NEW p \in Procs, NEW i \in Keys, ResumeIntent(p, i)
      PROVE  NotReopened(q)
  BY <1>5, PaymentsAssumption
  DEF TypeOK, InvoiceType, RowType, ProviderType, ProcInv, MoneyInv,
      NotReopened, ResumeIntent, ResumeCheckout, WorkOn, Idle, MarkManual,
      CheckoutManualReason, subVars, eventVars, providerVars
<1>6. ASSUME NEW p \in Procs, ProviderCreates(p)
      PROVE  NotReopened(q)
  BY <1>6, PaymentsAssumption
  DEF TypeOK, InvoiceType, RowType, ProviderType, ProcInv, MoneyInv,
      NotReopened, ProviderCreates, invoiceVars, subVars, eventVars
<1>7. ASSUME NEW p \in Procs, CheckoutCallFails(p)
      PROVE  NotReopened(q)
  BY <1>7, PaymentsAssumption
  DEF TypeOK, InvoiceType, RowType, ProviderType, ProcInv, MoneyInv,
      NotReopened, CheckoutCallFails, Idle, invoiceVars, subVars, eventVars,
      providerVars
<1>8. ASSUME NEW p \in Procs, SaveCheckout(p)
      PROVE  NotReopened(q)
  BY <1>8, PaymentsAssumption
  DEF TypeOK, InvoiceType, RowType, ProviderType, ProcInv, MoneyInv,
      NotReopened, SaveCheckout, Idle, subVars, eventVars, providerVars
<1>9. ASSUME NEW p \in Procs, EventNotConfirmed(p)
      PROVE  NotReopened(q)
  BY <1>9, PaymentKey, PaymentsAssumption
  DEF TypeOK, InvoiceType, RowType, ProviderType, ProcInv, MoneyInv,
      NotReopened, EventNotConfirmed, Conclude, invoiceVars, subVars,
      eventVars, providerVars
<1>10. ASSUME NEW p \in Procs, QuarantineOddPayment(p)
      PROVE  NotReopened(q)
  <2>1. UNCHANGED payment
    BY <1>10 DEF QuarantineOddPayment, providerVars
  <2>2. PaymentOf(ev[p]) \in Keys /\ status[PaymentOf(ev[p])] # "absent"
    BY <1>10, PaymentKey DEF QuarantineOddPayment, Confirmed, MoneyInv, ProcInv
  <2>3. \A j \in Keys : j # PaymentOf(ev[p]) => status'[j] = status[j]
    BY <1>10, <2>2
    DEF QuarantineOddPayment, PaymentSuccess, PaymentFailed, MarkManual,
        TypeOK, InvoiceType
  <2> QED
    BY <2>1, <2>2, <2>3 DEF NotReopened
<1>11. ASSUME NEW p \in Procs, ApplyPaymentEvent(p)
      PROVE  NotReopened(q)
  <2>1. UNCHANGED payment
    BY <1>11 DEF ApplyPaymentEvent, providerVars
  <2>2. PaymentOf(ev[p]) \in Keys /\ status[PaymentOf(ev[p])] # "absent"
    BY <1>11, PaymentKey DEF ApplyPaymentEvent, Confirmed, MoneyInv, ProcInv
  <2>3. \A j \in Keys : j # PaymentOf(ev[p]) => status'[j] = status[j]
    BY <1>11, <2>2
    DEF ApplyPaymentEvent, PaymentSuccess, PaymentFailed, MarkManual, TypeOK,
        InvoiceType
  <2> QED
    BY <2>1, <2>2, <2>3 DEF NotReopened
<1>12. ASSUME NEW p \in Procs, ApplyRefundEvent(p)
      PROVE  NotReopened(q)
  <2> DEFINE r == ev[p][2]
  <2>1. UNCHANGED payment
    BY <1>12 DEF ApplyRefundEvent, providerVars
  <2>2. RefundOf[r] \in Keys /\ status[RefundOf[r]] # "absent"
    BY <1>12, PaymentKey
    DEF ApplyRefundEvent, Confirmed, MoneyInv, ProcInv, PaymentOf
  <2>3. PICK s \in BOOLEAN : Reverse(r, s)
    BY <1>12 DEF ApplyRefundEvent
  <2>4. \/ UNCHANGED status
        \/ \E v : status' = [status EXCEPT ![RefundOf[r]] = v]
    BY <2>3, Zenon DEF Reverse
  <2>5. \A j \in Keys : j # RefundOf[r] => status'[j] = status[j]
    BY <2>2, <2>4 DEF TypeOK, InvoiceType
  <2> QED
    BY <2>1, <2>2, <2>5 DEF NotReopened
<1>13. ASSUME NEW p \in Procs, FinalizeEvent(p)
      PROVE  NotReopened(q)
  BY <1>13, PaymentsAssumption
  DEF TypeOK, InvoiceType, RowType, ProviderType, ProcInv, MoneyInv,
      NotReopened, FinalizeEvent, WriteDecision, Idle, invoiceVars, subVars,
      providerVars
<1>14. ASSUME NEW p \in Procs, NEW e \in Events, ReconcileEvent(p, e)
      PROVE  NotReopened(q)
  BY <1>14, PaymentsAssumption
  DEF TypeOK, InvoiceType, RowType, ProviderType, ProcInv, MoneyInv,
      NotReopened, ReconcileEvent, ClaimEvent, invoiceVars, subVars,
      providerVars
<1>15. ASSUME NEW p \in Procs, NEW i \in Keys, ClaimProviderInvoice(p, i)
      PROVE  NotReopened(q)
  BY <1>15, PaymentsAssumption
  DEF TypeOK, InvoiceType, RowType, ProviderType, ProcInv, MoneyInv,
      NotReopened, ClaimProviderInvoice, WorkOn, MarkManual, subVars,
      eventVars, providerVars, procVars
<1>16. ASSUME NEW p \in Procs, NEW i \in Keys, ForceProviderInvoice(p, i)
      PROVE  NotReopened(q)
  BY <1>16, PaymentsAssumption
  DEF TypeOK, InvoiceType, RowType, ProviderType, ProcInv, MoneyInv,
      NotReopened, ForceProviderInvoice, WorkOn, invoiceVars, subVars,
      eventVars, providerVars
<1>17. ASSUME NEW p \in Procs, PollWaits(p)
      PROVE  NotReopened(q)
  BY <1>17, PaymentsAssumption
  DEF TypeOK, InvoiceType, RowType, ProviderType, ProcInv, MoneyInv,
      NotReopened, PollWaits, Idle, invoiceVars, subVars, eventVars,
      providerVars
<1>18. ASSUME NEW p \in Procs, QuarantineOddPoll(p)
      PROVE  NotReopened(q)
  <2>1. UNCHANGED payment
    BY <1>18 DEF QuarantineOddPoll, providerVars
  <2>2. inv[p] \in Keys /\ status[inv[p]] # "absent"
    BY <1>18 DEF QuarantineOddPoll, Polled, MoneyInv, ProcInv
  <2>3. \A j \in Keys : j # inv[p] => status'[j] = status[j]
    BY <1>18, <2>2
    DEF QuarantineOddPoll, PaymentSuccess, PaymentFailed, MarkManual, TypeOK,
        InvoiceType
  <2> QED
    BY <2>1, <2>2, <2>3 DEF NotReopened
<1>19. ASSUME NEW p \in Procs, ResolveRecovered(p)
      PROVE  NotReopened(q)
  <2>1. UNCHANGED payment
    BY <1>19 DEF ResolveRecovered, providerVars
  <2>2. inv[p] \in Keys /\ status[inv[p]] # "absent"
    BY <1>19 DEF ResolveRecovered, Polled, MoneyInv, ProcInv
  <2>3. \A j \in Keys : j # inv[p] => status'[j] = status[j]
    BY <1>19, <2>2
    DEF ResolveRecovered, PaymentSuccess, PaymentFailed, MarkManual, TypeOK,
        InvoiceType
  <2> QED
    BY <2>1, <2>2, <2>3 DEF NotReopened
<1>20. ASSUME NEW p \in Procs, ProcessPolled(p)
      PROVE  NotReopened(q)
  BY <1>20, PaymentsAssumption
  DEF TypeOK, InvoiceType, RowType, ProviderType, ProcInv, MoneyInv,
      NotReopened, ProcessPolled, ClaimEvent, Idle, invoiceVars, subVars,
      providerVars
<1>21. ASSUME NEW p \in Procs, MarkStillPending(p)
      PROVE  NotReopened(q)
  BY <1>21, PaymentsAssumption
  DEF TypeOK, InvoiceType, RowType, ProviderType, ProcInv, MoneyInv,
      NotReopened, MarkStillPending, Idle, MarkManual, subVars, eventVars,
      providerVars
<1>22. ASSUME NEW p \in Procs, Crash(p)
      PROVE  NotReopened(q)
  BY <1>22, PaymentsAssumption
  DEF TypeOK, InvoiceType, RowType, ProviderType, ProcInv, MoneyInv,
      NotReopened, Crash, Idle, invoiceVars, subVars, providerVars
<1>23. ASSUME NEW p \in Procs, NEW e \in Events, ReceiveWebhook(p, e)
      PROVE  NotReopened(q)
  BY <1>23, PaymentKey, PaymentsAssumption
  DEF TypeOK, InvoiceType, RowType, ProviderType, ProcInv, MoneyInv,
      NotReopened, ReceiveWebhook, ClaimEvent, invoiceVars, subVars,
      providerVars
<1>24. ASSUME NEW e \in Events, FinalizeExhausted(e)
      PROVE  NotReopened(q)
  BY <1>24, PaymentKey, PaymentsAssumption
  DEF TypeOK, InvoiceType, RowType, ProviderType, ProcInv, MoneyInv,
      NotReopened, FinalizeExhausted, MarkManual, subVars, providerVars,
      procVars
<1>25. ASSUME NEW i \in Keys, CustomerPays(i)
      PROVE  NotReopened(q)
  BY <1>25, PaymentsAssumption
  DEF TypeOK, InvoiceType, RowType, ProviderType, ProcInv, MoneyInv,
      NotReopened, CustomerPays, invoiceVars, subVars, eventVars, procVars
<1>26. ASSUME NEW i \in Keys, HorizonPasses(i)
      PROVE  NotReopened(q)
  BY <1>26, PaymentsAssumption
  DEF TypeOK, InvoiceType, RowType, ProviderType, ProcInv, MoneyInv,
      NotReopened, HorizonPasses, subVars, eventVars, providerVars, procVars
<1>27. ASSUME NEW r \in Refunds, ProviderRefunds(r)
      PROVE  NotReopened(q)
  BY <1>27, PaymentsAssumption
  DEF TypeOK, InvoiceType, RowType, ProviderType, ProcInv, MoneyInv,
      NotReopened, ProviderRefunds, invoiceVars, subVars, eventVars, procVars
<1>28. ASSUME NEW r \in Refunds, RecordChargeback(r)
      PROVE  NotReopened(q)
  BY <1>28, PaymentsAssumption
  DEF TypeOK, InvoiceType, RowType, ProviderType, ProcInv, MoneyInv,
      NotReopened, RecordChargeback, Reverse, subVars, eventVars,
      providerVars, procVars
<1>29. CASE SubscriptionStep
  BY <1>29, PaymentsAssumption
  DEF TypeOK, InvoiceType, RowType, ProviderType, ProcInv, MoneyInv,
      NotReopened, SubscriptionStep, TermEnds, ExtendTrial,
      RefreshAICreditPeriod, UpgradePlan, CheckExpiredTrials,
      CheckGracePeriodExpired, Subscribe, invoiceVars, eventVars,
      providerVars, procVars
<1>30. CASE UNCHANGED vars
  BY <1>30
  DEF TypeOK, InvoiceType, RowType, ProviderType, ProcInv, MoneyInv,
      NotReopened, vars, invoiceVars, subVars, eventVars, providerVars,
      procVars
<1> QED
  BY <1>1, <1>2, <1>3, <1>4, <1>5, <1>6, <1>7, <1>8, <1>9, <1>10, <1>11,
     <1>12, <1>13, <1>14, <1>15, <1>16, <1>17, <1>18, <1>19, <1>20, <1>21,
     <1>22, <1>23, <1>24, <1>25, <1>26, <1>27, <1>28, <1>29, <1>30
  DEF Next, Checkout, ProcessEvent, Reconcile, Environment, SubscriptionStep

(* Of two missing invoices a step creates one. *)
OneCreated ==
    \A i, j \in Keys :
       status[i] = "absent" /\ status[j] = "absent"
       /\ status'[i] # "absent" /\ status'[j] # "absent" => i = j

(* One step creates at most one invoice. *)
LEMMA OneCreatedStep ==
    TypeOK /\ ProcInv /\ MoneyInv /\ [Next]_vars => OneCreated
<1> SUFFICES ASSUME TypeOK, ProcInv, MoneyInv, [Next]_vars
             PROVE  OneCreated
  OBVIOUS
<1>1. ASSUME NEW p \in Procs, NEW k \in Keys, SubscriptionCheckout(p, k)
      PROVE  OneCreated
  BY <1>1, PaymentsAssumption
  DEF TypeOK, InvoiceType, RowType, ProviderType, ProcInv, MoneyInv,
      OneCreated, SubscriptionCheckout, WorkOn, CreateInvoice,
      PendingIntents, CheckoutIntentForClientKey, invoiceVars, subVars,
      eventVars, providerVars
<1>2. ASSUME NEW p \in Procs, NEW k \in Keys, TopupCheckout(p, k)
      PROVE  OneCreated
  BY <1>2, PaymentsAssumption
  DEF TypeOK, InvoiceType, RowType, ProviderType, ProcInv, MoneyInv,
      OneCreated, TopupCheckout, WorkOn, CreateInvoice, PendingIntents,
      CheckoutIntentForClientKey, invoiceVars, subVars, eventVars,
      providerVars
<1>3. ASSUME NEW p \in Procs, BindClientKey(p)
      PROVE  OneCreated
  BY <1>3, PaymentsAssumption
  DEF TypeOK, InvoiceType, RowType, ProviderType, ProcInv, MoneyInv,
      OneCreated, BindClientKey, WorkOn, Idle, invoiceVars, subVars,
      eventVars, providerVars
<1>4. ASSUME NEW p \in Procs, ResumeBound(p)
      PROVE  OneCreated
  BY <1>4, PaymentsAssumption
  DEF TypeOK, InvoiceType, RowType, ProviderType, ProcInv, MoneyInv,
      OneCreated, ResumeBound, ResumeCheckout, WorkOn, Idle, MarkManual,
      CheckoutManualReason, subVars, eventVars, providerVars
<1>5. ASSUME NEW p \in Procs, NEW i \in Keys, ResumeIntent(p, i)
      PROVE  OneCreated
  BY <1>5, PaymentsAssumption
  DEF TypeOK, InvoiceType, RowType, ProviderType, ProcInv, MoneyInv,
      OneCreated, ResumeIntent, ResumeCheckout, WorkOn, Idle, MarkManual,
      CheckoutManualReason, subVars, eventVars, providerVars
<1>6. ASSUME NEW p \in Procs, ProviderCreates(p)
      PROVE  OneCreated
  BY <1>6, PaymentsAssumption
  DEF TypeOK, InvoiceType, RowType, ProviderType, ProcInv, MoneyInv,
      OneCreated, ProviderCreates, invoiceVars, subVars, eventVars
<1>7. ASSUME NEW p \in Procs, CheckoutCallFails(p)
      PROVE  OneCreated
  BY <1>7, PaymentsAssumption
  DEF TypeOK, InvoiceType, RowType, ProviderType, ProcInv, MoneyInv,
      OneCreated, CheckoutCallFails, Idle, invoiceVars, subVars, eventVars,
      providerVars
<1>8. ASSUME NEW p \in Procs, SaveCheckout(p)
      PROVE  OneCreated
  BY <1>8, PaymentsAssumption
  DEF TypeOK, InvoiceType, RowType, ProviderType, ProcInv, MoneyInv,
      OneCreated, SaveCheckout, Idle, subVars, eventVars, providerVars
<1>9. ASSUME NEW p \in Procs, EventNotConfirmed(p)
      PROVE  OneCreated
  BY <1>9, PaymentKey, PaymentsAssumption
  DEF TypeOK, InvoiceType, RowType, ProviderType, ProcInv, MoneyInv,
      OneCreated, EventNotConfirmed, Conclude, invoiceVars, subVars,
      eventVars, providerVars
<1>10. ASSUME NEW p \in Procs, QuarantineOddPayment(p)
      PROVE  OneCreated
  BY <1>10, PaymentKey, PaymentsAssumption
  DEF TypeOK, InvoiceType, RowType, ProviderType, ProcInv, MoneyInv,
      OneCreated, QuarantineOddPayment, Conclude, MarkManual, subVars,
      eventVars, providerVars
<1>11. ASSUME NEW p \in Procs, ApplyPaymentEvent(p)
      PROVE  OneCreated
  BY <1>11, PaymentKey, PaymentsAssumption
  DEF TypeOK, InvoiceType, RowType, ProviderType, ProcInv, MoneyInv,
      OneCreated, ApplyPaymentEvent, Conclude, PaymentSuccess, PaymentFailed,
      MarkManual, subVars, eventVars, providerVars
<1>12. ASSUME NEW p \in Procs, ApplyRefundEvent(p)
      PROVE  OneCreated
  BY <1>12, PaymentsAssumption
  DEF TypeOK, InvoiceType, RowType, ProviderType, ProcInv, MoneyInv,
      OneCreated, ApplyRefundEvent, Conclude, Reverse, subVars, eventVars,
      providerVars
<1>13. ASSUME NEW p \in Procs, FinalizeEvent(p)
      PROVE  OneCreated
  BY <1>13, PaymentsAssumption
  DEF TypeOK, InvoiceType, RowType, ProviderType, ProcInv, MoneyInv,
      OneCreated, FinalizeEvent, WriteDecision, Idle, invoiceVars, subVars,
      providerVars
<1>14. ASSUME NEW p \in Procs, NEW e \in Events, ReconcileEvent(p, e)
      PROVE  OneCreated
  BY <1>14, PaymentsAssumption
  DEF TypeOK, InvoiceType, RowType, ProviderType, ProcInv, MoneyInv,
      OneCreated, ReconcileEvent, ClaimEvent, invoiceVars, subVars,
      providerVars
<1>15. ASSUME NEW p \in Procs, NEW i \in Keys, ClaimProviderInvoice(p, i)
      PROVE  OneCreated
  BY <1>15, PaymentsAssumption
  DEF TypeOK, InvoiceType, RowType, ProviderType, ProcInv, MoneyInv,
      OneCreated, ClaimProviderInvoice, WorkOn, MarkManual, subVars,
      eventVars, providerVars, procVars
<1>16. ASSUME NEW p \in Procs, NEW i \in Keys, ForceProviderInvoice(p, i)
      PROVE  OneCreated
  BY <1>16, PaymentsAssumption
  DEF TypeOK, InvoiceType, RowType, ProviderType, ProcInv, MoneyInv,
      OneCreated, ForceProviderInvoice, WorkOn, invoiceVars, subVars,
      eventVars, providerVars
<1>17. ASSUME NEW p \in Procs, PollWaits(p)
      PROVE  OneCreated
  BY <1>17, PaymentsAssumption
  DEF TypeOK, InvoiceType, RowType, ProviderType, ProcInv, MoneyInv,
      OneCreated, PollWaits, Idle, invoiceVars, subVars, eventVars,
      providerVars
<1>18. ASSUME NEW p \in Procs, QuarantineOddPoll(p)
      PROVE  OneCreated
  BY <1>18, PaymentsAssumption
  DEF TypeOK, InvoiceType, RowType, ProviderType, ProcInv, MoneyInv,
      OneCreated, QuarantineOddPoll, Idle, MarkManual, subVars, eventVars,
      providerVars
<1>19. ASSUME NEW p \in Procs, ResolveRecovered(p)
      PROVE  OneCreated
  BY <1>19, PaymentsAssumption
  DEF TypeOK, InvoiceType, RowType, ProviderType, ProcInv, MoneyInv,
      OneCreated, ResolveRecovered, Idle, PaymentSuccess, PaymentFailed,
      MarkManual, subVars, eventVars, providerVars
<1>20. ASSUME NEW p \in Procs, ProcessPolled(p)
      PROVE  OneCreated
  BY <1>20, PaymentsAssumption
  DEF TypeOK, InvoiceType, RowType, ProviderType, ProcInv, MoneyInv,
      OneCreated, ProcessPolled, ClaimEvent, Idle, invoiceVars, subVars,
      providerVars
<1>21. ASSUME NEW p \in Procs, MarkStillPending(p)
      PROVE  OneCreated
  BY <1>21, PaymentsAssumption
  DEF TypeOK, InvoiceType, RowType, ProviderType, ProcInv, MoneyInv,
      OneCreated, MarkStillPending, Idle, MarkManual, subVars, eventVars,
      providerVars
<1>22. ASSUME NEW p \in Procs, Crash(p)
      PROVE  OneCreated
  BY <1>22, PaymentsAssumption
  DEF TypeOK, InvoiceType, RowType, ProviderType, ProcInv, MoneyInv,
      OneCreated, Crash, Idle, invoiceVars, subVars, providerVars
<1>23. ASSUME NEW p \in Procs, NEW e \in Events, ReceiveWebhook(p, e)
      PROVE  OneCreated
  BY <1>23, PaymentKey, PaymentsAssumption
  DEF TypeOK, InvoiceType, RowType, ProviderType, ProcInv, MoneyInv,
      OneCreated, ReceiveWebhook, ClaimEvent, invoiceVars, subVars,
      providerVars
<1>24. ASSUME NEW e \in Events, FinalizeExhausted(e)
      PROVE  OneCreated
  BY <1>24, PaymentKey, PaymentsAssumption
  DEF TypeOK, InvoiceType, RowType, ProviderType, ProcInv, MoneyInv,
      OneCreated, FinalizeExhausted, MarkManual, subVars, providerVars,
      procVars
<1>25. ASSUME NEW i \in Keys, CustomerPays(i)
      PROVE  OneCreated
  BY <1>25, PaymentsAssumption
  DEF TypeOK, InvoiceType, RowType, ProviderType, ProcInv, MoneyInv,
      OneCreated, CustomerPays, invoiceVars, subVars, eventVars, procVars
<1>26. ASSUME NEW i \in Keys, HorizonPasses(i)
      PROVE  OneCreated
  BY <1>26, PaymentsAssumption
  DEF TypeOK, InvoiceType, RowType, ProviderType, ProcInv, MoneyInv,
      OneCreated, HorizonPasses, subVars, eventVars, providerVars, procVars
<1>27. ASSUME NEW r \in Refunds, ProviderRefunds(r)
      PROVE  OneCreated
  BY <1>27, PaymentsAssumption
  DEF TypeOK, InvoiceType, RowType, ProviderType, ProcInv, MoneyInv,
      OneCreated, ProviderRefunds, invoiceVars, subVars, eventVars, procVars
<1>28. ASSUME NEW r \in Refunds, RecordChargeback(r)
      PROVE  OneCreated
  BY <1>28, PaymentsAssumption
  DEF TypeOK, InvoiceType, RowType, ProviderType, ProcInv, MoneyInv,
      OneCreated, RecordChargeback, Reverse, subVars, eventVars,
      providerVars, procVars
<1>29. CASE SubscriptionStep
  BY <1>29, PaymentsAssumption
  DEF TypeOK, InvoiceType, RowType, ProviderType, ProcInv, MoneyInv,
      OneCreated, SubscriptionStep, TermEnds, ExtendTrial,
      RefreshAICreditPeriod, UpgradePlan, CheckExpiredTrials,
      CheckGracePeriodExpired, Subscribe, invoiceVars, eventVars,
      providerVars, procVars
<1>30. CASE UNCHANGED vars
  BY <1>30
  DEF TypeOK, InvoiceType, RowType, ProviderType, ProcInv, MoneyInv,
      OneCreated, vars, invoiceVars, subVars, eventVars, providerVars,
      procVars
<1> QED
  BY <1>1, <1>2, <1>3, <1>4, <1>5, <1>6, <1>7, <1>8, <1>9, <1>10, <1>11,
     <1>12, <1>13, <1>14, <1>15, <1>16, <1>17, <1>18, <1>19, <1>20, <1>21,
     <1>22, <1>23, <1>24, <1>25, <1>26, <1>27, <1>28, <1>29, <1>30
  DEF Next, Checkout, ProcessEvent, Reconcile, Environment, SubscriptionStep

(* The mutex is kept: a new intent finds no unsettled one. *)
LEMMA UnsettledStep ==
    TypeOK /\ ProcInv /\ MoneyInv /\ OneUnsettled /\ [Next]_vars => OneUnsettled'
<1> SUFFICES ASSUME TypeOK, ProcInv, MoneyInv, OneUnsettled, [Next]_vars,
                    NEW i \in Keys, NEW j \in Keys, i # j,
                    Unsettled(i)', Unsettled(j)'
             PROVE  FALSE
  BY DEF OneUnsettled
<1>1. NotReopened(i) /\ NotReopened(j)
  BY NotReopenedStep
<1>2. ~(Unsettled(i) /\ Unsettled(j))
  BY DEF OneUnsettled
<1>3. OneCreated
  BY OneCreatedStep
<1> QED
  BY <1>1, <1>2, <1>3 DEF NotReopened, Unsettled, OneCreated, IsTopup

(* It holds initially ... *)
LEMMA InvariantInit == Init => IInv
<1> SUFFICES ASSUME Init PROVE IInv
  OBVIOUS
<1> USE PaymentsAssumption DEF Init
<1>1. InvoiceType
  BY DEF InvoiceType, InvoiceStatuses
<1>2. RowType
  BY DEF RowType, SubStatuses, Decisions, ReversalStatuses
<1>3. ProviderType
  BY DEF ProviderType, PaymentStatuses
<1>4. ProcType
  BY DEF ProcType, PCs, Verdicts
<1>5. ProcInv /\ AliasInv /\ OneUnsettled
  BY DEF ProcInv, AliasInv, OneUnsettled, Unsettled
<1>6. MoneyInv
  BY DEF MoneyInv, SettledStatuses
<1> QED
  BY <1>1, <1>2, <1>3, <1>4, <1>5, <1>6 DEF IInv, TypeOK

(* ... and every step keeps it. *)
LEMMA InvariantStep == IInv /\ [Next]_vars => IInv'
  BY TypeStep, ProcStep, AliasStep, MoneyStep, UnsettledStep DEF IInv

(* The inductive invariant holds in every reachable state. *)
THEOREM Invariant == Spec => []IInv
  BY InvariantInit, InvariantStep, PTL DEF Spec

(* Type correctness of the model. *)
THEOREM TypeCorrect == Spec => []TypeOK
<1>1. IInv => TypeOK
  BY DEF IInv
<1> QED
  BY <1>1, Invariant, PTL

(* However often a lost answer is retried, the provider opens one payment   *)
(* per idempotency key: _resume_checkout_intent stops before the horizon.    *)
THEOREM PaymentOpenedOnce == Spec => []OnePaymentPerIntent
<1>1. IInv => OnePaymentPerIntent
  BY DEF IInv, MoneyInv, OnePaymentPerIntent
<1> QED
  BY <1>1, Invariant, PTL

(* At most one plan checkout of the tenant can still be paid: create_payment *)
(* looks for unsettled and quarantined intents under the subscription lock.  *)
THEOREM PlanPaymentsExclusive == Spec => []OneOpenPlanPayment
<1>1. IInv => OneOpenPlanPayment
  BY DEF IInv, MoneyInv, OneUnsettled, Unsettled, OneOpenPlanPayment
<1> QED
  BY <1>1, Invariant, PTL

(* Invoices agree with the provider and are delivered once: the handlers     *)
(* apply an authoritative status under the invoice lock.                     *)
THEOREM BooksAgree == Spec => []BooksMatchProvider
<1>1. IInv => BooksMatchProvider
  BY DEF IInv, MoneyInv, BooksMatchProvider, TypeOK, InvoiceType
<1> QED
  BY <1>1, Invariant, PTL

(* Every step is a step of Purchase, or none for the customer. *)
LEMMA PurchaseStep == IInv /\ [Next]_vars => [P!Next]_<<payment, granted>>
<1> SUFFICES ASSUME IInv, [Next]_vars PROVE [P!Next]_<<payment, granted>>
  OBVIOUS
<1> USE DEF IInv
<1>1. ASSUME NEW p \in Procs, NEW k \in Keys, SubscriptionCheckout(p, k)
      PROVE  [P!Next]_<<payment, granted>>
  BY <1>1 DEF SubscriptionCheckout, providerVars
<1>2. ASSUME NEW p \in Procs, NEW k \in Keys, TopupCheckout(p, k)
      PROVE  [P!Next]_<<payment, granted>>
  BY <1>2 DEF TopupCheckout, providerVars
<1>3. ASSUME NEW p \in Procs, BindClientKey(p)
      PROVE  [P!Next]_<<payment, granted>>
  BY <1>3 DEF BindClientKey, providerVars
<1>4. ASSUME NEW p \in Procs, ResumeBound(p)
      PROVE  [P!Next]_<<payment, granted>>
  BY <1>4 DEF ResumeBound, ResumeCheckout, providerVars
<1>5. ASSUME NEW p \in Procs, NEW i \in Keys, ResumeIntent(p, i)
      PROVE  [P!Next]_<<payment, granted>>
  BY <1>5 DEF ResumeIntent, ResumeCheckout, providerVars
<1>6. ASSUME NEW p \in Procs, ProviderCreates(p)
      PROVE  [P!Next]_<<payment, granted>>
  <2> DEFINE i == inv[p]
  <2>1. i \in Keys /\ status[i] # "absent" /\ age[i] # "forgotten"
    BY <1>6 DEF ProviderCreates, ProcInv
  <2>2. UNCHANGED granted
    BY <1>6 DEF ProviderCreates
  <2>3. CASE payment[i] # "none"
    <3>1. payment' = [payment EXCEPT ![i] = payment[i]]
      BY <1>6, <2>1, <2>3 DEF ProviderCreates
    <3> QED
      BY <2>1, <2>2, <3>1 DEF TypeOK, ProviderType
  <2>4. CASE payment[i] = "none"
    <3>1. payment' = [payment EXCEPT ![i] = "pending"]
      BY <1>6, <2>4 DEF ProviderCreates
    <3>2. ~IsTopup(i) =>
            \A j \in {k \in Keys : ~IsTopup(k)} \ {i} : payment[j] # "pending"
      BY <2>1, <2>4 DEF OneUnsettled, Unsettled, MoneyInv
    <3>3. P!Open(i)
      BY <2>1, <2>2, <2>4, <3>1, <3>2 DEF P!Open
    <3> QED
      BY <2>1, <3>3 DEF P!Next
  <2> QED
    BY <2>3, <2>4
<1>7. ASSUME NEW p \in Procs, CheckoutCallFails(p)
      PROVE  [P!Next]_<<payment, granted>>
  BY <1>7 DEF CheckoutCallFails, providerVars
<1>8. ASSUME NEW p \in Procs, SaveCheckout(p)
      PROVE  [P!Next]_<<payment, granted>>
  BY <1>8 DEF SaveCheckout, providerVars
<1>9. ASSUME NEW p \in Procs, EventNotConfirmed(p)
      PROVE  [P!Next]_<<payment, granted>>
  BY <1>9 DEF EventNotConfirmed, providerVars
<1>10. ASSUME NEW p \in Procs, QuarantineOddPayment(p)
      PROVE  [P!Next]_<<payment, granted>>
  BY <1>10 DEF QuarantineOddPayment, providerVars
<1>11. ASSUME NEW p \in Procs, ApplyPaymentEvent(p)
      PROVE  [P!Next]_<<payment, granted>>
  <2> DEFINE i == PaymentOf(ev[p])
  <2>1. i \in Keys
    BY <1>11, PaymentKey DEF ApplyPaymentEvent, Confirmed, ProcInv
  <2>2. UNCHANGED payment
    BY <1>11 DEF ApplyPaymentEvent, providerVars
  <2>3. CASE UNCHANGED granted
    BY <2>2, <2>3
  <2>4. CASE ~UNCHANGED granted
    <3>1. payment[i] = "succeeded" /\ PaymentSuccess(i)
      BY <1>11, <2>4
      DEF ApplyPaymentEvent, Confirmed, PaymentFailed, Announced, ProcInv
    <3>2. ~paid_at[i] /\ granted' = [granted EXCEPT ![i] = @ + 1]
      BY <2>1, <2>4, <3>1
      DEF PaymentSuccess, SuccessApplies, UnsettledManual, BlocksCheckout,
          MoneyInv
    <3>3. granted[i] = 0
      BY <2>1, <3>2 DEF MoneyInv
    <3>4. granted' = [granted EXCEPT ![i] = 1]
      BY <3>2, <3>3
    <3>5. P!Deliver(i)
      BY <2>1, <2>2, <3>1, <3>3, <3>4 DEF P!Deliver
    <3> QED
      BY <2>1, <3>5 DEF P!Next
  <2> QED
    BY <2>3, <2>4
<1>12. ASSUME NEW p \in Procs, ApplyRefundEvent(p)
      PROVE  [P!Next]_<<payment, granted>>
  BY <1>12 DEF ApplyRefundEvent, providerVars
<1>13. ASSUME NEW p \in Procs, FinalizeEvent(p)
      PROVE  [P!Next]_<<payment, granted>>
  BY <1>13 DEF FinalizeEvent, providerVars
<1>14. ASSUME NEW p \in Procs, NEW e \in Events, ReconcileEvent(p, e)
      PROVE  [P!Next]_<<payment, granted>>
  BY <1>14 DEF ReconcileEvent, providerVars
<1>15. ASSUME NEW p \in Procs, NEW i \in Keys, ClaimProviderInvoice(p, i)
      PROVE  [P!Next]_<<payment, granted>>
  BY <1>15 DEF ClaimProviderInvoice, providerVars
<1>16. ASSUME NEW p \in Procs, NEW i \in Keys, ForceProviderInvoice(p, i)
      PROVE  [P!Next]_<<payment, granted>>
  BY <1>16 DEF ForceProviderInvoice, providerVars
<1>17. ASSUME NEW p \in Procs, PollWaits(p)
      PROVE  [P!Next]_<<payment, granted>>
  BY <1>17 DEF PollWaits, providerVars
<1>18. ASSUME NEW p \in Procs, QuarantineOddPoll(p)
      PROVE  [P!Next]_<<payment, granted>>
  BY <1>18 DEF QuarantineOddPoll, providerVars
<1>19. ASSUME NEW p \in Procs, ResolveRecovered(p)
      PROVE  [P!Next]_<<payment, granted>>
  <2> DEFINE i == inv[p]
  <2>1. i \in Keys
    BY <1>19 DEF ResolveRecovered, Polled, ProcInv
  <2>2. UNCHANGED payment
    BY <1>19 DEF ResolveRecovered, providerVars
  <2>3. CASE UNCHANGED granted
    BY <2>2, <2>3
  <2>4. CASE ~UNCHANGED granted
    <3>1. payment[i] = "succeeded" /\ PaymentSuccess(i)
      BY <1>19, <2>4
      DEF ResolveRecovered, Polled, PaymentFailed, Announced, ProcInv
    <3>2. ~paid_at[i] /\ granted' = [granted EXCEPT ![i] = @ + 1]
      BY <2>1, <2>4, <3>1
      DEF PaymentSuccess, SuccessApplies, UnsettledManual, BlocksCheckout,
          MoneyInv
    <3>3. granted[i] = 0
      BY <2>1, <3>2 DEF MoneyInv
    <3>4. granted' = [granted EXCEPT ![i] = 1]
      BY <3>2, <3>3
    <3>5. P!Deliver(i)
      BY <2>1, <2>2, <3>1, <3>3, <3>4 DEF P!Deliver
    <3> QED
      BY <2>1, <3>5 DEF P!Next
  <2> QED
    BY <2>3, <2>4
<1>20. ASSUME NEW p \in Procs, ProcessPolled(p)
      PROVE  [P!Next]_<<payment, granted>>
  BY <1>20 DEF ProcessPolled, providerVars
<1>21. ASSUME NEW p \in Procs, MarkStillPending(p)
      PROVE  [P!Next]_<<payment, granted>>
  BY <1>21 DEF MarkStillPending, providerVars
<1>22. ASSUME NEW p \in Procs, Crash(p)
      PROVE  [P!Next]_<<payment, granted>>
  BY <1>22 DEF Crash, providerVars
<1>23. ASSUME NEW p \in Procs, NEW e \in Events, ReceiveWebhook(p, e)
      PROVE  [P!Next]_<<payment, granted>>
  BY <1>23 DEF ReceiveWebhook, providerVars
<1>24. ASSUME NEW e \in Events, FinalizeExhausted(e)
      PROVE  [P!Next]_<<payment, granted>>
  BY <1>24 DEF FinalizeExhausted, providerVars
<1>25. ASSUME NEW i \in Keys, CustomerPays(i)
      PROVE  [P!Next]_<<payment, granted>>
  <2>1. P!Settle(i)
    BY <1>25 DEF CustomerPays, P!Settle
  <2> QED
    BY <2>1 DEF P!Next
<1>26. ASSUME NEW i \in Keys, HorizonPasses(i)
      PROVE  [P!Next]_<<payment, granted>>
  BY <1>26 DEF HorizonPasses, providerVars
<1>27. ASSUME NEW r \in Refunds, ProviderRefunds(r)
      PROVE  [P!Next]_<<payment, granted>>
  BY <1>27 DEF ProviderRefunds
<1>28. ASSUME NEW r \in Refunds, RecordChargeback(r)
      PROVE  [P!Next]_<<payment, granted>>
  BY <1>28 DEF RecordChargeback, providerVars
<1>29. CASE SubscriptionStep
  BY <1>29
  DEF SubscriptionStep, TermEnds, ExtendTrial, RefreshAICreditPeriod,
      UpgradePlan, CheckExpiredTrials, CheckGracePeriodExpired, Subscribe,
      providerVars
<1>30. CASE UNCHANGED vars
  BY <1>30 DEF vars, providerVars
<1> QED
  BY <1>1, <1>2, <1>3, <1>4, <1>5, <1>6, <1>7, <1>8, <1>9, <1>10, <1>11,
     <1>12, <1>13, <1>14, <1>15, <1>16, <1>17, <1>18, <1>19, <1>20, <1>21,
     <1>22, <1>23, <1>24, <1>25, <1>26, <1>27, <1>28, <1>29, <1>30
  DEF Next, Checkout, ProcessEvent, Reconcile, Environment, SubscriptionStep

(* The whole machinery implements what buying promises the customer. *)
THEOREM ImplementsPurchaseTheorem == Spec => ImplementsPurchase
<1>1. Init => P!Init
  BY DEF Init, P!Init
<1>2. IInv /\ [Next]_vars => [P!Next]_<<payment, granted>>
  BY PurchaseStep
<1> QED
  BY <1>1, <1>2, Invariant, PTL DEF Spec, ImplementsPurchase, P!Spec

(* One event, one step. *)
DecisionKept(e) == decision[e] \in FinalDecisions => decision'[e] = decision[e]

(* A decided event is not touched by any step. *)
LEMMA DecisionStep ==
    IInv /\ [Next]_vars => \A q \in Events : DecisionKept(q)
<1> SUFFICES ASSUME IInv, [Next]_vars, NEW q \in Events
             PROVE  DecisionKept(q)
  OBVIOUS
<1>1. ASSUME NEW p \in Procs, NEW k \in Keys, SubscriptionCheckout(p, k)
      PROVE  DecisionKept(q)
  BY <1>1, PaymentsAssumption
  DEF IInv, TypeOK, RowType, ProcInv, DecisionKept, FinalDecisions,
      SubscriptionCheckout, WorkOn, CreateInvoice, PendingIntents,
      CheckoutIntentForClientKey, invoiceVars, subVars, eventVars,
      providerVars
<1>2. ASSUME NEW p \in Procs, NEW k \in Keys, TopupCheckout(p, k)
      PROVE  DecisionKept(q)
  BY <1>2, PaymentsAssumption
  DEF IInv, TypeOK, RowType, ProcInv, DecisionKept, FinalDecisions,
      TopupCheckout, WorkOn, CreateInvoice, PendingIntents,
      CheckoutIntentForClientKey, invoiceVars, subVars, eventVars,
      providerVars
<1>3. ASSUME NEW p \in Procs, BindClientKey(p)
      PROVE  DecisionKept(q)
  BY <1>3, PaymentsAssumption
  DEF IInv, TypeOK, RowType, ProcInv, DecisionKept, FinalDecisions,
      BindClientKey, WorkOn, Idle, invoiceVars, subVars, eventVars,
      providerVars
<1>4. ASSUME NEW p \in Procs, ResumeBound(p)
      PROVE  DecisionKept(q)
  BY <1>4, PaymentsAssumption
  DEF IInv, TypeOK, RowType, ProcInv, DecisionKept, FinalDecisions,
      ResumeBound, ResumeCheckout, WorkOn, Idle, MarkManual,
      CheckoutManualReason, subVars, eventVars, providerVars
<1>5. ASSUME NEW p \in Procs, NEW i \in Keys, ResumeIntent(p, i)
      PROVE  DecisionKept(q)
  BY <1>5, PaymentsAssumption
  DEF IInv, TypeOK, RowType, ProcInv, DecisionKept, FinalDecisions,
      ResumeIntent, ResumeCheckout, WorkOn, Idle, MarkManual,
      CheckoutManualReason, subVars, eventVars, providerVars
<1>6. ASSUME NEW p \in Procs, ProviderCreates(p)
      PROVE  DecisionKept(q)
  BY <1>6, PaymentsAssumption
  DEF IInv, TypeOK, RowType, ProcInv, DecisionKept, FinalDecisions,
      ProviderCreates, invoiceVars, subVars, eventVars
<1>7. ASSUME NEW p \in Procs, CheckoutCallFails(p)
      PROVE  DecisionKept(q)
  BY <1>7, PaymentsAssumption
  DEF IInv, TypeOK, RowType, ProcInv, DecisionKept, FinalDecisions,
      CheckoutCallFails, Idle, invoiceVars, subVars, eventVars, providerVars
<1>8. ASSUME NEW p \in Procs, SaveCheckout(p)
      PROVE  DecisionKept(q)
  BY <1>8, PaymentsAssumption
  DEF IInv, TypeOK, RowType, ProcInv, DecisionKept, FinalDecisions,
      SaveCheckout, Idle, subVars, eventVars, providerVars
<1>9. ASSUME NEW p \in Procs, EventNotConfirmed(p)
      PROVE  DecisionKept(q)
  BY <1>9, PaymentsAssumption
  DEF IInv, TypeOK, RowType, ProcInv, DecisionKept, FinalDecisions,
      EventNotConfirmed, Conclude, invoiceVars, subVars, eventVars,
      providerVars
<1>10. ASSUME NEW p \in Procs, QuarantineOddPayment(p)
      PROVE  DecisionKept(q)
  BY <1>10, PaymentsAssumption
  DEF IInv, TypeOK, RowType, ProcInv, DecisionKept, FinalDecisions,
      QuarantineOddPayment, Conclude, MarkManual, subVars, eventVars,
      providerVars
<1>11. ASSUME NEW p \in Procs, ApplyPaymentEvent(p)
      PROVE  DecisionKept(q)
  BY <1>11, PaymentsAssumption
  DEF IInv, TypeOK, RowType, ProcInv, DecisionKept, FinalDecisions,
      ApplyPaymentEvent, Conclude, PaymentSuccess, PaymentFailed, MarkManual,
      subVars, eventVars, providerVars
<1>12. ASSUME NEW p \in Procs, ApplyRefundEvent(p)
      PROVE  DecisionKept(q)
  BY <1>12, PaymentsAssumption
  DEF IInv, TypeOK, RowType, ProcInv, DecisionKept, FinalDecisions,
      ApplyRefundEvent, Conclude, Reverse, subVars, eventVars, providerVars
<1>13. ASSUME NEW p \in Procs, FinalizeEvent(p)
      PROVE  DecisionKept(q)
  BY <1>13, PaymentsAssumption
  DEF IInv, TypeOK, RowType, ProcInv, DecisionKept, FinalDecisions,
      FinalizeEvent, WriteDecision, Idle, invoiceVars, subVars, providerVars
<1>14. ASSUME NEW p \in Procs, NEW e \in Events, ReconcileEvent(p, e)
      PROVE  DecisionKept(q)
  BY <1>14, PaymentsAssumption
  DEF IInv, TypeOK, RowType, ProcInv, DecisionKept, FinalDecisions,
      ReconcileEvent, ClaimEvent, invoiceVars, subVars, providerVars
<1>15. ASSUME NEW p \in Procs, NEW i \in Keys, ClaimProviderInvoice(p, i)
      PROVE  DecisionKept(q)
  BY <1>15, PaymentsAssumption
  DEF IInv, TypeOK, RowType, ProcInv, DecisionKept, FinalDecisions,
      ClaimProviderInvoice, WorkOn, MarkManual, subVars, eventVars,
      providerVars, procVars
<1>16. ASSUME NEW p \in Procs, NEW i \in Keys, ForceProviderInvoice(p, i)
      PROVE  DecisionKept(q)
  BY <1>16, PaymentsAssumption
  DEF IInv, TypeOK, RowType, ProcInv, DecisionKept, FinalDecisions,
      ForceProviderInvoice, WorkOn, invoiceVars, subVars, eventVars,
      providerVars
<1>17. ASSUME NEW p \in Procs, PollWaits(p)
      PROVE  DecisionKept(q)
  BY <1>17, PaymentsAssumption
  DEF IInv, TypeOK, RowType, ProcInv, DecisionKept, FinalDecisions,
      PollWaits, Idle, invoiceVars, subVars, eventVars, providerVars
<1>18. ASSUME NEW p \in Procs, QuarantineOddPoll(p)
      PROVE  DecisionKept(q)
  BY <1>18, PaymentsAssumption
  DEF IInv, TypeOK, RowType, ProcInv, DecisionKept, FinalDecisions,
      QuarantineOddPoll, Idle, MarkManual, subVars, eventVars, providerVars
<1>19. ASSUME NEW p \in Procs, ResolveRecovered(p)
      PROVE  DecisionKept(q)
  BY <1>19, PaymentsAssumption
  DEF IInv, TypeOK, RowType, ProcInv, DecisionKept, FinalDecisions,
      ResolveRecovered, Idle, PaymentSuccess, PaymentFailed, MarkManual,
      subVars, eventVars, providerVars
<1>20. ASSUME NEW p \in Procs, ProcessPolled(p)
      PROVE  DecisionKept(q)
  BY <1>20, PaymentsAssumption, SMTT(30)
  DEF IInv, TypeOK, RowType, ProcInv, DecisionKept, FinalDecisions,
      ProcessPolled, ClaimEvent, Idle, invoiceVars, subVars, providerVars
<1>21. ASSUME NEW p \in Procs, MarkStillPending(p)
      PROVE  DecisionKept(q)
  BY <1>21, PaymentsAssumption
  DEF IInv, TypeOK, RowType, ProcInv, DecisionKept, FinalDecisions,
      MarkStillPending, Idle, MarkManual, subVars, eventVars, providerVars
<1>22. ASSUME NEW p \in Procs, Crash(p)
      PROVE  DecisionKept(q)
  BY <1>22, PaymentsAssumption
  DEF IInv, TypeOK, RowType, ProcInv, DecisionKept, FinalDecisions, Crash,
      Idle, invoiceVars, subVars, providerVars
<1>23. ASSUME NEW p \in Procs, NEW e \in Events, ReceiveWebhook(p, e)
      PROVE  DecisionKept(q)
  BY <1>23, PaymentsAssumption
  DEF IInv, TypeOK, RowType, ProcInv, DecisionKept, FinalDecisions,
      ReceiveWebhook, ClaimEvent, invoiceVars, subVars, providerVars
<1>24. ASSUME NEW e \in Events, FinalizeExhausted(e)
      PROVE  DecisionKept(q)
  BY <1>24, PaymentsAssumption
  DEF IInv, TypeOK, RowType, ProcInv, DecisionKept, FinalDecisions,
      FinalizeExhausted, MarkManual, subVars, providerVars, procVars
<1>25. ASSUME NEW i \in Keys, CustomerPays(i)
      PROVE  DecisionKept(q)
  BY <1>25, PaymentsAssumption
  DEF IInv, TypeOK, RowType, ProcInv, DecisionKept, FinalDecisions,
      CustomerPays, invoiceVars, subVars, eventVars, procVars
<1>26. ASSUME NEW i \in Keys, HorizonPasses(i)
      PROVE  DecisionKept(q)
  BY <1>26, PaymentsAssumption
  DEF IInv, TypeOK, RowType, ProcInv, DecisionKept, FinalDecisions,
      HorizonPasses, subVars, eventVars, providerVars, procVars
<1>27. ASSUME NEW r \in Refunds, ProviderRefunds(r)
      PROVE  DecisionKept(q)
  BY <1>27, PaymentsAssumption
  DEF IInv, TypeOK, RowType, ProcInv, DecisionKept, FinalDecisions,
      ProviderRefunds, invoiceVars, subVars, eventVars, procVars
<1>28. ASSUME NEW r \in Refunds, RecordChargeback(r)
      PROVE  DecisionKept(q)
  BY <1>28, PaymentsAssumption
  DEF IInv, TypeOK, RowType, ProcInv, DecisionKept, FinalDecisions,
      RecordChargeback, Reverse, subVars, eventVars, providerVars, procVars
<1>29. CASE SubscriptionStep
  BY <1>29, PaymentsAssumption
  DEF IInv, TypeOK, RowType, ProcInv, DecisionKept, FinalDecisions,
      SubscriptionStep, TermEnds, ExtendTrial, RefreshAICreditPeriod,
      UpgradePlan, CheckExpiredTrials, CheckGracePeriodExpired, Subscribe,
      invoiceVars, eventVars, providerVars, procVars
<1>30. CASE UNCHANGED vars
  BY <1>30
  DEF IInv, TypeOK, RowType, ProcInv, DecisionKept, FinalDecisions, vars,
      invoiceVars, subVars, eventVars, providerVars, procVars
<1> QED
  BY <1>1, <1>2, <1>3, <1>4, <1>5, <1>6, <1>7, <1>8, <1>9, <1>10, <1>11,
     <1>12, <1>13, <1>14, <1>15, <1>16, <1>17, <1>18, <1>19, <1>20, <1>21,
     <1>22, <1>23, <1>24, <1>25, <1>26, <1>27, <1>28, <1>29, <1>30
  DEF Next, Checkout, ProcessEvent, Reconcile, Environment, SubscriptionStep

(* A finalized event keeps its decision: finalize_webhook_event compares    *)
(* the claim, claim_webhook_event leaves final events alone.                *)
THEOREM DecisionsStay == Spec => DecisionsFinal
<1>1. IInv /\ [Next]_vars => [\A e \in Events : DecisionKept(e)]_vars
  BY DecisionStep
<1> QED
  BY <1>1, Invariant, PTL DEF Spec, DecisionsFinal, DecisionKept

(* handle_reversal_success checks the total before it adds to it. *)
LEMMA RefundStep ==
    TypeOK /\ ProcInv /\ RefundBounded /\ [Next]_vars => RefundBounded'
<1> SUFFICES ASSUME TypeOK, ProcInv, RefundBounded, [Next]_vars
             PROVE  RefundBounded'
  OBVIOUS
<1>1. ASSUME NEW p \in Procs, NEW k \in Keys, SubscriptionCheckout(p, k)
      PROVE  RefundBounded'
  BY <1>1, PaymentsAssumption
  DEF TypeOK, InvoiceType, ProcInv, RefundBounded, Events,
      SubscriptionCheckout, WorkOn, CreateInvoice, PendingIntents,
      CheckoutIntentForClientKey, invoiceVars, subVars, eventVars,
      providerVars
<1>2. ASSUME NEW p \in Procs, NEW k \in Keys, TopupCheckout(p, k)
      PROVE  RefundBounded'
  BY <1>2, PaymentsAssumption
  DEF TypeOK, InvoiceType, ProcInv, RefundBounded, Events, TopupCheckout,
      WorkOn, CreateInvoice, PendingIntents, CheckoutIntentForClientKey,
      invoiceVars, subVars, eventVars, providerVars
<1>3. ASSUME NEW p \in Procs, BindClientKey(p)
      PROVE  RefundBounded'
  BY <1>3, PaymentsAssumption
  DEF TypeOK, InvoiceType, ProcInv, RefundBounded, Events, BindClientKey,
      WorkOn, Idle, invoiceVars, subVars, eventVars, providerVars
<1>4. ASSUME NEW p \in Procs, ResumeBound(p)
      PROVE  RefundBounded'
  BY <1>4, PaymentsAssumption
  DEF TypeOK, InvoiceType, ProcInv, RefundBounded, Events, ResumeBound,
      ResumeCheckout, WorkOn, Idle, MarkManual, CheckoutManualReason,
      subVars, eventVars, providerVars
<1>5. ASSUME NEW p \in Procs, NEW i \in Keys, ResumeIntent(p, i)
      PROVE  RefundBounded'
  BY <1>5, PaymentsAssumption
  DEF TypeOK, InvoiceType, ProcInv, RefundBounded, Events, ResumeIntent,
      ResumeCheckout, WorkOn, Idle, MarkManual, CheckoutManualReason,
      subVars, eventVars, providerVars
<1>6. ASSUME NEW p \in Procs, ProviderCreates(p)
      PROVE  RefundBounded'
  BY <1>6, PaymentsAssumption
  DEF TypeOK, InvoiceType, ProcInv, RefundBounded, Events, ProviderCreates,
      invoiceVars, subVars, eventVars
<1>7. ASSUME NEW p \in Procs, CheckoutCallFails(p)
      PROVE  RefundBounded'
  BY <1>7, PaymentsAssumption
  DEF TypeOK, InvoiceType, ProcInv, RefundBounded, Events, CheckoutCallFails,
      Idle, invoiceVars, subVars, eventVars, providerVars
<1>8. ASSUME NEW p \in Procs, SaveCheckout(p)
      PROVE  RefundBounded'
  BY <1>8, PaymentsAssumption
  DEF TypeOK, InvoiceType, ProcInv, RefundBounded, Events, SaveCheckout,
      Idle, subVars, eventVars, providerVars
<1>9. ASSUME NEW p \in Procs, EventNotConfirmed(p)
      PROVE  RefundBounded'
  BY <1>9, PaymentsAssumption
  DEF TypeOK, InvoiceType, ProcInv, RefundBounded, Events, EventNotConfirmed,
      Conclude, invoiceVars, subVars, eventVars, providerVars
<1>10. ASSUME NEW p \in Procs, QuarantineOddPayment(p)
      PROVE  RefundBounded'
  BY <1>10, PaymentsAssumption
  DEF TypeOK, InvoiceType, ProcInv, RefundBounded, Events,
      QuarantineOddPayment, Conclude, MarkManual, subVars, eventVars,
      providerVars
<1>11. ASSUME NEW p \in Procs, ApplyPaymentEvent(p)
      PROVE  RefundBounded'
  BY <1>11, PaymentsAssumption
  DEF TypeOK, InvoiceType, ProcInv, RefundBounded, Events, ApplyPaymentEvent,
      Conclude, PaymentSuccess, PaymentFailed, MarkManual, subVars,
      eventVars, providerVars
<1>12. ASSUME NEW p \in Procs, ApplyRefundEvent(p)
      PROVE  RefundBounded'
  <2>1. ev[p][2] \in Refunds
    BY <1>12 DEF ApplyRefundEvent, Confirmed, ProcInv, Events
  <2>2. PICK s \in BOOLEAN : Reverse(ev[p][2], s)
    BY <1>12 DEF ApplyRefundEvent
  <2> QED
    BY <2>1, <2>2, PaymentsAssumption
    DEF Reverse, TypeOK, InvoiceType, RefundBounded
<1>13. ASSUME NEW p \in Procs, FinalizeEvent(p)
      PROVE  RefundBounded'
  BY <1>13, PaymentsAssumption
  DEF TypeOK, InvoiceType, ProcInv, RefundBounded, Events, FinalizeEvent,
      WriteDecision, Idle, invoiceVars, subVars, providerVars
<1>14. ASSUME NEW p \in Procs, NEW e \in Events, ReconcileEvent(p, e)
      PROVE  RefundBounded'
  BY <1>14, PaymentsAssumption
  DEF TypeOK, InvoiceType, ProcInv, RefundBounded, Events, ReconcileEvent,
      ClaimEvent, invoiceVars, subVars, providerVars
<1>15. ASSUME NEW p \in Procs, NEW i \in Keys, ClaimProviderInvoice(p, i)
      PROVE  RefundBounded'
  BY <1>15, PaymentsAssumption
  DEF TypeOK, InvoiceType, ProcInv, RefundBounded, Events,
      ClaimProviderInvoice, WorkOn, MarkManual, subVars, eventVars,
      providerVars, procVars
<1>16. ASSUME NEW p \in Procs, NEW i \in Keys, ForceProviderInvoice(p, i)
      PROVE  RefundBounded'
  BY <1>16, PaymentsAssumption
  DEF TypeOK, InvoiceType, ProcInv, RefundBounded, Events,
      ForceProviderInvoice, WorkOn, invoiceVars, subVars, eventVars,
      providerVars
<1>17. ASSUME NEW p \in Procs, PollWaits(p)
      PROVE  RefundBounded'
  BY <1>17, PaymentsAssumption
  DEF TypeOK, InvoiceType, ProcInv, RefundBounded, Events, PollWaits, Idle,
      invoiceVars, subVars, eventVars, providerVars
<1>18. ASSUME NEW p \in Procs, QuarantineOddPoll(p)
      PROVE  RefundBounded'
  BY <1>18, PaymentsAssumption
  DEF TypeOK, InvoiceType, ProcInv, RefundBounded, Events, QuarantineOddPoll,
      Idle, MarkManual, subVars, eventVars, providerVars
<1>19. ASSUME NEW p \in Procs, ResolveRecovered(p)
      PROVE  RefundBounded'
  BY <1>19, PaymentsAssumption
  DEF TypeOK, InvoiceType, ProcInv, RefundBounded, Events, ResolveRecovered,
      Idle, PaymentSuccess, PaymentFailed, MarkManual, subVars, eventVars,
      providerVars
<1>20. ASSUME NEW p \in Procs, ProcessPolled(p)
      PROVE  RefundBounded'
  BY <1>20, PaymentsAssumption
  DEF TypeOK, InvoiceType, ProcInv, RefundBounded, Events, ProcessPolled,
      ClaimEvent, Idle, invoiceVars, subVars, providerVars
<1>21. ASSUME NEW p \in Procs, MarkStillPending(p)
      PROVE  RefundBounded'
  BY <1>21, PaymentsAssumption
  DEF TypeOK, InvoiceType, ProcInv, RefundBounded, Events, MarkStillPending,
      Idle, MarkManual, subVars, eventVars, providerVars
<1>22. ASSUME NEW p \in Procs, Crash(p)
      PROVE  RefundBounded'
  BY <1>22, PaymentsAssumption
  DEF TypeOK, InvoiceType, ProcInv, RefundBounded, Events, Crash, Idle,
      invoiceVars, subVars, providerVars
<1>23. ASSUME NEW p \in Procs, NEW e \in Events, ReceiveWebhook(p, e)
      PROVE  RefundBounded'
  BY <1>23, PaymentsAssumption
  DEF TypeOK, InvoiceType, ProcInv, RefundBounded, Events, ReceiveWebhook,
      ClaimEvent, invoiceVars, subVars, providerVars
<1>24. ASSUME NEW e \in Events, FinalizeExhausted(e)
      PROVE  RefundBounded'
  BY <1>24, PaymentsAssumption
  DEF TypeOK, InvoiceType, ProcInv, RefundBounded, Events, FinalizeExhausted,
      MarkManual, subVars, providerVars, procVars
<1>25. ASSUME NEW i \in Keys, CustomerPays(i)
      PROVE  RefundBounded'
  BY <1>25, PaymentsAssumption
  DEF TypeOK, InvoiceType, ProcInv, RefundBounded, Events, CustomerPays,
      invoiceVars, subVars, eventVars, procVars
<1>26. ASSUME NEW i \in Keys, HorizonPasses(i)
      PROVE  RefundBounded'
  BY <1>26, PaymentsAssumption
  DEF TypeOK, InvoiceType, ProcInv, RefundBounded, Events, HorizonPasses,
      subVars, eventVars, providerVars, procVars
<1>27. ASSUME NEW r \in Refunds, ProviderRefunds(r)
      PROVE  RefundBounded'
  BY <1>27, PaymentsAssumption
  DEF TypeOK, InvoiceType, ProcInv, RefundBounded, Events, ProviderRefunds,
      invoiceVars, subVars, eventVars, procVars
<1>28. ASSUME NEW r \in Refunds, RecordChargeback(r)
      PROVE  RefundBounded'
  BY <1>28, PaymentsAssumption
  DEF TypeOK, InvoiceType, ProcInv, RefundBounded, Events, RecordChargeback,
      Reverse, subVars, eventVars, providerVars, procVars
<1>29. CASE SubscriptionStep
  BY <1>29, PaymentsAssumption
  DEF TypeOK, InvoiceType, ProcInv, RefundBounded, Events, SubscriptionStep,
      TermEnds, ExtendTrial, RefreshAICreditPeriod, UpgradePlan,
      CheckExpiredTrials, CheckGracePeriodExpired, Subscribe, invoiceVars,
      eventVars, providerVars, procVars
<1>30. CASE UNCHANGED vars
  BY <1>30
  DEF TypeOK, InvoiceType, ProcInv, RefundBounded, Events, vars, invoiceVars,
      subVars, eventVars, providerVars, procVars
<1> QED
  BY <1>1, <1>2, <1>3, <1>4, <1>5, <1>6, <1>7, <1>8, <1>9, <1>10, <1>11,
     <1>12, <1>13, <1>14, <1>15, <1>16, <1>17, <1>18, <1>19, <1>20, <1>21,
     <1>22, <1>23, <1>24, <1>25, <1>26, <1>27, <1>28, <1>29, <1>30
  DEF Next, Checkout, ProcessEvent, Reconcile, Environment, SubscriptionStep

(* Refunds and chargebacks never take back more than was paid. *)
THEOREM RefundsBounded == Spec => []RefundBounded
<1>1. Init => RefundBounded
  BY PaymentsAssumption DEF Init, RefundBounded
<1>2. IInv /\ RefundBounded /\ [Next]_vars => RefundBounded'
  BY RefundStep DEF IInv
<1> QED
  BY <1>1, <1>2, Invariant, PTL DEF Spec

-----------------------------------------------------------------------------
(* The browser keys of a checkout.                                         *)

(* Binding a key is the only step that changes who owns which key. *)
LEMMA KeysChange ==
    ASSUME [Next]_vars
    PROVE  UNCHANGED client_key \/ \E p \in Procs : BindClientKey(p)
<1>1. ASSUME NEW p \in Procs, Checkout(p), ~BindClientKey(p)
      PROVE  UNCHANGED client_key
  BY <1>1
  DEF Checkout, SubscriptionCheckout, TopupCheckout, ResumeBound,
      ResumeCheckout, ProviderCreates, CheckoutCallFails, SaveCheckout
<1>2. ASSUME NEW p \in Procs, ProcessEvent(p)
      PROVE  UNCHANGED client_key
  BY <1>2
  DEF ProcessEvent, EventNotConfirmed, QuarantineOddPayment,
      ApplyPaymentEvent, ApplyRefundEvent, FinalizeEvent
<1>3. ASSUME NEW p \in Procs, Reconcile(p)
      PROVE  UNCHANGED client_key
  BY <1>3
  DEF Reconcile, ReconcileEvent, ResumeIntent, ResumeCheckout,
      ClaimProviderInvoice, ForceProviderInvoice, PollWaits,
      QuarantineOddPoll, ResolveRecovered, ProcessPolled, MarkStillPending
<1>4. ASSUME NEW p \in Procs, Crash(p)
      PROVE  UNCHANGED client_key
  BY <1>4 DEF Crash
<1>5. ASSUME NEW p \in Procs, NEW e \in Events, ReceiveWebhook(p, e)
      PROVE  UNCHANGED client_key
  BY <1>5 DEF ReceiveWebhook
<1>6. ASSUME NEW e \in Events, FinalizeExhausted(e)
      PROVE  UNCHANGED client_key
  BY <1>6 DEF FinalizeExhausted
<1>7. CASE Environment
  BY <1>7
  DEF Environment, CustomerPays, HorizonPasses, ProviderRefunds,
      RecordChargeback, TermEnds, ExtendTrial, RefreshAICreditPeriod,
      UpgradePlan, CheckExpiredTrials, CheckGracePeriodExpired, Subscribe
<1>8. CASE UNCHANGED vars
  BY <1>8 DEF vars
<1> QED
  BY <1>1, <1>2, <1>3, <1>4, <1>5, <1>6, <1>7, <1>8 DEF Next

(* The keys are counted, so they must be finitely many. *)
KeysBounded ==
    \A i \in Keys : /\ IsFiniteSet(AcceptedKeys(i))
                    /\ Cardinality(AcceptedKeys(i)) <= MaxKeys

(* A new key is accepted only below the limit. *)
LEMMA BindStep ==
    ASSUME TypeOK, KeysBounded, NEW p \in Procs, BindClientKey(p),
           NEW j \in Keys
    PROVE  /\ IsFiniteSet(AcceptedKeys(j)')
           /\ Cardinality(AcceptedKeys(j)') <= MaxKeys
<1> DEFINE i == inv[p]
           k == key[p]
<1>1. IsFiniteSet(AcceptedKeys(j)) /\ Cardinality(AcceptedKeys(j)) <= MaxKeys
  BY DEF KeysBounded
<1>2. \/ AcceptedKeys(j)' = AcceptedKeys(j)
      \/ /\ AcceptedKeys(j)' = AcceptedKeys(j) \cup {k}
         /\ k \notin AcceptedKeys(j)
         /\ ~(Cardinality(AcceptedKeys(j)) >= MaxKeys)
  <2>1. client_key \in [Keys -> Keys \cup {NoKey}] /\ j # NoKey
    BY PaymentsAssumption DEF TypeOK, RowType
  <2>2. CASE UNCHANGED client_key
    BY <2>2 DEF AcceptedKeys
  <2>3. CASE client_key' # client_key
    <3>1. /\ client_key' = [client_key EXCEPT ![k] = i]
          /\ client_key[k] \in {NoKey, i}
          /\ client_key[k] = NoKey /\ k # i
               => ~(Cardinality(AcceptedKeys(i)) >= MaxKeys)
      BY <2>3 DEF BindClientKey
    <3>2. CASE j # i
      BY <2>1, <3>1, <3>2 DEF AcceptedKeys
    <3>3. CASE j = i /\ (k = i \/ client_key[k] = i)
      BY <2>1, <3>1, <3>3 DEF AcceptedKeys
    <3>4. CASE j = i /\ k # i /\ client_key[k] # i
      <4>1. k \in Keys
        BY <2>1, <2>3, <3>1
      <4>2. AcceptedKeys(j)' = AcceptedKeys(j) \cup {k}
        BY <2>1, <3>1, <3>4, <4>1 DEF AcceptedKeys
      <4> QED
        BY <3>1, <3>4, <4>2 DEF AcceptedKeys
    <3> QED
      BY <3>2, <3>3, <3>4
  <2> QED
    BY <2>2, <2>3
<1>3. CASE AcceptedKeys(j)' = AcceptedKeys(j)
  BY <1>1, <1>3
<1>4. CASE /\ AcceptedKeys(j)' = AcceptedKeys(j) \cup {k}
           /\ k \notin AcceptedKeys(j)
           /\ ~(Cardinality(AcceptedKeys(j)) >= MaxKeys)
  <2>1. /\ IsFiniteSet(AcceptedKeys(j)')
        /\ Cardinality(AcceptedKeys(j)') = Cardinality(AcceptedKeys(j)) + 1
    BY <1>1, <1>4, FS_AddElement
  <2>2. Cardinality(AcceptedKeys(j)) \in Nat
    BY <1>1, FS_CardinalityType
  <2> QED
    BY <1>4, <2>1, <2>2, PaymentsAssumption
<1> QED
  BY <1>2, <1>3, <1>4

(* A checkout accepts at most BILLING_CHECKOUT_MAX_KEYS_PER_INVOICE browser *)
(* keys, its own included, whatever set of keys the browsers draw from      *)
(* (_bind_checkout_client_key).                                             *)
THEOREM KeysLimited == Spec => []KeyLimit
<1>1. Init => KeysBounded
  <2>1. ASSUME Init, NEW i \in Keys PROVE AcceptedKeys(i) = {i}
    BY <2>1, PaymentsAssumption DEF Init, AcceptedKeys
  <2>2. ASSUME NEW i \in Keys
        PROVE  IsFiniteSet({i}) /\ Cardinality({i}) = 1
    BY FS_Singleton
  <2> QED
    BY <2>1, <2>2, PaymentsAssumption DEF KeysBounded
<1>2. IInv /\ KeysBounded /\ [Next]_vars => KeysBounded'
  <2> SUFFICES ASSUME IInv, KeysBounded, [Next]_vars PROVE KeysBounded'
    OBVIOUS
  <2>1. CASE UNCHANGED client_key
    BY <2>1 DEF KeysBounded, AcceptedKeys
  <2>2. ASSUME NEW p \in Procs, BindClientKey(p) PROVE KeysBounded'
    BY <2>2, BindStep DEF KeysBounded, IInv
  <2> QED
    BY <2>1, <2>2, KeysChange
<1>3. KeysBounded => KeyLimit
  BY DEF KeysBounded, KeyLimit
<1> QED
  BY <1>1, <1>2, <1>3, Invariant, PTL DEF Spec
=============================================================================
