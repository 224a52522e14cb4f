------------------------- MODULE BillingOutboxProofs --------------------------
(***************************************************************************)
(* Safety of the billing outbox for any number of events, dispatchers and  *)
(* tokens and any attempt limit.  OutboxInv is the inductive invariant: a  *)
(* dispatcher behind a successful publication knows that its event was     *)
(* published, and no two dispatchers hold the same token.                  *)
(***************************************************************************)
EXTENDS BillingOutbox, TLAPS

(* Every action keeps the shape of rows and dispatchers. *)
LEMMA TypeStep == TypeOK /\ [Next]_vars => TypeOK'
<1> SUFFICES ASSUME TypeOK, [Next]_vars PROVE TypeOK'
  OBVIOUS
<1> USE OutboxAssumption DEF TypeOK, EventStatuses, DispatcherPCs
<1>1. ASSUME NEW d \in Dispatchers, NEW e \in Events, NEW token \in Tokens,
             NEW force \in BOOLEAN, Claim(d, e, token, force)
      PROVE  TypeOK'
  <2>1. CountAttempt(attempts[e]) \in 0..AttemptsCap
    BY DEF CountAttempt
  <2> QED
    BY <1>1, <2>1 DEF Claim
<1>2. ASSUME NEW d \in Dispatchers, PublishOk(d) PROVE TypeOK'
  BY <1>2 DEF PublishOk, eventVars
<1>3. ASSUME NEW d \in Dispatchers, NEW accepted \in BOOLEAN,
             PublishError(d, accepted)
      PROVE  TypeOK'
  BY <1>3 DEF PublishError, eventVars
<1>4. ASSUME NEW d \in Dispatchers, MarkDispatched(d) PROVE TypeOK'
  BY <1>4 DEF MarkDispatched, FreeDispatcher, eventVars
<1>5. ASSUME NEW d \in Dispatchers, Reschedule(d) PROVE TypeOK'
  <2>1. devent[d] \in Events
    BY <1>5 DEF Reschedule
  <2>2. RescheduledStatus(devent[d]) \in EventStatuses
    BY DEF RescheduledStatus
  <2>3. Exhausted(devent[d]) \in BOOLEAN
    BY DEF Exhausted
  <2>4. due' \in [Events -> BOOLEAN]
    BY <1>5, <2>1, <2>3 DEF Reschedule, eventVars
  <2>5. /\ bstatus' \in [Events -> EventStatuses]
        /\ processing_token' \in [Events -> Tokens \union {NoToken}]
        /\ stale' \in [Events -> BOOLEAN]
        /\ attempts' = attempts
    BY <1>5, <2>1, <2>2, ZenonT(30) DEF Reschedule, eventVars
  <2>6. FreeDispatcher(d) /\ published' = published
    BY <1>5 DEF Reschedule
  <2> QED
    BY <2>4, <2>5, <2>6 DEF FreeDispatcher
<1>6. ASSUME NEW d \in Dispatchers, DispatcherCrash(d) PROVE TypeOK'
  BY <1>6 DEF DispatcherCrash, FreeDispatcher, eventVars
<1>7. ASSUME NEW e \in Events, Enqueue(e) PROVE TypeOK'
  BY <1>7 DEF Enqueue, dispVars
<1>8. ASSUME NEW e \in Events, BecomeDue(e) PROVE TypeOK'
  BY <1>8 DEF BecomeDue, dispVars
<1>9. ASSUME NEW e \in Events, BecomeStale(e) PROVE TypeOK'
  BY <1>9 DEF BecomeStale, dispVars
<1>10. CASE UNCHANGED vars
  BY <1>10 DEF vars, eventVars, dispVars
<1> QED
  BY <1>1, <1>2, <1>3, <1>4, <1>5, <1>6, <1>7, <1>8, <1>9, <1>10
  DEF Next, DispatcherStep, ClaimStep, PublishStep, FinishStep, EventStep

(* Every reachable state of the outbox has its shape. *)
THEOREM TypeCorrect == Spec => []TypeOK
<1>1. Init => TypeOK
  BY OutboxAssumption DEF Init, TypeOK, EventStatuses, DispatcherPCs
<1> QED
  BY <1>1, TypeStep, PTL DEF Spec

-----------------------------------------------------------------------------
(* What a dispatcher knows, and the exclusiveness of its token.              *)
OutboxInv ==
    /\ DispatchedWasPublished
    /\ DeadAfterMaxAttempts
    /\ \A d \in Dispatchers : dpc[d] = "published" => published[devent[d]]
    /\ \A d1, d2 \in Dispatchers :
         dpc[d1] # "idle" /\ dpc[d2] # "idle" /\ dtoken[d1] = dtoken[d2]
            => d1 = d2

(* Every action keeps OutboxInv. *)
LEMMA OutboxStep == TypeOK /\ OutboxInv /\ [Next]_vars => OutboxInv'
<1> SUFFICES ASSUME TypeOK, OutboxInv, [Next]_vars PROVE OutboxInv'
  OBVIOUS
<1> USE OutboxAssumption DEF TypeOK, OutboxInv, DispatchedWasPublished,
        DeadAfterMaxAttempts
<1>1. ASSUME NEW d \in Dispatchers, NEW e \in Events, NEW token \in Tokens,
             NEW force \in BOOLEAN, Claim(d, e, token, force)
      PROVE  OutboxInv'
  BY <1>1 DEF Claim, FreshToken, CountAttempt
<1>2. ASSUME NEW d \in Dispatchers, PublishOk(d) PROVE OutboxInv'
  BY <1>2 DEF PublishOk, eventVars
<1>3. ASSUME NEW d \in Dispatchers, NEW accepted \in BOOLEAN,
             PublishError(d, accepted)
      PROVE  OutboxInv'
  <2>1. \A e \in Events : published[e] => published'[e]
    BY <1>3 DEF PublishError
  <2> QED
    BY <1>3, <2>1 DEF PublishError, eventVars
<1>4. ASSUME NEW d \in Dispatchers, MarkDispatched(d) PROVE OutboxInv'
  BY <1>4 DEF MarkDispatched, FreeDispatcher, eventVars
<1>5. ASSUME NEW d \in Dispatchers, Reschedule(d) PROVE OutboxInv'
  BY <1>5 DEF Reschedule, FreeDispatcher, RescheduledStatus, Exhausted,
     eventVars
<1>6. ASSUME NEW d \in Dispatchers, DispatcherCrash(d) PROVE OutboxInv'
  BY <1>6 DEF DispatcherCrash, FreeDispatcher, eventVars
<1>7. ASSUME NEW e \in Events, Enqueue(e) PROVE OutboxInv'
  BY <1>7 DEF Enqueue, dispVars
<1>8. ASSUME NEW e \in Events, BecomeDue(e) PROVE OutboxInv'
  BY <1>8 DEF BecomeDue, dispVars
<1>9. ASSUME NEW e \in Events, BecomeStale(e) PROVE OutboxInv'
  BY <1>9 DEF BecomeStale, dispVars
<1>10. CASE UNCHANGED vars
  BY <1>10 DEF vars, eventVars, dispVars
<1> QED
  BY <1>1, <1>2, <1>3, <1>4, <1>5, <1>6, <1>7, <1>8, <1>9, <1>10
  DEF Next, DispatcherStep, ClaimStep, PublishStep, FinishStep, EventStep

(* OutboxInv holds in every reachable state. *)
LEMMA OutboxInvariant == Spec => []OutboxInv
<1>1. Init => OutboxInv
  BY DEF Init, OutboxInv, DispatchedWasPublished, DeadAfterMaxAttempts
<1> QED
  BY <1>1, TypeCorrect, OutboxStep, PTL DEF Spec

(* No side effect of billing is lost: a DISPATCHED event was accepted by the *)
(* broker.                                                                   *)
THEOREM NothingLost == Spec => []DispatchedWasPublished
<1>1. OutboxInv => DispatchedWasPublished
  BY DEF OutboxInv
<1> QED
  BY <1>1, OutboxInvariant, PTL

(* An event is DEAD only after BILLING_OUTBOX_MAX_ATTEMPTS claims. *)
THEOREM NotGivenUpEarly == Spec => []DeadAfterMaxAttempts
<1>1. OutboxInv => DeadAfterMaxAttempts
  BY DEF OutboxInv
<1> QED
  BY <1>1, OutboxInvariant, PTL

-----------------------------------------------------------------------------
(* No step reopens a dispatched event. *)
LEMMA FinalStep ==
    TypeOK /\ [Next]_vars => \A e \in Events : DispatchedStep(e)
<1> SUFFICES ASSUME TypeOK, [Next]_vars, NEW e \in Events
             PROVE  DispatchedStep(e)
  OBVIOUS
<1> USE DEF TypeOK, DispatchedStep
<1>1. ASSUME NEW d \in Dispatchers, NEW f \in Events, NEW token \in Tokens,
             NEW force \in BOOLEAN, Claim(d, f, token, force)
      PROVE  DispatchedStep(e)
  BY <1>1 DEF Claim, Claimable
<1>2. ASSUME NEW d \in Dispatchers, PublishStep(d) PROVE DispatchedStep(e)
  BY <1>2 DEF PublishStep, PublishOk, PublishError, eventVars
<1>3. ASSUME NEW d \in Dispatchers, FinishStep(d) PROVE DispatchedStep(e)
  BY <1>3 DEF FinishStep, MarkDispatched, Reschedule, Owns, eventVars
<1>4. ASSUME NEW d \in Dispatchers, DispatcherCrash(d) PROVE DispatchedStep(e)
  BY <1>4 DEF DispatcherCrash, eventVars
<1>5. ASSUME NEW f \in Events, EventStep(f) PROVE DispatchedStep(e)
  BY <1>5 DEF EventStep, Enqueue, BecomeDue, BecomeStale
<1>6. CASE UNCHANGED vars
  BY <1>6 DEF vars, eventVars
<1> QED
  BY <1>1, <1>2, <1>3, <1>4, <1>5, <1>6
  DEF Next, DispatcherStep, ClaimStep

(* DISPATCHED is final, forced retries included. *)
THEOREM DispatchedForGood == Spec => DispatchedIsFinal
<1>1. TypeOK /\ [Next]_vars => [\A e \in Events : DispatchedStep(e)]_vars
  BY FinalStep
<1> QED
  BY <1>1, TypeCorrect, PTL DEF Spec, DispatchedIsFinal

(* The claim that is publishing keeps its event until it goes stale. *)
LEMMA ExclusiveStep ==
    TypeOK /\ OutboxInv /\ [Next]_vars => \A d \in Dispatchers : OverruledStep(d)
<1> SUFFICES ASSUME TypeOK, OutboxInv, [Next]_vars, NEW d \in Dispatchers,
                    dpc[d] # "idle", Owns(d), ~stale[devent[d]],
                    dpc'[d] # "idle"
             PROVE  Owns(d)'
  BY DEF OverruledStep
<1> USE DEF TypeOK, OutboxInv, Owns
<1>1. ASSUME NEW c \in Dispatchers, NEW f \in Events, NEW token \in Tokens,
             NEW force \in BOOLEAN, Claim(c, f, token, force)
      PROVE  Owns(d)'
  BY <1>1 DEF Claim, Claimable
<1>2. ASSUME NEW c \in Dispatchers, PublishStep(c) PROVE Owns(d)'
  BY <1>2 DEF PublishStep, PublishOk, PublishError, eventVars
<1>3. ASSUME NEW c \in Dispatchers, FinishStep(c) PROVE Owns(d)'
  <2>1. c # d /\ dpc[c] # "idle"
    BY <1>3 DEF FinishStep, MarkDispatched, Reschedule, FreeDispatcher
  <2>2. ~(Owns(c) /\ devent[c] = devent[d])
    BY <2>1
  <2> QED
    BY <1>3, <2>1, <2>2
    DEF FinishStep, MarkDispatched, Reschedule, FreeDispatcher, eventVars
<1>4. ASSUME NEW c \in Dispatchers, DispatcherCrash(c) PROVE Owns(d)'
  BY <1>4 DEF DispatcherCrash, FreeDispatcher, eventVars
<1>5. ASSUME NEW f \in Events, EventStep(f) PROVE Owns(d)'
  BY <1>5 DEF EventStep, Enqueue, BecomeDue, BecomeStale, dispVars
<1>6. CASE UNCHANGED vars
  BY <1>6 DEF vars, eventVars, dispVars
<1> QED
  BY <1>1, <1>2, <1>3, <1>4, <1>5, <1>6
  DEF Next, DispatcherStep, ClaimStep

(* An overtaken dispatcher never ends the claim of the one that overtook it. *)
THEOREM ExclusiveClaim == Spec => ClaimNotOverruled
<1>1. TypeOK /\ OutboxInv /\ [Next]_vars
         => [\A d \in Dispatchers : OverruledStep(d)]_vars
  BY ExclusiveStep
<1> QED
  BY <1>1, TypeCorrect, OutboxInvariant, PTL DEF Spec, ClaimNotOverruled
==============================================================================
