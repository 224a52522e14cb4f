--------------------- MODULE AIProviderOperationsProofs ----------------------
(* Proofs about AIProviderOperations, for every number of operations,        *)
(* domains and workers and for every amount.                                 *)
EXTENDS AIProviderOperations, FiniteSetTheorems, TLAPS

-----------------------------------------------------------------------------
(* Types                                                                     *)

(* Each wallet operation keeps the balances natural numbers: nothing that    *)
(* reserve, release, settle, grants or refunds subtract exceeds what is      *)
(* there.                                                                    *)
LEMMA WalletTypeStep ==
    ASSUME WalletTypeOK, NEW r \in Reservations, NEW a \in Nat,
           NEW actual \in Nat
    PROVE  /\ ReserveCredits(a) => WalletTypeOK'
           /\ ReleaseCredits(r, a) => WalletTypeOK'
           /\ SettleCredits(r, a, actual) => WalletTypeOK'
           /\ SettleResult(r, a, actual) \in Nat
<1> USE DEF WalletTypeOK, NonNegative, Larger, Smaller
<1>1. ReserveCredits(a) => WalletTypeOK'
  BY DEF ReserveCredits, IncludedAfterExpiry, MustExpire, IdempotencyKeys
<1>2. ReleaseCredits(r, a) => WalletTypeOK'
  BY DEF ReleaseCredits, IdempotencyKeys
<1>3. ChargeFor(a, actual) \in Nat
      /\ ChargeFor(a, actual) <= included_balance + purchased_balance
  BY DEF ChargeFor, ReservedByOthers
<1>4. SettleCredits(r, a, actual) => WalletTypeOK'
  <2> DEFINE c == ChargeFor(a, actual)
  <2> SUFFICES ASSUME SettleCredits(r, a, actual) PROVE WalletTypeOK'
    OBVIOUS
  <2>1. CASE <<"settled", r>> \in keys
    BY <2>1 DEF SettleCredits, walletVars, balances
  <2>2. CASE <<"settled", r>> \notin keys
    <3>1. c \in Nat /\ c <= included_balance + purchased_balance
      BY <1>3
    <3> HIDE DEF c
    <3>2. /\ reserved_balance' = ReservedByOthers(a)
          /\ included_balance' = included_balance - Smaller(included_balance, c)
          /\ purchased_balance' =
                 purchased_balance - (c - Smaller(included_balance, c))
          /\ ledger_included' = ledger_included - Smaller(included_balance, c)
          /\ ledger_purchased' =
                 ledger_purchased - (c - Smaller(included_balance, c))
          /\ ledger_reserved' = ledger_reserved - a
          /\ keys' = keys \union {<<"settled", r>>}
          /\ UNCHANGED <<included_limit, expired>>
      BY <2>2 DEF SettleCredits, c
    <3>3. <<"settled", r>> \in IdempotencyKeys
      BY DEF IdempotencyKeys
    <3> QED
      BY <3>1, <3>2, <3>3 DEF ReservedByOthers
  <2> QED
    BY <2>1, <2>2
<1>5. SettleResult(r, a, actual) \in Nat
  BY <1>3 DEF SettleResult
<1> QED
  BY <1>1, <1>2, <1>4, <1>5

(* So does every operation of billing and of the administrator. *)
LEMMA AdminTypeStep == WalletTypeOK /\ WalletAdmin => WalletTypeOK'
<1> SUFFICES ASSUME WalletTypeOK, WalletAdmin PROVE WalletTypeOK'
  OBVIOUS
<1> USE WalletAssumption DEF WalletTypeOK, NonNegative, Larger, Smaller
<1>1. ASSUME NEW k \in GrantKeys, NEW a \in Limits, GrantIncluded(k, a)
      PROVE WalletTypeOK'
  <2>1. <<"grant", k>> \in IdempotencyKeys
    BY DEF IdempotencyKeys
  <2>2. keys' = (keys \union {<<"grant", k>>}) \ {<<"included-expire">>}
    BY <1>1 DEF GrantIncluded
  <2>3. keys' \subseteq IdempotencyKeys
    BY <2>1, <2>2, Zenon
  <2>4. /\ included_balance' \in Nat
        /\ included_limit' \in Nat
        /\ ledger_included' \in Int
    BY <1>1 DEF GrantIncluded
  <2>5. /\ purchased_balance' \in Nat
        /\ reserved_balance' \in Nat
        /\ ledger_purchased' \in Int
        /\ ledger_reserved' \in Int
    BY <1>1 DEF GrantIncluded
  <2>6. expired' \in BOOLEAN
    BY <1>1 DEF GrantIncluded
  <2> QED
    BY <2>3, <2>4, <2>5, <2>6
<1>2. ASSUME NEW a \in Limits, SyncIncludedLimit(a) PROVE WalletTypeOK'
  BY <1>2 DEF SyncIncludedLimit, SyncedBalance
<1>3. ASSUME NEW k \in PurchaseKeys, NEW a \in PackAmounts, Topup(k, a)
      PROVE WalletTypeOK'
  BY <1>3 DEF Topup, IdempotencyKeys
<1>4. ASSUME NEW k \in ReversalKeys, NEW a \in PackAmounts,
             ReversePurchased(k, a)
      PROVE WalletTypeOK'
  BY <1>4 DEF ReversePurchased, Reversible, IdempotencyKeys
<1>5. CASE PeriodEnds
  BY <1>5 DEF PeriodEnds
<1> QED
  BY <1>1, <1>2, <1>3, <1>4, <1>5 DEF WalletAdmin

(* A worker past begin works on a row. *)
WorkerOp ==
    \A w \in Workers : wpc[w] \notin {"idle", "ready"} => wop[w] \in Ops

TypeInv == TypeOK /\ WorkerOp

(* The shape of the state is preserved by every step. *)
LEMMA TypeStep == TypeInv /\ [Next]_vars => TypeInv'
<1> SUFFICES ASSUME TypeInv, [Next]_vars PROVE TypeInv'
  OBVIOUS
<1> USE OperationAssumption
    DEF TypeInv, TypeOK, WorkerOp, opVars, wrkVars, histVars, OpStatuses,
        ApplyStates, Reasons, WorkerPCs
<1>0. UNCHANGED walletVars => WalletTypeOK'
  BY DEF WalletTypeOK, walletVars, balances
<1>1. ASSUME NEW w \in Workers, NEW o \in Ops, ResumePending(w, o)
      PROVE TypeInv'
  BY <1>1, <1>0 DEF ResumePending, CanApply, ApplyLocked
<1>2. ASSUME NEW w \in Workers, NEW p \in Domains, StartTask(w, p)
      PROVE TypeInv'
  BY <1>2, <1>0 DEF StartTask, GoTo
<1>3. ASSUME NEW w \in Workers, NEW o \in Ops, NEW a \in Estimates, Begin(w,
             o, a)
      PROVE TypeInv'
  <2>1. WalletTypeOK'
    BY <1>0, <1>3, WalletTypeStep DEF Begin, Ops
  <2>2. wdom[w] \in Domains \union {NoDomain}
    OBVIOUS
  <2> QED
    BY <1>0, <1>3, <2>1, <2>2 DEF Begin, GoTo
<1>4. ASSUME NEW w \in Workers, GiveUp(w) PROVE TypeInv'
  BY <1>4, <1>0 DEF GiveUp, Leave
<1>5. ASSUME NEW w \in Workers, MarkNetworkStarted(w) PROVE TypeInv'
  BY <1>5, <1>0 DEF MarkNetworkStarted, GoTo, CanStart
<1>6. ASSUME NEW w \in Workers, StartRefused(w) PROVE TypeInv'
  BY <1>6, <1>0 DEF StartRefused, Leave
<1>7. ASSUME NEW w \in Workers, NEW u \in Usages, NEW out \in Outcomes,
             CallModel(w, u, out)
      PROVE TypeInv'
  BY <1>7, <1>0 DEF CallModel, GoTo, Outcomes
<1>8. ASSUME NEW w \in Workers, SettleAnswer(w) PROVE TypeInv'
  <2> DEFINE o == wop[w]
  <2>1. CASE ostatus[o] \in OpenStatuses
    <3>1. o \in Ops
      BY <1>0, <1>8, <2>1 DEF SettleAnswer, WorkerOp
    <3>2. WalletTypeOK'
      BY <1>0, <1>8, <2>1, <3>1, WalletTypeStep
      DEF SettleAnswer, SettleLocked, OpenStatuses, Ops
    <3>3. SettleResult(o, oamount[o], usage[o]) \in Nat
      BY <3>1, WalletTypeStep DEF Ops
    <3> QED
      BY <1>0, <1>8, <2>1, <3>1, <3>2, <3>3
      DEF SettleAnswer, SettleLocked, GoTo, NextAttempt, OpenStatuses
  <2>2. CASE ostatus[o] \notin OpenStatuses
    BY <1>0, <1>8, <2>2 DEF SettleAnswer, GoTo, NextAttempt
  <2> QED
    BY <2>1, <2>2
<1>9. ASSUME NEW w \in Workers, SettlementFails(w) PROVE TypeInv'
  BY <1>9, <1>0 DEF SettlementFails, MarkUncertain, UncertainStatus, Leave
<1>10. ASSUME NEW w \in Workers, ReleaseRefused(w) PROVE TypeInv'
  <2>1. wop[w] \in Ops
    BY <1>0, <1>10 DEF ReleaseRefused, WorkerOp
  <2>2. CASE ReleaseLocked(wop[w], "not_accepted") /\ NextAttempt(w)
    BY <1>0, <1>10, <2>1, <2>2, WalletTypeStep, ZenonT(30)
    DEF ReleaseRefused, ReleaseLocked, NextAttempt, Ops
  <2>3. CASE UNCHANGED <<walletVars, opVars>>
    BY <1>0, <1>10, <2>3 DEF ReleaseRefused, NextAttempt, Leave
  <2> QED
    BY <1>0, <1>10, <2>2, <2>3 DEF ReleaseRefused
<1>11. ASSUME NEW w \in Workers, CallFails(w) PROVE TypeInv'
  BY <1>11, <1>0 DEF CallFails, MarkUncertain, UncertainStatus, Leave
<1>12. ASSUME NEW w \in Workers, ApplyResult(w) PROVE TypeInv'
  BY <1>12, <1>0 DEF ApplyResult, CanApply, ApplyLocked, Leave
<1>13. ASSUME NEW w \in Workers, WorkerCrash(w) PROVE TypeInv'
  BY <1>13, <1>0 DEF WorkerCrash, Leave
<1>14. ASSUME NEW o \in Ops, ReconcileStarted(o) PROVE TypeInv'
  BY <1>14, <1>0 DEF ReconcileStarted, MarkUncertain, UncertainStatus
<1>15. ASSUME NEW o \in Ops, ReconcileNeverStarted(o) PROVE TypeInv'
  BY <1>0, <1>15, WalletTypeStep DEF ReconcileNeverStarted, ReleaseLocked, Ops
<1>16. ASSUME NEW o \in Ops, ResolveUncertain(o) PROVE TypeInv'
  <2>1. CASE ReleaseLocked(o, "manual_reconciliation")
    BY <1>0, <1>16, <2>1, WalletTypeStep
        DEF ResolveUncertain, ReleaseLocked, Ops
  <2>2. CASE SettleLocked(o, oamount[o], "manual_reconciliation",
                          "not_required")
    <3>1. /\ WalletTypeOK'
          /\ SettleResult(o, oamount[o], oamount[o]) \in Nat
      BY <2>2, WalletTypeStep DEF SettleLocked, Ops
    <3> QED
      BY <1>0, <1>16, <2>2, <3>1 DEF ResolveUncertain, SettleLocked
  <2> QED
    BY <1>0, <1>16, <2>1, <2>2 DEF ResolveUncertain
<1>17. ASSUME NEW o \in Ops, ApplyPending(o) PROVE TypeInv'
  BY <1>17, <1>0 DEF ApplyPending, CanApply, ApplyLocked
<1>18. ASSUME NEW p \in Domains, SoftDelete(p) PROVE TypeInv'
  BY <1>18, <1>0 DEF SoftDelete
<1>19. ASSUME NEW p \in Domains, Restore(p) PROVE TypeInv'
  BY <1>19, <1>0 DEF Restore
<1>20. ASSUME NEW p \in Domains, HardDelete(p) PROVE TypeInv'
  BY <1>20, <1>0 DEF HardDelete, UnresolvedIn
<1>21. ASSUME Billing PROVE TypeInv'
  BY <1>0, <1>21, AdminTypeStep DEF Billing
<1>22. ASSUME UNCHANGED vars PROVE TypeInv'
  BY <1>22, <1>0 DEF vars
<1> HIDE DEF TypeInv, TypeOK, WorkerOp, opVars, wrkVars, histVars, OpStatuses,
             ApplyStates, Reasons, WorkerPCs
<1>23. ASSUME NEW w \in Workers, WorkerStep(w) PROVE TypeInv'
  BY <1>23, <1>1, <1>2, <1>3, <1>4, <1>5, <1>6, <1>7, <1>8, <1>9, <1>10,
     <1>11, <1>12, <1>13
  DEF WorkerStep
<1>24. ASSUME NEW o \in Ops, OpStep(o) PROVE TypeInv'
  BY <1>24, <1>14, <1>15, <1>16, <1>17
  DEF OpStep
<1>25. ASSUME NEW p \in Domains, OwnerStep(p) PROVE TypeInv'
  BY <1>25, <1>18, <1>19, <1>20
  DEF OwnerStep
<1> QED
  BY <1>21, <1>22, <1>23, <1>24, <1>25, OperationAssumption DEF Next

(* The initial states are typed. *)
LEMMA InitTyped == Init => TypeInv
<1>1. WalletInit => WalletTypeOK
  <2> SUFFICES ASSUME WalletInit PROVE WalletTypeOK
    OBVIOUS
  <2>1. expired \in BOOLEAN /\ keys \subseteq IdempotencyKeys
    BY DEF WalletInit
  <2>2. /\ included_balance \in Nat
        /\ included_limit \in Nat
        /\ purchased_balance \in Nat
        /\ reserved_balance \in Nat
        /\ ledger_included \in Int
        /\ ledger_purchased \in Int
        /\ ledger_reserved \in Int
    BY WalletAssumption DEF WalletInit
  <2> QED
    BY <2>1, <2>2 DEF WalletTypeOK
<1> QED
  BY <1>1
  DEF Init, TypeInv, TypeOK, WorkerOp, OpStatuses, ApplyStates, Reasons,
      WorkerPCs

(* Every reachable state has the shape of the model; in particular no        *)
(* balance of the wallet and no charge is ever negative, whatever the        *)
(* amounts and however many workers race.                                    *)
THEOREM TypeCorrect == Spec => []TypeOK
<1>1. TypeInv => TypeOK
  BY DEF TypeInv
<1> QED
  BY <1>1, InitTyped, TypeStep, PTL DEF Spec

-----------------------------------------------------------------------------
(* One unresolved operation per domain, and its owner                        *)

(* The domain of an unresolved operation exists, and so did that of a worker *)
(* when its task started.                                                    *)
DomainInv ==
    /\ OneUnresolvedPerDomain
    /\ \A o \in Ops :
           Unresolved(o) =>
               odomain[o] \in Domains /\ owner[odomain[o]] # "deleted"
    /\ \A w \in Workers : wpc[w] # "idle" => wdom[w] \in Domains

(* Ownership of domains is preserved by every step. *)
LEMMA DomainStep ==
    TypeInv /\ DomainInv /\ [Next]_vars => DomainInv'
<1> SUFFICES ASSUME TypeInv, DomainInv, [Next]_vars
             PROVE DomainInv'
  OBVIOUS
<1> USE DEF TypeInv, TypeOK, WorkerOp, DomainInv, OneUnresolvedPerDomain,
    Unresolved,
       OpenStatuses, opVars, wrkVars, histVars
<1>1. ASSUME NEW w \in Workers, NEW o \in Ops, ResumePending(w, o)
      PROVE DomainInv'
  BY <1>1 DEF ResumePending, CanApply, ApplyLocked, OpenStatuses
<1>2. ASSUME NEW w \in Workers, NEW p \in Domains, StartTask(w, p)
      PROVE DomainInv'
  BY <1>2 DEF StartTask, GoTo, OpenStatuses
<1>3. ASSUME NEW w \in Workers, NEW o \in Ops, NEW a \in Estimates, Begin(w,
             o, a)
      PROVE DomainInv'
  <2>1. /\ wdom[w] \in Domains
        /\ owner[wdom[w]] # "deleted"
        /\ \A q \in Ops : odomain[q] = wdom[w] => ~Unresolved(q)
    BY <1>3 DEF Begin, UnresolvedIn
  <2>2. /\ odomain' = [odomain EXCEPT ![o] = wdom[w]]
        /\ ostatus' = [ostatus EXCEPT ![o] = "reserved"]
        /\ UNCHANGED <<apply_state, owner, wdom>>
        /\ wpc' = [wpc EXCEPT ![w] = "begun"]
    BY <1>3 DEF Begin, GoTo
  <2>3. \A q \in Ops : q # o => /\ odomain'[q] = odomain[q]
                               /\ Unresolved(q)' = Unresolved(q)
    BY <2>2
  <2>4. OneUnresolvedPerDomain'
    BY <2>1, <2>2, <2>3
  <2> QED
    BY <2>1, <2>2, <2>3, <2>4
<1>4. ASSUME NEW w \in Workers, GiveUp(w) PROVE DomainInv'
  BY <1>4 DEF GiveUp, Leave, OpenStatuses
<1>5. ASSUME NEW w \in Workers, MarkNetworkStarted(w) PROVE DomainInv'
  BY <1>5 DEF MarkNetworkStarted, GoTo, CanStart, OpenStatuses
<1>6. ASSUME NEW w \in Workers, StartRefused(w) PROVE DomainInv'
  BY <1>6 DEF StartRefused, Leave, OpenStatuses
<1>7. ASSUME NEW w \in Workers, NEW u \in Usages, NEW out \in Outcomes,
             CallModel(w, u, out)
      PROVE DomainInv'
  BY <1>7 DEF CallModel, GoTo, Outcomes, OpenStatuses
<1>8. ASSUME NEW w \in Workers, SettleAnswer(w) PROVE DomainInv'
  <2>1. CASE ostatus[wop[w]] \in OpenStatuses
    <3>1. wop[w] \in Ops
      BY <1>8 DEF SettleAnswer, WorkerOp
    <3> QED
      BY <1>8, <2>1, <3>1
      DEF SettleAnswer, SettleLocked, GoTo, NextAttempt, OpenStatuses
  <2>2. CASE ostatus[wop[w]] \notin OpenStatuses
    BY <1>8, <2>2 DEF SettleAnswer, GoTo, NextAttempt
  <2> QED
    BY <2>1, <2>2
<1>9. ASSUME NEW w \in Workers, SettlementFails(w) PROVE DomainInv'
  BY <1>9 DEF SettlementFails, MarkUncertain, UncertainStatus, Leave,
     OpenStatuses
<1>10. ASSUME NEW w \in Workers, ReleaseRefused(w) PROVE DomainInv'
  BY <1>10 DEF ReleaseRefused, ReleaseLocked, NextAttempt, Leave,
     OpenStatuses
<1>11. ASSUME NEW w \in Workers, CallFails(w) PROVE DomainInv'
  BY <1>11 DEF CallFails, MarkUncertain, UncertainStatus, Leave,
     OpenStatuses
<1>12. ASSUME NEW w \in Workers, ApplyResult(w) PROVE DomainInv'
  BY <1>12 DEF ApplyResult, CanApply, ApplyLocked, Leave, OpenStatuses
<1>13. ASSUME NEW w \in Workers, WorkerCrash(w) PROVE DomainInv'
  BY <1>13 DEF WorkerCrash, Leave, OpenStatuses
<1>14. ASSUME NEW o \in Ops, ReconcileStarted(o) PROVE DomainInv'
  BY <1>14 DEF ReconcileStarted, MarkUncertain, UncertainStatus,
     OpenStatuses
<1>15. ASSUME NEW o \in Ops, ReconcileNeverStarted(o) PROVE DomainInv'
  BY <1>15 DEF ReconcileNeverStarted, NeverStarted, ReleaseLocked,
     OpenStatuses
<1>16. ASSUME NEW o \in Ops, ResolveUncertain(o) PROVE DomainInv'
  BY <1>16 DEF ResolveUncertain, CanResolve, ReleaseLocked, SettleLocked,
     OpenStatuses
<1>17. ASSUME NEW o \in Ops, ApplyPending(o) PROVE DomainInv'
  BY <1>17 DEF ApplyPending, CanApply, ApplyLocked, OpenStatuses
<1>18. ASSUME NEW p \in Domains, SoftDelete(p) PROVE DomainInv'
  BY <1>18 DEF SoftDelete, OpenStatuses
<1>19. ASSUME NEW p \in Domains, Restore(p) PROVE DomainInv'
  BY <1>19 DEF Restore, OpenStatuses
<1>20. ASSUME NEW p \in Domains, HardDelete(p) PROVE DomainInv'
  BY <1>20 DEF HardDelete, UnresolvedIn
<1>21. ASSUME Billing PROVE DomainInv'
  BY <1>21 DEF Billing, OpenStatuses
<1>22. ASSUME UNCHANGED vars PROVE DomainInv'
  BY <1>22 DEF OpenStatuses, vars
<1> HIDE DEF TypeInv, TypeOK, WorkerOp, DomainInv, OneUnresolvedPerDomain,
             Unresolved, OpenStatuses, opVars, wrkVars, histVars
<1>23. ASSUME NEW w \in Workers, WorkerStep(w) PROVE DomainInv'
  BY <1>23, <1>1, <1>2, <1>3, <1>4, <1>5, <1>6, <1>7, <1>8, <1>9, <1>10,
     <1>11, <1>12, <1>13
  DEF WorkerStep
<1>24. ASSUME NEW o \in Ops, OpStep(o) PROVE DomainInv'
  BY <1>24, <1>14, <1>15, <1>16, <1>17
  DEF OpStep
<1>25. ASSUME NEW p \in Domains, OwnerStep(p) PROVE DomainInv'
  BY <1>25, <1>18, <1>19, <1>20
  DEF OwnerStep
<1> QED
  BY <1>21, <1>22, <1>23, <1>24, <1>25, OperationAssumption DEF Next

(* Ownership of domains holds in every behaviour, with the types. *)
LEMMA DomainInvariant == Spec => [](TypeInv /\ DomainInv)
<1>1. Init => DomainInv
  BY DEF Init, DomainInv, OneUnresolvedPerDomain, Unresolved, OpenStatuses
<1> QED
  BY <1>1, InitTyped, TypeStep, DomainStep, PTL DEF Spec

(* However many workers, reconcilers and operators race, a domain never has  *)
(* two operations with held money, an unknown outcome or an unapplied result *)
(* (begin_ai_provider_operation).                                            *)
THEOREM FailClosed == Spec => []OneUnresolvedPerDomain
<1>1. DomainInv => OneUnresolvedPerDomain
  BY DEF DomainInv
<1> QED
  BY <1>1, DomainInvariant, PTL

(* A hard delete never orphans an unresolved operation (the pre_delete       *)
(* guards of apps/ai_agent/signals.py).                                      *)
THEOREM OwnerProtected == Spec => []UnresolvedOwnerExists
<1>1. DomainInv => UnresolvedOwnerExists
  BY DEF DomainInv, UnresolvedOwnerExists
<1> QED
  BY <1>1, DomainInvariant, PTL

-----------------------------------------------------------------------------
(* The network marker                                                        *)

(* The marker precedes the call; a row released as never started has no      *)
(* marker and is closed, so it cannot get one.                               *)
MarkerInv ==
    /\ \A o \in Ops : crossed[o] => started[o]
    /\ \A o \in Ops : reason[o] = "never_started" =>
                          ~started[o] /\ ostatus[o] = "released"
    /\ \A w \in Workers : wpc[w] \notin {"idle", "ready", "begun"} =>
                              started[wop[w]]

(* The discipline of the marker is preserved by every step. *)
LEMMA MarkerStep ==
    TypeInv /\ MarkerInv /\ [Next]_vars => MarkerInv'
<1> SUFFICES ASSUME TypeInv, MarkerInv, [Next]_vars
             PROVE MarkerInv'
  OBVIOUS
<1> USE DEF TypeInv, TypeOK, WorkerOp, MarkerInv, opVars, wrkVars, histVars
<1>1. ASSUME NEW w \in Workers, NEW o \in Ops, ResumePending(w, o)
      PROVE MarkerInv'
  BY <1>1 DEF ResumePending, CanApply, ApplyLocked, OpenStatuses
<1>2. ASSUME NEW w \in Workers, NEW p \in Domains, StartTask(w, p)
      PROVE MarkerInv'
  BY <1>2 DEF StartTask, GoTo, OpenStatuses
<1>3. ASSUME NEW w \in Workers, NEW o \in Ops, NEW a \in Estimates, Begin(w,
             o, a)
      PROVE MarkerInv'
  BY <1>3 DEF Begin, GoTo, UnresolvedIn, OpenStatuses
<1>4. ASSUME NEW w \in Workers, GiveUp(w) PROVE MarkerInv'
  BY <1>4 DEF GiveUp, Leave, OpenStatuses
<1>5. ASSUME NEW w \in Workers, MarkNetworkStarted(w) PROVE MarkerInv'
  BY <1>5 DEF MarkNetworkStarted, GoTo, CanStart, OpenStatuses
<1>6. ASSUME NEW w \in Workers, StartRefused(w) PROVE MarkerInv'
  BY <1>6 DEF StartRefused, Leave, OpenStatuses
<1>7. ASSUME NEW w \in Workers, NEW u \in Usages, NEW out \in Outcomes,
             CallModel(w, u, out)
      PROVE MarkerInv'
  BY <1>7 DEF CallModel, GoTo, Outcomes, OpenStatuses
<1>8. ASSUME NEW w \in Workers, SettleAnswer(w) PROVE MarkerInv'
  <2>1. CASE ostatus[wop[w]] \in OpenStatuses
    <3>1. wop[w] \in Ops
      BY <1>8 DEF SettleAnswer, WorkerOp
    <3> QED
      BY <1>8, <2>1, <3>1
      DEF SettleAnswer, SettleLocked, GoTo, NextAttempt, OpenStatuses
  <2>2. CASE ostatus[wop[w]] \notin OpenStatuses
    BY <1>8, <2>2 DEF SettleAnswer, GoTo, NextAttempt
  <2> QED
    BY <2>1, <2>2
<1>9. ASSUME NEW w \in Workers, SettlementFails(w) PROVE MarkerInv'
  BY <1>9 DEF SettlementFails, MarkUncertain, UncertainStatus, Leave,
     OpenStatuses
<1>10. ASSUME NEW w \in Workers, ReleaseRefused(w) PROVE MarkerInv'
  BY <1>10 DEF ReleaseRefused, ReleaseLocked, NextAttempt, Leave,
     OpenStatuses
<1>11. ASSUME NEW w \in Workers, CallFails(w) PROVE MarkerInv'
  BY <1>11 DEF CallFails, MarkUncertain, UncertainStatus, Leave,
     OpenStatuses
<1>12. ASSUME NEW w \in Workers, ApplyResult(w) PROVE MarkerInv'
  BY <1>12 DEF ApplyResult, CanApply, ApplyLocked, Leave, OpenStatuses
<1>13. ASSUME NEW w \in Workers, WorkerCrash(w) PROVE MarkerInv'
  BY <1>13 DEF WorkerCrash, Leave, OpenStatuses
<1>14. ASSUME NEW o \in Ops, ReconcileStarted(o) PROVE MarkerInv'
  BY <1>14 DEF ReconcileStarted, MarkUncertain, UncertainStatus,
     OpenStatuses
<1>15. ASSUME NEW o \in Ops, ReconcileNeverStarted(o) PROVE MarkerInv'
  BY <1>15 DEF ReconcileNeverStarted, NeverStarted, ReleaseLocked
<1>16. ASSUME NEW o \in Ops, ResolveUncertain(o) PROVE MarkerInv'
  BY <1>16 DEF ResolveUncertain, CanResolve, ReleaseLocked, SettleLocked,
     OpenStatuses
<1>17. ASSUME NEW o \in Ops, ApplyPending(o) PROVE MarkerInv'
  BY <1>17 DEF ApplyPending, CanApply, ApplyLocked, OpenStatuses
<1>18. ASSUME NEW p \in Domains, SoftDelete(p) PROVE MarkerInv'
  BY <1>18 DEF SoftDelete, OpenStatuses
<1>19. ASSUME NEW p \in Domains, Restore(p) PROVE MarkerInv'
  BY <1>19 DEF Restore, OpenStatuses
<1>20. ASSUME NEW p \in Domains, HardDelete(p) PROVE MarkerInv'
  BY <1>20 DEF HardDelete, UnresolvedIn, OpenStatuses
<1>21. ASSUME Billing PROVE MarkerInv'
  BY <1>21 DEF Billing, OpenStatuses
<1>22. ASSUME UNCHANGED vars PROVE MarkerInv'
  BY <1>22 DEF OpenStatuses, vars
<1> HIDE DEF TypeInv, TypeOK, WorkerOp, MarkerInv, opVars, wrkVars, histVars
<1>23. ASSUME NEW w \in Workers, WorkerStep(w) PROVE MarkerInv'
  BY <1>23, <1>1, <1>2, <1>3, <1>4, <1>5, <1>6, <1>7, <1>8, <1>9, <1>10,
     <1>11, <1>12, <1>13
  DEF WorkerStep
<1>24. ASSUME NEW o \in Ops, OpStep(o) PROVE MarkerInv'
  BY <1>24, <1>14, <1>15, <1>16, <1>17
  DEF OpStep
<1>25. ASSUME NEW p \in Domains, OwnerStep(p) PROVE MarkerInv'
  BY <1>25, <1>18, <1>19, <1>20
  DEF OwnerStep
<1> QED
  BY <1>21, <1>22, <1>23, <1>24, <1>25, OperationAssumption DEF Next

(* A row that the reconciler released as never started never sees a provider *)
(* call, also when its worker was only slow                                  *)
(* (reconcile_stale_ai_provider_operations, mark_ai_provider_network_started). *)
THEOREM MarkerSound == Spec => []AutoReleasedNeverCrossed
<1>1. Init => MarkerInv
  BY DEF Init, MarkerInv
<1>2. TypeInv /\ MarkerInv => AutoReleasedNeverCrossed
  BY DEF MarkerInv, AutoReleasedNeverCrossed
<1> QED
  BY <1>1, <1>2, InitTyped, TypeStep, MarkerStep, PTL DEF Spec

-----------------------------------------------------------------------------
(* Final decisions                                                           *)

(* No step changes a released or settled row except to apply its result. *)
LEMMA ResolvedStepLemma ==
    TypeInv /\ [Next]_vars => \A q \in Ops : ResolvedStep(q)
<1> SUFFICES ASSUME TypeInv, [Next]_vars
             PROVE \A q \in Ops : ResolvedStep(q)
  OBVIOUS
<1> USE DEF TypeInv, TypeOK, WorkerOp, ResolvedStep, opVars, wrkVars, histVars
<1>1. ASSUME NEW w \in Workers, NEW o \in Ops, ResumePending(w, o)
      PROVE \A q \in Ops : ResolvedStep(q)
  BY <1>1 DEF ResumePending, CanApply, ApplyLocked, OpenStatuses
<1>2. ASSUME NEW w \in Workers, NEW p \in Domains, StartTask(w, p)
      PROVE \A q \in Ops : ResolvedStep(q)
  BY <1>2 DEF StartTask, GoTo, OpenStatuses
<1>3. ASSUME NEW w \in Workers, NEW o \in Ops, NEW a \in Estimates, Begin(w,
             o, a)
      PROVE \A q \in Ops : ResolvedStep(q)
  BY <1>3 DEF Begin, GoTo, UnresolvedIn, OpenStatuses
<1>4. ASSUME NEW w \in Workers, GiveUp(w)
      PROVE \A q \in Ops : ResolvedStep(q)
  BY <1>4 DEF GiveUp, Leave, OpenStatuses
<1>5. ASSUME NEW w \in Workers, MarkNetworkStarted(w)
      PROVE \A q \in Ops : ResolvedStep(q)
  BY <1>5 DEF MarkNetworkStarted, GoTo, CanStart, OpenStatuses
<1>6. ASSUME NEW w \in Workers, StartRefused(w)
      PROVE \A q \in Ops : ResolvedStep(q)
  BY <1>6 DEF StartRefused, Leave, OpenStatuses
<1>7. ASSUME NEW w \in Workers, NEW u \in Usages, NEW out \in Outcomes,
             CallModel(w, u, out)
      PROVE \A q \in Ops : ResolvedStep(q)
  BY <1>7 DEF CallModel, GoTo, Outcomes, OpenStatuses
<1>8. ASSUME NEW w \in Workers, SettleAnswer(w)
      PROVE \A q \in Ops : ResolvedStep(q)
  <2>1. CASE ostatus[wop[w]] \in OpenStatuses
    <3>1. wop[w] \in Ops
      BY <1>8 DEF SettleAnswer, WorkerOp
    <3> QED
      BY <1>8, <2>1, <3>1
      DEF SettleAnswer, SettleLocked, GoTo, NextAttempt, OpenStatuses
  <2>2. CASE ostatus[wop[w]] \notin OpenStatuses
    BY <1>8, <2>2 DEF SettleAnswer, GoTo, NextAttempt
  <2> QED
    BY <2>1, <2>2
<1>9. ASSUME NEW w \in Workers, SettlementFails(w)
      PROVE \A q \in Ops : ResolvedStep(q)
  BY <1>9 DEF SettlementFails, MarkUncertain, UncertainStatus, Leave,
     OpenStatuses
<1>10. ASSUME NEW w \in Workers, ReleaseRefused(w)
      PROVE \A q \in Ops : ResolvedStep(q)
  BY <1>10 DEF ReleaseRefused, ReleaseLocked, NextAttempt, Leave,
     OpenStatuses
<1>11. ASSUME NEW w \in Workers, CallFails(w)
      PROVE \A q \in Ops : ResolvedStep(q)
  BY <1>11 DEF CallFails, MarkUncertain, UncertainStatus, Leave,
     OpenStatuses
<1>12. ASSUME NEW w \in Workers, ApplyResult(w)
      PROVE \A q \in Ops : ResolvedStep(q)
  BY <1>12 DEF ApplyResult, CanApply, ApplyLocked, Leave, OpenStatuses
<1>13. ASSUME NEW w \in Workers, WorkerCrash(w)
      PROVE \A q \in Ops : ResolvedStep(q)
  BY <1>13 DEF WorkerCrash, Leave, OpenStatuses
<1>14. ASSUME NEW o \in Ops, ReconcileStarted(o)
      PROVE \A q \in Ops : ResolvedStep(q)
  BY <1>14 DEF ReconcileStarted, MarkUncertain, UncertainStatus,
     OpenStatuses
<1>15. ASSUME NEW o \in Ops, ReconcileNeverStarted(o)
      PROVE \A q \in Ops : ResolvedStep(q)
  BY <1>15 DEF ReconcileNeverStarted, NeverStarted, ReleaseLocked,
     OpenStatuses
<1>16. ASSUME NEW o \in Ops, ResolveUncertain(o)
      PROVE \A q \in Ops : ResolvedStep(q)
  BY <1>16 DEF ResolveUncertain, CanResolve, ReleaseLocked, SettleLocked,
     OpenStatuses
<1>17. ASSUME NEW o \in Ops, ApplyPending(o)
      PROVE \A q \in Ops : ResolvedStep(q)
  BY <1>17 DEF ApplyPending, CanApply, ApplyLocked, OpenStatuses
<1>18. ASSUME NEW p \in Domains, SoftDelete(p)
      PROVE \A q \in Ops : ResolvedStep(q)
  BY <1>18 DEF SoftDelete, OpenStatuses
<1>19. ASSUME NEW p \in Domains, Restore(p)
      PROVE \A q \in Ops : ResolvedStep(q)
  BY <1>19 DEF Restore, OpenStatuses
<1>20. ASSUME NEW p \in Domains, HardDelete(p)
      PROVE \A q \in Ops : ResolvedStep(q)
  BY <1>20 DEF HardDelete, UnresolvedIn, OpenStatuses
<1>21. ASSUME Billing PROVE \A q \in Ops : ResolvedStep(q)
  BY <1>21 DEF Billing, OpenStatuses
<1>22. ASSUME UNCHANGED vars PROVE \A q \in Ops : ResolvedStep(q)
  BY <1>22 DEF OpenStatuses, vars
<1> HIDE DEF TypeInv, TypeOK, WorkerOp, ResolvedStep, opVars, wrkVars, histVars
<1>23. ASSUME NEW w \in Workers, WorkerStep(w)
    PROVE \A q \in Ops : ResolvedStep(q)
  BY <1>23, <1>1, <1>2, <1>3, <1>4, <1>5, <1>6, <1>7, <1>8, <1>9, <1>10,
     <1>11, <1>12, <1>13
  DEF WorkerStep
<1>24. ASSUME NEW o \in Ops, OpStep(o) PROVE \A q \in Ops : ResolvedStep(q)
  BY <1>24, <1>14, <1>15, <1>16, <1>17
  DEF OpStep
<1>25. ASSUME NEW p \in Domains, OwnerStep(p)
    PROVE \A q \in Ops : ResolvedStep(q)
  BY <1>25, <1>18, <1>19, <1>20
  DEF OwnerStep
<1> QED
  BY <1>21, <1>22, <1>23, <1>24, <1>25, OperationAssumption DEF Next

(* A committed release or settlement is final                                *)
(* (resolve_uncertain_ai_provider_operation, release and settle).            *)
THEOREM DecisionFinal == Spec => ResolvedOnce
<1>1. TypeInv /\ [Next]_vars => [\A o \in Ops : ResolvedStep(o)]_vars
  BY ResolvedStepLemma
<1> QED
  BY <1>1, InitTyped, TypeStep, PTL DEF Spec, ResolvedOnce

-----------------------------------------------------------------------------
(* Money                                                                     *)

(* A step that moves no money leaves wallet, amounts and charges alone, and  *)
(* an operation stays open if it is.                                         *)
Quiet ==
    /\ UNCHANGED <<walletVars, oamount, charged>>
    /\ \A o \in Ops : \/ ostatus'[o] = ostatus[o]
                      \/ ostatus[o] \in OpenStatuses /\ ostatus'[o] \in OpenStatuses

Reserving(o, a) ==
    /\ ostatus[o] = "absent"
    /\ ReserveCredits(a)
    /\ ostatus' = [ostatus EXCEPT ![o] = "reserved"]
    /\ oamount' = [oamount EXCEPT ![o] = a]
    /\ UNCHANGED charged

Releasing(o) ==
    /\ ostatus[o] \in OpenStatuses
    /\ \E why \in Reasons : ReleaseLocked(o, why)

Settling(o, actual) ==
    /\ ostatus[o] \in OpenStatuses
    /\ \E why \in Reasons, apply \in ApplyStates : SettleLocked(o, actual, why, apply)

(* What the steps of workers, reconciler, operator, owners and billing do to *)
(* the money: nothing, or one operation of the wallet.                       *)
MoneyStep ==
    \/ Quiet
    \/ \E o \in Ops, a \in Estimates : Reserving(o, a)
    \/ \E o \in Ops : Releasing(o)
    \/ \E o \in Ops : Settling(o, usage[o]) \/ Settling(o, oamount[o])
    \/ WalletAdmin /\ UNCHANGED opVars

(* Every step is one of them. *)
LEMMA StepMoney == TypeInv /\ [Next]_vars => MoneyStep
<1> SUFFICES ASSUME TypeInv, [Next]_vars PROVE MoneyStep
  OBVIOUS
<1> USE DEF TypeInv, TypeOK, WorkerOp
<1>0. UNCHANGED <<walletVars, opVars>> => Quiet
  BY DEF Quiet, opVars
<1>1. ASSUME NEW o, ApplyLocked(o) PROVE Quiet
  BY <1>1 DEF ApplyLocked, Quiet
<1>2. ASSUME NEW o, MarkUncertain(o) PROVE Quiet
  BY <1>2 DEF MarkUncertain, UncertainStatus, Quiet, OpenStatuses
<1>3. ASSUME NEW w \in Workers, NEW o \in Ops, NEW a \in Estimates, Begin(w, o, a)
      PROVE Reserving(o, a)
  BY <1>3 DEF Begin, Reserving
<1>4. ASSUME NEW w \in Workers, SettleAnswer(w)
      PROVE Quiet \/ \E o \in Ops : Settling(o, usage[o])
  <2>1. wop[w] \in Ops
    BY <1>4 DEF SettleAnswer
  <2>2. CASE ostatus[wop[w]] \in OpenStatuses
    <3>1. PICK why \in Reasons, apply \in ApplyStates :
             SettleLocked(wop[w], usage[wop[w]], why, apply)
      BY <1>4, <2>2 DEF SettleAnswer, OpenStatuses, Reasons, ApplyStates
    <3> QED
      BY <2>1, <2>2, <3>1 DEF Settling
  <2>3. CASE ostatus[wop[w]] \notin OpenStatuses
    BY <1>0, <1>4, <2>3 DEF SettleAnswer
  <2> QED
    BY <2>2, <2>3
<1>5. ASSUME NEW w \in Workers, ReleaseRefused(w)
      PROVE Quiet \/ \E o \in Ops : Releasing(o)
  <2>1. wop[w] \in Ops
    BY <1>5 DEF ReleaseRefused
  <2>2. CASE ostatus[wop[w]] \in OpenStatuses
    <3>1. ReleaseLocked(wop[w], "not_accepted")
      BY <1>5, <2>2 DEF ReleaseRefused, OpenStatuses
    <3> QED
      BY <2>1, <2>2, <3>1 DEF Releasing, Reasons
  <2>3. CASE ostatus[wop[w]] \notin OpenStatuses
    BY <1>0, <1>5, <2>3 DEF ReleaseRefused
  <2> QED
    BY <2>2, <2>3
<1>6. ASSUME NEW o \in Ops, ReconcileNeverStarted(o) PROVE Releasing(o)
  BY <1>6 DEF ReconcileNeverStarted, NeverStarted, Releasing, Reasons, OpenStatuses
<1>7. ASSUME NEW o \in Ops, ResolveUncertain(o)
      PROVE Releasing(o) \/ Settling(o, oamount[o])
  BY <1>7
  DEF ResolveUncertain, CanResolve, Releasing, Settling, Reasons, ApplyStates, OpenStatuses
<1>8. ASSUME NEW w \in Workers, WorkerStep(w) PROVE MoneyStep
  <2>1. \/ \E o \in Ops : ResumePending(w, o)
        \/ SettlementFails(w) \/ CallFails(w) \/ ApplyResult(w)
        => Quiet
    BY <1>0, <1>1, <1>2 DEF ResumePending, SettlementFails, CallFails, ApplyResult
  <2>2. \/ \E p \in Domains : StartTask(w, p)
        \/ GiveUp(w) \/ StartRefused(w) \/ WorkerCrash(w)
        \/ \E u \in Usages, out \in Outcomes : CallModel(w, u, out)
        => Quiet
    BY <1>0 DEF StartTask, GiveUp, StartRefused, WorkerCrash, CallModel
  <2>3. MarkNetworkStarted(w) => Quiet
    BY DEF MarkNetworkStarted, Quiet
  <2> QED
    BY <1>3, <1>4, <1>5, <1>8, <2>1, <2>2, <2>3 DEF WorkerStep, MoneyStep
<1>9. ASSUME NEW o \in Ops, OpStep(o) PROVE MoneyStep
  <2>1. ReconcileStarted(o) \/ ApplyPending(o) => Quiet
    BY <1>1, <1>2 DEF ReconcileStarted, ApplyPending
  <2> QED
    BY <1>6, <1>7, <1>9, <2>1 DEF OpStep, MoneyStep
<1>10. ASSUME NEW p \in Domains, OwnerStep(p) PROVE MoneyStep
  BY <1>0, <1>10 DEF OwnerStep, SoftDelete, Restore, HardDelete, MoneyStep
<1>11. CASE Billing
  BY <1>11 DEF Billing, MoneyStep
<1>12. CASE UNCHANGED vars
  BY <1>0, <1>12 DEF vars, MoneyStep
<1> QED
  BY <1>8, <1>9, <1>10, <1>11, <1>12, OperationAssumption DEF Next

(* The part of LedgerMatchesWallet about the two spendable balances. *)
SpendableMatches ==
    /\ ledger_included = included_balance
    /\ ledger_purchased = purchased_balance

(* The wallet operations keep the spendable balances equal to the sums of    *)
(* their ledger rows.                                                        *)
LEMMA LedgerOperations ==
    ASSUME WalletTypeOK, SpendableMatches, NEW r \in Reservations,
           NEW a \in Nat, NEW actual \in Nat
    PROVE  /\ ReserveCredits(a) => SpendableMatches'
           /\ ReleaseCredits(r, a) => SpendableMatches'
           /\ SettleCredits(r, a, actual) => SpendableMatches'
<1> USE WalletAssumption DEF WalletTypeOK, SpendableMatches
<1>1. ReserveCredits(a) => SpendableMatches'
  BY DEF ReserveCredits, IncludedAfterExpiry
<1>2. ReleaseCredits(r, a) => SpendableMatches'
  BY DEF ReleaseCredits
<1>3. SettleCredits(r, a, actual) => SpendableMatches'
  BY DEF SettleCredits, walletVars, balances
<1> QED
  BY <1>1, <1>2, <1>3

(* So do the operations of billing and of the administrator. *)
LEMMA LedgerAdmin ==
    WalletTypeOK /\ SpendableMatches /\ WalletAdmin
        => SpendableMatches'
<1> SUFFICES ASSUME WalletTypeOK, SpendableMatches, WalletAdmin
             PROVE SpendableMatches'
  OBVIOUS
<1> USE WalletAssumption DEF WalletTypeOK, SpendableMatches
<1>1. ASSUME NEW k \in GrantKeys, NEW a \in Limits, GrantIncluded(k, a)
      PROVE SpendableMatches'
  BY <1>1 DEF GrantIncluded
<1>2. ASSUME NEW a \in Limits, SyncIncludedLimit(a)
      PROVE SpendableMatches'
  <2>1. SyncedBalance(a) \in Int
    BY DEF SyncedBalance, NonNegative, Larger
  <2> QED
    BY <1>2, <2>1 DEF SyncIncludedLimit
<1>3. ASSUME NEW k \in PurchaseKeys, NEW a \in PackAmounts, Topup(k, a)
      PROVE SpendableMatches'
  BY <1>3 DEF Topup
<1>4. ASSUME NEW k \in ReversalKeys, NEW a \in PackAmounts,
             ReversePurchased(k, a)
      PROVE SpendableMatches'
  BY <1>4 DEF ReversePurchased
<1>5. CASE PeriodEnds
  BY <1>5 DEF PeriodEnds
<1> HIDE DEF SpendableMatches
<1> QED
  BY <1>1, <1>2, <1>3, <1>4, <1>5 DEF WalletAdmin

(* Every step keeps the ledger of the spendable balances. *)
LEMMA SpendableStep ==
    ASSUME TypeInv, SpendableMatches, [Next]_vars
    PROVE  SpendableMatches'
<1> USE DEF TypeInv, TypeOK, Ops
<1>1. CASE Quiet
  BY <1>1 DEF Quiet, SpendableMatches, walletVars, balances
<1>2. ASSUME NEW o \in Ops, NEW a \in Estimates, Reserving(o, a) PROVE SpendableMatches'
  BY <1>2, LedgerOperations, OperationAssumption DEF Reserving
<1>3. ASSUME NEW o \in Ops, Releasing(o) PROVE SpendableMatches'
  BY <1>3, LedgerOperations DEF Releasing, ReleaseLocked
<1>4. ASSUME NEW o \in Ops, NEW actual \in Nat, Settling(o, actual) PROVE SpendableMatches'
  BY <1>4, LedgerOperations DEF Settling, SettleLocked
<1>5. CASE WalletAdmin
  BY <1>5, LedgerAdmin
<1>6. \A o \in Ops : usage[o] \in Nat /\ oamount[o] \in Nat
  OBVIOUS
<1> QED
  BY <1>1, <1>2, <1>3, <1>4, <1>5, <1>6, StepMoney DEF MoneyStep

-----------------------------------------------------------------------------
(* The reserved balance                                                      *)

(* Other than by its own release or settlement no operation is open or has   *)
(* a key in the ledger.                                                      *)
ReservedInv ==
    /\ \A o \in Ops : /\ <<"release", o>> \in keys => ostatus[o] = "released"
                      /\ <<"settled", o>> \in keys => ostatus[o] = "settled"
    /\ IsFiniteSet(HeldCredits)
    /\ ReservedMatchesOpen
    /\ ledger_reserved = reserved_balance

(* An operation that reserved n credits holds n. *)
LEMMA HeldFinite ==
    ASSUME NEW o, NEW n \in Nat
    PROVE  IsFiniteSet({o} \X (1..n)) /\ Cardinality({o} \X (1..n)) = n
<1>1. IsFiniteSet({o}) /\ Cardinality({o}) = 1
  BY FS_Singleton
<1>2. IsFiniteSet(1..n) /\ Cardinality(1..n) = n
  BY FS_Interval
<1>3. /\ IsFiniteSet({o} \X (1..n))
      /\ Cardinality({o} \X (1..n)) = Cardinality({o}) * Cardinality(1..n)
  BY <1>1, <1>2, FS_Product, Zenon
<1> QED
  BY <1>1, <1>2, <1>3

(* An operation that opens adds its credits to those held before. *)
LEMMA HeldOpens ==
    ASSUME IsFiniteSet(HeldCredits), NEW o \in Ops, oamount'[o] \in Nat,
           o \notin OpenOps, OpenOps' = OpenOps \union {o},
           \A q \in OpenOps : oamount'[q] = oamount[q]
    PROVE  /\ IsFiniteSet(HeldCredits)'
           /\ Cardinality(HeldCredits)' = Cardinality(HeldCredits) + oamount'[o]
<1> DEFINE H == {o} \X (1..oamount'[o])
<1>1. IsFiniteSet(H) /\ Cardinality(H) = oamount'[o]
  BY HeldFinite
<1>2. HeldCredits' = HeldCredits \union H
  <2>1. \A q \in OpenOps : HeldBy(q)' = HeldBy(q)
    BY DEF HeldBy
  <2>2. HeldBy(o)' = H
    BY DEF HeldBy
  <2>3. HeldCredits' = UNION {HeldBy(q)' : q \in OpenOps'}
    BY DEF HeldCredits
  <2> QED
    BY <2>1, <2>2, <2>3 DEF HeldCredits
<1>3. HeldCredits \cap H = {}
  BY DEF HeldCredits, HeldBy
<1> HIDE DEF H
<1>4. /\ IsFiniteSet(HeldCredits \union H)
      /\ Cardinality(HeldCredits \union H)
            = Cardinality(HeldCredits) + Cardinality(H) - Cardinality(HeldCredits \cap H)
  BY <1>1, FS_Union
<1>5. Cardinality(HeldCredits) \in Nat /\ Cardinality(HeldCredits \cap H) = 0
  BY <1>3, FS_CardinalityType, FS_EmptySet
<1> QED
  BY <1>1, <1>2, <1>4, <1>5

(* An operation that closes held its credits, and takes only them away. *)
LEMMA HeldCloses ==
    ASSUME IsFiniteSet(HeldCredits), NEW o \in OpenOps, oamount[o] \in Nat,
           OpenOps' = OpenOps \ {o}, UNCHANGED oamount
    PROVE  /\ IsFiniteSet(HeldCredits)'
           /\ oamount[o] <= Cardinality(HeldCredits)
           /\ Cardinality(HeldCredits)' = Cardinality(HeldCredits) - oamount[o]
<1> DEFINE R == UNION {HeldBy(q) : q \in OpenOps \ {o}}
<1>1. HeldCredits' = R
  BY DEF HeldCredits, HeldBy
<1>2. HeldCredits = R \union HeldBy(o) /\ R \cap HeldBy(o) = {} /\ R \in SUBSET HeldCredits
  BY DEF HeldCredits, HeldBy
<1>3. IsFiniteSet(HeldBy(o)) /\ Cardinality(HeldBy(o)) = oamount[o]
  BY HeldFinite DEF HeldBy
<1> HIDE DEF R
<1>4. IsFiniteSet(R)
  BY <1>2, FS_Subset
<1>5. Cardinality(HeldCredits)
         = Cardinality(R) + Cardinality(HeldBy(o)) - Cardinality(R \cap HeldBy(o))
  BY <1>2, <1>3, <1>4, FS_Union
<1>6. Cardinality(R) \in Nat /\ Cardinality(R \cap HeldBy(o)) = 0
  BY <1>2, <1>4, FS_CardinalityType, FS_EmptySet
<1> QED
  BY <1>1, <1>3, <1>4, <1>5, <1>6

(* Every step keeps the reserved balance equal to what is held. *)
LEMMA ReservedStep == TypeInv /\ ReservedInv /\ [Next]_vars => ReservedInv'
<1> SUFFICES ASSUME TypeInv, ReservedInv, [Next]_vars PROVE ReservedInv'
  OBVIOUS
<1> USE DEF TypeInv, TypeOK
<1>0. ASSUME UNCHANGED <<oamount, reserved_balance, ledger_reserved>>, OpenOps' = OpenOps
      PROVE  /\ IsFiniteSet(HeldCredits)' /\ ReservedMatchesOpen'
             /\ ledger_reserved' = reserved_balance'
  <2>1. HeldCredits' = HeldCredits
    BY <1>0 DEF HeldCredits, HeldBy
  <2> QED
    BY <1>0, <2>1 DEF ReservedInv, ReservedMatchesOpen
<1>1. CASE Quiet
  <2>1. OpenOps' = OpenOps
    BY <1>1 DEF Quiet, OpenOps
  <2>2. UNCHANGED <<keys, oamount, reserved_balance, ledger_reserved>>
    BY <1>1 DEF Quiet, walletVars, balances
  <2>3. \A o \in Ops : ostatus[o] \in {"released", "settled"} => ostatus'[o] = ostatus[o]
    BY <1>1 DEF Quiet, OpenStatuses
  <2> QED
    BY <1>0, <2>1, <2>2, <2>3 DEF ReservedInv
<1>2. ASSUME NEW o \in Ops, NEW a \in Estimates, Reserving(o, a) PROVE ReservedInv'
  <2>1. o \notin OpenOps /\ OpenOps' = OpenOps \union {o}
    BY <1>2 DEF Reserving, OpenOps, OpenStatuses
  <2>2. a \in Nat /\ oamount'[o] = a /\ \A q \in OpenOps : oamount'[q] = oamount[q]
    BY <1>2, <2>1, OperationAssumption DEF Reserving, OpenOps
  <2>3. IsFiniteSet(HeldCredits)' /\ Cardinality(HeldCredits)' = Cardinality(HeldCredits) + a
    BY <2>1, <2>2, HeldOpens DEF ReservedInv
  <2>4. /\ reserved_balance' = reserved_balance + a /\ ledger_reserved' = ledger_reserved + a
        /\ \A q \in Ops : /\ <<"release", q>> \in keys' => <<"release", q>> \in keys
                          /\ <<"settled", q>> \in keys' => <<"settled", q>> \in keys
    BY <1>2 DEF Reserving, ReserveCredits
  <2>5. \A q \in Ops : ostatus[q] \in {"released", "settled"} => ostatus'[q] = ostatus[q]
    BY <1>2 DEF Reserving
  <2> QED
    BY <2>3, <2>4, <2>5 DEF ReservedInv, ReservedMatchesOpen
<1>3. ASSUME NEW o \in Ops, Releasing(o) PROVE ReservedInv'
  <2>0. o \in OpenOps /\ <<"release", o>> \notin keys /\ oamount[o] \in Nat
    BY <1>3 DEF Releasing, ReservedInv, OpenOps, OpenStatuses
  <2>1. /\ ostatus' = [ostatus EXCEPT ![o] = "released"] /\ UNCHANGED oamount
        /\ ReleaseCredits(o, oamount[o])
    BY <1>3 DEF Releasing, ReleaseLocked
  <2>2. OpenOps' = OpenOps \ {o}
    BY <2>1 DEF OpenOps, OpenStatuses
  <2>3. /\ IsFiniteSet(HeldCredits)' /\ oamount[o] <= reserved_balance
        /\ Cardinality(HeldCredits)' = reserved_balance - oamount[o]
    BY <2>0, <2>1, <2>2, HeldCloses DEF ReservedInv, ReservedMatchesOpen
  <2>4. /\ reserved_balance' = reserved_balance - oamount[o]
        /\ ledger_reserved' = ledger_reserved - oamount[o]
        /\ keys' = keys \union {<<"release", o>>}
    BY <2>0, <2>1, <2>3 DEF ReleaseCredits, Smaller, WalletTypeOK
  <2>5. \A q \in Ops : /\ <<"release", q>> \in keys' => ostatus'[q] = "released"
                       /\ <<"settled", q>> \in keys' => ostatus'[q] = "settled"
    BY <2>0, <2>1, <2>4 DEF ReservedInv, OpenOps, OpenStatuses
  <2> QED
    BY <2>3, <2>4, <2>5 DEF ReservedInv, ReservedMatchesOpen
<1>4. ASSUME NEW o \in Ops, NEW actual \in Nat, Settling(o, actual) PROVE ReservedInv'
  <2>0. o \in OpenOps /\ <<"settled", o>> \notin keys /\ oamount[o] \in Nat
    BY <1>4 DEF Settling, ReservedInv, OpenOps, OpenStatuses
  <2>1. /\ ostatus' = [ostatus EXCEPT ![o] = "settled"] /\ UNCHANGED oamount
        /\ SettleCredits(o, oamount[o], actual)
    BY <1>4 DEF Settling, SettleLocked
  <2>2. OpenOps' = OpenOps \ {o}
    BY <2>1 DEF OpenOps, OpenStatuses
  <2>3. /\ IsFiniteSet(HeldCredits)' /\ oamount[o] <= reserved_balance
        /\ Cardinality(HeldCredits)' = reserved_balance - oamount[o]
    BY <2>0, <2>1, <2>2, HeldCloses DEF ReservedInv, ReservedMatchesOpen
  <2>4. /\ reserved_balance' = reserved_balance - oamount[o]
        /\ ledger_reserved' = ledger_reserved - oamount[o]
        /\ keys' = keys \union {<<"settled", o>>}
    BY <2>0, <2>1, <2>3
    DEF SettleCredits, ReservedByOthers, NonNegative, Larger, WalletTypeOK
  <2>5. \A q \in Ops : /\ <<"release", q>> \in keys' => ostatus'[q] = "released"
                       /\ <<"settled", q>> \in keys' => ostatus'[q] = "settled"
    BY <2>0, <2>1, <2>4 DEF ReservedInv, OpenOps, OpenStatuses
  <2> QED
    BY <2>3, <2>4, <2>5 DEF ReservedInv, ReservedMatchesOpen
<1>5. CASE WalletAdmin /\ UNCHANGED opVars
  <2>1. UNCHANGED <<ostatus, oamount>> /\ OpenOps' = OpenOps
    BY <1>5 DEF opVars, OpenOps
  <2>2. /\ UNCHANGED <<reserved_balance, ledger_reserved>>
        /\ \A q \in Ops : /\ <<"release", q>> \in keys' => <<"release", q>> \in keys
                          /\ <<"settled", q>> \in keys' => <<"settled", q>> \in keys
    BY <1>5
    DEF WalletAdmin, GrantIncluded, SyncIncludedLimit, Topup, ReversePurchased, PeriodEnds
  <2> QED
    BY <1>0, <2>1, <2>2 DEF ReservedInv
<1>6. \A o \in Ops : usage[o] \in Nat /\ oamount[o] \in Nat
  OBVIOUS
<1> QED
  BY <1>1, <1>2, <1>3, <1>4, <1>5, <1>6, StepMoney DEF MoneyStep

(* No operation is open at the start. *)
LEMMA ReservedInit == Init => ReservedInv
<1> SUFFICES ASSUME Init PROVE ReservedInv
  OBVIOUS
<1>1. HeldCredits = {}
  BY DEF Init, HeldCredits, OpenOps, OpenStatuses
<1> QED
  BY <1>1, FS_EmptySet DEF Init, WalletInit, ReservedInv, ReservedMatchesOpen

(* The reserved balance is what the open operations hold, credit by credit,  *)
(* whoever releases or settles them (_release_locked, _settle_locked, begin). *)
THEOREM ReservedSound == Spec => []ReservedMatchesOpen
<1>1. ReservedInv => ReservedMatchesOpen
  BY DEF ReservedInv
<1> QED
  BY <1>1, InitTyped, TypeStep, ReservedInit, ReservedStep, PTL DEF Spec

(* The three balances are always the sums of their ledger rows               *)
(* (AICreditTransaction), whatever fails or repeats.                         *)
THEOREM LedgerSound == Spec => []LedgerMatchesWallet
<1>1. Init => SpendableMatches
  BY DEF Init, WalletInit, SpendableMatches
<1>2. TypeInv /\ SpendableMatches /\ [Next]_vars => SpendableMatches'
  BY SpendableStep
<1>3. SpendableMatches /\ ReservedInv => LedgerMatchesWallet
  BY DEF SpendableMatches, ReservedInv, LedgerMatchesWallet
<1> QED
  BY <1>1, <1>2, <1>3, InitTyped, TypeStep, ReservedInit, ReservedStep, PTL DEF Spec

-----------------------------------------------------------------------------
(* Reservations are backed, and calls are charged                            *)

(* What a settlement leaves is at least what the other reservations need; a  *)
(* reservation keeps that, too; neither forgets a grant.                     *)
LEMMA BackingOperations ==
    ASSUME WalletTypeOK, ReservationsBacked, NEW r \in Reservations,
           NEW a \in Nat, NEW actual \in Nat
    PROVE  /\ a # 0 /\ ReserveCredits(a) => ReservationsBacked'
           /\ ReleaseCredits(r, a) => ReservationsBacked'
           /\ SettleCredits(r, a, actual) => ReservationsBacked'
<1>0. ASSUME ReserveCredits(a) \/ ReleaseCredits(r, a)
                 \/ SettleCredits(r, a, actual)
      PROVE  Granted => Granted'
  BY <1>0 DEF Granted, ReserveCredits, ReleaseCredits, SettleCredits,
              walletVars
<1> USE WalletAssumption DEF WalletTypeOK, Backed, NonNegative, Larger,
        Smaller
<1>1. a # 0 /\ ReserveCredits(a) /\ Backed => Backed'
  BY DEF ReserveCredits, CanReserve, AvailableAfterExpiry,
         IncludedAfterExpiry
<1>2. ReleaseCredits(r, a) /\ Backed => Backed'
  BY DEF ReleaseCredits
<1>3. SettleCredits(r, a, actual) /\ Backed => Backed'
  <2> DEFINE c == ChargeFor(a, actual)
  <2> SUFFICES ASSUME SettleCredits(r, a, actual), Backed,
                      <<"settled", r>> \notin keys
               PROVE Backed'
    BY DEF SettleCredits, walletVars, balances
  <2>1. /\ ReservedByOthers(a) \in Nat
        /\ ReservedByOthers(a) <= reserved_balance
    BY DEF ReservedByOthers
  <2>2. c \in Nat /\ c <= included_balance + purchased_balance
                          - ReservedByOthers(a)
    BY <2>1 DEF ChargeFor
  <2> HIDE DEF c
  <2>3. /\ reserved_balance' = ReservedByOthers(a)
        /\ included_balance' = included_balance - Smaller(included_balance, c)
        /\ purchased_balance' =
               purchased_balance - (c - Smaller(included_balance, c))
    BY DEF SettleCredits, c
  <2> QED
    BY <2>1, <2>2, <2>3
<1> HIDE DEF WalletTypeOK, Backed
<1> QED
  BY <1>0, <1>1, <1>2, <1>3 DEF ReservationsBacked

(* A limit change, a top-up, a refund and the end of a period keep the       *)
(* backing; the grant, which may break it, is remembered by its key.         *)
LEMMA BackingAdmin ==
    WalletTypeOK /\ ReservationsBacked /\ WalletAdmin => ReservationsBacked'
<1> SUFFICES ASSUME WalletTypeOK, ReservationsBacked, WalletAdmin
             PROVE ReservationsBacked'
  OBVIOUS
<1>0. ASSUME NEW k \in GrantKeys, NEW n \in Limits, GrantIncluded(k, n)
      PROVE ReservationsBacked'
  BY <1>0 DEF GrantIncluded, ReservationsBacked, Granted
<1>1. ASSUME NEW l \in Limits, SyncIncludedLimit(l) PROVE ReservationsBacked'
  <2>1. Backed'
    BY <1>1, WalletAssumption
    DEF SyncIncludedLimit, SyncedBalance, WalletTypeOK, Backed, NonNegative,
        Larger
  <2> QED
    BY <2>1 DEF ReservationsBacked
<1>2. ASSUME NEW k \in PurchaseKeys, NEW n \in PackAmounts, Topup(k, n)
      PROVE ReservationsBacked'
  <2>1. Backed => Backed'
    BY <1>2, WalletAssumption DEF Topup, WalletTypeOK, Backed
  <2>2. Granted => Granted'
    BY <1>2 DEF Topup, Granted
  <2> QED
    BY <2>1, <2>2 DEF ReservationsBacked
<1>3. ASSUME NEW k \in ReversalKeys, NEW n \in PackAmounts,
             ReversePurchased(k, n)
      PROVE ReservationsBacked'
  <2>1. Backed => Backed'
    BY <1>3, WalletAssumption
    DEF ReversePurchased, Reversible, WalletTypeOK, Backed, NonNegative,
        Larger, Smaller
  <2>2. Granted => Granted'
    BY <1>3 DEF ReversePurchased, Granted
  <2> QED
    BY <2>1, <2>2 DEF ReservationsBacked
<1>4. PeriodEnds => ReservationsBacked'
  BY DEF PeriodEnds, ReservationsBacked, Backed, Granted
<1> QED
  BY <1>0, <1>1, <1>2, <1>3, <1>4 DEF WalletAdmin

(* Every step keeps the backing within a period. *)
LEMMA BackingStep ==
    ASSUME TypeInv, ReservationsBacked, [Next]_vars, 0 \notin Estimates
    PROVE  ReservationsBacked'
<1> USE DEF TypeInv, TypeOK, Ops
<1>1. CASE Quiet
  BY <1>1 DEF Quiet, ReservationsBacked, Granted, Backed, walletVars, balances
<1>2. ASSUME NEW o \in Ops, NEW a \in Estimates, Reserving(o, a) PROVE ReservationsBacked'
  BY <1>2, BackingOperations, OperationAssumption DEF Reserving
<1>3. ASSUME NEW o \in Ops, Releasing(o) PROVE ReservationsBacked'
  BY <1>3, BackingOperations DEF Releasing, ReleaseLocked
<1>4. ASSUME NEW o \in Ops, NEW actual \in Nat, Settling(o, actual) PROVE ReservationsBacked'
  BY <1>4, BackingOperations DEF Settling, SettleLocked
<1>5. CASE WalletAdmin
  BY <1>5, BackingAdmin
<1>6. \A o \in Ops : usage[o] \in Nat /\ oamount[o] \in Nat
  OBVIOUS
<1> QED
  BY <1>1, <1>2, <1>3, <1>4, <1>5, <1>6, StepMoney DEF MoneyStep

(* Until the grant of the next period, and for models that are not free,     *)
(* reservations stay backed: neither a lowered limit, nor a refund, nor the  *)
(* expiry of the package, nor another request takes the credits that a       *)
(* running request reserved (sync_included_limit, reverse_purchased, settle, *)
(* reserve).                                                                 *)
THEOREM BackedWithinPeriod ==
    ASSUME 0 \notin Estimates
    PROVE  Spec => []ReservationsBacked
<1>1. Init => ReservationsBacked
  BY WalletAssumption DEF Init, WalletInit, ReservationsBacked, Backed
<1>2. TypeInv /\ ReservationsBacked /\ [Next]_vars => ReservationsBacked'
  BY BackingStep
<1> QED
  BY <1>1, <1>2, InitTyped, TypeStep, PTL DEF Spec

-----------------------------------------------------------------------------
(* What a call costs is charged                                              *)

Busy(w) == wpc[w] \notin {"idle", "ready"}

(* Whether the worker may still call the provider for its operation. *)
MayCall(w) == wpc[w] \in {"begun", "calling"}

(* An operation is called by the worker that began it and by no other. *)
CallInv ==
    /\ \A w \in Workers : Busy(w) => ostatus[wop[w]] # "absent"
    /\ \A v, w \in Workers : v # w /\ Busy(v) /\ Busy(w) => wop[v] # wop[w]

(* A settled operation was charged what it cost; one whose worker has not    *)
(* called yet was settled by the operator, at the full reservation.          *)
ChargeInv ==
    ~Granted =>
        /\ CostCharged
        /\ \A w \in Workers :
               MayCall(w) /\ ostatus[wop[w]] = "settled"
                   => charged[wop[w]] >= oamount[wop[w]]

(* A step that neither begins, calls nor settles an operation. *)
ChargesStay ==
    /\ UNCHANGED <<oamount, usage>>
    /\ \A o \in Ops : /\ ostatus'[o] = "absent" => ostatus[o] = "absent"
                      /\ ostatus'[o] = "settled" =>
                             ostatus[o] = "settled" /\ charged'[o] = charged[o]
    /\ \A w \in Workers : /\ Busy(w)' => Busy(w) /\ wop'[w] = wop[w]
                          /\ MayCall(w)' => MayCall(w)

(* The other steps are those. *)
LEMMA StepCharge ==
    ASSUME TypeInv, [Next]_vars
    PROVE  \/ \E w \in Workers, o \in Ops, a \in Estimates : Begin(w, o, a)
           \/ \E w \in Workers : SettleAnswer(w)
           \/ \E o \in Ops : ResolveUncertain(o)
           \/ \E w \in Workers, u \in Usages, out \in Outcomes : CallModel(w, u, out)
           \/ ChargesStay
<1> USE DEF TypeInv, TypeOK, Busy, MayCall
<1>1. ASSUME UNCHANGED <<opVars, wrkVars, histVars>> PROVE ChargesStay
  BY <1>1 DEF ChargesStay, opVars, wrkVars, histVars
<1>2. ASSUME NEW w \in Workers, Leave(w) \/ NextAttempt(w)
      PROVE \A v \in Workers : /\ Busy(v)' => Busy(v) /\ wop'[v] = wop[v]
                               /\ MayCall(v)' => MayCall(v)
  BY <1>2 DEF Leave, NextAttempt
<1>3. ASSUME NEW o, ApplyLocked(o) \/ MarkUncertain(o)
      PROVE /\ UNCHANGED oamount
            /\ \A q \in Ops : /\ ostatus'[q] = "absent" => ostatus[q] = "absent"
                              /\ ostatus'[q] = "settled" =>
                                     ostatus[q] = "settled" /\ charged'[q] = charged[q]
  BY <1>3 DEF ApplyLocked, MarkUncertain, UncertainStatus
<1>4. ASSUME NEW o, NEW why, ReleaseLocked(o, why)
      PROVE /\ UNCHANGED oamount
            /\ \A q \in Ops : /\ ostatus'[q] = "absent" => ostatus[q] = "absent"
                              /\ ostatus'[q] = "settled" =>
                                     ostatus[q] = "settled" /\ charged'[q] = charged[q]
  BY <1>4 DEF ReleaseLocked
<1>5. ASSUME NEW w \in Workers,
             GiveUp(w) \/ StartRefused(w) \/ WorkerCrash(w)
      PROVE ChargesStay
  BY <1>2, <1>5 DEF GiveUp, StartRefused, WorkerCrash, ChargesStay, opVars, histVars
<1>6. ASSUME NEW w \in Workers, SettlementFails(w) \/ CallFails(w) PROVE ChargesStay
  BY <1>2, <1>3, <1>6 DEF SettlementFails, CallFails, ChargesStay, histVars
<1>7. ASSUME NEW w \in Workers, ApplyResult(w) PROVE ChargesStay
  BY <1>2, <1>3, <1>7 DEF ApplyResult, ChargesStay, opVars, histVars
<1>8. ASSUME NEW w \in Workers, ReleaseRefused(w) PROVE ChargesStay
  BY <1>2, <1>4, <1>8 DEF ReleaseRefused, ChargesStay, opVars, histVars
<1>9. ASSUME NEW w \in Workers, NEW o \in Ops, ResumePending(w, o) PROVE ChargesStay
  BY <1>3, <1>9 DEF ResumePending, ChargesStay, wrkVars, histVars
<1>10. ASSUME NEW w \in Workers, NEW p \in Domains, StartTask(w, p) PROVE ChargesStay
  BY <1>10 DEF StartTask, GoTo, ChargesStay, opVars, histVars
<1>11. ASSUME NEW w \in Workers, MarkNetworkStarted(w) PROVE ChargesStay
  BY <1>11 DEF MarkNetworkStarted, GoTo, ChargesStay, histVars
<1>12. ASSUME NEW o \in Ops,
              ReconcileStarted(o) \/ ReconcileNeverStarted(o) \/ ApplyPending(o)
       PROVE ChargesStay
  BY <1>3, <1>4, <1>12
  DEF ReconcileStarted, ReconcileNeverStarted, ApplyPending, ChargesStay, wrkVars, histVars
<1>13. ASSUME NEW p \in Domains, OwnerStep(p) PROVE ChargesStay
  BY <1>1, <1>13 DEF OwnerStep, SoftDelete, Restore, HardDelete
<1>14. Billing \/ UNCHANGED vars => ChargesStay
  BY <1>1 DEF Billing, vars
<1> QED
  BY <1>5, <1>6, <1>7, <1>8, <1>9, <1>10, <1>11, <1>12, <1>13, <1>14, OperationAssumption
  DEF Next, WorkerStep, OpStep

(* A grant is remembered. *)
LEMMA GrantedStays == TypeInv /\ [Next]_vars /\ Granted => Granted'
<1> SUFFICES ASSUME TypeInv, [Next]_vars, Granted PROVE Granted'
  OBVIOUS
<1>1. CASE Quiet
  BY <1>1 DEF Quiet, Granted, walletVars
<1>2. ASSUME NEW o, NEW a, Reserving(o, a) PROVE Granted'
  BY <1>2 DEF Reserving, ReserveCredits, Granted
<1>3. ASSUME NEW o, Releasing(o) PROVE Granted'
  BY <1>3 DEF Releasing, ReleaseLocked, ReleaseCredits, Granted
<1>4. ASSUME NEW o, NEW actual, Settling(o, actual) PROVE Granted'
  BY <1>4 DEF Settling, SettleLocked, SettleCredits, Granted, walletVars
<1>5. CASE WalletAdmin
  BY <1>5
  DEF WalletAdmin, GrantIncluded, SyncIncludedLimit, Topup, ReversePurchased, PeriodEnds,
      Granted
<1> QED
  BY <1>1, <1>2, <1>3, <1>4, <1>5, StepMoney DEF MoneyStep

(* Every step keeps operations to the worker that began them. *)
LEMMA CallStep == TypeInv /\ CallInv /\ [Next]_vars => CallInv'
<1> SUFFICES ASSUME TypeInv, CallInv, [Next]_vars PROVE CallInv'
  OBVIOUS
<1> USE DEF TypeInv, TypeOK, WorkerOp, Busy
<1>1. ASSUME NEW w \in Workers, NEW o \in Ops, NEW a \in Estimates, Begin(w, o, a)
      PROVE CallInv'
  <2>1. \A v \in Workers : Busy(v) => wop[v] # o
    BY <1>1 DEF CallInv, Begin
  <2>2. /\ ostatus' = [ostatus EXCEPT ![o] = "reserved"]
        /\ wop' = [wop EXCEPT ![w] = o] /\ wpc' = [wpc EXCEPT ![w] = "begun"]
    BY <1>1 DEF Begin, GoTo
  <2> QED
    BY <2>1, <2>2 DEF CallInv
<1>2. ASSUME NEW w \in Workers, SettleAnswer(w) PROVE CallInv'
  <2>1. \A v \in Workers : Busy(v)' => Busy(v) /\ wop'[v] = wop[v]
    BY <1>2 DEF SettleAnswer, GoTo, NextAttempt
  <2>2. \A q \in Ops : ostatus'[q] = "absent" => ostatus[q] = "absent"
    BY <1>2 DEF SettleAnswer, SettleLocked, opVars
  <2> QED
    BY <2>1, <2>2 DEF CallInv
<1>3. ASSUME NEW o \in Ops, ResolveUncertain(o) PROVE CallInv'
  <2>1. \A q \in Ops : ostatus'[q] = "absent" => ostatus[q] = "absent"
    BY <1>3 DEF ResolveUncertain, ReleaseLocked, SettleLocked
  <2> QED
    BY <1>3, <2>1 DEF ResolveUncertain, wrkVars, CallInv
<1>4. ASSUME NEW w \in Workers, NEW u \in Usages, NEW out \in Outcomes, CallModel(w, u, out)
      PROVE CallInv'
  <2>1. \A v \in Workers : Busy(v)' => Busy(v) /\ wop'[v] = wop[v]
    BY <1>4 DEF CallModel, GoTo
  <2> QED
    BY <1>4, <2>1 DEF CallModel, opVars, CallInv
<1>5. CASE ChargesStay
  BY <1>5 DEF ChargesStay, CallInv
<1> QED
  BY <1>1, <1>2, <1>3, <1>4, <1>5, StepCharge

(* What settling an open operation charges while reservations are backed:    *)
(* the actual amount, if it is within the reservation.                       *)
LEMMA SettleCharges ==
    ASSUME TypeInv, ReservedInv, Backed, NEW o \in Ops, NEW actual \in Nat,
           NEW why, NEW apply, ostatus[o] \in OpenStatuses,
           SettleLocked(o, actual, why, apply), actual <= oamount[o]
    PROVE  charged'[o] >= actual
<1>1. /\ o \in OpenOps /\ OpenOps' = OpenOps \ {o} /\ oamount[o] \in Nat /\ UNCHANGED oamount
      /\ IsFiniteSet(HeldCredits)
  BY DEF TypeInv, TypeOK, ReservedInv, OpenOps, OpenStatuses, SettleLocked
<1>2. oamount[o] <= reserved_balance
  BY <1>1, HeldCloses DEF ReservedInv, ReservedMatchesOpen
<1>3. charged'[o] = SettleResult(o, oamount[o], actual)
  BY DEF TypeInv, TypeOK, SettleLocked
<1>4. ReservedByOthers(oamount[o]) = reserved_balance - oamount[o]
  BY <1>1, <1>2 DEF ReservedByOthers, NonNegative, Larger, TypeInv, TypeOK, WalletTypeOK
<1>5. actual <= included_balance + purchased_balance - ReservedByOthers(oamount[o])
  BY <1>1, <1>2, <1>4 DEF Backed, TypeInv, TypeOK, WalletTypeOK
<1>6. ChargeFor(oamount[o], actual) = actual
  BY <1>1, <1>4, <1>5
  DEF ChargeFor, Smaller, NonNegative, Larger, TypeInv, TypeOK, WalletTypeOK
<1> QED
  BY <1>3, <1>6 DEF SettleResult

(* Every step keeps the charges, as long as nothing was granted. *)
LEMMA ChargeStep ==
    ASSUME TypeInv, ReservedInv, ReservationsBacked, CallInv, ChargeInv, [Next]_vars
    PROVE  ChargeInv'
<1> SUFFICES ASSUME ~Granted' PROVE ChargeInv'
  BY DEF ChargeInv
<1>0. /\ Backed /\ CostCharged
      /\ \A w \in Workers : MayCall(w) /\ ostatus[wop[w]] = "settled"
             => charged[wop[w]] >= oamount[wop[w]]
  BY GrantedStays DEF ReservationsBacked, ChargeInv
<1> USE DEF TypeInv, TypeOK, WorkerOp, MayCall
<1>1. ASSUME NEW w \in Workers, NEW o \in Ops, NEW a \in Estimates, Begin(w, o, a)
      PROVE ChargeInv'
  <2>1. /\ ostatus' = [ostatus EXCEPT ![o] = "reserved"] /\ oamount' = [oamount EXCEPT ![o] = a]
        /\ wop' = [wop EXCEPT ![w] = o] /\ wpc' = [wpc EXCEPT ![w] = "begun"]
        /\ UNCHANGED <<charged, usage>>
    BY <1>1 DEF Begin, GoTo, histVars
  <2>2. CostCharged'
    BY <1>0, <2>1 DEF CostCharged
  <2>3. \A v \in Workers : MayCall(v)' /\ ostatus'[wop'[v]] = "settled"
           => charged'[wop'[v]] >= oamount'[wop'[v]]
    BY <1>0, <2>1
  <2> QED
    BY <2>2, <2>3 DEF ChargeInv
<1>2. ASSUME NEW w \in Workers, SettleAnswer(w) PROVE ChargeInv'
  <2>1. wop[w] \in Ops /\ wpc[w] \in {"valid", "invalid"}
    BY <1>2 DEF SettleAnswer
  <2>2. UNCHANGED <<usage, oamount>> /\ \A q \in Ops : q # wop[w] =>
           ostatus'[q] = ostatus[q] /\ charged'[q] = charged[q]
    BY <1>2, <2>1 DEF SettleAnswer, SettleLocked, opVars, histVars
  <2>3. \A v \in Workers : MayCall(v)' =>
           v # w /\ MayCall(v) /\ wop'[v] = wop[v] /\ wop[v] # wop[w]
    <3>1. \A v \in Workers : MayCall(v)' => v # w /\ MayCall(v) /\ wop'[v] = wop[v]
      BY <1>2 DEF SettleAnswer, GoTo, NextAttempt
    <3> QED
      BY <2>1, <3>1 DEF CallInv, Busy
  <2>4. usage[wop[w]] <= oamount[wop[w]] /\ ostatus'[wop[w]] = "settled"
           => charged'[wop[w]] >= usage[wop[w]]
    <3>1. CASE ostatus[wop[w]] \in OpenStatuses
      <4>1. PICK why, apply : SettleLocked(wop[w], usage[wop[w]], why, apply)
        BY <1>2, <3>1 DEF SettleAnswer, OpenStatuses
      <4>2. usage[wop[w]] \in Nat
        BY <2>1
      <4> QED
        BY <1>0, <2>1, <3>1, <4>1, <4>2, SettleCharges
    <3>2. CASE ostatus[wop[w]] \notin OpenStatuses
      BY <1>0, <1>2, <2>1, <3>2 DEF SettleAnswer, CostCharged, opVars
    <3> QED
      BY <3>1, <3>2
  <2>5. CostCharged'
    BY <1>0, <2>2, <2>4 DEF CostCharged
  <2>6. \A v \in Workers : MayCall(v)' /\ ostatus'[wop'[v]] = "settled"
           => charged'[wop'[v]] >= oamount'[wop'[v]]
    BY <1>0, <2>2, <2>3
  <2> QED
    BY <2>5, <2>6 DEF ChargeInv
<1>3. ASSUME NEW o \in Ops, ResolveUncertain(o) PROVE ChargeInv'
  <2>1. /\ UNCHANGED <<usage, oamount, wpc, wop>> /\ ostatus[o] \in OpenStatuses
        /\ \A q \in Ops : q # o => ostatus'[q] = ostatus[q] /\ charged'[q] = charged[q]
    BY <1>3
    DEF ResolveUncertain, CanResolve, OpenStatuses, ReleaseLocked, SettleLocked, wrkVars, histVars
  <2>2. ostatus'[o] = "settled" => charged'[o] >= oamount[o]
    <3>1. CASE ReleaseLocked(o, "manual_reconciliation")
      BY <3>1 DEF ReleaseLocked
    <3>2. CASE SettleLocked(o, oamount[o], "manual_reconciliation", "not_required")
      <4>1. oamount[o] \in Nat /\ oamount[o] <= oamount[o]
        OBVIOUS
      <4> QED
        BY <1>0, <2>1, <3>2, <4>1, SettleCharges
    <3> QED
      BY <1>3, <3>1, <3>2 DEF ResolveUncertain
  <2>3. charged'[o] \in Int
    BY TypeStep
  <2>4. CostCharged'
    BY <1>0, <2>1, <2>2, <2>3 DEF CostCharged
  <2>5. \A v \in Workers : MayCall(v)' /\ ostatus'[wop'[v]] = "settled"
           => charged'[wop'[v]] >= oamount'[wop'[v]]
    BY <1>0, <2>1, <2>2
  <2> QED
    BY <2>4, <2>5 DEF ChargeInv
<1>4. ASSUME NEW w \in Workers, NEW u \in Usages, NEW out \in Outcomes, CallModel(w, u, out)
      PROVE ChargeInv'
  <2>1. /\ wop[w] \in Ops /\ MayCall(w) /\ UNCHANGED <<ostatus, oamount, charged>>
        /\ \A q \in Ops : q # wop[w] => usage'[q] = usage[q]
    BY <1>4 DEF CallModel, opVars
  <2>2. \A v \in Workers : MayCall(v)' => MayCall(v) /\ wop'[v] = wop[v]
    BY <1>4 DEF CallModel, GoTo, Outcomes
  <2>3. usage'[wop[w]] \in Nat
    BY <2>1, TypeStep
  <2>4. CostCharged'
    BY <1>0, <2>1, <2>3 DEF CostCharged
  <2>5. \A v \in Workers : MayCall(v)' /\ ostatus'[wop'[v]] = "settled"
           => charged'[wop'[v]] >= oamount'[wop'[v]]
    BY <1>0, <2>1, <2>2
  <2> QED
    BY <2>4, <2>5 DEF ChargeInv
<1>5. CASE ChargesStay
  <2>1. CostCharged'
    BY <1>0, <1>5 DEF ChargesStay, CostCharged
  <2>2. \A v \in Workers : MayCall(v)' /\ ostatus'[wop'[v]] = "settled"
           => charged'[wop'[v]] >= oamount'[wop'[v]]
    BY <1>0, <1>5 DEF ChargesStay, Busy
  <2> QED
    BY <2>1, <2>2 DEF ChargeInv
<1> QED
  BY <1>1, <1>2, <1>3, <1>4, <1>5, StepCharge

(* Until the grant of the next period, and for models that are not free, a   *)
(* call that cost no more than its reservation is charged in full, whether   *)
(* its worker settles it or the operator decides it before, during or after  *)
(* the call (settle, resolve_uncertain_ai_provider_operation).               *)
THEOREM CostChargedTheorem ==
    ASSUME 0 \notin Estimates
    PROVE  Spec => []ChargedWithinPeriod
<1>1. Init => ReservationsBacked /\ CallInv /\ ChargeInv
  <2> SUFFICES ASSUME Init PROVE ReservationsBacked /\ CallInv /\ ChargeInv
    OBVIOUS
  <2>1. ReservationsBacked
    BY WalletAssumption DEF Init, WalletInit, ReservationsBacked, Backed
  <2>2. CallInv
    BY DEF Init, CallInv, Busy
  <2>3. ChargeInv
    BY DEF Init, ChargeInv, CostCharged, MayCall
  <2> QED
    BY <2>1, <2>2, <2>3
<1>2. TypeInv /\ ReservationsBacked /\ [Next]_vars => ReservationsBacked'
  BY BackingStep
<1>3. TypeInv /\ ReservedInv /\ ReservationsBacked /\ CallInv /\ ChargeInv /\ [Next]_vars
          => ChargeInv'
  BY ChargeStep
<1>4. ChargeInv => ChargedWithinPeriod
  BY DEF ChargeInv, ChargedWithinPeriod
<1> QED
  BY <1>1, <1>2, <1>3, <1>4, InitTyped, TypeStep, ReservedInit, ReservedStep, CallStep, PTL
  DEF Spec
=============================================================================
