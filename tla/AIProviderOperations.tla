------------------------- MODULE AIProviderOperations ------------------------
(***************************************************************************)
(* Paid AI provider calls and their accounting:                            *)
(* apps/ai_agent/reconciliation.py, the generation loop of                 *)
(* apps/ai_agent/services.py (web_research runs the same protocol) and the *)
(* task that drives it.                                                    *)
(*                                                                         *)
(* A worker reserves credits and creates an AIProviderOperation row in one *)
(* transaction, persists the network marker, calls the provider and then   *)
(* settles, releases or marks the row uncertain.  It may die between any   *)
(* two of these.  A periodic reconciler acts on rows it considers stale,   *)
(* an operator resolves uncertain ones, another sweep applies paid results *)
(* whose worker died.  Elapsed time is not modelled: any reserved row may  *)
(* be stale (the timeouts, 600 s and 300 s, are shorter than the Celery    *)
(* time limit of 3600 s, so the reconciler can overtake a live worker).    *)
(***************************************************************************)
EXTENDS AIWallet, FiniteSets

CONSTANTS
    Domains,         \* products (or research runs) that own operations
    Deletable,       \* domains that users delete in the instance
    Workers,
    NoOp, NoDomain,
    SweepLimit,      \* limit of apply_pending_ai_provider_results (200)
    Estimates,       \* estimate_credits: what a call may reserve
    Usages           \* calculate_credits: what the provider's usage may cost

(* The rows of AIProviderOperation are identified by their reservation key, *)
(* here a number in the order of created_at.                                *)
Ops == Reservations

ASSUME OperationAssumption ==
    /\ Ops \subseteq Nat
    /\ NoOp \notin Ops
    /\ SweepLimit \in Nat \ {0}
    /\ NoDomain \notin Domains
    /\ Deletable \subseteq Domains
    /\ Estimates \subseteq Nat
    /\ Usages \subseteq Nat

VARIABLES
    (* The columns of AIProviderOperation. *)
    ostatus, odomain, oamount, started, apply_state, charged, reason,
    owner,              \* present, hidden (soft-deleted) or deleted domains
    wpc, wop, wdom,     \* program counter and locals of the workers
    crossed,            \* history: the provider was called for the row
    usage               \* history: what that call cost

opVars == <<ostatus, odomain, oamount, started, apply_state, charged, reason>>
wrkVars == <<wpc, wop, wdom>>
histVars == <<crossed, usage>>
vars == <<walletVars, opVars, owner, wrkVars, histVars>>

OpStatuses == {"absent", "reserved", "pending_reconciliation", "released",
               "settled"}
OpenStatuses == {"reserved", "pending_reconciliation"}
ApplyStates == {"not_required", "pending", "applied"}
Reasons == {"none", "response_received", "validation_rejected", "not_accepted",
            "manual_reconciliation", "never_started"}

WorkerPCs ==
    {"idle",
     "ready",         \* at the top of the candidate loop
     "begun",         \* begin_ai_provider_operation committed
     "calling",       \* the network marker is committed
     "valid",         \* the provider's answer passed validation
     "invalid",       \* the provider answered, validation rejected it
     "not_accepted",  \* AIProviderError with request_not_accepted
     "unknown",       \* any other failure of the call
     "applying"}      \* settled, apply_description_provider_operation is next

TypeOK ==
    /\ WalletTypeOK
    /\ ostatus \in [Ops -> OpStatuses]
    /\ odomain \in [Ops -> Domains \union {NoDomain}]
    /\ oamount \in [Ops -> Nat]
    /\ started \in [Ops -> BOOLEAN]
    /\ apply_state \in [Ops -> ApplyStates]
    /\ charged \in [Ops -> Nat]
    /\ reason \in [Ops -> Reasons]
    /\ owner \in [Domains -> {"present", "hidden", "deleted"}]
    /\ wpc \in [Workers -> WorkerPCs]
    /\ wop \in [Workers -> Ops \union {NoOp}]
    /\ wdom \in [Workers -> Domains \union {NoDomain}]
    /\ crossed \in [Ops -> BOOLEAN]
    /\ usage \in [Ops -> Nat]

Init ==
    /\ WalletInit
    /\ ostatus = [o \in Ops |-> "absent"]
    /\ odomain = [o \in Ops |-> NoDomain]
    /\ oamount = [o \in Ops |-> 0]
    /\ started = [o \in Ops |-> FALSE]
    /\ apply_state = [o \in Ops |-> "not_required"]
    /\ charged = [o \in Ops |-> 0]
    /\ reason = [o \in Ops |-> "none"]
    /\ owner = [p \in Domains |-> "present"]
    /\ wpc = [w \in Workers |-> "idle"]
    /\ wop = [w \in Workers |-> NoOp]
    /\ wdom = [w \in Workers |-> NoDomain]
    /\ crossed = [o \in Ops |-> FALSE]
    /\ usage = [o \in Ops |-> 0]

-----------------------------------------------------------------------------
(* Helpers                                                                   *)

(* unresolved_ai_provider_operation_q: held money, an unknown outcome, or a *)
(* paid result that has not reached its domain.                             *)
Unresolved(o) ==
    \/ ostatus[o] \in OpenStatuses
    \/ ostatus[o] = "settled" /\ apply_state[o] = "pending"

(* Mutant: an operation whose outcome is uncertain does not block. *)
ReservedIn(p) == \E o \in Ops : odomain[o] = p /\ ostatus[o] = "reserved"

UnresolvedIn(p) == \E o \in Ops : odomain[o] = p /\ Unresolved(o)

GoTo(w, pc) == wpc' = [wpc EXCEPT ![w] = pc]

(* The worker leaves the task: it returns, raises or is killed. *)
Leave(w) ==
    /\ wpc' = [wpc EXCEPT ![w] = "idle"]
    /\ wop' = [wop EXCEPT ![w] = NoOp]
    /\ wdom' = [wdom EXCEPT ![w] = NoDomain]

(* The candidate loop continues with another attempt or another model. *)
NextAttempt(w) ==
    /\ wpc' = [wpc EXCEPT ![w] = "ready"]
    /\ wop' = [wop EXCEPT ![w] = NoOp]
    /\ UNCHANGED wdom

(* _release_locked *)
ReleaseLocked(o, why) ==
    /\ ReleaseCredits(o, oamount[o])
    /\ ostatus' = [ostatus EXCEPT ![o] = "released"]
    /\ charged' = [charged EXCEPT ![o] = 0]
    /\ reason' = [reason EXCEPT ![o] = why]
    /\ apply_state' = [apply_state EXCEPT ![o] = "not_required"]
    /\ UNCHANGED <<odomain, oamount, started>>

(* Mutant: the operation's transaction commits without the wallet's. *)
SettleLockedRowOnly(o, actual, why, apply) ==
    /\ UNCHANGED walletVars
    /\ ostatus' = [ostatus EXCEPT ![o] = "settled"]
    /\ charged' = [charged EXCEPT ![o] = SettleResult(o, oamount[o], actual)]
    /\ reason' = [reason EXCEPT ![o] = why]
    /\ apply_state' = [apply_state EXCEPT ![o] = apply]
    /\ UNCHANGED <<odomain, oamount, started>>

(* _settle_locked *)
SettleLocked(o, actual, why, apply) ==
    /\ SettleCredits(o, oamount[o], actual)
    /\ ostatus' = [ostatus EXCEPT ![o] = "settled"]
    /\ charged' = [charged EXCEPT ![o] = SettleResult(o, oamount[o], actual)]
    /\ reason' = [reason EXCEPT ![o] = why]
    /\ apply_state' = [apply_state EXCEPT ![o] = apply]
    /\ UNCHANGED <<odomain, oamount, started>>

(* mark_ai_provider_operation_uncertain keeps the reservation; it changes no *)
(* row that is already terminal or uncertain.                                *)
UncertainStatus(o) ==
    IF ostatus[o] = "reserved" THEN "pending_reconciliation" ELSE ostatus[o]

MarkUncertain(o) ==
    /\ ostatus' = [ostatus EXCEPT ![o] = UncertainStatus(o)]
    /\ UNCHANGED <<walletVars, odomain, oamount, started, apply_state, charged,
                   reason>>

(* apply_description_provider_operation writes the product and the marker in *)
(* one transaction; a soft-deleted product makes it raise.                   *)
CanApply(o) ==
    /\ ostatus[o] = "settled"
    /\ apply_state[o] = "pending"
    /\ owner[odomain[o]] = "present"

ApplyLocked(o) ==
    /\ apply_state' = [apply_state EXCEPT ![o] = "applied"]
    /\ UNCHANGED <<walletVars, ostatus, odomain, oamount, started, charged,
                   reason>>

-----------------------------------------------------------------------------
(* The worker: generate_description_task and DescriptionAgent.generate       *)

(* A paid result that a dead worker left behind is applied instead of paying *)
(* for another one.                                                          *)
ResumePending(w, o) ==
    /\ wpc[w] = "idle"
    /\ CanApply(o)
    /\ ApplyLocked(o)
    /\ UNCHANGED <<owner, wrkVars, histVars>>

(* The task starts when the product is visible and can_generate_ai allows it. *)
StartTask(w, p) ==
    /\ wpc[w] = "idle"
    /\ owner[p] = "present"
    /\ \A o \in Ops : ~(odomain[o] = p /\ ostatus[o] = "settled"
                                       /\ apply_state[o] = "pending")
    /\ NonNegative(included_balance + purchased_balance - reserved_balance) >= 1
    /\ GoTo(w, "ready")
    /\ wdom' = [wdom EXCEPT ![w] = p]
    /\ UNCHANGED <<walletVars, opVars, owner, wop, histVars>>

(* begin_ai_provider_operation: fails closed on an unresolved row of the same *)
(* domain, reserves and creates the row.                                      *)
Begin(w, o, a) ==
    LET p == wdom[w]
    IN  /\ wpc[w] = "ready"
        /\ ostatus[o] = "absent"
        /\ \A q \in Ops : q < o => ostatus[q] # "absent"
        /\ owner[p] # "deleted"
        /\ ~UnresolvedIn(p)
        /\ ReserveCredits(a)
        /\ ostatus' = [ostatus EXCEPT ![o] = "reserved"]
        /\ odomain' = [odomain EXCEPT ![o] = p]
        /\ oamount' = [oamount EXCEPT ![o] = a]
        /\ GoTo(w, "begun")
        /\ wop' = [wop EXCEPT ![w] = o]
        /\ UNCHANGED <<started, apply_state, charged, reason, owner, wdom,
                       histVars>>

(* No candidate is left, credits are short, the domain is gone or an earlier *)
(* outcome must be reconciled first.                                         *)
GiveUp(w) ==
    /\ wpc[w] = "ready"
    /\ Leave(w)
    /\ UNCHANGED <<walletVars, opVars, owner, histVars>>

(* Mutant: the marker is written whatever became of the row. *)
CanStartAlways(o) == TRUE

(* mark_ai_provider_network_started *)
CanStart(o) == ostatus[o] = "reserved"

MarkNetworkStarted(w) ==
    LET o == wop[w]
    IN  /\ wpc[w] = "begun"
        /\ CanStart(o)
        /\ started' = [started EXCEPT ![o] = TRUE]
        /\ GoTo(w, "calling")
        /\ UNCHANGED <<walletVars, ostatus, odomain, oamount, apply_state,
                       charged, reason, owner, wop, wdom, histVars>>

StartRefused(w) ==
    /\ wpc[w] = "begun"
    /\ ~CanStart(wop[w])
    /\ Leave(w)
    /\ UNCHANGED <<walletVars, opVars, owner, histVars>>

(* call_model: the provider runs the request or refuses it, and the worker   *)
(* learns one of four things.  u is what a run request costs.                *)
CallModel(w, u, outcome) ==
    LET o == wop[w]
    IN  /\ wpc[w] = "calling"
        /\ crossed' = [crossed EXCEPT ![o] = TRUE]
        /\ usage' = [usage EXCEPT ![o] = IF outcome = "not_accepted"
                                         THEN 0 ELSE u]
        /\ GoTo(w, outcome)
        /\ UNCHANGED <<walletVars, opVars, owner, wop, wdom>>

(* settle_ai_provider_operation by the worker: a settled row is returned as  *)
(* it is, a released one raises, an open one (uncertain included) is settled *)
(* with the usage the provider reported.                                     *)
SettleAnswer(w) ==
    LET o == wop[w]
        valid == wpc[w] = "valid"
    IN  /\ wpc[w] \in {"valid", "invalid"}
        /\ \/ /\ ostatus[o] \in OpenStatuses
              /\ SettleLocked(o, usage[o],
                              IF valid THEN "response_received"
                                       ELSE "validation_rejected",
                              IF valid THEN "pending" ELSE "not_required")
           \/ /\ ostatus[o] = "settled"
              /\ UNCHANGED <<walletVars, opVars>>
        /\ IF valid THEN GoTo(w, "applying") /\ UNCHANGED <<wop, wdom>>
                    ELSE NextAttempt(w)
        /\ UNCHANGED <<owner, histVars>>

(* The settlement raises: the row was released, or the database failed.  The *)
(* handler marks the row uncertain and the task fails.                       *)
SettlementFails(w) ==
    /\ wpc[w] \in {"valid", "invalid"}
    /\ MarkUncertain(wop[w])
    /\ Leave(w)
    /\ UNCHANGED <<owner, histVars>>

(* release_ai_provider_operation after an authoritative refusal. *)
ReleaseRefused(w) ==
    LET o == wop[w]
    IN  /\ wpc[w] = "not_accepted"
        /\ \/ /\ ostatus[o] \in OpenStatuses
              /\ ReleaseLocked(o, "not_accepted")
              /\ NextAttempt(w)
           \/ /\ ostatus[o] = "released"
              /\ NextAttempt(w)
              /\ UNCHANGED <<walletVars, opVars>>
           \/ /\ ostatus[o] = "settled"
              /\ Leave(w)
              /\ UNCHANGED <<walletVars, opVars>>
        /\ UNCHANGED <<owner, histVars>>

(* Any other failure once the network boundary was crossed. *)
CallFails(w) ==
    /\ wpc[w] = "unknown"
    /\ MarkUncertain(wop[w])
    /\ Leave(w)
    /\ UNCHANGED <<owner, histVars>>

(* The end of the task: apply_description_provider_operation, which is a     *)
(* no-op on an applied row and raises on one settled by the operator.        *)
ApplyResult(w) ==
    /\ wpc[w] = "applying"
    /\ IF CanApply(wop[w]) THEN ApplyLocked(wop[w])
                           ELSE UNCHANGED <<walletVars, opVars>>
    /\ Leave(w)
    /\ UNCHANGED <<owner, histVars>>

WorkerCrash(w) ==
    /\ wpc[w] # "idle"
    /\ Leave(w)
    /\ UNCHANGED <<walletVars, opVars, owner, histVars>>

-----------------------------------------------------------------------------
(* The reconciler, the operator and the owners                               *)

(* reconcile_stale_ai_provider_operations: the marker decides. *)
ReconcileStarted(o) ==
    /\ ostatus[o] = "reserved"
    /\ started[o]
    /\ MarkUncertain(o)
    /\ UNCHANGED <<owner, wrkVars, histVars>>

(* Mutant: only a row whose call was marked is reconciled. *)
NeverStartedSkipped(o) == FALSE

NeverStarted(o) == ostatus[o] = "reserved" /\ ~started[o]

ReconcileNeverStarted(o) ==
    /\ NeverStarted(o)
    /\ ReleaseLocked(o, "never_started")
    /\ UNCHANGED <<owner, wrkVars, histVars>>

(* resolve_uncertain_ai_provider_operation; repeating a decision changes     *)
(* nothing, a conflicting one raises.                                        *)
CanResolve(o) == ostatus[o] = "pending_reconciliation"

ResolveUncertain(o) ==
    /\ CanResolve(o)
    /\ \/ ReleaseLocked(o, "manual_reconciliation")
       \/ SettleLocked(o, oamount[o], "manual_reconciliation", "not_required")
    /\ UNCHANGED <<owner, wrkVars, histVars>>

PaidResults == {o \in Ops : ostatus[o] = "settled" /\ apply_state[o] = "pending"}

(* Mutant: the newest row is left for the next sweep. *)
NotTheNewest(o) == \E q \in Ops : q > o /\ ostatus[q] # "absent"

(* The SweepLimit oldest waiting results, those that fail each time included. *)
Swept(o) == Cardinality({q \in PaidResults : q < o}) < SweepLimit

(* apply_pending_ai_provider_results *)
ApplyPending(o) ==
    /\ CanApply(o)
    /\ Swept(o)
    /\ ApplyLocked(o)
    /\ UNCHANGED <<owner, wrkVars, histVars>>

SoftDelete(p) ==
    /\ owner[p] = "present"
    /\ owner' = [owner EXCEPT ![p] = "hidden"]
    /\ UNCHANGED <<walletVars, opVars, wrkVars, histVars>>

Restore(p) ==
    /\ owner[p] = "hidden"
    /\ owner' = [owner EXCEPT ![p] = "present"]
    /\ UNCHANGED <<walletVars, opVars, wrkVars, histVars>>

(* Mutant: the guard looks at one half of unresolved_ai_provider_operation_q. *)
HardDeleteSettled(p) ==
    /\ owner[p] # "deleted"
    /\ \A o \in Ops : odomain[o] = p => ostatus[o] \notin OpenStatuses
    /\ owner' = [owner EXCEPT ![p] = "deleted"]
    /\ UNCHANGED <<walletVars, opVars, wrkVars, histVars>>

(* protect_product_with_unresolved_ai_operation, under the tenant lock that  *)
(* begin takes as well.                                                      *)
HardDelete(p) ==
    /\ owner[p] # "deleted"
    /\ ~UnresolvedIn(p)
    /\ owner' = [owner EXCEPT ![p] = "deleted"]
    /\ UNCHANGED <<walletVars, opVars, wrkVars, histVars>>

Billing ==
    /\ WalletAdmin
    /\ UNCHANGED <<opVars, owner, wrkVars, histVars>>

-----------------------------------------------------------------------------
Outcomes == {"valid", "invalid", "not_accepted", "unknown"}

WorkerStep(w) ==
    \/ \E o \in Ops : ResumePending(w, o)
    \/ \E p \in Domains : StartTask(w, p)
    \/ \E o \in Ops, a \in Estimates : Begin(w, o, a)
    \/ GiveUp(w)
    \/ MarkNetworkStarted(w)
    \/ StartRefused(w)
    \/ \E u \in Usages, out \in Outcomes : CallModel(w, u, out)
    \/ SettleAnswer(w)
    \/ SettlementFails(w)
    \/ ReleaseRefused(w)
    \/ CallFails(w)
    \/ ApplyResult(w)
    \/ WorkerCrash(w)

OpStep(o) ==
    \/ ReconcileStarted(o)
    \/ ReconcileNeverStarted(o)
    \/ ResolveUncertain(o)
    \/ ApplyPending(o)

OwnerStep(p) == SoftDelete(p) \/ Restore(p) \/ HardDelete(p)

Next ==
    \/ \E w \in Workers : WorkerStep(w)
    \/ \E o \in Ops : OpStep(o)
    \/ \E p \in Deletable : OwnerStep(p)
    \/ Billing

Spec == Init /\ [][Next]_vars

(* The beat schedule runs the reconciler and the sweep every five minutes;   *)
(* nothing is assumed of workers, of the operator or of billing.             *)
Fairness ==
    \A o \in Ops : /\ WF_vars(ReconcileStarted(o))
                   /\ WF_vars(ReconcileNeverStarted(o))
                   /\ WF_vars(ApplyPending(o))

FairSpec == Spec /\ Fairness

-----------------------------------------------------------------------------
(* Properties                                                                *)

(* Every balance is the sum of its ledger rows, through reservations,        *)
(* settlements, expiries, grants, limit changes, top-ups and refunds:        *)
(* AICreditTransaction is the immutable account of AIWallet's columns.       *)
LedgerMatchesWallet ==
    /\ ledger_included = included_balance
    /\ ledger_purchased = purchased_balance
    /\ ledger_reserved = reserved_balance

(* The credits that operations hold, one by one: those of every operation    *)
(* whose outcome is open.                                                    *)
HeldBy(o) == {o} \X (1..oamount[o])
OpenOps == {o \in Ops : ostatus[o] \in OpenStatuses}
HeldCredits == UNION {HeldBy(o) : o \in OpenOps}

(* The wallet holds exactly the amounts of the open operations: no release   *)
(* or settlement is lost or counted twice when worker, reconciler and        *)
(* operator meet on one row.                                                 *)
ReservedMatchesOpen == reserved_balance = Cardinality(HeldCredits)

(* begin_ai_provider_operation fails closed: however workers, reconciler and *)
(* operator interleave, a domain never has two operations that hold money,   *)
(* wait for an outcome or carry an unapplied paid result.                    *)
OneUnresolvedPerDomain ==
    \A o1, o2 \in Ops :
        /\ Unresolved(o1)
        /\ Unresolved(o2)
        /\ odomain[o1] = odomain[o2]
        => o1 = o2

(* "An old row without the marker proves that this application never crossed *)
(* the provider boundary" (reconcile_stale_ai_provider_operations): a row    *)
(* released for that reason never sees a provider call, even when its worker *)
(* is alive and resumes after the release.                                   *)
AutoReleasedNeverCrossed ==
    \A o \in Ops : reason[o] = "never_started" => ~crossed[o]

(* An unresolved operation keeps its owner: the pre_delete guard and begin   *)
(* serialise on the tenant, so no hard delete orphans a held reservation.    *)
UnresolvedOwnerExists ==
    \A o \in Ops : Unresolved(o) => owner[odomain[o]] # "deleted"

(* A committed decision is final: once released or settled, neither a late   *)
(* worker nor the reconciler nor the operator changes the status, the charge *)
(* or the reason.                                                            *)
ResolvedStep(o) ==
    ostatus[o] \in {"released", "settled"} =>
        /\ ostatus'[o] = ostatus[o]
        /\ charged'[o] = charged[o]
        /\ reason'[o] = reason[o]

ResolvedOnce == [][\A o \in Ops : ResolvedStep(o)]_vars

(* The credits that reservations count on exist ("active reservations are    *)
(* not devalued"): until a grant starts a new period, limit changes,         *)
(* refunds, the expiry of the included package and settlements of other      *)
(* requests never take them.                                                 *)
Granted == \E g \in GrantKeys : <<"grant", g>> \in keys
Backed == reserved_balance <= included_balance + purchased_balance
ReservationsBacked == ~Granted => Backed

(* A call that cost no more than its reservation is charged in full when it  *)
(* is settled, until a grant takes the credits it counted on.                *)
CostCharged ==
    \A o \in Ops :
        ostatus[o] = "settled" /\ usage[o] <= oamount[o]
            => charged[o] >= usage[o]

ChargedWithinPeriod == ~Granted => CostCharged

(* A reservation does not stay silently held: the reconciler releases it or  *)
(* exposes it to the operator, whatever happened to its worker.              *)
ReservationSurfaces ==
    \A o \in Ops : ostatus[o] = "reserved" ~> ostatus[o] # "reserved"

Hidden(o) == \E p \in Domains : odomain[o] = p /\ owner[p] = "hidden"

(* Older results of hidden products fill the sweep. *)
Starved(o) ==
    Cardinality({q \in PaidResults : q < o /\ Hidden(q)}) >= SweepLimit

(* A paid result reaches its product although the worker that paid for it    *)
(* died, unless the product was soft-deleted meanwhile or a full sweep of    *)
(* older results that cannot be applied stands before it.                    *)
PaidResultApplied ==
    \A o \in Ops :
        apply_state[o] = "pending" ~>
            apply_state[o] = "applied" \/ Hidden(o) \/ Starved(o)
=============================================================================
