------------------------------- MODULE AIWallet ------------------------------
(***************************************************************************)
(* The AI credit wallet of one tenant: apps/billing/ai_wallet.py.          *)
(*                                                                         *)
(* Every operation is one transaction under the row lock of the wallet, so *)
(* each is one action over the wallet's columns.  reserve, release and     *)
(* settle take the reservation (its key r and its amount a) and leave the  *)
(* caller's own row alone: AIProviderOperations conjoins them with the     *)
(* change of its operation row, as the code nests the transactions.        *)
(*                                                                         *)
(* AICreditTransaction rows are kept as the sum per balance type and the   *)
(* set of the idempotency keys that were written; kind, reference and      *)
(* details are left out.  notification_state and the threshold messages    *)
(* are left out: no balance depends on them.  Credits are whole numbers:   *)
(* the arithmetic is exact Decimal arithmetic, and no operation depends on *)
(* the number of decimal places.                                           *)
(***************************************************************************)
EXTENDS Integers

CONSTANTS
    Reservations,    \* reservation keys
    GrantKeys,       \* idempotency keys of subscription-period grants
    PurchaseKeys,    \* idempotency keys of top-ups
    ReversalKeys,    \* idempotency keys of refunds and chargebacks
    Limits,          \* values effective_limit can return
    PackAmounts,     \* credits of a top-up or of a reversal
    BootstrapLimit,  \* effective_limit and top-up when the wallet is first used
    BootstrapPurchase

ASSUME WalletAssumption ==
    /\ Limits \subseteq Nat
    /\ PackAmounts \subseteq Nat
    /\ BootstrapLimit \in Nat
    /\ BootstrapPurchase \in Nat

VARIABLES
    included_balance, included_limit, purchased_balance, reserved_balance,
    expired,            \* included_expires_at < now
    ledger_included, ledger_purchased, ledger_reserved,
    keys                \* idempotency keys of the ledger

balances == <<included_balance, included_limit, purchased_balance,
              reserved_balance, expired>>
walletVars == <<balances, ledger_included, ledger_purchased,
                ledger_reserved, keys>>

IdempotencyKeys ==
    ({"grant"} \X GrantKeys) \union ({"topup"} \X PurchaseKeys)
        \union ({"reversal"} \X ReversalKeys)
        \union ({"release", "settled"} \X Reservations)
        \union {<<"included-expire">>}

(* Max and Min of two amounts; NonNegative(x) is max(Decimal('0'), x). *)
Larger(x, y) == IF x >= y THEN x ELSE y
Smaller(x, y) == IF x <= y THEN x ELSE y
NonNegative(x) == Larger(x, 0)

WalletTypeOK ==
    /\ included_balance \in Nat
    /\ included_limit \in Nat
    /\ purchased_balance \in Nat
    /\ reserved_balance \in Nat
    /\ expired \in BOOLEAN
    /\ ledger_included \in Int
    /\ ledger_purchased \in Int
    /\ ledger_reserved \in Int
    /\ keys \subseteq IdempotencyKeys

(* ensure_wallet grants the plan's limit; a first top-up may have followed. *)
WalletInit ==
    /\ included_balance = BootstrapLimit
    /\ included_limit = BootstrapLimit
    /\ purchased_balance = BootstrapPurchase
    /\ reserved_balance = 0
    /\ expired = FALSE
    /\ ledger_included = BootstrapLimit
    /\ ledger_purchased = BootstrapPurchase
    /\ ledger_reserved = 0
    /\ keys = {}

-----------------------------------------------------------------------------
(* reserve                                                                   *)

(* _expire_included_if_needed writes a row whose key depends only on the     *)
(* wallet and included_expires_at: a second expiry of the same period        *)
(* violates the unique constraint and the whole reserve is rolled back.      *)
MustExpire == expired /\ included_balance > 0
ExpiryBlocked == MustExpire /\ <<"included-expire">> \in keys

IncludedAfterExpiry == IF expired THEN 0 ELSE included_balance

AvailableAfterExpiry ==
    NonNegative(IncludedAfterExpiry + purchased_balance - reserved_balance)

CanReserve(a) == ~ExpiryBlocked /\ AvailableAfterExpiry >= a

ReserveCredits(a) ==
    /\ CanReserve(a)
    /\ included_balance' = IncludedAfterExpiry
    /\ ledger_included' =
           ledger_included + (IncludedAfterExpiry - included_balance)
    /\ keys' = IF MustExpire THEN keys \union {<<"included-expire">>} ELSE keys
    /\ reserved_balance' = reserved_balance + a
    /\ ledger_reserved' = ledger_reserved + a
    /\ UNCHANGED <<included_limit, purchased_balance, expired,
                   ledger_purchased>>

(* release changes the balance on every call; only its ledger row is guarded *)
(* by the idempotency key.                                                   *)
ReleaseCredits(r, a) ==
    LET released == Smaller(reserved_balance, a)
    IN  /\ reserved_balance' = reserved_balance - released
        /\ ledger_reserved' = IF <<"release", r>> \in keys
                              THEN ledger_reserved
                              ELSE ledger_reserved - released
        /\ keys' = keys \union {<<"release", r>>}
        /\ UNCHANGED <<included_balance, included_limit, purchased_balance,
                       expired, ledger_included, ledger_purchased>>

(* settle gives back its own reservation first and then charges whatever the *)
(* remaining reservations leave free, the included credits before the        *)
(* purchased ones.                                                           *)
ReservedByOthers(a) == NonNegative(reserved_balance - a)

ChargeFor(a, actual) ==
    Smaller(actual, NonNegative(included_balance + purchased_balance
                                    - ReservedByOthers(a)))

(* What settle returns: a repeated settlement reports the actual amount. *)
SettleResult(r, a, actual) ==
    IF <<"settled", r>> \in keys THEN actual ELSE ChargeFor(a, actual)

SettleCredits(r, a, actual) ==
    IF <<"settled", r>> \in keys
    THEN UNCHANGED walletVars
    ELSE LET charged == ChargeFor(a, actual)
             fromIncluded == Smaller(included_balance, charged)
         IN  /\ reserved_balance' = ReservedByOthers(a)
             /\ included_balance' = included_balance - fromIncluded
             /\ purchased_balance' = purchased_balance - (charged - fromIncluded)
             /\ ledger_included' = ledger_included - fromIncluded
             /\ ledger_purchased' =
                    ledger_purchased - (charged - fromIncluded)
             /\ ledger_reserved' = ledger_reserved - a
             /\ keys' = keys \union {<<"settled", r>>}
             /\ UNCHANGED <<included_limit, expired>>

-----------------------------------------------------------------------------
(* Operations of billing and of the administrator                            *)

(* grant_included at the start of a period: what is left of the old package  *)
(* expires, whatever reservations it backs.  The new included_expires_at is  *)
(* later, so the expiry key of the new period is not in the ledger yet.      *)
GrantIncluded(k, amount) ==
    /\ <<"grant", k>> \notin keys
    /\ included_balance' = amount
    /\ included_limit' = amount
    /\ expired' = FALSE
    /\ ledger_included' = ledger_included - included_balance + amount
    /\ keys' = (keys \union {<<"grant", k>>}) \ {<<"included-expire">>}
    /\ UNCHANGED <<purchased_balance, reserved_balance, ledger_purchased,
                   ledger_reserved>>

(* sync_included_limit keeps what was consumed and what the reservations    *)
(* need beyond the purchased credits.                                       *)
SyncedBalance(limit) ==
    Larger(NonNegative(limit - NonNegative(included_limit - included_balance)),
           NonNegative(reserved_balance - purchased_balance))

SyncIncludedLimit(limit) ==
    /\ included_balance' = SyncedBalance(limit)
    /\ included_limit' = limit
    /\ ledger_included' =
           ledger_included + (SyncedBalance(limit) - included_balance)
    /\ UNCHANGED <<purchased_balance, reserved_balance, expired,
                   ledger_purchased, ledger_reserved, keys>>

Topup(k, amount) ==
    /\ <<"topup", k>> \notin keys
    /\ purchased_balance' = purchased_balance + amount
    /\ ledger_purchased' = ledger_purchased + amount
    /\ keys' = keys \union {<<"topup", k>>}
    /\ UNCHANGED <<included_balance, included_limit, reserved_balance,
                   expired, ledger_included, ledger_reserved>>

(* Mutant: a refund takes back credits that a reservation counts on. *)
ReversibleReserved == purchased_balance

(* reverse_purchased takes back only what no reservation needs. *)
Reversible ==
    NonNegative(purchased_balance
                    - NonNegative(reserved_balance - included_balance))

ReversePurchased(k, requested) ==
    LET reversed == Smaller(requested, Reversible)
    IN  /\ <<"reversal", k>> \notin keys
        /\ purchased_balance' = purchased_balance - reversed
        /\ ledger_purchased' = ledger_purchased - reversed
        /\ keys' = keys \union {<<"reversal", k>>}
        /\ UNCHANGED <<included_balance, included_limit, reserved_balance,
                       expired, ledger_included, ledger_reserved>>

(* The clock passes included_expires_at. *)
PeriodEnds ==
    /\ ~expired
    /\ expired' = TRUE
    /\ UNCHANGED <<included_balance, included_limit, purchased_balance,
                   reserved_balance, ledger_included, ledger_purchased,
                   ledger_reserved, keys>>

WalletAdmin ==
    \/ \E k \in GrantKeys, a \in Limits : GrantIncluded(k, a)
    \/ \E a \in Limits : SyncIncludedLimit(a)
    \/ \E k \in PurchaseKeys, a \in PackAmounts : Topup(k, a)
    \/ \E k \in ReversalKeys, a \in PackAmounts : ReversePurchased(k, a)
    \/ PeriodEnds
=============================================================================
