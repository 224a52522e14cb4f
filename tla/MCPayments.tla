----------------------------- MODULE MCPayments -----------------------------
(* Instances of Payments for TLC. *)
EXTENDS Payments, TLC

CONSTANTS k1, k2, r1, r2

(* Every checkout of an instance buys the same thing; refund r1 and         *)
(* chargeback r2 belong to the first payment.                               *)
MCMonthly == [k \in Keys |-> "monthly"]
MCCredits == [k \in Keys |-> "credits"]
MCRefundOf == [r \in Refunds |-> k1]
MCRefundAmount == [r \in Refunds |-> IF r = r2 THEN 2 ELSE 1]

(* Which notifications get through. *)
MCCancellations == {e \in Events : e[1] = "canceled"}
MCRefundsOnly == {e \in Events : e[1] = "refund"}
MCNone == {}

(* Which payments turn out odd: one or none, the second, none. *)
MCMaybeOdd == {{}, {k1}}
MCOddSecond == {{k2}}
MCGenuine == {{}}

MCSymmetry == Permutations(Procs)
=============================================================================
