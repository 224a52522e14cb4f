------------------------------ MODULE Purchase ------------------------------
(***************************************************************************)
(* What buying promises the customer, whatever the checkout, the webhooks  *)
(* and the reconciler do: a purchase is opened at the provider once, and   *)
(* never beside another open purchase of the exclusive kind (the plan of   *)
(* one tenant); it is then paid or cancelled for good; and what was paid   *)
(* is delivered at most once, and only then.                               *)
(***************************************************************************)
EXTENDS Naturals

CONSTANTS Purchases, Exclusive

VARIABLES money, delivered

Init ==
    /\ money = [i \in Purchases |-> "none"]
    /\ delivered = [i \in Purchases |-> 0]

Open(i) ==
    /\ money[i] = "none"
    /\ i \in Exclusive =>
         \A j \in Exclusive \ {i} : money[j] # "pending"
    /\ money' = [money EXCEPT ![i] = "pending"]
    /\ UNCHANGED delivered

Settle(i) ==
    /\ money[i] = "pending"
    /\ \E s \in {"succeeded", "canceled"} : money' = [money EXCEPT ![i] = s]
    /\ UNCHANGED delivered

Deliver(i) ==
    /\ money[i] = "succeeded" /\ delivered[i] = 0
    /\ delivered' = [delivered EXCEPT ![i] = 1]
    /\ UNCHANGED money

Next == \E i \in Purchases : Open(i) \/ Settle(i) \/ Deliver(i)

Spec == Init /\ [][Next]_<<money, delivered>>
=============================================================================
