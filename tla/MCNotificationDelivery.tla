------------------------ MODULE MCNotificationDelivery ------------------------
(* TLC instances of NotificationDelivery.                                    *)
EXTENDS NotificationDelivery, TLC

CriticalEvent == [e \in Events |-> "critical"]
BillingEvent == [e \in Events |-> "billing"]

Interchangeable == Permutations(Tasks)
==============================================================================
