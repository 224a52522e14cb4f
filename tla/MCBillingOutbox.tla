--------------------------- MODULE MCBillingOutbox ----------------------------
(* TLC instances of BillingOutbox.                                           *)
EXTENDS BillingOutbox, TLC

Interchangeable == Permutations(Dispatchers) \union Permutations(Tokens)
==============================================================================
