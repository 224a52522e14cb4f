----------------------------- MODULE MCWebSearch -----------------------------
(* Instances of WebSearch for TLC. *)
EXTENDS WebSearch, TLC

WorkerSymmetry == Permutations(Workers)
=============================================================================
