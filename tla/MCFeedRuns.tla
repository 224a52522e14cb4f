------------------------------ MODULE MCFeedRuns ------------------------------
(* Instance of FeedRuns for TLC: step workers are interchangeable. *)
EXTENDS FeedRuns, TLC

WorkerSymmetry == Permutations(Workers)
=============================================================================
