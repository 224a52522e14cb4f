----------------------------- MODULE MCFeedIntent -----------------------------
(* Instance of FeedIntent for TLC. *)
EXTENDS FeedIntent
=============================================================================
