---------------------------- MODULE MCStatusFeed ----------------------------
(* TLC instance of StatusFeed. *)
EXTENDS StatusFeed

=============================================================================
