----------------------------- MODULE MCTraffic ------------------------------
(* TLC instance of Traffic. *)
EXTENDS Traffic

\* A month whose reset day is clamped, between two that have it.
Calendar == <<2, 1, 2>>

=============================================================================
