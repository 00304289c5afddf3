----------------------------- MODULE MCProfile ------------------------------
(* TLC instance of Profile. *)
EXTENDS Profile, TLC

Symmetry == Permutations(Handlers) \cup Permutations(Values)

=============================================================================
