------------------------------- MODULE MCDiag -------------------------------
(* TLC instance of Diag. *)
EXTENDS Diag, TLC

Symmetry == Permutations(Handlers) \cup Permutations(Requests)
                \cup Permutations(Agents)

=============================================================================
