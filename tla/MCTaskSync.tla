----------------------------- MODULE MCTaskSync -----------------------------
(* TLC instance of TaskSync. *)
EXTENDS TaskSync, TLC

Symmetry == Permutations(Handlers) \cup Permutations(Edits)

\* Two sessions and one request, or one session and two requests, at most.
ThreeAtMost ==
    Cardinality({h \in Handlers : pc[h] # "auth"})
        + Cardinality({c \in Edits : stage[c] # "new"}) <= 3

=============================================================================
