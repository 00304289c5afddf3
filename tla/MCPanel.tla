---- MODULE MCPanel ----
\* The instance checked: any two jobs, of two versions and two packages, one of
\* which has no index.html.
EXTENDS Panel, TLC

Symmetry == Permutations(Jobs) \cup Permutations(Versions)
====
