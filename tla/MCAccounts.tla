---- MODULE MCAccounts ----
\* The instance checked: an administrator from the start, a second account.
EXTENDS Accounts, TLC

Symmetry == Permutations(Requests) \cup Permutations(Tokens)
====
