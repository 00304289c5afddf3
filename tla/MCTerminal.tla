----------------------------- MODULE MCTerminal -----------------------------
(* TLC instance of Terminal. *)
EXTENDS Terminal

=============================================================================
