---------------------------- MODULE MCTaskCalls -----------------------------
(* TLC instance of TaskCalls. *)
EXTENDS TaskCalls

=============================================================================
