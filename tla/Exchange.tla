------------------------------ MODULE Exchange ------------------------------
(***************************************************************************)
(* What a caller that has an agent do something may rely on, whatever      *)
(* connection, handler or agent fails on the way: the work is asked for at *)
(* most once, done at most once and only if it was asked for, and the call *)
(* is concluded exactly once, with the work's answer only if it was done.  *)
(* It may be done without an answer, also after the call was concluded.    *)
(***************************************************************************)
CONSTANT Calls

VARIABLES
    asked,      \* calls whose request was handed over
    ran,        \* calls whose work was done or begun
    outcome     \* "none" as long as the call is open, "answered", "failed"

exchangeVars == <<asked, ran, outcome>>

ExchangeInit ==
    /\ asked = {} /\ ran = {}
    /\ outcome = [c \in Calls |-> "none"]

Ask(c) ==
    /\ c \notin asked /\ outcome[c] = "none"
    /\ asked' = asked \cup {c}
    /\ UNCHANGED <<ran, outcome>>

Run(c) ==
    /\ c \in asked \ ran
    /\ ran' = ran \cup {c}
    /\ UNCHANGED <<asked, outcome>>

Conclude(c, how) ==
    /\ outcome[c] = "none"
    /\ how = "answered" => c \in ran
    /\ outcome' = [outcome EXCEPT ![c] = how]
    /\ UNCHANGED <<asked, ran>>

ExchangeNext ==
    \E c \in Calls :
        Ask(c) \/ Run(c) \/ \E how \in {"answered", "failed"} : Conclude(c, how)

\* An open request is concluded, by its answer or without one.
SafeExchange == ExchangeInit /\ [][ExchangeNext]_exchangeVars

ExchangeSpec ==
    /\ SafeExchange
    /\ \A c \in Calls : WF_exchangeVars(
          c \in asked /\ \E how \in {"answered", "failed"} : Conclude(c, how))
=============================================================================
