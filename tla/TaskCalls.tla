----------------------------- MODULE TaskCalls ------------------------------
(***************************************************************************)
(* One-shot runs of a stored task: admin.rs run_task waits, with a timeout,*)
(* for the result that ws.rs hands it through the map task_waiters; the    *)
(* request and the result travel over a connection of AgentLink, and the   *)
(* agent (main.rs run_session, run_task) runs the script in a task that    *)
(* outlives its session.                                                   *)
(*                                                                         *)
(* Request ids are unique, so what travels is modelled per call.  The only *)
(* await of the handler is the one for the result: there it is dropped if  *)
(* the administrator's client goes away.                                   *)
(***************************************************************************)
EXTENDS AgentLink

CONSTANT Calls      \* calls of run_task

VARIABLES
    cpc,        \* where each call stands
    via,        \* the handler whose sender it has cloned
    waiters,    \* keys of AppState.task_waiters
    got,        \* calls whose oneshot was sent the result
    answer,     \* what the caller was told
    stored,     \* calls with a row in task_results
    run,        \* how far the run has come
    ended       \* handlers whose agent session has returned

callVars == <<cpc, via, waiters, got, answer, stored, run, ended>>
vars == <<linkVars, callVars>>

\* run_task holds a clone of the sender until it returns.
Holding == {"resolved", "entered", "waiting", "late"}

\* "dropped": never delivered; "lost": run, and its result lost.
RunPoints == {"none", "queued", "dropped", "running", "result", "lost", "read"}

Init ==
    /\ LinkInit
    /\ cpc = [c \in Calls |-> "new"]
    /\ via = [c \in Calls |-> None]
    /\ waiters = {} /\ got = {} /\ stored = {} /\ ended = {}
    /\ answer = [c \in Calls |-> "none"]
    /\ run = [c \in Calls |-> "none"]

Step(c, from, to) == cpc[c] = from /\ cpc' = [cpc EXCEPT ![c] = to]

Tell(c, what) == answer' = [answer EXCEPT ![c] = what]

-----------------------------------------------------------------------------
(* admin.rs run_task                                                       *)

\* No such task, pinned to another agent, tasks disabled, or the agent offline.
CallRefuse(c) ==
    /\ Step(c, "new", "ended")
    /\ Tell(c, "refused")
    /\ UNCHANGED <<linkVars, via, waiters, got, stored, run, ended>>

CallResolve(c, a) ==
    /\ Step(c, "new", "resolved")
    /\ online[a] /\ agentTx[a] # None
    /\ via' = [via EXCEPT ![c] = agentTx[a]]
    /\ UNCHANGED <<linkVars, waiters, got, answer, stored, run, ended>>

CallEnter(c) ==
    /\ Step(c, "resolved", "entered")
    /\ waiters' = waiters \cup {c}
    /\ UNCHANGED <<linkVars, via, got, answer, stored, run, ended>>

\* The send fails when the handler has returned; the entry is taken back.
CallSend(c) ==
    /\ cpc[c] = "entered"
    /\ \/ /\ pc[via[c]] \notin Returned
          /\ Step(c, "entered", "waiting")
          /\ run' = [run EXCEPT ![c] = "queued"]
          /\ UNCHANGED <<waiters, answer>>
       \/ /\ pc[via[c]] \in Returned
          /\ Step(c, "entered", "ended")
          /\ waiters' = waiters \ {c}
          /\ Tell(c, "offline")
          /\ UNCHANGED run
    /\ UNCHANGED <<linkVars, via, got, stored, ended>>

\* The result is there: it is stored, or a warning is logged, and answered.
CallAnswer(c) ==
    /\ Step(c, "waiting", "ended")
    /\ c \in got
    /\ stored' \in {stored, stored \cup {c}}
    /\ Tell(c, "result")
    /\ UNCHANGED <<linkVars, via, waiters, got, run, ended>>

\* mutant: the wait is given up only for an agent that is offline
CallTimeoutOffline(c) ==
    /\ Step(c, "waiting", "late")
    /\ pc[via[c]] \in Returned
    /\ UNCHANGED <<linkVars, via, waiters, got, answer, stored, run, ended>>

\* The budget is over, perhaps just as the result is sent: it is dropped.
CallTimeout(c) ==
    /\ Step(c, "waiting", "late")
    /\ UNCHANGED <<linkVars, via, waiters, got, answer, stored, run, ended>>

\* mutant: the entry stays after the timeout
CallGiveUpKeeps(c) ==
    /\ Step(c, "late", "ended")
    /\ Tell(c, "timeout")
    /\ UNCHANGED <<linkVars, via, waiters, got, stored, run, ended>>

CallGiveUp(c) ==
    /\ Step(c, "late", "ended")
    /\ waiters' = waiters \ {c}
    /\ Tell(c, "timeout")
    /\ UNCHANGED <<linkVars, via, got, stored, run, ended>>

\* Environment: the client goes away, and the handler is dropped as it waits.
CallAbandon(c) ==
    /\ Step(c, "waiting", "abandoned")
    /\ UNCHANGED <<linkVars, via, waiters, got, answer, stored, run, ended>>

-----------------------------------------------------------------------------
(* the connection and the agent                                            *)

Connected(c) == link[via[c]] /\ pc[via[c]] \notin Returned /\ via[c] \notin ended

Moves(c, from, to) == run[c] = from /\ run' = [run EXCEPT ![c] = to]

\* The loop writes the request, the agent's reader spawns the run.
Deliver(c) ==
    /\ run[c] = "queued" /\ pc[via[c]] = "loop"
    /\ Moves(c, "queued", IF Connected(c) THEN "running" ELSE "dropped")
    /\ UNCHANGED <<linkVars, cpc, via, waiters, got, answer, stored, ended>>

\* The script exits, fails, or is killed at its own timeout.
Finish(c) ==
    /\ run[c] = "running"
    /\ Moves(c, "running", IF Connected(c) THEN "result" ELSE "lost")
    /\ UNCHANGED <<linkVars, cpc, via, waiters, got, answer, stored, ended>>

\* A frame under way is lost with its connection.
Lose(c) ==
    /\ run[c] = "result" /\ ~link[via[c]]
    /\ Moves(c, "result", "lost")
    /\ UNCHANGED <<linkVars, cpc, via, waiters, got, answer, stored, ended>>

SessionEnds(h) ==
    /\ h \notin ended
    /\ ~link[h] \/ pc[h] \in Returned
    /\ \E c \in Calls : via[c] = h
    /\ ended' = ended \cup {h}
    /\ UNCHANGED <<linkVars, cpc, via, waiters, got, answer, stored, run>>

\* mutant: the result is taken for a diagnostic's, whoever waits for it
ReadRelays(c) ==
    /\ run[c] = "result" /\ pc[via[c]] = "loop"
    /\ Moves(c, "result", "read")
    /\ waiters' = waiters \ {c}
    /\ UNCHANGED <<linkVars, cpc, via, got, answer, stored, ended>>

\* TaskResult without scheduled_id: the waiter's entry is removed and it is sent
\* the result.  Without a waiter, relay_legacy_result knows no such request.
Read(c) ==
    /\ run[c] = "result" /\ pc[via[c]] = "loop"
    /\ Moves(c, "result", "read")
    /\ waiters' = waiters \ {c}
    /\ got' = IF c \in waiters /\ cpc[c] = "waiting" THEN got \cup {c} ELSE got
    /\ UNCHANGED <<linkVars, cpc, via, answer, stored, ended>>

\* recv yields None only when the channel is drained and every clone is dropped.
LoopBreak(h) ==
    /\ Break(h)
    /\ link[h] => \A c \in Calls : via[c] = h => cpc[c] \notin Holding /\ run[c] # "queued"
    /\ UNCHANGED callVars

\* A return drops the receiver and the socket with what is in them.
Depart(h) ==
    /\ Leave(h) \/ Part(h)
    /\ run' = [c \in Calls |->
            IF via[c] = h /\ pc'[h] \in Returned
            THEN IF run[c] = "queued" THEN "dropped"
                 ELSE IF run[c] = "result" THEN "lost" ELSE run[c]
            ELSE run[c]]
    /\ UNCHANGED <<cpc, via, waiters, got, answer, stored, ended>>

Connect(h) ==
    /\ \/ Refuse(h) \/ (\E a \in Agents : Lookup(h, a)) \/ Greet(h)
       \/ Register(h) \/ Announce(h) \/ LinkLost(h) \/ Cancel(h)
    /\ UNCHANGED callVars

Caller(c) ==
    \/ CallRefuse(c) \/ (\E a \in Agents : CallResolve(c, a)) \/ CallEnter(c)
    \/ CallSend(c) \/ CallAnswer(c) \/ CallTimeout(c) \/ CallGiveUp(c) \/ CallAbandon(c)

Travel(c) == Deliver(c) \/ Finish(c) \/ Lose(c) \/ Read(c)

Next ==
    \/ \E h \in Handlers : Connect(h) \/ LoopBreak(h) \/ Depart(h) \/ SessionEnds(h)
    \/ \E c \in Calls : Caller(c) \/ Travel(c)

Spec == Init /\ [][Next]_vars

\* The handler of the call is scheduled, and the timer of its wait fires.  Nothing
\* is assumed of the agent, its connection or the administrator's client.
Fairness ==
    \A c \in Calls :
        /\ WF_vars(CallEnter(c)) /\ WF_vars(CallSend(c))
        /\ WF_vars(CallAnswer(c) \/ CallTimeout(c)) /\ WF_vars(CallGiveUp(c))

FairSpec == Spec /\ Fairness

-----------------------------------------------------------------------------
\* Every variable has its type (admin.rs run_task, ws.rs TaskResult).
CallTypeOK ==
    /\ LinkTypeOK
    /\ cpc \in [Calls -> {"new", "abandoned", "ended"} \cup Holding]
    /\ via \in [Calls -> Handlers \cup {None}]
    /\ \A c \in Calls : cpc[c] \in Holding => via[c] # None
    /\ waiters \in SUBSET Calls
    /\ got \in SUBSET Calls
    /\ answer \in [Calls -> {"none", "refused", "offline", "timeout", "result"}]
    /\ stored \in SUBSET Calls
    /\ run \in [Calls -> RunPoints]
    /\ ended \in SUBSET Handlers

\* The map of waiters holds exactly the calls that may still be answered, and,
\* where the client went away, the ones whose result has not come: these stay
\* for good if it never does (admin.rs:1363-1391, ws.rs:280-282).
WaitersExact ==
    \A c \in Calls :
        c \in waiters <=>
            \/ cpc[c] = "entered"
            \/ cpc[c] \in {"waiting", "late", "abandoned"} /\ run[c] # "read"

\* A result the server has read reaches its caller, unless that one had given up
\* or its timer fired before it looked; then it is neither shown nor stored.
ResultReachesCaller ==
    \A c \in Calls : run[c] = "read" =>
        \/ cpc[c] = "waiting" /\ c \in got
        \/ cpc[c] = "ended" /\ answer[c] = "result"
        \/ cpc[c] \in {"late", "abandoned"}
        \/ cpc[c] = "ended" /\ answer[c] = "timeout"

-----------------------------------------------------------------------------
(* What the caller may rely on *)

Outcome(c) ==
    IF cpc[c] = "ended" /\ answer[c] = "result" THEN "answered"
    ELSE IF cpc[c] \in {"ended", "abandoned"} THEN "failed" ELSE "none"

Promise == INSTANCE Exchange WITH
    asked <- {c \in Calls : run[c] # "none"},
    ran <- {c \in Calls : run[c] \in {"running", "result", "lost", "read"}},
    outcome <- [c \in Calls |-> Outcome(c)]

\* A one-shot run is a call as Exchange promises it: asked for once, run at most
\* once, answered only by its own run, and concluded even when the agent, the
\* connection or the handler that serves it disappears (admin.rs:1381-1391).
ImplementsExchange == Promise!ExchangeSpec
=============================================================================
