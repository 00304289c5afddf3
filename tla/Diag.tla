-------------------------------- MODULE Diag --------------------------------
(***************************************************************************)
(* Browser-initiated diagnostics (diag.rs) over the connections of         *)
(* AgentLink: a request is registered in diag_pending, travels through the *)
(* channel of one handler to one agent session, and is answered by frames  *)
(* that the handler relays to the browsers until a done frame closes it.   *)
(*                                                                         *)
(* A frame is a done flag and a number of units of output; a unit stands   *)
(* for a chunk, and MaxRelay units for MAX_RELAY_BYTES.  Wall time is      *)
(* abstracted to the set `aged` of entries older than PENDING_TTL.         *)
(*                                                                         *)
(* How a lost connection comes to its end is told in more detail than in   *)
(* AgentLink: a socket that reports its end is told from a peer that is    *)
(* merely silent, for which only the read timeout is left.                 *)
(***************************************************************************)
EXTENDS AgentLink

CONSTANTS
    Requests,   \* request ids, one uuid per dispatch
    PerAgent,   \* MAX_IN_FLIGHT_PER_AGENT
    Total,      \* MAX_IN_FLIGHT_TOTAL
    MaxRelay,   \* MAX_RELAY_BYTES, in units
    Deadline    \* AGENT_OFFLINE_TIMEOUT, in ticks

ASSUME DiagAssumption == /\ PerAgent \in Nat
                         /\ Total \in Nat
                         /\ MaxRelay \in Nat
                         /\ Deadline \in Nat
                         /\ IsFiniteSet(Requests)
                         /\ None \notin Requests

VARIABLES
    dpc,        \* where the dispatch call of each request stands
    via,        \* the handler whose sender the dispatch cloned
    pending,    \* keys of AppState.diag_pending
    aged,       \* entries started more than PENDING_TTL ago
    relayed,    \* DiagPending.relayed
    queue,      \* RunTask messages in each handler's channel
    running,    \* requests the agent session behind each handler works on
    out,        \* frame a handler took from pending and has yet to broadcast
    closing,    \* done frames cancel_for_agent has yet to broadcast
    doneShown,  \* done frames broadcast for each request
    late,       \* history: entered pending when via had no cancel left to run
    closed,     \* handlers whose socket reports a close frame, its end or an error
    timer,      \* ticks a silent peer's handler has waited in one turn of its select
    stuck       \* handlers in a write that the peer does not take: it has no timeout

socketVars == <<closed, timer, stuck>>
diagVars == <<dpc, via, pending, aged, relayed, queue, running, out, closing,
              doneShown, late, socketVars>>
vars == <<linkVars, diagVars>>

NoFrame == [req |-> None, done |-> FALSE]

DiagInit ==
    /\ dpc = [r \in Requests |-> "new"]
    /\ via = [r \in Requests |-> None]
    /\ pending = {}
    /\ aged = {}
    /\ relayed = [r \in Requests |-> 0]
    /\ queue = [h \in Handlers |-> {}]
    /\ running = [h \in Handlers |-> {}]
    /\ out = [h \in Handlers |-> NoFrame]
    /\ closing = [h \in Handlers |-> {}]
    /\ doneShown = [r \in Requests |-> 0]
    /\ late = {}
    /\ closed = {}
    /\ timer = [h \in Handlers |-> 0]
    /\ stuck = {}

Init == LinkInit /\ DiagInit

\* DiagPending.agent_id: the agent whose sender was cloned
AgentOfReq(r) == agentOf[via[r]]

InFlight(S, a) == {r \in S : AgentOfReq(r) = a}

-----------------------------------------------------------------------------
(* dispatch, one action per locked section                                 *)

\* Bad target, feature disabled, or a budget is used up.
GateRefuse(r) ==
    /\ dpc[r] = "new"
    /\ dpc' = [dpc EXCEPT ![r] = "refused"]
    /\ UNCHANGED <<linkVars, socketVars, via, pending, aged, relayed, queue, running, out,
                   closing, doneShown, late>>

\* The gates passed; the sender is cloned under agents.read, or there is none.
Resolve(r, a) ==
    /\ dpc[r] = "new"
    /\ IF online[a] /\ agentTx[a] # None
       THEN /\ via' = [via EXCEPT ![r] = agentTx[a]]
            /\ dpc' = [dpc EXCEPT ![r] = "resolved"]
       ELSE /\ dpc' = [dpc EXCEPT ![r] = "refused"]
            /\ UNCHANGED via
    /\ UNCHANGED <<linkVars, socketVars, pending, aged, relayed, queue, running, out,
                   closing, doneShown, late>>

\* mutant: caps tested with > where the code has >=
FullByOne(S, r) ==
    \/ Cardinality(S) > Total
    \/ Cardinality(InFlight(S, AgentOfReq(r))) > PerAgent

Full(S, r) ==
    \/ Cardinality(S) >= Total
    \/ Cardinality(InFlight(S, AgentOfReq(r))) >= PerAgent

\* Expired entries are dropped, the caps are tested, the entry is inserted:
\* one critical section of diag_pending.
Insert(r) ==
    LET kept == pending \ aged IN
    /\ dpc[r] = "resolved"
    /\ aged' = {}
    /\ IF Full(kept, r)
       THEN /\ pending' = kept
            /\ dpc' = [dpc EXCEPT ![r] = "refused"]
            /\ UNCHANGED late
       ELSE /\ pending' = kept \cup {r}
            /\ dpc' = [dpc EXCEPT ![r] = "inserted"]
            /\ late' = IF pc[via[r]] \in {"parting"} \cup Returned
                       THEN late \cup {r} ELSE late
    /\ UNCHANGED <<linkVars, socketVars, via, relayed, queue, running, out, closing, doneShown>>

\* tx.send fails exactly when the handler has returned and dropped its receiver.
Send(r) ==
    LET h == via[r] IN
    /\ dpc[r] = "inserted"
    /\ IF pc[h] \in Returned
       THEN /\ pending' = pending \ {r}
            /\ aged' = aged \ {r}
            /\ dpc' = [dpc EXCEPT ![r] = "refused"]
            /\ UNCHANGED queue
       ELSE /\ queue' = [queue EXCEPT ![h] = @ \cup {r}]
            /\ dpc' = [dpc EXCEPT ![r] = "accepted"]
            /\ UNCHANGED <<pending, aged>>
    /\ UNCHANGED <<linkVars, socketVars, via, relayed, running, out, closing, doneShown, late>>

\* PENDING_TTL seconds have passed since the entry was made.
Expire(r) ==
    /\ r \in pending \ aged
    /\ aged' = aged \cup {r}
    /\ UNCHANGED <<linkVars, socketVars, dpc, via, pending, relayed, queue, running, out,
                   closing, doneShown, late>>

-----------------------------------------------------------------------------
(* the handler's loop                                                      *)

\* At the select: not between taking a frame and its broadcast, nor in a write.
InLoop(h) == pc[h] = "loop" /\ out[h] = NoFrame /\ h \notin stuck

\* The peer is gone and the socket does not say so.
Silent(h) == ~link[h] /\ h \notin closed

\* A downlink message is written.  Each turn of the select makes the read timeout
\* anew, so this one sets it back; the write waits as long as the peer lets it.
Written(h) ==
    /\ timer' = [timer EXCEPT ![h] = 0]
    /\ stuck' \in IF Silent(h) THEN {stuck, stuck \cup {h}} ELSE {stuck}
    /\ UNCHANGED closed

\* The downlink arm of the select.  On a dead link the write may still succeed.
Deliver(h, r) ==
    /\ InLoop(h)
    /\ r \in queue[h]
    /\ queue' = [queue EXCEPT ![h] = @ \ {r}]
    /\ running' = IF link[h] THEN [running EXCEPT ![h] = @ \cup {r}] ELSE running
    /\ Written(h)
    /\ UNCHANGED <<linkVars, dpc, via, pending, aged, relayed, out, closing,
                   doneShown, late>>

\* Any other message for the agent: tasks, features, terminals.  Without effect
\* here, but for the read timeout and the write.
Chatter(h) ==
    /\ InLoop(h)
    /\ Silent(h)
    /\ ~Unregistered(h)
    /\ Written(h)
    /\ UNCHANGED <<linkVars, dpc, via, pending, aged, relayed, queue, running, out,
                   closing, doneShown, late>>

\* take_pending_bytes: the entry leaves with the done frame or the spent budget.
Take(r, done, over) == IF done \/ over THEN pending \ {r} ELSE pending

\* A frame for r arrives: output or MTR hops (bytes \in {0, 1}, done or not), or
\* a final result (done).  Entry taken under the lock, frame broadcast later.
\* A frame with no entry, or with another agent's, is dropped.  What a lost socket
\* still holds is finite: output and last frames are.
Frame(h, r, done, bytes) ==
    LET known == r \in pending /\ AgentOfReq(r) = agentOf[h]
        over == relayed[r] + bytes > MaxRelay IN
    /\ InLoop(h)
    /\ r \in running[h]
    /\ known \/ done
    /\ link[h] \/ done \/ bytes = 1
    /\ running' = IF done THEN [running EXCEPT ![h] = @ \ {r}] ELSE running
    /\ IF known
       THEN /\ relayed' = [relayed EXCEPT ![r] = @ + bytes]
            /\ pending' = Take(r, done, over)
            /\ aged' = aged \cap pending'
            /\ out' = [out EXCEPT ![h] = [req |-> r, done |-> done \/ over]]
       ELSE UNCHANGED <<relayed, pending, aged, out>>
    /\ timer' = [timer EXCEPT ![h] = 0]
    /\ UNCHANGED <<linkVars, closed, stuck, dpc, via, queue, closing, doneShown, late>>

ShowDone(r) == doneShown' = [doneShown EXCEPT ![r] = @ + 1]

\* The broadcast that follows, outside the lock.
Emit(h) ==
    /\ out[h] # NoFrame
    /\ out' = [out EXCEPT ![h] = NoFrame]
    /\ IF out[h].done THEN ShowDone(out[h].req) ELSE UNCHANGED doneShown
    /\ UNCHANGED <<linkVars, socketVars, dpc, via, pending, aged, relayed, queue, running,
                   closing, late>>

-----------------------------------------------------------------------------
(* the control points of AgentLink, with their effect on diagnostics       *)

\* Leaving a terminal point drops the receiver and what is queued in it.
Dropped(q) == [h \in Handlers |-> IF pc'[h] \in Returned THEN {} ELSE q[h]]

\* The peer is gone, and the socket says so at once, later, or never.
DiagLinkLost(h) ==
    /\ LinkLost(h)
    /\ closed' \in {closed, closed \cup {h}}
    /\ UNCHANGED <<timer, stuck, dpc, via, pending, aged, relayed, queue, running,
                   out, closing, doneShown, late>>

SocketEnds(h) ==
    /\ Silent(h) /\ pc[h] \notin Returned
    /\ closed' = closed \cup {h}
    /\ UNCHANGED <<linkVars, timer, stuck, dpc, via, pending, aged, relayed, queue,
                   running, out, closing, doneShown, late>>

\* Time passes in a turn of the select that nothing has ended yet.
TimerTick(h) ==
    /\ InLoop(h) /\ Silent(h)
    /\ timer[h] < Deadline
    /\ timer' = [timer EXCEPT ![h] = @ + 1]
    /\ UNCHANGED <<linkVars, closed, stuck, dpc, via, pending, aged, relayed, queue,
                   running, out, closing, doneShown, late>>

\* The receiver yields None: no clone of the sender is left, nothing is queued.
Drained(h) ==
    /\ Unregistered(h)
    /\ queue[h] = {}
    /\ \A r \in Requests : via[r] = h => dpc[r] \notin {"resolved", "inserted"}

\* mutant: the socket is read without a timeout
NeverTimedOut(h) == FALSE

TimedOut(h) == Silent(h) /\ timer[h] = Deadline

\* The read arm sees the end of the socket or its timeout, a write fails (also one
\* that was waiting), or the receiver is drained.
DiagBreak(h) ==
    /\ Break(h)
    /\ out[h] = NoFrame
    /\ \/ h \in closed
       \/ InLoop(h) /\ (Drained(h) \/ TimedOut(h))
    /\ timer' = [timer EXCEPT ![h] = 0]
    /\ stuck' = stuck \ {h}
    /\ UNCHANGED <<closed, dpc, via, pending, aged, relayed, queue, running, out,
                   closing, doneShown, late>>

DiagLeave(h) ==
    /\ Leave(h)
    /\ queue' = Dropped(queue)
    /\ running' = Dropped(running)
    /\ UNCHANGED <<socketVars, dpc, via, pending, aged, relayed, out, closing, doneShown, late>>

\* mutant: only what reached the agent is closed out
OrphansDelivered(a) == {r \in InFlight(pending, a) : r \notin queue[via[r]]}

Orphans(a) == InFlight(pending, a)

\* mutant: the entries are reported but not removed
DiagCancelKeeps(h) ==
    /\ Cancel(h)
    /\ closing' = [closing EXCEPT ![h] = Orphans(agentOf[h])]
    /\ UNCHANGED <<socketVars, dpc, via, pending, aged, relayed, queue, running, out,
                   doneShown, late>>

\* mutant: the entries are removed but not reported
DiagCancelQuiet(h) ==
    /\ Cancel(h)
    /\ pending' = pending \ Orphans(agentOf[h])
    /\ aged' = aged \ Orphans(agentOf[h])
    /\ UNCHANGED <<socketVars, dpc, via, relayed, queue, running, out, closing, doneShown, late>>

\* The locked section of cancel_for_agent: every entry of the agent, whichever
\* connection it was dispatched through.
DiagCancel(h) ==
    LET hit == Orphans(agentOf[h]) IN
    /\ Cancel(h)
    /\ pending' = pending \ hit
    /\ aged' = aged \ hit
    /\ closing' = [closing EXCEPT ![h] = hit]
    /\ UNCHANGED <<socketVars, dpc, via, relayed, queue, running, out, doneShown, late>>

\* ... and the "agent disconnected" frames it then broadcasts one by one.
CloseOut(h, r) ==
    /\ r \in closing[h]
    /\ closing' = [closing EXCEPT ![h] = @ \ {r}]
    /\ ShowDone(r)
    /\ UNCHANGED <<linkVars, socketVars, dpc, via, pending, aged, relayed, queue, running,
                   out, late>>

DiagPart(h) ==
    /\ Part(h)
    /\ closing[h] = {}
    /\ queue' = Dropped(queue)
    /\ running' = Dropped(running)
    /\ UNCHANGED <<socketVars, dpc, via, pending, aged, relayed, out, closing, doneShown, late>>

Connect(h) ==
    /\ \/ Refuse(h) \/ (\E a \in Agents : Lookup(h, a))
       \/ Greet(h) \/ Register(h) \/ Announce(h)
    /\ UNCHANGED diagVars

Dispatch(r) ==
    \/ GateRefuse(r) \/ (\E a \in Agents : Resolve(r, a)) \/ Insert(r) \/ Send(r)
    \/ Expire(r)

Relay(h) ==
    \/ \E r \in Requests : \/ Deliver(h, r)
                           \/ \E done \in BOOLEAN, bytes \in {0, 1} : Frame(h, r, done, bytes)
                           \/ CloseOut(h, r)
    \/ Emit(h)

Socket(h) == DiagLinkLost(h) \/ SocketEnds(h) \/ TimerTick(h) \/ Chatter(h)

Cleanup(h) == DiagBreak(h) \/ DiagLeave(h) \/ DiagCancel(h) \/ DiagPart(h)

Next == \/ \E h \in Handlers : Connect(h) \/ Relay(h) \/ Socket(h) \/ Cleanup(h)
        \/ \E r \in Requests : Dispatch(r)

Spec == Init /\ [][Next]_vars

\* The server's own steps are scheduled, and time passes.  A socket that reports
\* its end has strong fairness: the read arm is ready from then on and select picks
\* among ready arms at random, but other arms may be taken first.  A timeout has
\* weak fairness only: whatever else ends the turn sets it back.
Progress(h) ==
    /\ WF_vars(Emit(h))
    /\ WF_vars(DiagLeave(h))
    /\ WF_vars(DiagCancel(h))
    /\ WF_vars(DiagPart(h))
    /\ WF_vars(Announce(h) /\ UNCHANGED diagVars)
    /\ WF_vars(TimerTick(h)) /\ WF_vars(DiagBreak(h))
    /\ SF_vars(h \in closed /\ DiagBreak(h))
    /\ \A r \in Requests : WF_vars(CloseOut(h, r))

Fairness == /\ \A h \in Handlers : Progress(h)
            /\ \A r \in Requests : WF_vars(Insert(r)) /\ WF_vars(Send(r))

FairSpec == Spec /\ Fairness

-----------------------------------------------------------------------------
DiagTypeOK ==
    /\ dpc \in [Requests -> {"new", "resolved", "inserted", "accepted", "refused"}]
    /\ via \in [Requests -> Handlers \cup {None}]
    /\ pending \in SUBSET Requests
    /\ aged \in SUBSET pending
    /\ relayed \in [Requests -> 0..(MaxRelay + 1)]
    /\ queue \in [Handlers -> SUBSET Requests]
    /\ running \in [Handlers -> SUBSET Requests]
    /\ out \in [Handlers -> [req : Requests \cup {None}, done : BOOLEAN]]
    /\ closing \in [Handlers -> SUBSET Requests]
    /\ doneShown \in [Requests -> Nat]
    /\ late \in SUBSET Requests

SocketTypeOK ==
    /\ closed \in SUBSET Handlers
    /\ timer \in [Handlers -> 0..Deadline]
    /\ stuck \in SUBSET Handlers

TypeOK == LinkTypeOK /\ DiagTypeOK /\ SocketTypeOK

\* Who still has to broadcast a done frame for r.
Owing(r) == {h \in Handlers : r \in closing[h] \/ (out[h].req = r /\ out[h].done)}

\* The browser is told at most once that a request is over, although an agent's
\* own last frame, the relay budget, and the cancellations of any number of
\* overlapping connections compete to say it (diag.rs:375-386, 507-518).
AtMostOneDone == \A r \in Requests : doneShown[r] <= 1

\* The in-flight caps hold at every instant, whatever dispatches, answers,
\* expiries and disconnects interleave (diag.rs:158-176).
WithinCaps == /\ Cardinality(pending) <= Total
              /\ \A a \in Agents : Cardinality(InFlight(pending, a)) <= PerAgent

\* r can no longer be answered, and no cleanup is left that would say so.
Superseded(r) == pc[via[r]] = "superseded"

\* A request left behind by a connection that has ended is there for one of two
\* reasons only: the connection was superseded before it could clean up, or the
\* request was registered after that connection's cancel_for_agent (ws.rs:452-464,
\* diag.rs:149-176).  Every other one has been taken out.
LeftBehindOnlyByRace ==
    \A r \in pending :
        (dpc[r] = "accepted" /\ pc[via[r]] \in Returned) => Superseded(r) \/ r \in late

NoneForgotten ==
    \A r \in pending \ pending' :
        Owing(r)' # {} \/ r \in aged \/ dpc'[r] = "refused"

\* An entry leaves diag_pending with a done frame owed to the browser, or because
\* it outlived PENDING_TTL, or because its dispatch is refused (diag.rs:154, 181, 384, 515).
NothingForgottenSilently == [][NoneForgotten]_vars

\* A silent peer's handler that never gets to wait out its timeout: downlink
\* messages set it back over and over, or a write does not return (ws.rs:165-167, 437-448).
KeptBusy(h) == \/ []<>(InLoop(h) /\ Silent(h) /\ timer[h] = 0)
               \/ <>[](h \in stuck)

\* A connection whose peer is gone ends (ws.rs:165-186, 437-469): always when the
\* socket says so, and by the timeout when it does not, unless the handler is kept
\* busy with messages for the silent peer.
LostLinkEnds ==
    \A h \in Handlers :
        \/ (pc[h] \in Serving /\ ~link[h]) ~> (pc[h] \in Returned)
        \/ KeptBusy(h)

\* A request accepted on a connection that is lost is closed out for the browser,
\* unless it expired, the races of LeftBehindOnlyByRace hit it, or the handler is
\* kept busy and never notices.
LostRequestIsClosed ==
    \A r \in Requests, h \in Handlers :
        \/ (dpc[r] = "accepted" /\ via[r] = h /\ ~link[h]) ~>
               \/ doneShown[r] > 0
               \/ r \notin pending /\ Owing(r) = {}
               \/ Superseded(r)
               \/ r \in late
        \/ KeptBusy(h)

\* README.md:19 promises "offline after 15s silence": a connection whose peer fell
\* silent ends, whatever is sent to it meanwhile.
SilentLinkEnds ==
    \A h \in Handlers : (pc[h] \in Serving /\ ~link[h]) ~> (pc[h] \in Returned)

\* diag.rs:505 says of cancel_for_agent: "Close out every in-flight request for an
\* agent that just went away, so the browser stops waiting on output that will
\* never arrive."  (A request registered after the cancellation is set aside.)
NoneLeftBehind ==
    \A r \in pending \ late :
        dpc[r] = "accepted" => pc[via[r]] \notin Returned

=============================================================================
