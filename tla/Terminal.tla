------------------------------ MODULE Terminal ------------------------------
(***************************************************************************)
(* Web terminals: ws.rs handle_term_socket serves one browser socket per   *)
(* terminal, the agent (main.rs open_term) runs its shell, and the frames  *)
(* between them travel over a connection of AgentLink.  The output of the  *)
(* shell is routed back through the map term_sessions.                     *)
(*                                                                         *)
(* Session ids are unique and frames of different terminals do not affect  *)
(* each other, so the channel of the handler and the socket of the agent   *)
(* are modelled per terminal.  Chunks of output are numbered from 1 and    *)
(* Exit stands for the frame that ends them.  Input and resize frames      *)
(* change nothing but the shell's own state and are left out.              *)
(***************************************************************************)
EXTENDS AgentLink, SequencesExt

CONSTANTS
    Terms,      \* session ids, one per terminal socket
    MaxOut      \* bound on the chunks a shell writes

ASSUME TerminalAssumption == MaxOut \in Nat

VARIABLES
    tpc,        \* where the task of each terminal socket stands
    via,        \* the handler whose sender it has cloned
    sessions,   \* keys of AppState.term_sessions
    outbound,   \* the channel whose sender term_sessions holds, oldest first
    fwd,        \* the spawned forwarder: "none", "running" or "done"
    shown,      \* what the browser was sent, oldest first
    down,       \* TermOpen and TermClose in the channel of the handler
    up,         \* TermOutput and TermExit on their way to the handler
    shell,      \* the agent's shell: "none", "opening", "open" or "over"
    written,    \* chunks the shell has written
    held,       \* terminals in Shared.terms of their agent session
    ended,      \* handlers whose agent session has returned
    overtaken   \* history: TermClose was handled before the shell was open

socketVars == <<tpc, via, sessions, outbound, fwd, shown>>
agentVars == <<shell, written, held, ended, overtaken>>
termVars == <<socketVars, agentVars, down, up>>
vars == <<linkVars, termVars>>

Exit == 0
Frames == 0..(MaxOut + 1)

\* The socket's task owns a clone of the sender until it returns.
Holding == {"resolved", "inserted", "streaming", "leaving", "removing"}

Init ==
    /\ LinkInit
    /\ tpc = [t \in Terms |-> "new"]
    /\ via = [t \in Terms |-> None]
    /\ sessions = {}
    /\ outbound = [t \in Terms |-> <<>>]
    /\ fwd = [t \in Terms |-> "none"]
    /\ shown = [t \in Terms |-> <<>>]
    /\ down = [t \in Terms |-> <<>>]
    /\ up = [t \in Terms |-> <<>>]
    /\ shell = [t \in Terms |-> "none"]
    /\ written = [t \in Terms |-> 0]
    /\ held = {} /\ ended = {} /\ overtaken = {}

-----------------------------------------------------------------------------
(* handle_term_socket                                                      *)

Step(t, from, to) == tpc[t] = from /\ tpc' = [tpc EXCEPT ![t] = to]

\* A first frame that does not open a terminal, or an agent that is offline.
TermRefuse(t) ==
    /\ Step(t, "new", "refused")
    /\ UNCHANGED <<linkVars, via, sessions, outbound, fwd, shown, down, up, agentVars>>

TermResolve(t, a) ==
    /\ Step(t, "new", "resolved")
    /\ agentTx[a] # None
    /\ via' = [via EXCEPT ![t] = agentTx[a]]
    /\ UNCHANGED <<linkVars, sessions, outbound, fwd, shown, down, up, agentVars>>

\* The entry is made and the forwarder spawned before the agent is asked.
TermInsert(t) ==
    /\ Step(t, "resolved", "inserted")
    /\ sessions' = sessions \cup {t}
    /\ fwd' = [fwd EXCEPT ![t] = "running"]
    /\ UNCHANGED <<linkVars, via, outbound, shown, down, up, agentVars>>

\* agent_tx.send: lost when the handler has returned and dropped its receiver.
Ask(t, frame) ==
    down' = IF pc[via[t]] \in Returned THEN down ELSE [down EXCEPT ![t] = Append(@, frame)]

TermOpen(t) ==
    /\ Step(t, "inserted", "streaming")
    /\ Ask(t, "open")
    /\ UNCHANGED <<linkVars, via, sessions, outbound, fwd, shown, up, agentVars>>

\* The browser closes, breaks off, or answers the forwarder's Close.
TermBreak(t) ==
    /\ Step(t, "streaming", "leaving")
    /\ UNCHANGED <<linkVars, via, sessions, outbound, fwd, shown, down, up, agentVars>>

\* mutant: the socket is gone, so the task returns without TermClose
TermCloseSilent(t) ==
    /\ Step(t, "leaving", "removing")
    /\ UNCHANGED <<linkVars, via, sessions, outbound, fwd, shown, down, up, agentVars>>

TermClose(t) ==
    /\ Step(t, "leaving", "removing")
    /\ Ask(t, "close")
    /\ UNCHANGED <<linkVars, via, sessions, outbound, fwd, shown, up, agentVars>>

\* mutant: the entry is left to TermExit
TermReturnKeeps(t) ==
    /\ Step(t, "removing", "closed")
    /\ outbound' = [outbound EXCEPT ![t] = <<>>]
    /\ fwd' = [fwd EXCEPT ![t] = "done"]
    /\ UNCHANGED <<linkVars, via, sessions, shown, down, up, agentVars>>

\* The entry is removed, the forwarder aborted, and the clone dropped.
TermReturn(t) ==
    /\ Step(t, "removing", "closed")
    /\ sessions' = sessions \ {t}
    /\ outbound' = [outbound EXCEPT ![t] = <<>>]
    /\ fwd' = [fwd EXCEPT ![t] = "done"]
    /\ UNCHANGED <<linkVars, via, shown, down, up, agentVars>>

\* The forwarder sends one message; once its sender is dropped and the channel
\* drained, or when a send fails (the browser is gone), it sends Close and ends.
Forward(t) ==
    /\ fwd[t] = "running"
    /\ \/ /\ outbound[t] # <<>>
          /\ shown' = [shown EXCEPT ![t] = Append(@, Head(outbound[t]))]
          /\ outbound' = [outbound EXCEPT ![t] = Tail(@)]
          /\ UNCHANGED fwd
       \/ /\ outbound[t] # <<>> \/ t \notin sessions
          /\ outbound' = [outbound EXCEPT ![t] = <<>>]
          /\ fwd' = [fwd EXCEPT ![t] = "done"]
          /\ UNCHANGED shown
    /\ UNCHANGED <<linkVars, tpc, via, sessions, down, up, agentVars>>

-----------------------------------------------------------------------------
(* the agent                                                               *)

\* The connection of terminal t still carries frames from the agent.
Connected(t) == link[via[t]] /\ pc[via[t]] \notin Returned /\ via[t] \notin ended

Report(t, frames) == up' = IF Connected(t) THEN [up EXCEPT ![t] = @ \o frames] ELSE up

\* open_term runs in a task of its own, which the end of the session does not abort.
OpenShell(t) ==
    /\ shell[t] = "opening"
    /\ \/ /\ shell' = [shell EXCEPT ![t] = "open"]
          /\ held' = held \cup {t}
          /\ UNCHANGED <<written, up>>
       \/ /\ shell' = [shell EXCEPT ![t] = "over"]
          /\ written' = [written EXCEPT ![t] = 1]
          /\ Report(t, <<1, Exit>>)
          /\ UNCHANGED held
    /\ UNCHANGED <<linkVars, socketVars, down, ended, overtaken>>

\* mutant: a bounded channel, full at one message, and try_send
WriteDrops(t) ==
    /\ shell[t] = "open" /\ written[t] < MaxOut
    /\ written' = [written EXCEPT ![t] = @ + 1]
    /\ Report(t, IF up[t] = <<>> THEN <<written[t] + 1>> ELSE <<>>)
    /\ UNCHANGED <<linkVars, socketVars, down, shell, held, ended, overtaken>>

\* The reader thread sends a chunk.
Write(t) ==
    /\ shell[t] = "open" /\ via[t] \notin ended /\ written[t] < MaxOut
    /\ written' = [written EXCEPT ![t] = @ + 1]
    /\ Report(t, <<written[t] + 1>>)
    /\ UNCHANGED <<linkVars, socketVars, down, shell, held, ended, overtaken>>

\* The reader thread ends: nothing has the terminal open any more (the shell and what
\* it started have exited), or the session has returned and a chunk could not be sent.
ShellOver(t) ==
    /\ shell[t] = "open"
    /\ shell' = [shell EXCEPT ![t] = "over"]
    /\ held' = held \ {t}
    /\ Report(t, <<Exit>>)
    /\ UNCHANGED <<linkVars, socketVars, down, written, ended, overtaken>>

\* run_session returns.  It aborts its loops, but not its shells.
SessionEnds(h) ==
    /\ h \notin ended
    /\ ~link[h] \/ pc[h] \in Returned
    /\ \E t \in Terms : via[t] = h
    /\ ended' = ended \cup {h}
    /\ UNCHANGED <<linkVars, socketVars, down, up, shell, written, held, overtaken>>

\* Frames under way are lost with the connection, the last ones first.
Lose(t) ==
    /\ up[t] # <<>> /\ ~link[via[t]]
    /\ up' = [up EXCEPT ![t] = Front(@)]
    /\ UNCHANGED <<linkVars, socketVars, agentVars, down>>

-----------------------------------------------------------------------------
(* the handler's loop, and the agent's reader behind it                    *)

\* mutant: TermClose is not handled by the agent
DeliverOpenOnly(t) ==
    /\ via[t] # None /\ pc[via[t]] = "loop" /\ down[t] # <<>>
    /\ down' = [down EXCEPT ![t] = Tail(@)]
    /\ IF Connected(t) /\ Head(down[t]) = "open"
       THEN shell' = [shell EXCEPT ![t] = "opening"]
       ELSE UNCHANGED shell
    /\ UNCHANGED <<linkVars, socketVars, up, written, held, ended, overtaken>>

\* TermClose drops the terminal's writer, which ends the shell's input.  It
\* finds nothing when open_term has not come to its insertion yet.
Deliver(t) ==
    /\ via[t] # None /\ pc[via[t]] = "loop" /\ down[t] # <<>>
    /\ down' = [down EXCEPT ![t] = Tail(@)]
    /\ IF ~Connected(t) THEN UNCHANGED <<shell, held, overtaken>>
       ELSE \/ /\ Head(down[t]) = "open"
               /\ shell' = [shell EXCEPT ![t] = "opening"]
               /\ UNCHANGED <<held, overtaken>>
            \/ /\ Head(down[t]) = "close"
               /\ held' = held \ {t}
               /\ overtaken' = IF shell[t] = "opening" THEN overtaken \cup {t}
                                                       ELSE overtaken
               /\ UNCHANGED shell
    /\ UNCHANGED <<linkVars, socketVars, up, written, ended>>

\* mutant: TermExit does not remove the entry
RelayKeeps(t) ==
    /\ via[t] # None /\ pc[via[t]] = "loop" /\ up[t] # <<>>
    /\ up' = [up EXCEPT ![t] = Tail(@)]
    /\ outbound' = IF t \in sessions /\ fwd[t] = "running"
                   THEN [outbound EXCEPT ![t] = Append(@, Head(up[t]))] ELSE outbound
    /\ UNCHANGED <<linkVars, tpc, via, sessions, fwd, shown, down, agentVars>>

\* TermOutput and TermExit, routed by term_sessions.
Relay(t) ==
    /\ via[t] # None /\ pc[via[t]] = "loop" /\ up[t] # <<>>
    /\ up' = [up EXCEPT ![t] = Tail(@)]
    /\ outbound' = IF t \in sessions /\ fwd[t] = "running"
                   THEN [outbound EXCEPT ![t] = Append(@, Head(up[t]))] ELSE outbound
    /\ sessions' = IF Head(up[t]) = Exit THEN sessions \ {t} ELSE sessions
    /\ UNCHANGED <<linkVars, tpc, via, fwd, shown, down, agentVars>>

\* recv yields None only when the channel is drained and every clone is dropped.
LoopBreak(h) ==
    /\ Break(h)
    /\ link[h] => \A t \in Terms : via[t] = h => tpc[t] \notin Holding /\ down[t] = <<>>
    /\ UNCHANGED termVars

\* A return drops the receiver and the socket with what is in them.
Cut(q) == [t \in Terms |-> IF via[t] # None /\ pc'[via[t]] \in Returned THEN <<>> ELSE q[t]]

Depart(h) ==
    /\ Leave(h) \/ Part(h)
    /\ down' = Cut(down)
    /\ up' = Cut(up)
    /\ UNCHANGED <<socketVars, agentVars>>

Connect(h) ==
    /\ \/ Refuse(h) \/ (\E a \in Agents : Lookup(h, a)) \/ Greet(h)
       \/ Register(h) \/ Announce(h) \/ LinkLost(h) \/ Cancel(h)
    /\ UNCHANGED termVars

Socket(t) ==
    \/ TermRefuse(t) \/ (\E a \in Agents : TermResolve(t, a)) \/ TermInsert(t)
    \/ TermOpen(t) \/ TermBreak(t) \/ TermClose(t) \/ TermReturn(t) \/ Forward(t)

Agent(t) == OpenShell(t) \/ Write(t) \/ ShellOver(t) \/ Lose(t)

Next ==
    \/ \E h \in Handlers : Connect(h) \/ LoopBreak(h) \/ Depart(h) \/ SessionEnds(h)
    \/ \E t \in Terms : Socket(t) \/ Agent(t) \/ Deliver(t) \/ Relay(t)

Spec == Init /\ [][Next]_vars

\* The server's own steps are scheduled.  Nothing is assumed of browsers (a read of
\* their socket has no timeout), of the agent's session, or of shells: one whose
\* input has ended is not killed and need not exit.
Fairness ==
    /\ \A h \in Handlers : WF_vars(Announce(h) /\ UNCHANGED termVars)
    /\ \A t \in Terms :
          /\ WF_vars(TermInsert(t)) /\ WF_vars(TermOpen(t))
          /\ WF_vars(TermClose(t)) /\ WF_vars(TermReturn(t)) /\ WF_vars(Forward(t))
          /\ WF_vars(Relay(t))

FairSpec == Spec /\ Fairness

-----------------------------------------------------------------------------
TermTypeOK ==
    /\ LinkTypeOK
    /\ tpc \in [Terms -> {"new", "refused", "closed"} \cup Holding]
    /\ via \in [Terms -> Handlers \cup {None}]
    /\ \A t \in Terms : tpc[t] \in Holding => via[t] # None
    /\ sessions \in SUBSET Terms
    /\ fwd \in [Terms -> {"none", "running", "done"}]
    /\ outbound \in [Terms -> Seq(Frames)]
    /\ shown \in [Terms -> Seq(Frames)]
    /\ up \in [Terms -> Seq(Frames)]
    /\ down \in [Terms -> Seq({"open", "close"})]
    /\ shell \in [Terms -> {"none", "opening", "open", "over"}]
    /\ written \in [Terms -> 0..(MaxOut + 1)]
    /\ held \in SUBSET {t \in Terms : shell[t] = "open"}
    /\ ended \in SUBSET Handlers
    /\ overtaken \in SUBSET Terms

\* The peer of the connection of t is gone.
Lost(t) == via[t] # None /\ ~link[via[t]]

\* What shell t has sent in all.
Sent(t) == [i \in 1..written[t] |-> i] \o IF shell[t] = "over" THEN <<Exit>> ELSE <<>>

\* A browser is shown what its shell wrote from the first chunk on, in order and
\* without a gap, and nothing after the exit, whichever of the socket, the agent
\* and the connection goes first (ws.rs:553-570, 420-434).
ShownInOrder == \A t \in Terms : IsPrefix(shown[t] \o outbound[t], Sent(t))

\* The entry of a terminal is there as long as its socket's task needs it, up to
\* the exit of its shell, and never longer (ws.rs:555, 425-433, 606).
RoutedWhileOpen ==
    \A t \in Terms :
        /\ t \in sessions => tpc[t] \in Holding
        /\ tpc[t] = "streaming" /\ t \notin sessions =>
              fwd[t] = "done" \/ Exit \in Range(outbound[t] \o shown[t])

\* A shell that nobody has told to end outlives its terminal for one of two
\* reasons only: the connection was lost, or TermClose overtook open_term; else
\* TermClose is still on its way (ws.rs:603-606, agent main.rs:2296-2313).
ShellLeftOnlyByRace ==
    \A t \in Terms :
        (tpc[t] = "closed" /\ (shell[t] = "opening" \/ t \in held)) =>
            t \in overtaken \/ "close" \in Range(down[t]) \/ Lost(t)

\* A browser is told that its shell has exited, unless the connection is lost
\* (agent main.rs:452-454, ws.rs:424-433, 557-564).
ExitIsShown ==
    \A t \in Terms :
        (tpc[t] = "streaming" /\ shell[t] = "over") ~> (fwd[t] = "done" \/ Lost(t))

\* The agent holds the shell's input, or is about to.
Attached(t) == shell[t] = "opening" \/ t \in held

\* The agent's session goes on reading what it is sent, and open_term comes to its
\* end.  Neither is certain: term_input writes to the shell in the session's task,
\* under the lock open_term needs, for as long as the shell does not read its input.
AgentGoesOn(t) == WF_vars(Deliver(t)) /\ WF_vars(OpenShell(t))

\* When a browser closes its terminal, the agent lets go of the shell, which ends its
\* input, unless the connection is lost or TermClose overtook open_term; provided
\* the agent goes on (ws.rs:603-606, agent main.rs:455-462, 2193-2195).  Whether the
\* shell then exits is up to what runs in it.
ShellIsLetGo ==
    \A t \in Terms :
        AgentGoesOn(t) =>
            (tpc[t] = "closed" /\ Attached(t)) ~>
                (~Attached(t) \/ Lost(t) \/ t \in overtaken)

=============================================================================
