----------------------------- MODULE AgentLink -----------------------------
(***************************************************************************)
(* The life of agent WebSocket connections on the server:                  *)
(* ws.rs handle_agent_socket and the fields online, conn_epoch and         *)
(* agent_tx of state.rs AgentState.                                        *)
(*                                                                         *)
(* Every accepted socket is served by one asynchronous task, a handler.    *)
(* An agent that lost its network reconnects long before the server        *)
(* notices (AGENT_OFFLINE_TIMEOUT), so several handlers of one agent can   *)
(* run at once.  They share the agents map (an RwLock): each locked        *)
(* section, and each broadcast made outside a lock, is one action.         *)
(*                                                                         *)
(* Modules that extend this one (Diag, StatusFeed) add the effect these    *)
(* control points have on their own state.                                 *)
(***************************************************************************)
EXTENDS Naturals, FiniteSets

CONSTANTS
    Agents,     \* agent ids the token or hostname lookup can return
    Handlers,   \* one per accepted socket
    None        \* no sender registered / no agent known yet

ASSUME LinkAssumption == /\ None \notin Handlers
                         /\ None \notin Agents

VARIABLES
    online,     \* AgentState.online
    connEpoch,  \* AgentState.conn_epoch
    agentTx,    \* AgentState.agent_tx: the handler that holds the receiver
    nextEpoch,  \* AppState.next_epoch
    pc,         \* where each handler stands in handle_agent_socket
    agentOf,    \* the handler's agent_id
    epoch,      \* the handler's epoch, 0 before it takes one
    link        \* FALSE once the peer closed, broke off or fell silent for good

linkVars == <<online, connEpoch, agentTx, nextEpoch, pc, agentOf, epoch, link>>

(***************************************************************************)
(* Control points.  "auth": first frame awaited; "found": agent looked up; *)
(* "greeted": AuthOk sent, epoch taken; "registered": in the agents map,   *)
(* not yet announced; "loop": the select loop; "leaving": out of the loop; *)
(* "cancelling": marked the agent offline; "parting": pending diagnostics  *)
(* removed, offline not yet announced.  The last three are returns.        *)
(***************************************************************************)
Serving == {"registered", "loop", "leaving"}
Returned == {"refused", "superseded", "gone"}
Points == {"auth", "found", "greeted", "cancelling", "parting"}
          \cup Serving \cup Returned

LinkInit ==
    /\ online = [a \in Agents |-> FALSE]
    /\ connEpoch = [a \in Agents |-> 0]
    /\ agentTx = [a \in Agents |-> None]
    /\ nextEpoch = 1
    /\ pc = [h \in Handlers |-> "auth"]
    /\ agentOf = [h \in Handlers |-> None]
    /\ epoch = [h \in Handlers |-> 0]
    /\ link = [h \in Handlers |-> TRUE]

Goto(h, from, to) ==
    /\ pc[h] = from
    /\ pc' = [pc EXCEPT ![h] = to]

\* Timeout, bad frame, wrong version, unknown token, or AuthOk not writable.
Refuse(h) ==
    /\ \/ Goto(h, "auth", "refused")
       \/ Goto(h, "found", "refused")
    /\ UNCHANGED <<online, connEpoch, agentTx, nextEpoch, agentOf, epoch, link>>

\* The auth frame is accepted and its token or hostname names agent a.
Lookup(h, a) ==
    /\ Goto(h, "auth", "found")
    /\ agentOf' = [agentOf EXCEPT ![h] = a]
    /\ UNCHANGED <<online, connEpoch, agentTx, nextEpoch, epoch, link>>

\* AuthOk is written, then next_epoch.fetch_add(1).
Greet(h) ==
    /\ Goto(h, "found", "greeted")
    /\ epoch' = [epoch EXCEPT ![h] = nextEpoch]
    /\ nextEpoch' = nextEpoch + 1
    /\ UNCHANGED <<online, connEpoch, agentTx, agentOf, link>>

\* The write-locked section that makes h the agent's connection.  The sender
\* of an earlier handler is dropped here.
Register(h) ==
    LET a == agentOf[h] IN
    /\ Goto(h, "greeted", "registered")
    /\ online' = [online EXCEPT ![a] = TRUE]
    /\ connEpoch' = [connEpoch EXCEPT ![a] = epoch[h]]
    /\ agentTx' = [agentTx EXCEPT ![a] = h]
    /\ UNCHANGED <<nextEpoch, agentOf, epoch, link>>

\* Status, region and features are broadcast and the task set is pushed.
Announce(h) ==
    /\ Goto(h, "registered", "loop")
    /\ UNCHANGED <<online, connEpoch, agentTx, nextEpoch, agentOf, epoch, link>>

\* Environment: the peer closes, its network breaks, or it falls silent for good.
\* Frames already in the socket can still be read.
LinkLost(h) ==
    /\ pc[h] \notin Returned
    /\ link[h]
    /\ link' = [link EXCEPT ![h] = FALSE]
    /\ UNCHANGED <<online, connEpoch, agentTx, nextEpoch, pc, agentOf, epoch>>

\* h's receiver yields None: the map no longer holds its sender.
Unregistered(h) == agentTx[agentOf[h]] # h

\* The loop ends: read error, close, timeout, or the receiver yields None.  When a
\* lost link makes it end is left open: at any time, or never.  Diag has the socket
\* that reports its end, the timeout of a silent peer and what sets it back.
Break(h) ==
    /\ Goto(h, "loop", "leaving")
    /\ ~link[h] \/ Unregistered(h)
    /\ UNCHANGED <<online, connEpoch, agentTx, nextEpoch, agentOf, epoch, link>>

\* mutant: compares with the counter instead of the agent's own epoch
IsNewestOfAll(h) == epoch[h] = nextEpoch - 1

IsCurrent(h) == connEpoch[agentOf[h]] = epoch[h]

\* The write-locked section after the loop.  A superseded handler returns.
Leave(h) ==
    LET a == agentOf[h] IN
    \/ /\ Goto(h, "leaving", "cancelling")
       /\ IsCurrent(h)
       /\ online' = [online EXCEPT ![a] = FALSE]
       /\ agentTx' = [agentTx EXCEPT ![a] = None]
       /\ UNCHANGED <<connEpoch, nextEpoch, agentOf, epoch, link>>
    \/ /\ Goto(h, "leaving", "superseded")
       /\ ~IsCurrent(h)
       /\ UNCHANGED <<online, connEpoch, agentTx, nextEpoch, agentOf, epoch, link>>

\* diag::cancel_for_agent
Cancel(h) ==
    /\ Goto(h, "cancelling", "parting")
    /\ UNCHANGED <<online, connEpoch, agentTx, nextEpoch, agentOf, epoch, link>>

\* Status offline is broadcast; the function ends and drops the receiver.
Part(h) ==
    /\ Goto(h, "parting", "gone")
    /\ UNCHANGED <<online, connEpoch, agentTx, nextEpoch, agentOf, epoch, link>>

LinkNext ==
    \E h \in Handlers :
        \/ Refuse(h) \/ (\E a \in Agents : Lookup(h, a)) \/ Greet(h)
        \/ Register(h) \/ Announce(h) \/ LinkLost(h) \/ Break(h)
        \/ Leave(h) \/ Cancel(h) \/ Part(h)

LinkSpec == LinkInit /\ [][LinkNext]_linkVars

-----------------------------------------------------------------------------
LinkTypeOK ==
    /\ online \in [Agents -> BOOLEAN]
    /\ connEpoch \in [Agents -> Nat]
    /\ agentTx \in [Agents -> Handlers \cup {None}]
    /\ nextEpoch \in Nat \ {0}
    /\ pc \in [Handlers -> Points]
    /\ agentOf \in [Handlers -> Agents \cup {None}]
    /\ epoch \in [Handlers -> Nat]
    /\ link \in [Handlers -> BOOLEAN]

\* An agent is online exactly when a sender is registered, and the registered
\* sender always leads to a handler of that agent that has not run its cleanup,
\* whichever handlers of the agent overlap and in whichever order they register
\* (ws.rs:141-155, 452-463).  So "online" never outlives its connection.
OnlineIsServed ==
    \A a \in Agents :
        /\ online[a] <=> agentTx[a] # None
        /\ online[a] => /\ pc[agentTx[a]] \in Serving
                        /\ agentOf[agentTx[a]] = a
                        /\ connEpoch[a] = epoch[agentTx[a]]

OnlyByItself ==
    \A a \in Agents :
        (agentTx[a] # None /\ agentTx'[a] # agentTx[a]) =>
            \/ agentTx'[a] = None /\ pc[agentTx[a]] = "leaving"
                                  /\ pc'[agentTx[a]] = "cancelling"
            \/ agentTx'[a] # None /\ pc'[agentTx'[a]] = "registered"

\* A connection is taken out of the map only by its own cleanup or by the
\* registration of another: the cleanup of a superseded handler, however late,
\* never takes its successor offline (ws.rs:452-463).
TakenDownByItself == [][OnlyByItself]_linkVars

=============================================================================
