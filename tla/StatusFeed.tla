----------------------------- MODULE StatusFeed -----------------------------
(***************************************************************************)
(* What a browser is told about agents being online: the Status, Metrics   *)
(* and Snapshot messages that the handlers of AgentLink put on the         *)
(* broadcast channel (state.rs browser_tx), and ws.rs                      *)
(* handle_browser_socket, which sends one snapshot and then forwards the   *)
(* channel.  A message is reduced to the set of agents it shows online     *)
(* and the set it speaks about.                                            *)
(***************************************************************************)
EXTENDS AgentLink, Sequences

CONSTANTS
    Browsers,   \* open dashboard sockets
    Capacity    \* broadcast::channel(256): messages kept for a slow receiver

ASSUME FeedAssumption == Capacity \in Nat \ {0} /\ Handlers \cap Browsers = {}

VARIABLES
    reading,    \* per handler and browser: agents a snapshot in progress has read
    readOn,     \* ... those it read as online
    bpc,        \* where each browser's task stands
    feed,       \* messages in each browser's receiver, oldest first
    view,       \* the agents each browser shows online
    infoDue,    \* handlers whose agent has yet to send its one SysInfo
    misled      \* history: agents each browser was misinformed about

feedVars == <<reading, readOn, bpc, feed, view, infoDue, misled>>
statusVars == <<linkVars, feedVars>>

Readers == Handlers \cup Browsers

Message(about, on) == [about |-> about, on |-> on]
Messages == {m \in [about : SUBSET Agents, on : SUBSET Agents] : m.on \subseteq m.about}

FeedInit ==
    /\ LinkInit
    /\ reading = [x \in Readers |-> {}]
    /\ readOn = [x \in Readers |-> {}]
    /\ bpc = [b \in Browsers |-> "opening"]
    /\ feed = [b \in Browsers |-> <<>>]
    /\ view = [b \in Browsers |-> {}]
    /\ infoDue = Handlers
    /\ misled = [b \in Browsers |-> {}]

\* A receiver that is Capacity behind loses its oldest message (Lagged).
Overrun(q) == Len(q) = Capacity

Enqueue(q, m) == Append(IF Overrun(q) THEN Tail(q) ELSE q, m)

\* What a browser is not told, or told wrongly, when m is broadcast: m does not
\* match the agents map, m pushes an older message out, or m comes after the
\* browser's snapshot read the agent and before its subscription.
Missed(b, m) ==
    {a \in m.about : \/ bpc[b] = "live" /\ (a \in m.on) # online[a]
                     \/ bpc[b] = "sent"
                     \/ bpc[b] = "opening" /\ a \in reading[b]}
    \cup (IF bpc[b] = "live" /\ Overrun(feed[b]) THEN Head(feed[b]).about ELSE {})

\* browser_tx.send: every subscribed receiver gets the message
Broadcast(m) ==
    /\ feed' = [b \in Browsers |-> IF bpc[b] = "live" THEN Enqueue(feed[b], m)
                                                      ELSE feed[b]]
    /\ misled' = [b \in Browsers |-> misled[b] \cup Missed(b, m)]

Show(v, m) == (v \ m.about) \cup m.on

-----------------------------------------------------------------------------
(* snapshots: agents.read is taken once per agent                          *)

SnapshotRead(x, a) ==
    /\ a \notin reading[x]
    /\ reading' = [reading EXCEPT ![x] = @ \cup {a}]
    /\ readOn' = IF online[a] THEN [readOn EXCEPT ![x] = @ \cup {a}] ELSE readOn

SnapshotDone(x) ==
    /\ reading[x] = Agents
    /\ reading' = [reading EXCEPT ![x] = {}]
    /\ readOn' = [readOn EXCEPT ![x] = {}]

\* SysInfo arrives: info is stored, every agent is read, one message is sent.
SysInfoRead(h, a) ==
    /\ pc[h] = "loop"
    /\ h \in infoDue
    /\ SnapshotRead(h, a)
    /\ UNCHANGED <<linkVars, bpc, feed, view, infoDue, misled>>

SysInfoSend(h) ==
    /\ pc[h] = "loop"
    /\ SnapshotDone(h)
    /\ infoDue' = infoDue \ {h}
    /\ Broadcast(Message(Agents, readOn[h]))
    /\ UNCHANGED <<linkVars, bpc, view>>

\* mutant: Metrics carries no online flag
MetricsShowNothing(a) == Message({}, {})

MetricsShow(a) == Message({a}, {a})

\* Metrics arrives: stored, and broadcast with online: true.  SysInfo came first.
Metrics(h) ==
    /\ pc[h] = "loop"
    /\ h \notin infoDue
    /\ Broadcast(MetricsShow(agentOf[h]))
    /\ UNCHANGED <<linkVars, reading, readOn, bpc, view, infoDue>>

-----------------------------------------------------------------------------
(* handle_browser_socket                                                   *)

OpenRead(b, a) ==
    /\ bpc[b] = "opening"
    /\ SnapshotRead(b, a)
    /\ UNCHANGED <<linkVars, bpc, feed, view, infoDue, misled>>

\* The snapshot is sent (an await) before the subscription is made.
OpenSend(b) ==
    /\ bpc[b] = "opening"
    /\ SnapshotDone(b)
    /\ view' = [view EXCEPT ![b] = readOn[b]]
    /\ bpc' = [bpc EXCEPT ![b] = "sent"]
    /\ UNCHANGED <<linkVars, feed, infoDue, misled>>

Subscribe(b) ==
    /\ bpc[b] = "sent"
    /\ bpc' = [bpc EXCEPT ![b] = "live"]
    /\ UNCHANGED <<linkVars, reading, readOn, feed, view, infoDue, misled>>

Receive(b) ==
    /\ feed[b] # <<>>
    /\ view' = [view EXCEPT ![b] = Show(@, Head(feed[b]))]
    /\ feed' = [feed EXCEPT ![b] = Tail(@)]
    /\ UNCHANGED <<linkVars, reading, readOn, bpc, infoDue, misled>>

-----------------------------------------------------------------------------
(* the control points of AgentLink that broadcast                          *)

FeedAnnounce(h) ==
    /\ Announce(h)
    /\ Broadcast(Message({agentOf[h]}, {agentOf[h]}))
    /\ UNCHANGED <<reading, readOn, bpc, view, infoDue>>

FeedBreak(h) ==
    /\ Break(h)
    /\ reading[h] = {}
    /\ UNCHANGED feedVars

\* mutant: the offline broadcast is forgotten
FeedPartSilent(h) ==
    /\ Part(h)
    /\ UNCHANGED feedVars

FeedPart(h) ==
    /\ Part(h)
    /\ Broadcast(Message({agentOf[h]}, {}))
    /\ UNCHANGED <<reading, readOn, bpc, view, infoDue>>

Quiet(h) ==
    /\ \/ Refuse(h) \/ (\E a \in Agents : Lookup(h, a)) \/ Greet(h)
       \/ Register(h) \/ LinkLost(h) \/ Leave(h) \/ Cancel(h)
    /\ UNCHANGED feedVars

Handler(h) ==
    \/ Quiet(h) \/ FeedAnnounce(h) \/ FeedBreak(h) \/ FeedPart(h)
    \/ Metrics(h) \/ SysInfoSend(h) \/ (\E a \in Agents : SysInfoRead(h, a))

Browser(b) ==
    \/ OpenSend(b) \/ Subscribe(b) \/ Receive(b)
    \/ \E a \in Agents : OpenRead(b, a)

FeedNext == (\E h \in Handlers : Handler(h)) \/ (\E b \in Browsers : Browser(b))

FeedSpec == FeedInit /\ [][FeedNext]_statusVars

\* The server's own steps are scheduled and agents with a link keep reporting at
\* their interval.  That a lost connection is ever noticed is not assumed.
Fairness ==
    /\ \A h \in Handlers :
          /\ WF_statusVars(FeedAnnounce(h)) /\ WF_statusVars(FeedPart(h))
          /\ WF_statusVars((Leave(h) \/ Cancel(h)) /\ UNCHANGED feedVars)
          /\ WF_statusVars(SysInfoSend(h)) /\ WF_statusVars(link[h] /\ Metrics(h))
          /\ \A a \in Agents : WF_statusVars(SysInfoRead(h, a))
    /\ \A b \in Browsers : WF_statusVars(Browser(b))

FairSpec == FeedSpec /\ Fairness

-----------------------------------------------------------------------------
\* Every variable has its type; a receiver holds Capacity messages at most.
FeedTypeOK ==
    /\ LinkTypeOK
    /\ reading \in [Readers -> SUBSET Agents]
    /\ readOn \in [Readers -> SUBSET Agents] /\ \A x \in Readers : readOn[x] \subseteq reading[x]
    /\ bpc \in [Browsers -> {"opening", "sent", "live"}]
    /\ feed \in [Browsers -> Seq(Messages)]
    /\ \A b \in Browsers : Len(feed[b]) <= Capacity
    /\ view \in [Browsers -> SUBSET Agents]
    /\ infoDue \subseteq Handlers
    /\ misled \in [Browsers -> SUBSET Agents]

\* Nothing more will be sent: no status change is on its way to browser b.
Settled(b) ==
    /\ bpc[b] = "live"
    /\ feed[b] = <<>>
    /\ \A h \in Handlers : pc[h] \notin {"registered", "cancelling", "parting"}

WrongAbout(b) == {a \in Agents : (a \in view[b]) # online[a]}

\* Once no status change is on its way, a browser is wrong about an agent only if
\* some message was false when it was sent (snapshots and status messages are
\* composed outside the lock), was pushed out of a slow browser's receiver, or
\* fell between its snapshot and its subscription (ws.rs:156-160, 195-203,
\* 465-468, 471-487).  Every change of the online flag is announced.
WrongOnlyIfMisled == \A b \in Browsers : Settled(b) => WrongAbout(b) \subseteq misled[b]

\* However misinformed, a browser that keeps up (its receiver is not full over
\* and over) ends up showing an agent that stays connected: each Metrics message
\* says so again (ws.rs:215-219).
ConnectedIsShown ==
    \A a \in Agents, b \in Browsers :
        <>[](online[a] /\ link[agentTx[a]]) =>
            \/ <>[](a \in view[b])
            \/ []<>Overrun(feed[b])

\* README.md:19 promises "offline after 15s silence": a browser that has received
\* everything does not go on showing an agent that is offline.
SilentAgentShownOffline ==
    \A b \in Browsers : Settled(b) => \A a \in view[b] : online[a]

=============================================================================
