----------------------------- MODULE ViewProofs ------------------------------
(***************************************************************************)
(* Proofs about what is shown of the agents, for any agents, handlers,     *)
(* browsers, admin edits and values, and receivers of any capacity:        *)
(* StatusFeed and Profile, which both compose AgentLink.                   *)
(*                                                                         *)
(* WrongOnlyIfMisled speaks of the moments when nothing is on its way to a *)
(* browser. FeedInv says at any moment what the browser will show of an    *)
(* agent once it has read its receiver, unless it was misled about it or   *)
(* the agent's last change has yet to be announced.                        *)
(*                                                                         *)
(* EntryFollowsRow speaks of the moments when nobody writes. What carries  *)
(* it from one to the next: as long as the writers of a field have not     *)
(* overlapped there is at most one of them, what it is about to copy is    *)
(* what the table holds, and the entry and what was broadcast differ from  *)
(* the table only where that one writer has still to put them right.       *)
(***************************************************************************)
EXTENDS StatusFeed, Profile, AgentLinkProofs

-----------------------------------------------------------------------------
(***************************************************************************)
(* StatusFeed                                                              *)
(***************************************************************************)

\* A change of a's flag that has yet to be announced.
Pending(a) ==
    \E h \in Handlers : agentOf[h] = a /\ pc[h] \in {"registered", "cancelling", "parting"}

\* The last message of q about a, or v if there is none, shows a online iff o.
LastSays(q, a, o) ==
    \E i \in 1..Len(q) : /\ a \in q[i].about /\ (a \in q[i].on <=> o)
                         /\ \A j \in 1..Len(q) : j > i => a \notin q[j].about

Silent(q, a) == \A i \in 1..Len(q) : a \notin q[i].about

WillShow(q, v, a, o) == LastSays(q, a, o) \/ (Silent(q, a) /\ (a \in v <=> o))

\* What b has read of a, or was sent, or will show, is a's flag.
Informed(b, a) ==
    /\ bpc[b] = "opening" /\ a \in reading[b] => (a \in readOn[b] <=> online[a])
    /\ bpc[b] = "sent" => (a \in view[b] <=> online[a])
    /\ bpc[b] = "live" => WillShow(feed[b], view[b], a, online[a])

EmptyUntilLive == \A b \in Browsers : bpc[b] # "live" => feed[b] = <<>>

InformedOrMisled ==
    \A b \in Browsers, a \in Agents : Pending(a) \/ a \in misled[b] \/ Informed(b, a)

FeedInv == LinkInv /\ FeedTypeOK /\ EmptyUntilLive /\ InformedOrMisled

-----------------------------------------------------------------------------
(* Receivers                                                               *)

\* A message that is put in a receiver becomes the last one of its agents; of other
\* agents the last one stays, unless it is pushed out.
LEMMA EnqueueSays ==
    ASSUME NEW q \in Seq(Messages), NEW m \in Messages, NEW v, NEW a, NEW o \in BOOLEAN,
           Capacity \in Nat \ {0}
    PROVE  /\ a \in m.about /\ (a \in m.on <=> o) => WillShow(Enqueue(q, m), v, a, o)
           /\ /\ a \notin m.about /\ WillShow(q, v, a, o)
              /\ Overrun(q) => a \notin Head(q).about
              => WillShow(Enqueue(q, m), v, a, o)
<1> DEFINE t == IF Overrun(q) THEN Tail(q) ELSE q
           k == IF Overrun(q) THEN 1 ELSE 0
           r == Enqueue(q, m)
<1>1. /\ Overrun(q) => q # <<>>
      /\ t \in Seq(Messages) /\ Len(t) = Len(q) - k /\ Len(t) \in Nat
      /\ \A i \in 1..Len(t) : t[i] = q[i + k]
  BY DEF Overrun
<1>2. /\ Len(r) = Len(t) + 1 /\ r[Len(r)] = m
      /\ \A i \in 1..Len(t) : r[i] = t[i]
  BY <1>1 DEF Enqueue
<1> HIDE DEF t, r
<1>3. CASE a \in m.about /\ (a \in m.on <=> o)
  <2>1. Len(r) \in 1..Len(r) /\ \A j \in 1..Len(r) : ~(j > Len(r))
    BY <1>1, <1>2
  <2> QED
    BY <2>1, <1>2, <1>3 DEF WillShow, LastSays, r
<1>4. CASE /\ a \notin m.about /\ WillShow(q, v, a, o)
           /\ Overrun(q) => a \notin Head(q).about
  <2>1. k = 1 => a \notin q[1].about
    BY <1>1, <1>4
  <2>2. \A j \in 1..Len(r) : j = Len(r) \/ (j \in 1..Len(t) /\ r[j] = q[j + k])
    BY <1>1, <1>2
  <2>3. CASE Silent(q, a)
    <3>1. \A j \in 1..Len(t) : j + k \in 1..Len(q)
      BY <1>1
    <3>2. Silent(r, a)
      BY <2>2, <2>3, <3>1, <1>2, <1>4 DEF Silent
    <3>3. ~LastSays(q, a, o)
      BY <2>3 DEF Silent, LastSays
    <3> QED
      BY <3>2, <3>3, <1>4 DEF WillShow, r
  <2>4. CASE LastSays(q, a, o)
    <3>1. PICK i \in 1..Len(q) : /\ a \in q[i].about /\ (a \in q[i].on <=> o)
                                 /\ \A j \in 1..Len(q) : j > i => a \notin q[j].about
      BY <2>4 DEF LastSays
    <3>2. i - k \in 1..Len(t) /\ r[i - k] = q[i]
      BY <3>1, <2>1, <1>1, <1>2
    <3>3. i - k \in 1..Len(r)
      BY <3>2, <1>1, <1>2
    <3>4. ASSUME NEW j \in 1..Len(r), j > i - k PROVE a \notin r[j].about
      <4>1. CASE j = Len(r)
        BY <4>1, <1>2, <1>4
      <4>2. CASE j \in 1..Len(t) /\ r[j] = q[j + k]
        BY <4>2, <3>1, <3>4, <1>1
      <4> QED
        BY <4>1, <4>2, <2>2
    <3>5. LastSays(r, a, o)
      BY <3>1, <3>2, <3>3, <3>4 DEF LastSays
    <3> QED
      BY <3>5 DEF WillShow, r
  <2> QED
    BY <2>3, <2>4, <1>4 DEF WillShow
<1> QED
  BY <1>3, <1>4

\* Reading a message does not change what will be shown in the end.
LEMMA ReceiveSays ==
    ASSUME NEW q \in Seq(Messages), q # <<>>, NEW v, NEW a, NEW o \in BOOLEAN,
           WillShow(q, v, a, o)
    PROVE  WillShow(Tail(q), Show(v, Head(q)), a, o)
<1> DEFINE t == Tail(q)
<1>1. /\ Len(q) \in Nat /\ Len(q) > 0 /\ Len(t) = Len(q) - 1
      /\ \A i \in 1..Len(t) : t[i] = q[i + 1] /\ i + 1 \in 1..Len(q)
      /\ Head(q) = q[1] /\ q[1] \in Messages
  OBVIOUS
<1> HIDE DEF t
<1>2. /\ a \in q[1].about => (a \in Show(v, q[1]) <=> a \in q[1].on)
      /\ a \notin q[1].about => (a \in Show(v, q[1]) <=> a \in v)
  BY <1>1 DEF Show, Messages
<1>3. CASE Silent(q, a)
  <2>1. Silent(t, a) /\ a \notin q[1].about
    BY <1>1, <1>3 DEF Silent
  <2>2. ~LastSays(q, a, o)
    BY <1>3 DEF Silent, LastSays
  <2> QED
    BY <2>1, <2>2, <1>1, <1>2 DEF WillShow, t
<1>4. CASE LastSays(q, a, o)
  <2>1. PICK i \in 1..Len(q) : /\ a \in q[i].about /\ (a \in q[i].on <=> o)
                               /\ \A j \in 1..Len(q) : j > i => a \notin q[j].about
    BY <1>4 DEF LastSays
  <2>2. CASE i = 1
    <3>1. Silent(t, a)
      BY <2>1, <2>2, <1>1 DEF Silent
    <3> QED
      BY <3>1, <2>1, <2>2, <1>1, <1>2 DEF WillShow, t
  <2>3. CASE i > 1
    <3>1. i - 1 \in 1..Len(t) /\ t[i - 1] = q[i]
      BY <2>1, <2>3, <1>1
    <3>2. \A j \in 1..Len(t) : j > i - 1 => a \notin t[j].about
      BY <2>1, <1>1
    <3>3. LastSays(t, a, o)
      BY <3>1, <3>2, <2>1 DEF LastSays
    <3> QED
      BY <3>3 DEF WillShow, t
  <2> QED
    BY <2>2, <2>3
<1> QED
  BY <1>3, <1>4 DEF WillShow

-----------------------------------------------------------------------------
(* Types                                                                   *)

\* StatusFeed does nothing to connections that AgentLink does not.
LEMMA FeedStepIsLinkStep == [FeedNext]_statusVars => [LinkNext]_linkVars
  BY DEF FeedNext, statusVars, linkVars, LinkNext, Handler, Browser, SysInfoRead, SysInfoSend,
         Metrics, OpenRead, OpenSend, Subscribe, Receive, FeedAnnounce, FeedBreak, FeedPart, Quiet

\* Whatever browsers are told, connections behave as AgentLink says (ws.rs:110-470).
THEOREM FeedImplementsLink == FeedSpec => LinkSpec
<1>1. FeedInit => LinkInit
  BY DEF FeedInit
<1>2. [FeedNext]_statusVars => [LinkNext]_linkVars
  BY FeedStepIsLinkStep
<1> QED
  BY <1>1, <1>2, PTL DEF FeedSpec, LinkSpec

\* What is broadcast is a message.
LEMMA BroadcastsMessages ==
    ASSUME LinkInv, FeedTypeOK, NEW h \in Handlers
    PROVE  /\ Message(Agents, readOn[h]) \in Messages
           /\ pc[h] \in {"registered", "loop", "parting"} =>
                  /\ agentOf[h] \in Agents
                  /\ Message({agentOf[h]}, {agentOf[h]}) \in Messages
                  /\ Message({agentOf[h]}, {}) \in Messages
<1>1. readOn[h] \subseteq Agents
  BY DEF FeedTypeOK, Readers
<1>2. \A about, on \in SUBSET Agents : on \subseteq about => Message(about, on) \in Messages
  BY DEF Message, Messages
<1>3. pc[h] \in {"registered", "loop", "parting"} => agentOf[h] \in Agents
  BY DEF LinkInv, HandlerKnows
<1> QED
  BY <1>1, <1>2, <1>3

\* A broadcast keeps receivers within their capacity.
LEMMA BroadcastTypes ==
    ASSUME FeedTypeOK, EmptyUntilLive, NEW m \in Messages, Broadcast(m), bpc' = bpc
    PROVE  /\ feed' \in [Browsers -> Seq(Messages)]
           /\ \A b \in Browsers : Len(feed'[b]) <= Capacity
           /\ misled' \in [Browsers -> SUBSET Agents]
           /\ EmptyUntilLive'
<1>1. ASSUME NEW q \in Seq(Messages), Len(q) <= Capacity
      PROVE  Enqueue(q, m) \in Seq(Messages) /\ Len(Enqueue(q, m)) <= Capacity
  BY <1>1, FeedAssumption DEF Enqueue, Overrun
<1>2. ASSUME NEW b \in Browsers PROVE Missed(b, m) \subseteq Agents
  <2>1. m.about \subseteq Agents
    BY DEF Messages
  <2>2. Overrun(feed[b]) => Head(feed[b]) \in Messages
    BY FeedAssumption DEF Overrun, FeedTypeOK
  <2> QED
    BY <2>1, <2>2 DEF Missed, Messages
<1>3. \A b \in Browsers : feed[b] \in Seq(Messages) /\ Len(feed[b]) <= Capacity
  BY DEF FeedTypeOK
<1>4. feed' = [b \in Browsers |-> IF bpc[b] = "live" THEN Enqueue(feed[b], m) ELSE feed[b]]
  BY DEF Broadcast
<1>5. misled' \in [Browsers -> SUBSET Agents]
  BY <1>2 DEF Broadcast, FeedTypeOK
<1>6. EmptyUntilLive'
  BY <1>4 DEF EmptyUntilLive
<1> QED
  BY <1>1, <1>3, <1>4, <1>5, <1>6

\* A read adds an agent to what a snapshot has read.
LEMMA SnapshotTypes ==
    ASSUME FeedTypeOK, NEW x \in Readers,
           (\E a \in Agents : SnapshotRead(x, a)) \/ SnapshotDone(x)
    PROVE  /\ reading' \in [Readers -> SUBSET Agents] /\ readOn' \in [Readers -> SUBSET Agents]
           /\ \A y \in Readers : readOn'[y] \subseteq reading'[y]
<1>1. CASE SnapshotDone(x)
  BY <1>1 DEF SnapshotDone, FeedTypeOK
<1>2. ASSUME NEW a \in Agents, SnapshotRead(x, a)
      PROVE  /\ reading' \in [Readers -> SUBSET Agents] /\ readOn' \in [Readers -> SUBSET Agents]
             /\ \A y \in Readers : readOn'[y] \subseteq reading'[y]
  BY <1>2 DEF SnapshotRead, FeedTypeOK
<1> QED
  BY <1>1, <1>2

\* Every step keeps the types; one step per kind of action.
LEMMA FeedTypedStep ==
    ASSUME LinkInv, FeedTypeOK, EmptyUntilLive, [FeedNext]_statusVars
    PROVE  LinkInv' /\ FeedTypeOK' /\ EmptyUntilLive'
<1>1. LinkInv' /\ LinkTypeOK'
  BY LinkStepInv, FeedStepIsLinkStep DEF LinkInv
<1> DEFINE Fine == FeedTypeOK' /\ EmptyUntilLive'
<1>2. ASSUME NEW h \in Handlers, NEW a \in Agents, SysInfoRead(h, a)
      PROVE  Fine
  <2>1. /\ reading' \in [Readers -> SUBSET Agents] /\ readOn' \in [Readers -> SUBSET Agents]
        /\ \A y \in Readers : readOn'[y] \subseteq reading'[y]
    BY <1>2, SnapshotTypes DEF SysInfoRead, Readers
  <2> QED
    BY <2>1, <1>1, <1>2 DEF SysInfoRead, FeedTypeOK, EmptyUntilLive
<1>3. ASSUME NEW h \in Handlers, SysInfoSend(h)
      PROVE  Fine
  <2>1. /\ reading' \in [Readers -> SUBSET Agents] /\ readOn' \in [Readers -> SUBSET Agents]
        /\ \A y \in Readers : readOn'[y] \subseteq reading'[y]
    BY <1>3, SnapshotTypes DEF SysInfoSend, Readers
  <2>2. Broadcast(Message(Agents, readOn[h])) /\ UNCHANGED <<bpc, view>> /\ infoDue' \subseteq infoDue
    BY <1>3 DEF SysInfoSend
  <2>3. Message(Agents, readOn[h]) \in Messages
    BY BroadcastsMessages
  <2> QED
    BY <2>1, <2>2, <2>3, <1>1, BroadcastTypes DEF FeedTypeOK
<1>4. ASSUME NEW h \in Handlers, Metrics(h) \/ FeedAnnounce(h) \/ FeedPart(h)
      PROVE  Fine
  <2>1. /\ UNCHANGED <<reading, readOn, bpc, view, infoDue>>
        /\ pc[h] \in {"registered", "loop", "parting"}
        /\ \E on \in {{}, {agentOf[h]}} : Broadcast(Message({agentOf[h]}, on))
    BY <1>4 DEF Metrics, MetricsShow, FeedAnnounce, FeedPart, Announce, Part, Goto
  <2>2. PICK m \in Messages : Broadcast(m)
    BY <2>1, BroadcastsMessages
  <2> QED
    BY <2>1, <2>2, <1>1, BroadcastTypes DEF FeedTypeOK
<1>5. ASSUME NEW h \in Handlers, FeedBreak(h) \/ Quiet(h)
      PROVE  Fine
  BY <1>5, <1>1 DEF FeedBreak, Quiet, feedVars, FeedTypeOK, EmptyUntilLive
<1>6. ASSUME NEW b \in Browsers, NEW a \in Agents, OpenRead(b, a)
      PROVE  Fine
  <2>1. /\ reading' \in [Readers -> SUBSET Agents] /\ readOn' \in [Readers -> SUBSET Agents]
        /\ \A y \in Readers : readOn'[y] \subseteq reading'[y]
    BY <1>6, SnapshotTypes DEF OpenRead, Readers
  <2> QED
    BY <2>1, <1>1, <1>6 DEF OpenRead, FeedTypeOK, EmptyUntilLive
<1>7. ASSUME NEW b \in Browsers, OpenSend(b)
      PROVE  Fine
  <2>1. /\ reading' \in [Readers -> SUBSET Agents] /\ readOn' \in [Readers -> SUBSET Agents]
        /\ \A y \in Readers : readOn'[y] \subseteq reading'[y]
    BY <1>7, SnapshotTypes DEF OpenSend, Readers
  <2>2. /\ bpc[b] = "opening" /\ bpc' = [bpc EXCEPT ![b] = "sent"]
        /\ view' = [view EXCEPT ![b] = readOn[b]]
        /\ UNCHANGED <<linkVars, feed, infoDue, misled>>
    BY <1>7 DEF OpenSend
  <2>3. readOn[b] \in SUBSET Agents
    BY DEF FeedTypeOK, Readers
  <2> QED
    BY <2>1, <2>2, <2>3, <1>1 DEF FeedTypeOK, EmptyUntilLive
<1>8. ASSUME NEW b \in Browsers, Subscribe(b)
      PROVE  Fine
  BY <1>8, <1>1 DEF Subscribe, FeedTypeOK, EmptyUntilLive
<1>9. ASSUME NEW b \in Browsers, Receive(b)
      PROVE  Fine
  <2>1. /\ feed[b] \in Seq(Messages) /\ feed[b] # <<>> /\ Len(feed[b]) <= Capacity
        /\ feed' = [feed EXCEPT ![b] = Tail(feed[b])]
        /\ view' = [view EXCEPT ![b] = Show(view[b], Head(feed[b]))]
        /\ UNCHANGED <<linkVars, reading, readOn, bpc, infoDue, misled>>
    BY <1>9 DEF Receive, FeedTypeOK
  <2>2. /\ Tail(feed[b]) \in Seq(Messages) /\ Head(feed[b]) \in Messages
        /\ Len(Tail(feed[b])) <= Capacity
    BY <2>1, FeedAssumption
  <2>3. Show(view[b], Head(feed[b])) \in SUBSET Agents
    BY <2>2 DEF Show, Messages, FeedTypeOK
  <2>4. \A c \in Browsers : c # b => feed'[c] = feed[c]
    BY <2>1 DEF FeedTypeOK
  <2>5. feed' \in [Browsers -> Seq(Messages)] /\ \A c \in Browsers : Len(feed'[c]) <= Capacity
    BY <2>1, <2>2, <2>4 DEF FeedTypeOK
  <2>6. EmptyUntilLive'
    BY <2>1, <2>4 DEF EmptyUntilLive
  <2> QED
    BY <2>1, <2>3, <2>5, <2>6, <1>1 DEF FeedTypeOK
<1>10. CASE UNCHANGED statusVars
  BY <1>10, <1>1 DEF statusVars, feedVars, FeedTypeOK, EmptyUntilLive
<1> QED
  BY <1>1, <1>2, <1>3, <1>4, <1>5, <1>6, <1>7, <1>8, <1>9, <1>10 DEF FeedNext, Handler, Browser

-----------------------------------------------------------------------------
(* What browsers will show                                                 *)

\* After a broadcast a browser is informed of the message's agents, and of those it
\* was informed of before, or else it counts as misled.
LEMMA BroadcastInforms ==
    ASSUME FeedTypeOK, EmptyUntilLive, NEW m \in Messages, Broadcast(m),
           NEW b \in Browsers, NEW a \in Agents,
           reading'[b] = reading[b], readOn'[b] = readOn[b],
           UNCHANGED <<bpc, view, online>>,
           Informed(b, a) \/ a \in m.about
    PROVE  a \in misled'[b] \/ Informed(b, a)'
<1> SUFFICES ASSUME a \notin misled'[b] PROVE Informed(b, a)'
  OBVIOUS
<1>1. /\ feed'[b] = IF bpc[b] = "live" THEN Enqueue(feed[b], m) ELSE feed[b]
      /\ a \notin Missed(b, m)
  BY DEF Broadcast
<1>2. /\ feed[b] \in Seq(Messages) /\ online[a] \in BOOLEAN
      /\ bpc[b] \in {"opening", "sent", "live"}
  BY DEF FeedTypeOK, LinkTypeOK
<1>3. CASE bpc[b] = "opening"
  BY <1>1, <1>3 DEF Missed, Informed
<1>4. CASE bpc[b] = "sent"
  BY <1>1, <1>4 DEF Missed, Informed
<1>5. CASE bpc[b] = "live"
  <2>1. /\ a \in m.about => (a \in m.on <=> online[a])
        /\ Overrun(feed[b]) => a \notin Head(feed[b]).about
    BY <1>1, <1>2, <1>5 DEF Missed
  <2>2. a \notin m.about => WillShow(feed[b], view[b], a, online[a])
    BY <1>5 DEF Informed
  <2>3. WillShow(Enqueue(feed[b], m), view[b], a, online[a])
    BY <2>1, <2>2, <1>2, EnqueueSays, FeedAssumption
  <2> QED
    BY <2>3, <1>1, <1>5 DEF Informed
<1> QED
  BY <1>2, <1>3, <1>4, <1>5

\* A flag changes only where a change is then pending, and a change stops pending
\* only in a broadcast about its agent.
LEMMA FlagChangesPend ==
    ASSUME LinkInv, [FeedNext]_statusVars, NEW a \in Agents, ~Pending(a)'
    PROVE  /\ online'[a] = online[a]
           /\ ~Pending(a) \/ \E h \in Handlers : /\ FeedAnnounce(h) \/ FeedPart(h)
                                                 /\ agentOf[h] = a
<1>1. LinkTypeOK /\ HandlerKnows
  BY DEF LinkInv
<1>2. ASSUME NEW h \in Handlers, Quiet(h)
      PROVE  online'[a] = online[a] /\ ~Pending(a)
  <2>1. CASE \/ Refuse(h) \/ (\E c \in Agents : Lookup(h, c)) \/ Greet(h)
             \/ LinkLost(h) \/ Cancel(h)
    <3>1. online' = online
      BY <2>1 DEF Refuse, Lookup, Greet, LinkLost, Cancel
    <3>2. \A g \in Handlers : pc[g] \in {"registered", "cancelling", "parting"} =>
             pc'[g] \in {"registered", "cancelling", "parting"} /\ agentOf'[g] = agentOf[g]
      BY <2>1, <1>1 DEF Refuse, Lookup, Greet, LinkLost, Cancel, Goto, LinkTypeOK
    <3> QED
      BY <3>1, <3>2 DEF Pending
  <2>2. CASE Register(h) \/ Leave(h)
    <3>1. \A g \in Handlers : pc[g] \in {"registered", "cancelling", "parting"} =>
             pc'[g] = pc[g] /\ agentOf'[g] = agentOf[g]
      BY <2>2, <1>1 DEF Register, Leave, Goto, LinkTypeOK
    <3>2. \/ online' = online
          \/ /\ pc'[h] \in {"registered", "cancelling"} /\ agentOf'[h] = agentOf[h]
             /\ \E o \in BOOLEAN : online' = [online EXCEPT ![agentOf[h]] = o]
      BY <2>2, <1>1 DEF Register, Leave, Goto, LinkTypeOK
    <3>3. online'[a] = online[a]
      BY <3>2, <1>1 DEF Pending, LinkTypeOK
    <3> QED
      BY <3>1, <3>3 DEF Pending
  <2> QED
    BY <1>2, <2>1, <2>2 DEF Quiet
<1>3. ASSUME NEW h \in Handlers, FeedAnnounce(h) \/ FeedPart(h)
      PROVE  online'[a] = online[a] /\ (~Pending(a) \/ agentOf[h] = a)
  <2>1. online' = online /\ agentOf' = agentOf
    BY <1>3 DEF FeedAnnounce, FeedPart, Announce, Part
  <2>2. \A g \in Handlers : g # h => pc'[g] = pc[g]
    BY <1>3, <1>1 DEF FeedAnnounce, FeedPart, Announce, Part, Goto, LinkTypeOK
  <2> QED
    BY <2>1, <2>2 DEF Pending
<1>4. ASSUME NEW h \in Handlers,
             \/ FeedBreak(h) \/ Metrics(h) \/ SysInfoSend(h)
             \/ (\E c \in Agents : SysInfoRead(h, c))
      PROVE  online'[a] = online[a] /\ ~Pending(a)
  <2>1. online' = online /\ agentOf' = agentOf
    BY <1>4 DEF FeedBreak, Metrics, SysInfoSend, SysInfoRead, Break, linkVars
  <2>2. \A g \in Handlers : pc[g] \in {"registered", "cancelling", "parting"} => pc'[g] = pc[g]
    BY <1>4, <1>1
    DEF FeedBreak, Metrics, SysInfoSend, SysInfoRead, Break, linkVars, Goto, LinkTypeOK
  <2> QED
    BY <2>1, <2>2 DEF Pending
<1>5. CASE UNCHANGED linkVars
  BY <1>5 DEF linkVars, Pending
<1>6. ASSUME NEW b \in Browsers, Browser(b)
      PROVE  UNCHANGED linkVars
  BY <1>6 DEF Browser, OpenRead, OpenSend, Subscribe, Receive
<1> QED
  BY <1>2, <1>3, <1>4, <1>5, <1>6 DEF FeedNext, Handler, statusVars

\* An announcement informs of its agent.
LEMMA AnnouncementInforms ==
    ASSUME LinkInv, FeedTypeOK, EmptyUntilLive, NEW h \in Handlers,
           Metrics(h) \/ FeedAnnounce(h) \/ FeedPart(h),
           NEW b \in Browsers, NEW a \in Agents, Informed(b, a) \/ agentOf[h] = a
    PROVE  a \in misled'[b] \/ Informed(b, a)'
<1>1. /\ UNCHANGED <<reading, readOn, bpc, view, online>>
      /\ pc[h] \in {"registered", "loop", "parting"}
      /\ \E on \in {{}, {agentOf[h]}} : Broadcast(Message({agentOf[h]}, on))
  BY DEF Metrics, MetricsShow, FeedAnnounce, FeedPart, Announce, Part, Goto, linkVars
<1>2. PICK m \in Messages : Broadcast(m) /\ m.about = {agentOf[h]}
  BY <1>1, BroadcastsMessages DEF Message
<1> QED
  BY <1>1, <1>2, BroadcastInforms

\* A browser that is informed of an agent stays so, or is misled, as long as no
\* change of it is pending; one step per kind of action.
LEMMA InformedStep ==
    ASSUME LinkInv, FeedTypeOK, EmptyUntilLive, [FeedNext]_statusVars, NEW b \in Browsers,
           NEW a \in Agents, Informed(b, a), online'[a] = online[a]
    PROVE  a \in misled'[b] \/ Informed(b, a)'
<1>1. b \notin Handlers /\ online[a] \in BOOLEAN
  BY FeedAssumption DEF FeedTypeOK, LinkTypeOK
<1>2. ASSUME NEW h \in Handlers, Metrics(h) \/ FeedAnnounce(h) \/ FeedPart(h)
      PROVE  a \in misled'[b] \/ Informed(b, a)'
  BY <1>2, AnnouncementInforms
<1>3. ASSUME NEW h \in Handlers, SysInfoSend(h)
      PROVE  a \in misled'[b] \/ Informed(b, a)'
  <2>1. /\ UNCHANGED linkVars /\ UNCHANGED <<bpc, view>>
        /\ Broadcast(Message(Agents, readOn[h]))
        /\ reading' = [reading EXCEPT ![h] = {}] /\ readOn' = [readOn EXCEPT ![h] = {}]
    BY <1>3 DEF SysInfoSend, SnapshotDone
  <2>2. Message(Agents, readOn[h]) \in Messages
    BY BroadcastsMessages
  <2>3. reading'[b] = reading[b] /\ readOn'[b] = readOn[b] /\ UNCHANGED online
    BY <2>1, <1>1 DEF FeedTypeOK, linkVars
  <2> QED
    BY <2>1, <2>2, <2>3, BroadcastInforms
<1>4. ASSUME \/ UNCHANGED statusVars
             \/ \E h \in Handlers :
                    FeedBreak(h) \/ Quiet(h) \/ (\E c \in Agents : SysInfoRead(h, c))
             \/ \E c \in Browsers \ {b} :
                    Receive(c) \/ OpenSend(c) \/ Subscribe(c) \/ (\E d \in Agents : OpenRead(c, d))
      PROVE  Informed(b, a)'
  <2>1. /\ reading'[b] = reading[b] /\ readOn'[b] = readOn[b] /\ bpc'[b] = bpc[b]
        /\ feed'[b] = feed[b] /\ view'[b] = view[b]
    <3>1. CASE \/ UNCHANGED statusVars \/ \E h \in Handlers : FeedBreak(h) \/ Quiet(h)
      BY <3>1 DEF statusVars, FeedBreak, Quiet, feedVars
    <3>2. ASSUME NEW h \in Handlers, NEW c \in Agents, SysInfoRead(h, c)
          PROVE  /\ reading'[b] = reading[b] /\ readOn'[b] = readOn[b]
                 /\ UNCHANGED <<bpc, feed, view>>
      BY <3>2, <1>1 DEF SysInfoRead, SnapshotRead, FeedTypeOK, Readers
    <3>3. ASSUME NEW c \in Browsers, c # b, NEW d \in Agents, OpenRead(c, d)
          PROVE  /\ reading'[b] = reading[b] /\ readOn'[b] = readOn[b]
                 /\ UNCHANGED <<bpc, feed, view>>
      BY <3>3 DEF OpenRead, SnapshotRead, FeedTypeOK, Readers
    <3>4. ASSUME NEW c \in Browsers, c # b, OpenSend(c)
          PROVE  /\ reading'[b] = reading[b] /\ readOn'[b] = readOn[b]
                 /\ bpc'[b] = bpc[b] /\ view'[b] = view[b] /\ feed' = feed
      BY <3>4 DEF OpenSend, SnapshotDone, FeedTypeOK, Readers
    <3>5. ASSUME NEW c \in Browsers, c # b, Subscribe(c) \/ Receive(c)
          PROVE  /\ UNCHANGED <<reading, readOn>>
                 /\ bpc'[b] = bpc[b] /\ view'[b] = view[b] /\ feed'[b] = feed[b]
      BY <3>5 DEF Subscribe, Receive, FeedTypeOK
    <3> QED
      BY <3>1, <3>2, <3>3, <3>4, <3>5, <1>4
  <2> QED
    BY <2>1 DEF Informed
<1>5. CASE \E d \in Agents : OpenRead(b, d)
  <2>1. PICK d \in Agents : OpenRead(b, d)
    BY <1>5
  <2>2. /\ bpc[b] = "opening" /\ bpc' = bpc
        /\ reading'[b] = reading[b] \cup {d}
        /\ readOn'[b] = IF online[d] THEN readOn[b] \cup {d} ELSE readOn[b]
    BY <2>1 DEF OpenRead, SnapshotRead, FeedTypeOK, Readers
  <2>3. d \notin reading[b] /\ (d \in readOn[b] => d \in reading[b])
    BY <2>1 DEF OpenRead, SnapshotRead, FeedTypeOK, Readers
  <2> QED
    BY <2>2, <2>3, <1>1 DEF Informed
<1>6. CASE OpenSend(b)
  <2>1. /\ bpc[b] = "opening" /\ bpc'[b] = "sent" /\ reading[b] = Agents /\ view'[b] = readOn[b]
    BY <1>6 DEF OpenSend, SnapshotDone, FeedTypeOK
  <2> QED
    BY <2>1 DEF Informed
<1>7. CASE Subscribe(b)
  <2>1. bpc[b] = "sent" /\ bpc'[b] = "live" /\ view' = view /\ feed'[b] = <<>>
    BY <1>7 DEF Subscribe, FeedTypeOK, EmptyUntilLive
  <2>2. Silent(feed'[b], a)
    BY <2>1 DEF Silent
  <2> QED
    BY <2>1, <2>2 DEF Informed, WillShow
<1>8. CASE Receive(b)
  <2>1. /\ feed[b] \in Seq(Messages) /\ feed[b] # <<>> /\ bpc' = bpc
        /\ feed'[b] = Tail(feed[b]) /\ view'[b] = Show(view[b], Head(feed[b]))
    BY <1>8 DEF Receive, FeedTypeOK
  <2>2. bpc[b] = "live"
    BY <2>1 DEF EmptyUntilLive
  <2>3. WillShow(feed'[b], view'[b], a, online[a])
    BY <2>1, <2>2, <1>1, ReceiveSays DEF Informed
  <2> QED
    BY <2>1, <2>2, <2>3 DEF Informed
<1> QED
  BY <1>2, <1>3, <1>4, <1>5, <1>6, <1>7, <1>8 DEF FeedNext, Handler, Browser

\* It is inductive.
LEMMA FeedStepInv == FeedInv /\ [FeedNext]_statusVars => FeedInv'
<1> SUFFICES ASSUME FeedInv, [FeedNext]_statusVars PROVE FeedInv'
  OBVIOUS
<1>1. LinkInv /\ FeedTypeOK /\ EmptyUntilLive /\ LinkInv' /\ FeedTypeOK' /\ EmptyUntilLive'
  BY FeedTypedStep DEF FeedInv
<1>2. ASSUME NEW b \in Browsers, NEW a \in Agents, ~Pending(a)'
      PROVE  a \in misled'[b] \/ Informed(b, a)'
  <2>1. online'[a] = online[a]
    BY <1>1, <1>2, FlagChangesPend
  <2>2. CASE Pending(a)
    <3>1. PICK h \in Handlers : (FeedAnnounce(h) \/ FeedPart(h)) /\ agentOf[h] = a
      BY <1>1, <1>2, <2>2, FlagChangesPend
    <3> QED
      BY <3>1, <1>1, AnnouncementInforms
  <2>3. CASE Informed(b, a)
    BY <2>1, <2>3, <1>1, InformedStep
  <2>4. CASE a \in misled[b]
    <3>1. UNCHANGED misled \/ \E m : Broadcast(m)
      BY DEF FeedNext, Handler, Browser, statusVars, feedVars, Quiet, FeedBreak, FeedPart,
         FeedAnnounce, Metrics, SysInfoSend, SysInfoRead, OpenRead, OpenSend, Subscribe, Receive
    <3> QED
      BY <3>1, <2>4 DEF Broadcast
  <2> QED
    BY <2>2, <2>3, <2>4 DEF FeedInv, InformedOrMisled
<1>3. InformedOrMisled'
  BY <1>2 DEF InformedOrMisled
<1> QED
  BY <1>1, <1>3 DEF FeedInv

\* No change is pending and nobody has read anything at the start.
LEMMA FeedInitInv == FeedInit => FeedInv
<1> SUFFICES ASSUME FeedInit PROVE FeedInv
  OBVIOUS
<1>1. LinkInv
  BY LinkInitInv DEF FeedInit
<1>2. FeedTypeOK
  <2>1. Len(<<>>) = 0 /\ <<>> \in Seq(Messages) /\ 0 <= Capacity
    BY FeedAssumption
  <2> QED
    BY <2>1, <1>1 DEF FeedInit, FeedTypeOK, LinkInv
<1>3. \A b \in Browsers : bpc[b] = "opening" /\ reading[b] = {} /\ feed[b] = <<>>
  BY DEF FeedInit, Readers
<1> QED
  BY <1>1, <1>2, <1>3 DEF FeedInv, EmptyUntilLive, InformedOrMisled, Informed

-----------------------------------------------------------------------------
(* The theorems                                                            *)

\* What every browser will show is known at any moment.
THEOREM FeedInvariant == FeedSpec => []FeedInv
  BY FeedInitInv, FeedStepInv, PTL DEF FeedSpec

\* Every variable of the feed keeps its type; no receiver holds more than Capacity.
THEOREM FeedTypeCorrect == FeedSpec => []FeedTypeOK
<1>1. FeedInv => FeedTypeOK
  BY DEF FeedInv
<1> QED
  BY <1>1, FeedInvariant, PTL

\* Once nothing is on its way to it, a browser is wrong only about agents that it
\* was misled about (ws.rs:156-160, 195-203, 465-487).
THEOREM WrongOnlyIfMisledAlways == FeedSpec => []WrongOnlyIfMisled
<1>1. ASSUME FeedInv, NEW b \in Browsers, Settled(b), NEW a \in WrongAbout(b)
      PROVE  a \in misled[b]
  <2>1. a \in Agents /\ ~Pending(a) /\ ~(a \in view[b] <=> online[a])
    BY <1>1 DEF Settled, WrongAbout, Pending, FeedInv, FeedTypeOK, LinkTypeOK
  <2>2. Len(feed[b]) = 0 /\ bpc[b] = "live"
    BY <1>1 DEF Settled
  <2>3. ~LastSays(feed[b], a, online[a])
    BY <2>2 DEF LastSays
  <2>4. ~Informed(b, a)
    BY <2>1, <2>2, <2>3 DEF Informed, WillShow
  <2> QED
    BY <2>1, <2>4, <1>1 DEF FeedInv, InformedOrMisled
<1>2. FeedInv => WrongOnlyIfMisled
  BY <1>1 DEF WrongOnlyIfMisled
<1> QED
  BY <1>2, FeedInvariant, PTL

-----------------------------------------------------------------------------
(***************************************************************************)
(* Profile                                                                 *)
(***************************************************************************)

\* A handler between its two looks at a field of a, and those of a Region frame.
JoinsName(h, a) == agentOf[h] = a /\ pc[h] \in {"found", "greeted"}
JoinsRegion(h, a) == agentOf[h] = a /\ pc[h] \in {"greeted", "registered"}
Detects(h, a) == agentOf[h] = a /\ seen[h] \in {"stored", "entered"}

\* An admin request between its write to the table and its last one.
Changes(e, a, f) ==
    edit[e].agent = a /\ edit[e].field = f /\ edit[e].at \in {"stored", "entered"}

\* A session reports its region in the loop; a lookup found a name.
HandlersKnow ==
    \A h \in Handlers :
        /\ seen[h] \in {"checked", "stored", "entered"} => pc[h] = "loop"
        /\ pc[h] \notin {"auth", "refused"} => read[h].name \in Values

\* An admin request under way has its agent and what it writes; only a region is
\* broadcast.
EditsKnow ==
    \A e \in Edits : edit[e].at # "new" =>
        /\ edit[e].agent \in Agents
        /\ edit[e].at = "entered" => edit[e].field = "region"
        /\ edit[e].field = "name" => edit[e].value \in Values
        /\ edit[e].field = "region" => edit[e].value \in Region

\* As long as nobody has mixed up a's name: one writer at most, which copies what
\* the table holds, and the entry agrees unless it is that one's turn to write it.
NameCarried(a) == <<a, "name">> \notin mixed =>
    /\ \A h \in Handlers : JoinsName(h, a) => read[h].name = row[a].name
    /\ \A e \in Edits : Changes(e, a, "name") => edit[e].value = row[a].name
    /\ (\A e \in Edits : ~Changes(e, a, "name")) => entry[a].name = row[a].name
    /\ \A g, h \in Handlers : JoinsName(g, a) /\ JoinsName(h, a) => g = h
    /\ \A d, e \in Edits : Changes(d, a, "name") /\ Changes(e, a, "name") => d = e
    /\ \A h \in Handlers, e \in Edits : ~(JoinsName(h, a) /\ Changes(e, a, "name"))

\* The same of its region, which a Region frame writes too and which is broadcast.
RegionWriter(h, a) == JoinsRegion(h, a) \/ Detects(h, a)

RegionCarried(a) == <<a, "region">> \notin mixed =>
    /\ \A h \in Handlers : JoinsRegion(h, a) => read[h].region = row[a].region
    /\ \A h \in Handlers : Detects(h, a) => row[a].region = Found
    /\ \A e \in Edits : Changes(e, a, "region") => edit[e].value = row[a].region
    /\ \/ \E e \in Edits : Changes(e, a, "region") /\ edit[e].at = "stored"
       \/ \E h \in Handlers : Detects(h, a) /\ seen[h] = "stored"
       \/ entry[a].region = row[a].region
    /\ \/ \E e \in Edits : Changes(e, a, "region")
       \/ \E h \in Handlers : Detects(h, a)
       \/ told[a] = row[a].region
    /\ \A g, h \in Handlers : RegionWriter(g, a) /\ RegionWriter(h, a) => g = h
    /\ \A d, e \in Edits : Changes(d, a, "region") /\ Changes(e, a, "region") => d = e
    /\ \A h \in Handlers, e \in Edits : ~(RegionWriter(h, a) /\ Changes(e, a, "region"))

\* A handler about to store the agent's code over an override looked before it.
LookedBefore ==
    \A h \in Handlers :
        seen[h] = "checked" /\ row[agentOf[h]].region.source = "manual" => h \in overtaken

Typed == LinkInv /\ ProfileTypeOK /\ HandlersKnow /\ EditsKnow
Carried == \A a \in Agents : NameCarried(a) /\ RegionCarried(a)
ProfileInv == Typed /\ Carried /\ LookedBefore

-----------------------------------------------------------------------------
(* Rows, entries and writers                                               *)

\* Changing one field of a row leaves a row with the other as it was.
LEMMA WithField ==
    ASSUME NEW N, NEW r \in [name : N, region : Region]
    PROVE  /\ \A v \in N : /\ With(r, "name", v) \in [name : N, region : Region]
                           /\ With(r, "name", v).name = v
                           /\ With(r, "name", v).region = r.region
           /\ \A v \in Region : /\ With(r, "region", v) \in [name : N, region : Region]
                                /\ With(r, "region", v).region = v
                                /\ With(r, "region", v).name = r.name
  BY DEF With

\* The writers of a name are the registrations and the requests for it.
LEMMA NameWriters ==
    ASSUME NEW a
    PROVE  Writers(a, "name") = {h \in Handlers : JoinsName(h, a)}
                                \cup {e \in Edits : Changes(e, a, "name")}
  BY DEF Writers, JoinsName, Changes

\* The writers of a region are these and the Region frames.
LEMMA RegionWriters ==
    ASSUME NEW a
    PROVE  Writers(a, "region") = {h \in Handlers : JoinsRegion(h, a) \/ Detects(h, a)}
                                  \cup {e \in Edits : Changes(e, a, "region")}
  BY DEF Writers, JoinsRegion, Detects, Changes

\* A first write leaves a field unmixed only where nobody else is writing it, and
\* other fields as they were.
LEMMA NameJoins ==
    ASSUME NEW a \in Agents, NEW torn \in BOOLEAN, Joins(a, "name", torn), mixed \in SUBSET (Agents \X Fields)
    PROVE  /\ <<a, "name">> \notin mixed' =>
                  /\ <<a, "name">> \notin mixed /\ ~torn
                  /\ \A h \in Handlers : ~JoinsName(h, a)
                  /\ \A e \in Edits : ~Changes(e, a, "name")
           /\ \A b \in Agents : /\ b # a => (<<b, "name">> \in mixed' <=> <<b, "name">> \in mixed)
                                /\ <<b, "region">> \in mixed' <=> <<b, "region">> \in mixed
<1>1. Writers(a, "name") = {} => /\ \A h \in Handlers : ~JoinsName(h, a)
                                 /\ \A e \in Edits : ~Changes(e, a, "name")
  BY NameWriters
<1> QED
  BY <1>1 DEF Joins

\* The same where a region is written.
LEMMA RegionJoins ==
    ASSUME NEW a \in Agents, NEW torn \in BOOLEAN, Joins(a, "region", torn), mixed \in SUBSET (Agents \X Fields)
    PROVE  /\ <<a, "region">> \notin mixed' =>
                  /\ <<a, "region">> \notin mixed /\ ~torn
                  /\ \A h \in Handlers : ~RegionWriter(h, a)
                  /\ \A e \in Edits : ~Changes(e, a, "region")
           /\ \A b \in Agents : /\ b # a => (<<b, "region">> \in mixed' <=> <<b, "region">> \in mixed)
                                /\ <<b, "name">> \in mixed' <=> <<b, "name">> \in mixed
<1>1. Writers(a, "region") = {} => /\ \A h \in Handlers : ~RegionWriter(h, a)
                                   /\ \A e \in Edits : ~Changes(e, a, "region")
  BY RegionWriters DEF RegionWriter
<1> QED
  BY <1>1 DEF Joins

\* Profile does nothing to connections that AgentLink does not.
LEMMA ProfileStepIsLinkStep == [Next]_vars => [LinkNext]_linkVars
  BY DEF Next, vars, linkVars, LinkNext, EditRow, EditEntry, EditTell, DetectCheck,
         DetectStore, DetectEntry, DetectTell, ProfileLookup, ProfileGreet,
         ProfileRegister, ProfileAnnounce, ProfileBreak, Connect

\* Whatever is stored and edited of an agent, so do they (ws.rs:110-470).
THEOREM ProfileImplementsLink == Spec => LinkSpec
<1>1. Init => LinkInit
  BY DEF Init
<1>2. [Next]_vars => [LinkNext]_linkVars
  BY ProfileStepIsLinkStep
<1> QED
  BY <1>1, <1>2, PTL DEF Spec, LinkSpec

-----------------------------------------------------------------------------
(* Types                                                                   *)

\* Everything holds of the start: each entry is the row it was read from.
LEMMA ProfileInitInv == Init => ProfileInv
<1> SUFFICES ASSUME Init PROVE ProfileInv
  OBVIOUS
<1>1. LinkInv
  BY LinkInitInv DEF Init
<1>2. \A h \in Handlers : pc[h] = "auth" /\ seen[h] = "none" /\ agentOf[h] = None
  BY DEF Init, LinkInit
<1>3. \A e \in Edits : edit[e] = NoEdit
  BY DEF Init
<1>4. NoRegion \in Region /\ [name : Values, region : Region] \subseteq Row
  BY DEF NoRegion, Region, Row, Found
<1>5. ProfileTypeOK
  <2>1. row \in [Agents -> Row] /\ entry \in [Agents -> Row] /\ told \in [Agents -> Region]
    BY <1>4 DEF Init, Row
  <2>2. read \in [Handlers -> [name : Values \cup {None}, region : Region]]
    BY <1>4 DEF Init
  <2>3. edit \in [Edits -> [at : {"new", "stored", "entered", "done"},
                           agent : Agents \cup {None}, field : Fields,
                           value : Values \cup Region \cup {None}]]
    BY DEF Init, NoEdit, Fields
  <2> QED
    BY <1>1, <2>1, <2>2, <2>3 DEF ProfileTypeOK, LinkInv, Init
<1>6. HandlersKnow /\ EditsKnow
  BY <1>2, <1>3 DEF HandlersKnow, EditsKnow, NoEdit
<1>7. \A a \in Agents : /\ Writers(a, "name") = {} /\ Writers(a, "region") = {}
                        /\ entry[a] = row[a] /\ told[a] = row[a].region
  BY <1>2, <1>3 DEF Writers, NoEdit, Init
<1>8. \A a \in Agents : /\ \A h \in Handlers : ~JoinsName(h, a) /\ ~RegionWriter(h, a)
                        /\ \A e \in Edits, f \in Fields : ~Changes(e, a, f)
  BY <1>2, <1>3 DEF JoinsName, RegionWriter, JoinsRegion, Detects, Changes, NoEdit
<1>9. Carried
  BY <1>7, <1>8 DEF Carried, NameCarried, RegionCarried, RegionWriter, Fields
<1>10. LookedBefore
  BY <1>2 DEF LookedBefore
<1> QED
  BY <1>1, <1>5, <1>6, <1>9, <1>10 DEF ProfileInv, Typed

\* What EditRow writes, once the value is given its source.
Writes(e, a, f, new) ==
    /\ edit[e].at = "new"
    /\ edit' = [edit EXCEPT ![e] = Job("stored", a, f, new)]
    /\ row' = Write(row, a, f, new)
    /\ f = "name" => new \in Values
    /\ f = "region" => new \in Region /\ new # Found
    /\ f = "region" /\ new.source = "manual" =>
           overtaken' = overtaken \cup {h \in Handlers : agentOf[h] = a /\ seen[h] = "checked"}
    /\ overtaken \subseteq overtaken' /\ overtaken' \subseteq overtaken \cup Handlers
    /\ Joins(a, f, FALSE)
    /\ UNCHANGED <<linkVars, entry, told, read, seen>>

\* An admin request writes a name or a region, and knows what it writes.
LEMMA EditRowWrites ==
    ASSUME NEW e \in Edits, NEW a \in Agents, NEW f \in Fields,
           NEW value \in Values \cup {None}, EditRow(e, a, f, value)
    PROVE  \E new : Writes(e, a, f, new)
<1> DEFINE new == IF f = "name" THEN value
                  ELSE IF value = None THEN NoRegion
                  ELSE [code |-> value, source |-> "manual"]
<1>1. /\ edit[e].at = "new"
      /\ edit' = [edit EXCEPT ![e] = Job("stored", a, f, new)]
      /\ row' = Write(row, a, f, new)
      /\ Joins(a, f, FALSE)
      /\ UNCHANGED <<linkVars, entry, told, read, seen>>
  BY DEF EditRow
<1>2. f = "name" => new \in Values
  BY DEF EditRow
<1>3. f = "region" => new \in Region /\ new # Found
  BY ProfileAssumption DEF Region, NoRegion, Found
<1>4. f = "region" /\ new.source = "manual" =>
         overtaken' = overtaken \cup {h \in Handlers : agentOf[h] = a /\ seen[h] = "checked"}
  BY DEF EditRow, NoRegion
<1>5. overtaken \subseteq overtaken' /\ overtaken' \subseteq overtaken \cup Handlers
  BY DEF EditRow
<1>6. Writes(e, a, f, new)
  BY <1>1, <1>2, <1>3, <1>4, <1>5 DEF Writes
<1> QED
  BY <1>6

EditType == [at : {"new", "stored", "entered", "done"}, agent : Agents \cup {None},
             field : Fields, value : Values \cup Region \cup {None}]

\* A request that changes place keeps what it is about.
LEMMA EditMoves ==
    ASSUME edit \in [Edits -> EditType], EditsKnow, NEW e \in Edits, NEW to,
           edit[e].at # "new", to \in {"entered", "done"},
           to = "entered" => edit[e].field = "region",
           edit' = [edit EXCEPT ![e] = Job(to, edit[e].agent, edit[e].field, edit[e].value)]
    PROVE  /\ edit' \in [Edits -> EditType]
           /\ EditsKnow'
           /\ \A d \in Edits : /\ edit'[d].agent = edit[d].agent
                               /\ edit'[d].field = edit[d].field
                               /\ edit'[d].value = edit[d].value
                               /\ d # e => edit'[d].at = edit[d].at
           /\ edit'[e].at = to
<1>1. edit[e] \in EditType
  OBVIOUS
<1>2. Job(to, edit[e].agent, edit[e].field, edit[e].value) \in EditType
  BY <1>1 DEF EditType, Job
<1>3. edit' \in [Edits -> EditType]
  BY <1>2
<1>4. \A d \in Edits : d # e => edit'[d] = edit[d]
  OBVIOUS
<1>5. edit'[e] = Job(to, edit[e].agent, edit[e].field, edit[e].value)
  OBVIOUS
<1>6. /\ edit'[e].agent = edit[e].agent /\ edit'[e].field = edit[e].field
      /\ edit'[e].value = edit[e].value /\ edit'[e].at = to
  BY <1>5 DEF Job
<1>7. EditsKnow'
  BY <1>4, <1>6 DEF EditsKnow
<1> QED
  BY <1>3, <1>4, <1>6, <1>7

\* Every step keeps the types and what writers know; one step per action.
LEMMA TypedStep == Typed /\ [Next]_vars => Typed'
<1> SUFFICES ASSUME Typed, [Next]_vars PROVE Typed'
  OBVIOUS
<1>1. LinkInv'
  BY LinkStepInv, ProfileStepIsLinkStep DEF Typed
<1>2. LinkTypeOK /\ LinkTypeOK'
  BY <1>1 DEF Typed, LinkInv
<1>3. /\ row \in [Agents -> [name : Values, region : Region]]
      /\ entry \in [Agents -> [name : Values, region : Region]]
      /\ told \in [Agents -> Region]
      /\ read \in [Handlers -> [name : Values \cup {None}, region : Region]]
      /\ seen \in [Handlers -> {"none", "checked", "stored", "entered", "done"}]
      /\ edit \in [Edits -> EditType]
      /\ mixed \in SUBSET (Agents \X Fields)
      /\ overtaken \in SUBSET Handlers
  BY DEF Typed, ProfileTypeOK, Row, EditType
<1>4. \A h \in Handlers : pc[h] \notin {"auth", "refused"} => agentOf[h] \in Agents
  BY DEF Typed, LinkInv, HandlerKnows
<1>5. Found \in Region /\ Fields = {"name", "region"}
  BY DEF Found, Region, Fields
<1> DEFINE Types == /\ row' \in [Agents -> [name : Values, region : Region]]
                    /\ entry' \in [Agents -> [name : Values, region : Region]]
                    /\ told' \in [Agents -> Region]
                    /\ read' \in [Handlers -> [name : Values \cup {None}, region : Region]]
                    /\ seen' \in [Handlers -> {"none", "checked", "stored", "entered", "done"}]
                    /\ edit' \in [Edits -> EditType]
                    /\ mixed' \in SUBSET (Agents \X Fields)
                    /\ overtaken' \in SUBSET Handlers
           Fine == Types /\ HandlersKnow' /\ EditsKnow'
<1>6. ASSUME NEW e \in Edits, NEW a \in Agents, NEW f \in Fields,
             NEW value \in Values \cup {None}, EditRow(e, a, f, value)
      PROVE  Fine
  <2>1. PICK new : Writes(e, a, f, new)
    BY <1>6, EditRowWrites
  <2>2. With(row[a], f, new) \in [name : Values, region : Region]
    BY <2>1, <1>3, <1>5, WithField DEF Writes
  <2>3. row' \in [Agents -> [name : Values, region : Region]]
    BY <2>1, <2>2, <1>3 DEF Writes, Write
  <2>4. Job("stored", a, f, new) \in EditType
    BY <2>1, <1>5 DEF Writes, Job, EditType
  <2>5. edit' \in [Edits -> EditType]
    BY <2>1, <2>4, <1>3 DEF Writes
  <2>6. mixed' \in SUBSET (Agents \X Fields) /\ overtaken' \in SUBSET Handlers
    BY <2>1, <1>3 DEF Writes, Joins
  <2>7. \A d \in Edits : d # e => edit'[d] = edit[d]
    BY <2>1, <1>3 DEF Writes
  <2>8. /\ edit'[e].agent = a /\ edit'[e].field = f /\ edit'[e].value = new
        /\ edit'[e].at = "stored"
    BY <2>1, <1>3 DEF Job, Writes
  <2>9. EditsKnow'
    BY <2>1, <2>7, <2>8 DEF Typed, EditsKnow, Writes
  <2>10. HandlersKnow'
    BY <2>1 DEF Typed, HandlersKnow, Writes, linkVars
  <2> QED
    BY <2>1, <2>3, <2>5, <2>6, <2>9, <2>10, <1>3 DEF Writes
<1>7. ASSUME NEW e \in Edits, EditEntry(e)
      PROVE  Fine
  <2> DEFINE a == edit[e].agent
             f == edit[e].field
             to == IF f = "name" THEN "done" ELSE "entered"
  <2>1. /\ edit[e].at = "stored"
        /\ edit' = [edit EXCEPT ![e] = Job(to, a, f, edit[e].value)]
        /\ entry' = Write(entry, a, f, edit[e].value)
        /\ UNCHANGED <<linkVars, row, told, read, seen, mixed, overtaken>>
    BY <1>7, <1>3 DEF EditEntry, Proceed
  <2>2. /\ a \in Agents /\ f \in Fields
        /\ f = "name" => edit[e].value \in Values
        /\ f = "region" => edit[e].value \in Region
    BY <2>1, <1>3 DEF Typed, EditsKnow, EditType
  <2>3. With(entry[a], f, edit[e].value) \in [name : Values, region : Region]
    BY <2>2, <1>3, <1>5, WithField
  <2>4. entry' \in [Agents -> [name : Values, region : Region]]
    BY <2>1, <2>3, <1>3 DEF Write
  <2>5. edit' \in [Edits -> EditType] /\ EditsKnow'
    BY <2>1, <2>2, <1>3, <1>5, EditMoves DEF Typed
  <2>6. HandlersKnow'
    BY <2>1 DEF Typed, HandlersKnow, linkVars
  <2> QED
    BY <2>1, <2>4, <2>5, <2>6, <1>3
<1>8. ASSUME NEW e \in Edits, EditTell(e)
      PROVE  Fine
  <2>1. /\ edit[e].at = "entered"
        /\ edit' = [edit EXCEPT ![e] = Job("done", edit[e].agent, edit[e].field, edit[e].value)]
        /\ told' = [told EXCEPT ![edit[e].agent] = edit[e].value]
        /\ UNCHANGED <<linkVars, row, entry, read, seen, mixed, overtaken>>
    BY <1>8, <1>3 DEF EditTell, Proceed
  <2>2. edit[e].agent \in Agents /\ edit[e].value \in Region
    BY <2>1 DEF Typed, EditsKnow
  <2>3. told' \in [Agents -> Region]
    BY <2>1, <2>2, <1>3
  <2>4. edit' \in [Edits -> EditType] /\ EditsKnow'
    BY <2>1, <1>3, EditMoves DEF Typed
  <2>5. HandlersKnow'
    BY <2>1 DEF Typed, HandlersKnow, linkVars
  <2> QED
    BY <2>1, <2>3, <2>4, <2>5, <1>3
<1>9. ASSUME NEW h \in Handlers,
             \/ DetectCheck(h) \/ (\E ok \in BOOLEAN : DetectStore(h, ok))
             \/ DetectEntry(h) \/ DetectTell(h)
      PROVE  Fine
  <2>1. pc[h] = "loop" /\ agentOf[h] \in Agents
    BY <1>9, <1>4 DEF DetectCheck, DetectStore, DetectEntry, DetectTell, Sees
  <2>2. /\ \E to \in {"checked", "stored", "entered", "done"} : seen' = [seen EXCEPT ![h] = to]
        /\ UNCHANGED <<linkVars, read, edit, overtaken>>
    BY <1>9 DEF DetectCheck, DetectStore, DetectEntry, DetectTell, Sees
  <2>3. With(row[agentOf[h]], "region", Found) \in [name : Values, region : Region]
    BY <2>1, <1>3, <1>5, WithField
  <2>4. With(entry[agentOf[h]], "region", Found) \in [name : Values, region : Region]
    BY <2>1, <1>3, <1>5, WithField
  <2>5. row' \in [Agents -> [name : Values, region : Region]]
    BY <1>9, <2>3, <1>3 DEF DetectCheck, DetectStore, DetectEntry, DetectTell, Write
  <2>6. entry' \in [Agents -> [name : Values, region : Region]]
    BY <1>9, <2>4, <1>3 DEF DetectCheck, DetectStore, DetectEntry, DetectTell, Write
  <2>7. told' \in [Agents -> Region]
    BY <1>9, <2>1, <1>3, <1>5 DEF DetectCheck, DetectStore, DetectEntry, DetectTell
  <2>8. mixed' \in SUBSET (Agents \X Fields)
    BY <1>9, <2>1, <1>3, <1>5 DEF DetectCheck, DetectStore, DetectEntry, DetectTell, Joins
  <2>9. HandlersKnow' /\ EditsKnow'
    BY <2>1, <2>2, <1>3 DEF Typed, HandlersKnow, EditsKnow, linkVars
  <2> QED
    BY <2>2, <2>5, <2>6, <2>7, <2>8, <2>9, <1>3
<1>10. ASSUME NEW h \in Handlers, NEW a \in Agents, ProfileLookup(h, a)
       PROVE  Fine
  <2>1. /\ pc[h] = "auth" /\ pc' = [pc EXCEPT ![h] = "found"]
        /\ read' = Write(read, h, "name", row[a].name)
        /\ Joins(a, "name", FALSE)
        /\ UNCHANGED <<row, entry, told, seen, edit, overtaken>>
    BY <1>10 DEF ProfileLookup, Lookup, Goto
  <2>2. /\ With(read[h], "name", row[a].name) \in [name : Values \cup {None}, region : Region]
        /\ With(read[h], "name", row[a].name).name = row[a].name
        /\ row[a].name \in Values
    <3>1. row[a].name \in Values /\ read[h] \in [name : Values \cup {None}, region : Region]
      BY <1>3
    <3> QED
      BY <3>1 DEF With
  <2>3. /\ read' \in [Handlers -> [name : Values \cup {None}, region : Region]]
        /\ read'[h].name \in Values /\ \A g \in Handlers : g # h => read'[g] = read[g]
    BY <2>1, <2>2, <1>3 DEF Write
  <2>4. mixed' \in SUBSET (Agents \X Fields)
    BY <2>1, <1>3, <1>5 DEF Joins
  <2>5. HandlersKnow' /\ EditsKnow'
    BY <2>1, <2>3, <1>2 DEF Typed, HandlersKnow, EditsKnow, LinkTypeOK
  <2> QED
    BY <2>1, <2>3, <2>4, <2>5, <1>3
<1>11. ASSUME NEW h \in Handlers, ProfileGreet(h)
       PROVE  Fine
  <2>1. /\ pc[h] = "found" /\ pc' = [pc EXCEPT ![h] = "greeted"]
        /\ read' = Write(read, h, "region", row[agentOf[h]].region)
        /\ Joins(agentOf[h], "region", FALSE)
        /\ UNCHANGED <<row, entry, told, seen, edit, overtaken>>
    BY <1>11 DEF ProfileGreet, Greet, Goto
  <2>2. agentOf[h] \in Agents
    BY <2>1, <1>4
  <2>3. LET r == With(read[h], "region", row[agentOf[h]].region) IN
        r \in [name : Values \cup {None}, region : Region] /\ r.name = read[h].name
    <3>1. /\ row[agentOf[h]].region \in Region
          /\ read[h] \in [name : Values \cup {None}, region : Region]
      BY <2>2, <1>3
    <3> QED
      BY <3>1 DEF With
  <2>4. /\ read' \in [Handlers -> [name : Values \cup {None}, region : Region]]
        /\ read'[h].name = read[h].name /\ \A g \in Handlers : g # h => read'[g] = read[g]
    BY <2>1, <2>3, <1>3 DEF Write
  <2>5. mixed' \in SUBSET (Agents \X Fields)
    BY <2>1, <2>2, <1>3, <1>5 DEF Joins
  <2>6. HandlersKnow' /\ EditsKnow'
    BY <2>1, <2>4, <1>2 DEF Typed, HandlersKnow, EditsKnow, LinkTypeOK
  <2> QED
    BY <2>1, <2>4, <2>5, <2>6, <1>3
<1>12. ASSUME NEW h \in Handlers, ProfileRegister(h) \/ ProfileAnnounce(h)
       PROVE  Fine
  <2>1. /\ pc[h] \in {"greeted", "registered"} /\ agentOf[h] \in Agents
        /\ \E to \in {"registered", "loop"} : pc' = [pc EXCEPT ![h] = to]
        /\ UNCHANGED <<row, read, seen, edit, mixed, overtaken>>
    BY <1>12, <1>4 DEF ProfileRegister, ProfileAnnounce, Register, Announce, Goto
  <2>2. read[h] \in [name : Values, region : Region] /\ read[h].region \in Region
    BY <2>1, <1>3 DEF Typed, HandlersKnow
  <2>3. entry' \in [Agents -> [name : Values, region : Region]] /\ told' \in [Agents -> Region]
    BY <1>12, <2>1, <2>2, <1>3 DEF ProfileRegister, ProfileAnnounce
  <2>4. HandlersKnow' /\ EditsKnow'
    BY <2>1, <1>2 DEF Typed, HandlersKnow, EditsKnow, LinkTypeOK
  <2> QED
    BY <2>1, <2>3, <2>4, <1>3
<1>13. ASSUME NEW h \in Handlers, ProfileBreak(h) \/ Connect(h)
       PROVE  Fine
  <2>1. UNCHANGED profileVars
    BY <1>13 DEF ProfileBreak, Connect
  <2>2. \A g \in Handlers : /\ pc'[g] \notin {"auth", "refused"} => pc[g] \notin {"auth", "refused"}
                            /\ seen[g] \in {"checked", "stored", "entered"} /\ pc[g] = "loop"
                                  => pc'[g] = "loop"
    BY <1>13, <1>2 DEF ProfileBreak, Connect, Refuse, LinkLost, Leave, Cancel, Part, Break, Goto,
       LinkTypeOK
  <2>3. HandlersKnow'
    <3>1. seen' = seen /\ read' = read
      BY <2>1 DEF profileVars
    <3>2. ASSUME NEW g \in Handlers
          PROVE  /\ seen[g] \in {"checked", "stored", "entered"} => pc'[g] = "loop"
                 /\ pc'[g] \notin {"auth", "refused"} => read[g].name \in Values
      BY <2>2 DEF Typed, HandlersKnow
    <3> QED
      BY <3>1, <3>2 DEF HandlersKnow
  <2>4. EditsKnow'
    BY <2>1 DEF Typed, EditsKnow, profileVars
  <2> QED
    BY <2>1, <2>3, <2>4, <1>3 DEF profileVars
<1>14. CASE UNCHANGED vars
  <2>1. UNCHANGED linkVars /\ UNCHANGED profileVars
    BY <1>14 DEF vars
  <2>2. HandlersKnow' /\ EditsKnow'
    BY <2>1 DEF Typed, HandlersKnow, EditsKnow, profileVars, linkVars
  <2>3. Fine
    BY <2>1, <2>2, <1>3 DEF profileVars
  <2> QED
    BY <2>3, <1>1, <1>2 DEF Typed, ProfileTypeOK, Row, EditType
<1>15. Fine => Typed'
  BY <1>1, <1>2 DEF Typed, ProfileTypeOK, Row, EditType
<1> QED
  BY <1>6, <1>7, <1>8, <1>9, <1>10, <1>11, <1>12, <1>13, <1>14, <1>15 DEF Next

-----------------------------------------------------------------------------
(* One writer at a time, and what it carries                               *)

\* A step that adds no writer of a's name and changes none of its values.
LEMMA NameFrame ==
    ASSUME NEW a \in Agents, NameCarried(a),
           <<a, "name">> \notin mixed' => <<a, "name">> \notin mixed,
           row'[a].name = row[a].name, entry'[a].name = entry[a].name,
           \A h \in Handlers : JoinsName(h, a)' => JoinsName(h, a) /\ read'[h].name = read[h].name,
           \A e \in Edits : Changes(e, a, "name")' <=> Changes(e, a, "name"),
           \A e \in Edits : Changes(e, a, "name") => edit'[e].value = edit[e].value
    PROVE  NameCarried(a)'
  BY DEF NameCarried

\* The same of its region.
LEMMA RegionFrame ==
    ASSUME NEW a \in Agents, RegionCarried(a),
           <<a, "region">> \notin mixed' => <<a, "region">> \notin mixed,
           row'[a].region = row[a].region, entry'[a].region = entry[a].region, told'[a] = told[a],
           \A h \in Handlers : JoinsRegion(h, a)' => JoinsRegion(h, a) /\ read'[h].region = read[h].region,
           \A h \in Handlers : Detects(h, a)' <=> Detects(h, a),
           \A h \in Handlers : Detects(h, a) => seen'[h] = seen[h],
           \A e \in Edits : Changes(e, a, "region")' <=> Changes(e, a, "region"),
           \A e \in Edits : Changes(e, a, "region") =>
               edit'[e].value = edit[e].value /\ edit'[e].at = edit[e].at
    PROVE  RegionCarried(a)'
<1>1. \A h \in Handlers : RegionWriter(h, a)' => RegionWriter(h, a)
  BY DEF RegionWriter
<1>2. Found' = Found
  BY DEF Found
<1> QED
  BY <1>1, <1>2 DEF RegionCarried

\* EditRow: the request becomes the one writer, with the row's new value.
LEMMA EditRowCarries ==
    ASSUME ProfileInv, Typed', NEW e \in Edits, NEW a \in Agents, NEW f \in Fields,
           NEW value \in Values \cup {None}, EditRow(e, a, f, value)
    PROVE  Carried'
<1>1. PICK new : Writes(e, a, f, new)
  BY EditRowWrites DEF ProfileInv
<1>2. /\ row \in [Agents -> [name : Values, region : Region]]
      /\ edit \in [Edits -> EditType] /\ mixed \in SUBSET (Agents \X Fields)
  BY DEF ProfileInv, Typed, ProfileTypeOK, Row, EditType
<1>3. /\ edit[e].at = "new" /\ \A d \in Edits : d # e => edit'[d] = edit[d]
      /\ edit'[e].agent = a /\ edit'[e].field = f /\ edit'[e].value = new
      /\ edit'[e].at = "stored"
  BY <1>1, <1>2 DEF Writes, Job
<1>4. /\ \A b \in Agents : b # a => row'[b] = row[b]
      /\ f = "name" => row'[a].name = new /\ row'[a].region = row[a].region
      /\ f = "region" => row'[a].region = new /\ row'[a].name = row[a].name
  <2>1. row'[a] = With(row[a], f, new) /\ \A b \in Agents : b # a => row'[b] = row[b]
    BY <1>1, <1>2 DEF Writes, Write
  <2>2. row[a] \in [name : Values, region : Region]
    BY <1>2
  <2> QED
    BY <2>1, <2>2 DEF With
<1>5. UNCHANGED <<linkVars, entry, told, read, seen>> /\ Joins(a, f, FALSE)
  BY <1>1 DEF Writes
<1>6. \A b \in Agents, h \in Handlers :
         /\ JoinsName(h, b)' <=> JoinsName(h, b)
         /\ JoinsRegion(h, b)' <=> JoinsRegion(h, b)
         /\ Detects(h, b)' <=> Detects(h, b)
  BY <1>5 DEF JoinsName, JoinsRegion, Detects, linkVars
<1>7. \A b \in Agents, g \in Fields, d \in Edits :
         /\ d # e => (Changes(d, b, g)' <=> Changes(d, b, g))
         /\ ~Changes(e, b, g)
         /\ Changes(e, b, g)' <=> b = a /\ g = f
  BY <1>3 DEF Changes
<1>8. CASE f = "name"
  <2>1. /\ <<a, "name">> \notin mixed' =>
               /\ \A h \in Handlers : ~JoinsName(h, a)
               /\ \A d \in Edits : ~Changes(d, a, "name")
        /\ \A b \in Agents : b # a => (<<b, "name">> \in mixed' <=> <<b, "name">> \in mixed)
        /\ \A b \in Agents : <<b, "region">> \in mixed' <=> <<b, "region">> \in mixed
    BY <1>8, <1>5, <1>2, NameJoins
  <2>2. ASSUME NEW b \in Agents PROVE RegionCarried(b)'
    <3>1. \A d \in Edits : Changes(d, b, "region")' <=> Changes(d, b, "region")
      BY <1>8, <1>7 DEF Fields
    <3>2. row'[b].region = row[b].region
      BY <1>8, <1>4
    <3>3. RegionCarried(b)
      BY DEF ProfileInv, Carried
    <3> QED
      BY <3>1, <3>2, <3>3, <2>1, <1>3, <1>5, <1>6, <1>7, <1>8, RegionFrame DEF Fields
  <2>3. NameCarried(a)'
    <3>1. \A d \in Edits : <<a, "name">> \notin mixed' => (Changes(d, a, "name")' <=> d = e)
      BY <1>8, <1>7, <2>1 DEF Fields
    <3> QED
      BY <3>1, <1>3, <1>4, <1>5, <1>6, <1>8, <2>1 DEF NameCarried
  <2>4. ASSUME NEW b \in Agents, b # a PROVE NameCarried(b)'
    <3>1. \A d \in Edits : Changes(d, b, "name")' <=> Changes(d, b, "name")
      BY <2>4, <1>7 DEF Fields
    <3>2. NameCarried(b)
      BY DEF ProfileInv, Carried
    <3> QED
      BY <3>1, <3>2, <2>1, <2>4, <1>3, <1>4, <1>5, <1>6, <1>7, NameFrame DEF Fields
  <2> QED
    BY <2>2, <2>3, <2>4 DEF Carried
<1>9. CASE f = "region"
  <2>1. /\ <<a, "region">> \notin mixed' =>
               /\ \A h \in Handlers : ~RegionWriter(h, a)
               /\ \A d \in Edits : ~Changes(d, a, "region")
        /\ \A b \in Agents : b # a => (<<b, "region">> \in mixed' <=> <<b, "region">> \in mixed)
        /\ \A b \in Agents : <<b, "name">> \in mixed' <=> <<b, "name">> \in mixed
    BY <1>9, <1>5, <1>2, RegionJoins
  <2>2. ASSUME NEW b \in Agents PROVE NameCarried(b)'
    <3>1. \A d \in Edits : Changes(d, b, "name")' <=> Changes(d, b, "name")
      BY <1>9, <1>7 DEF Fields
    <3>2. row'[b].name = row[b].name
      BY <1>9, <1>4
    <3>3. NameCarried(b)
      BY DEF ProfileInv, Carried
    <3> QED
      BY <3>1, <3>2, <3>3, <2>1, <1>3, <1>5, <1>6, <1>7, <1>9, NameFrame DEF Fields
  <2>3. RegionCarried(a)'
    <3>1. <<a, "region">> \notin mixed' => \A d \in Edits : Changes(d, a, "region")' <=> d = e
      BY <1>9, <1>7, <2>1 DEF Fields
    <3>2. <<a, "region">> \notin mixed' => \A h \in Handlers :
              ~JoinsRegion(h, a)' /\ ~Detects(h, a)' /\ ~RegionWriter(h, a)'
      BY <2>1, <1>6 DEF RegionWriter
    <3> QED
      BY <3>1, <3>2, <1>3, <1>4, <1>9 DEF RegionCarried
  <2>4. ASSUME NEW b \in Agents, b # a PROVE RegionCarried(b)'
    <3>1. \A d \in Edits : Changes(d, b, "region")' <=> Changes(d, b, "region")
      BY <2>4, <1>7 DEF Fields
    <3>2. RegionCarried(b)
      BY DEF ProfileInv, Carried
    <3> QED
      BY <3>1, <3>2, <2>1, <2>4, <1>3, <1>4, <1>5, <1>6, <1>7, RegionFrame DEF Fields
  <2> QED
    BY <2>2, <2>3, <2>4 DEF Carried
<1> QED
  BY <1>8, <1>9 DEF Fields

\* EditEntry: the entry gets what the row has.
LEMMA EditEntryCarries ==
    ASSUME ProfileInv, NEW e \in Edits, EditEntry(e)
    PROVE  Carried'
<1>0. PICK a, f : a = edit[e].agent /\ f = edit[e].field
  OBVIOUS
<1> USE <1>0
<1> DEFINE to == IF f = "name" THEN "done" ELSE "entered"
<1>1. /\ entry \in [Agents -> [name : Values, region : Region]]
      /\ edit \in [Edits -> EditType]
  BY DEF ProfileInv, Typed, ProfileTypeOK, Row, EditType
<1>2. /\ edit[e].at = "stored"
      /\ edit' = [edit EXCEPT ![e] = Job(to, a, f, edit[e].value)]
      /\ entry' = Write(entry, a, f, edit[e].value)
      /\ UNCHANGED <<linkVars, row, told, read, seen, mixed, overtaken>>
  BY <1>1 DEF EditEntry, Proceed
<1>3. a \in Agents /\ f \in {"name", "region"}
  BY <1>1, <1>2 DEF ProfileInv, Typed, EditsKnow, EditType, Fields
<1>4. /\ \A d \in Edits : edit'[d].agent = edit[d].agent /\ edit'[d].field = edit[d].field
      /\ \A d \in Edits : edit'[d].value = edit[d].value
      /\ \A d \in Edits : d # e => edit'[d].at = edit[d].at
      /\ edit'[e].at = to
  <2>1. edit' = [edit EXCEPT ![e] = Job(to, edit[e].agent, edit[e].field, edit[e].value)]
    BY <1>2
  <2>2. /\ edit[e].at # "new" /\ to \in {"entered", "done"}
        /\ to = "entered" => edit[e].field = "region"
    BY <1>2, <1>3
  <2>3. EditsKnow
    BY DEF ProfileInv, Typed
  <2> HIDE DEF to
  <2> QED
    BY <2>1, <2>2, <2>3, <1>1, EditMoves
<1>5. /\ \A b \in Agents : b # a => entry'[b] = entry[b]
      /\ f = "name" => entry'[a].name = edit[e].value /\ entry'[a].region = entry[a].region
      /\ f = "region" => entry'[a].region = edit[e].value /\ entry'[a].name = entry[a].name
  <2>1. entry'[a] = With(entry[a], f, edit[e].value)
    BY <1>1, <1>2, <1>3 DEF Write
  <2>2. \A b \in Agents : b # a => entry'[b] = entry[b]
    BY <1>1, <1>2 DEF Write
  <2>3. entry[a] \in [name : Values, region : Region]
    BY <1>1, <1>3
  <2> QED
    BY <2>1, <2>2, <2>3 DEF With
<1>6. \A b \in Agents, h \in Handlers :
         /\ JoinsName(h, b)' <=> JoinsName(h, b)
         /\ JoinsRegion(h, b)' <=> JoinsRegion(h, b)
         /\ Detects(h, b)' <=> Detects(h, b)
         /\ RegionWriter(h, b)' <=> RegionWriter(h, b)
  BY <1>2 DEF JoinsName, JoinsRegion, Detects, RegionWriter, linkVars
<1>7. \A b \in Agents : NameCarried(b) /\ RegionCarried(b)
  BY DEF ProfileInv, Carried
<1>8. CASE f = "name"
  <2>1. \A b \in Agents, d \in Edits :
           /\ Changes(d, b, "region")' <=> Changes(d, b, "region")
           /\ Changes(d, b, "name")' <=> Changes(d, b, "name") /\ d # e
    <3>1. edit'[e].at = "done"
      BY <1>4, <1>8
    <3>2. edit[e].field = "name"
      BY <1>8
    <3>3. \A b \in Agents, d \in Edits : d # e =>
             /\ Changes(d, b, "region")' <=> Changes(d, b, "region")
             /\ Changes(d, b, "name")' <=> Changes(d, b, "name")
      BY <1>4 DEF Changes
    <3>4. \A b \in Agents : /\ ~Changes(e, b, "region") /\ ~Changes(e, b, "region")'
                            /\ ~Changes(e, b, "name")'
      BY <3>1, <3>2, <1>4 DEF Changes
    <3> QED
      BY <3>3, <3>4
  <2>2. Changes(e, a, "name")
    BY <1>2, <1>8 DEF Changes
  <2>3. ASSUME NEW b \in Agents PROVE RegionCarried(b)'
    <3>1. \A d \in Edits : Changes(d, b, "region") => d # e
      BY <1>8 DEF Changes
    <3> QED
      BY <3>1, <2>1, <1>2, <1>4, <1>5, <1>6, <1>7, <1>8, RegionFrame
  <2>4. NameCarried(a)'
    BY <2>1, <2>2, <1>2, <1>3, <1>4, <1>5, <1>6, <1>7, <1>8 DEF NameCarried
  <2>5. ASSUME NEW b \in Agents, b # a PROVE NameCarried(b)'
    <3>1. \A d \in Edits : Changes(d, b, "name") => d # e
      BY <2>5 DEF Changes
    <3> QED
      BY <3>1, <2>1, <2>5, <1>2, <1>4, <1>5, <1>6, <1>7, NameFrame
  <2> QED
    BY <2>3, <2>4, <2>5 DEF Carried
<1>9. CASE f = "region"
  <2>1. \A b \in Agents, d \in Edits :
           /\ Changes(d, b, "region")' <=> Changes(d, b, "region")
           /\ Changes(d, b, "name")' <=> Changes(d, b, "name")
    BY <1>2, <1>4, <1>9 DEF Changes
  <2>2. Changes(e, a, "region")
    BY <1>2, <1>9 DEF Changes
  <2>3. ASSUME NEW b \in Agents PROVE NameCarried(b)'
    BY <2>1, <1>2, <1>4, <1>5, <1>6, <1>7, <1>9, NameFrame
  <2>4. RegionCarried(a)'
    <3>1. <<a, "region">> \notin mixed => entry'[a].region = row'[a].region
      BY <2>2, <1>2, <1>3, <1>5, <1>7, <1>9 DEF RegionCarried
    <3>2. Found' = Found
      BY DEF Found
    <3> QED
      BY <3>1, <3>2, <2>1, <2>2, <1>2, <1>3, <1>4, <1>6, <1>7 DEF RegionCarried
  <2>5. ASSUME NEW b \in Agents, b # a PROVE RegionCarried(b)'
    <3>1. \A d \in Edits : Changes(d, b, "region") => d # e
      BY <2>5 DEF Changes
    <3> QED
      BY <3>1, <2>1, <2>5, <1>2, <1>4, <1>5, <1>6, <1>7, RegionFrame
  <2> QED
    BY <2>3, <2>4, <2>5 DEF Carried
<1> QED
  BY <1>3, <1>8, <1>9

\* EditTell: the browsers are told what the row has.
LEMMA EditTellCarries ==
    ASSUME ProfileInv, NEW e \in Edits, EditTell(e)
    PROVE  Carried'
<1>0. PICK a : a = edit[e].agent
  OBVIOUS
<1> USE <1>0
<1>1. told \in [Agents -> Region] /\ edit \in [Edits -> EditType]
  BY DEF ProfileInv, Typed, ProfileTypeOK, EditType
<1>2. /\ edit[e].at = "entered"
      /\ edit' = [edit EXCEPT ![e] = Job("done", a, edit[e].field, edit[e].value)]
      /\ told' = [told EXCEPT ![a] = edit[e].value]
      /\ UNCHANGED <<linkVars, row, entry, read, seen, mixed, overtaken>>
  BY <1>1 DEF EditTell, Proceed
<1>3. a \in Agents /\ edit[e].field = "region"
  BY <1>2 DEF ProfileInv, Typed, EditsKnow
<1>4. /\ \A d \in Edits : edit'[d].agent = edit[d].agent /\ edit'[d].field = edit[d].field
      /\ \A d \in Edits : edit'[d].value = edit[d].value
      /\ \A d \in Edits : d # e => edit'[d].at = edit[d].at
      /\ edit'[e].at = "done"
  BY <1>1, <1>2, EditMoves DEF ProfileInv, Typed
<1>5. told'[a] = edit[e].value /\ \A b \in Agents : b # a => told'[b] = told[b]
  BY <1>1, <1>2, <1>3
<1>6. \A b \in Agents, h \in Handlers :
         /\ JoinsName(h, b)' <=> JoinsName(h, b)
         /\ JoinsRegion(h, b)' <=> JoinsRegion(h, b)
         /\ Detects(h, b)' <=> Detects(h, b)
         /\ RegionWriter(h, b)' <=> RegionWriter(h, b)
  BY <1>2 DEF JoinsName, JoinsRegion, Detects, RegionWriter, linkVars
<1>7. \A b \in Agents : NameCarried(b) /\ RegionCarried(b)
  BY DEF ProfileInv, Carried
<1>8. \A b \in Agents, d \in Edits :
         /\ Changes(d, b, "region")' <=> Changes(d, b, "region") /\ d # e
         /\ Changes(d, b, "name")' <=> Changes(d, b, "name")
  BY <1>2, <1>3, <1>4 DEF Changes
<1>9. Changes(e, a, "region")
  BY <1>2, <1>3 DEF Changes
<1>10. ASSUME NEW b \in Agents PROVE NameCarried(b)'
  BY <1>8, <1>2, <1>4, <1>6, <1>7, NameFrame
<1>11. RegionCarried(a)'
  <2>1. <<a, "region">> \notin mixed =>
           told'[a] = row'[a].region /\ entry'[a].region = row'[a].region
    BY <1>9, <1>2, <1>3, <1>5, <1>7 DEF RegionCarried, RegionWriter
  <2>2. Found' = Found
    BY DEF Found
  <2> QED
    BY <2>1, <2>2, <1>2, <1>3, <1>4, <1>6, <1>7, <1>8, <1>9 DEF RegionCarried
<1>12. ASSUME NEW b \in Agents, b # a PROVE RegionCarried(b)'
  <2>1. \A d \in Edits : Changes(d, b, "region") => d # e
    BY <1>12 DEF Changes
  <2> QED
    BY <2>1, <1>12, <1>2, <1>4, <1>5, <1>6, <1>7, <1>8, RegionFrame
<1> QED
  BY <1>10, <1>11, <1>12 DEF Carried

\* What every handler step but the first and the last of a writer leaves alone.
LEMMA QuietCarries ==
    ASSUME ProfileInv, UNCHANGED <<row, entry, told, read, edit, mixed>>,
           \A h \in Handlers, b \in Agents :
               /\ JoinsName(h, b)' => JoinsName(h, b)
               /\ JoinsRegion(h, b)' => JoinsRegion(h, b)
               /\ Detects(h, b)' <=> Detects(h, b)
               /\ Detects(h, b) => seen'[h] = seen[h]
    PROVE  Carried'
<1>1. \A e \in Edits, b \in Agents, f \in {"name", "region"} : Changes(e, b, f)' <=> Changes(e, b, f)
  BY DEF Changes
<1>2. \A b \in Agents : NameCarried(b) /\ RegionCarried(b)
  BY DEF ProfileInv, Carried
<1>3. ASSUME NEW b \in Agents PROVE NameCarried(b)'
  BY <1>1, <1>2, NameFrame
<1>4. ASSUME NEW b \in Agents PROVE RegionCarried(b)'
  BY <1>1, <1>2, RegionFrame
<1> QED
  BY <1>3, <1>4 DEF Carried

\* DetectStore: the frame becomes the one writer, unless the write fails.
LEMMA DetectStoreCarries ==
    ASSUME ProfileInv, NEW h \in Handlers, NEW ok \in BOOLEAN, DetectStore(h, ok)
    PROVE  Carried'
<1>0. PICK a : a = agentOf[h]
  OBVIOUS
<1> USE <1>0
<1>1. /\ row \in [Agents -> [name : Values, region : Region]]
      /\ seen \in [Handlers -> {"none", "checked", "stored", "entered", "done"}]
      /\ mixed \in SUBSET (Agents \X Fields)
  BY DEF ProfileInv, Typed, ProfileTypeOK, Row
<1>2. /\ pc[h] = "loop" /\ seen[h] = "checked" /\ seen' = [seen EXCEPT ![h] = "stored"]
      /\ row' = IF ok THEN Write(row, a, "region", Found) ELSE row
      /\ Joins(a, "region", ~ok)
      /\ UNCHANGED <<linkVars, entry, told, read, edit, overtaken>>
  BY DEF DetectStore, Sees
<1>3. a \in Agents
  BY <1>2 DEF ProfileInv, Typed, LinkInv, HandlerKnows
<1>4. /\ <<a, "region">> \notin mixed' =>
             /\ <<a, "region">> \notin mixed /\ ok
             /\ \A g \in Handlers : ~RegionWriter(g, a)
             /\ \A e \in Edits : ~Changes(e, a, "region")
      /\ \A b \in Agents : b # a => (<<b, "region">> \in mixed' <=> <<b, "region">> \in mixed)
      /\ \A b \in Agents : <<b, "name">> \in mixed' <=> <<b, "name">> \in mixed
  BY <1>1, <1>2, <1>3, RegionJoins
<1>5. /\ \A b \in Agents : row'[b].name = row[b].name
      /\ \A b \in Agents : b # a => row'[b].region = row[b].region
      /\ ok => row'[a].region = Found
  <2>1. /\ ok => row'[a] = With(row[a], "region", Found)
        /\ \A b \in Agents : b # a => row'[b] = row[b]
        /\ ~ok => row' = row
    BY <1>1, <1>2, <1>3 DEF Write
  <2>2. row[a] \in [name : Values, region : Region]
    BY <1>1, <1>3
  <2> QED
    BY <2>1, <2>2 DEF With
<1>6. \A b \in Agents, g \in Handlers :
         /\ JoinsName(g, b)' <=> JoinsName(g, b)
         /\ JoinsRegion(g, b)' <=> JoinsRegion(g, b)
  BY <1>2 DEF JoinsName, JoinsRegion, linkVars
<1>7. \A b \in Agents, g \in Handlers :
         b # a \/ g # h => (Detects(g, b)' <=> Detects(g, b)) /\ (Detects(g, b) => seen'[g] = seen[g])
  BY <1>1, <1>2 DEF Detects, linkVars
<1>8. Detects(h, a)' /\ seen'[h] = "stored" /\ ~JoinsRegion(h, a)'
  BY <1>1, <1>2 DEF Detects, JoinsRegion, linkVars
<1>9. \A e \in Edits, b \in Agents, f \in {"name", "region"} : Changes(e, b, f)' <=> Changes(e, b, f)
  BY <1>2 DEF Changes
<1>10. \A b \in Agents : NameCarried(b) /\ RegionCarried(b)
  BY DEF ProfileInv, Carried
<1>11. ASSUME NEW b \in Agents PROVE NameCarried(b)'
  BY <1>2, <1>4, <1>5, <1>6, <1>9, <1>10, NameFrame
<1>12. ASSUME NEW b \in Agents, b # a PROVE RegionCarried(b)'
  BY <1>12, <1>2, <1>4, <1>5, <1>6, <1>7, <1>9, <1>10, RegionFrame
<1>13. RegionCarried(a)'
  <2>1. Found' = Found
    BY DEF Found
  <2>2. ASSUME <<a, "region">> \notin mixed'
        PROVE  /\ row'[a].region = Found
               /\ \A g \in Handlers : ~JoinsRegion(g, a)' /\ (Detects(g, a)' => g = h)
               /\ \A e \in Edits : ~Changes(e, a, "region")'
    BY <2>2, <1>3, <1>4, <1>5, <1>6, <1>7, <1>9 DEF RegionWriter
  <2> QED
    BY <2>1, <2>2, <1>8 DEF RegionCarried, RegionWriter
<1> QED
  BY <1>11, <1>12, <1>13 DEF Carried

\* DetectEntry: the entry gets the code the row has.
LEMMA DetectEntryCarries ==
    ASSUME ProfileInv, NEW h \in Handlers, DetectEntry(h)
    PROVE  Carried'
<1>0. PICK a : a = agentOf[h]
  OBVIOUS
<1> USE <1>0
<1>1. /\ entry \in [Agents -> [name : Values, region : Region]]
      /\ seen \in [Handlers -> {"none", "checked", "stored", "entered", "done"}]
  BY DEF ProfileInv, Typed, ProfileTypeOK, Row
<1>2. /\ pc[h] = "loop" /\ seen[h] = "stored" /\ seen' = [seen EXCEPT ![h] = "entered"]
      /\ entry' = Write(entry, a, "region", Found)
      /\ UNCHANGED <<linkVars, row, told, read, edit, mixed, overtaken>>
  BY DEF DetectEntry, Sees
<1>3. a \in Agents
  BY <1>2 DEF ProfileInv, Typed, LinkInv, HandlerKnows
<1>4. /\ \A b \in Agents : entry'[b].name = entry[b].name
      /\ \A b \in Agents : b # a => entry'[b].region = entry[b].region
      /\ entry'[a].region = Found
  <2>1. /\ entry'[a] = With(entry[a], "region", Found)
        /\ \A b \in Agents : b # a => entry'[b] = entry[b]
    BY <1>1, <1>2, <1>3 DEF Write
  <2>2. entry[a] \in [name : Values, region : Region]
    BY <1>1, <1>3
  <2> QED
    BY <2>1, <2>2 DEF With
<1>5. \A b \in Agents, g \in Handlers :
         /\ JoinsName(g, b)' <=> JoinsName(g, b)
         /\ JoinsRegion(g, b)' <=> JoinsRegion(g, b)
         /\ Detects(g, b)' <=> Detects(g, b)
         /\ RegionWriter(g, b)' <=> RegionWriter(g, b)
         /\ b # a => (Detects(g, b) => seen'[g] = seen[g])
  BY <1>1, <1>2 DEF JoinsName, JoinsRegion, Detects, RegionWriter, linkVars
<1>6. Detects(h, a)
  BY <1>2 DEF Detects
<1>7. \A e \in Edits, b \in Agents, f \in {"name", "region"} : Changes(e, b, f)' <=> Changes(e, b, f)
  BY <1>2 DEF Changes
<1>8. \A b \in Agents : NameCarried(b) /\ RegionCarried(b)
  BY DEF ProfileInv, Carried
<1>9. ASSUME NEW b \in Agents PROVE NameCarried(b)'
  BY <1>2, <1>4, <1>5, <1>7, <1>8, NameFrame
<1>10. ASSUME NEW b \in Agents, b # a PROVE RegionCarried(b)'
  BY <1>10, <1>2, <1>4, <1>5, <1>7, <1>8, RegionFrame
<1>11. RegionCarried(a)'
  <2>1. Found' = Found
    BY DEF Found
  <2>2. <<a, "region">> \notin mixed => row[a].region = Found
    BY <1>3, <1>6, <1>8 DEF RegionCarried
  <2> QED
    BY <2>1, <2>2, <1>2, <1>3, <1>4, <1>5, <1>6, <1>7, <1>8 DEF RegionCarried
<1> QED
  BY <1>9, <1>10, <1>11 DEF Carried

\* DetectTell: the browsers are told the code the row has.
LEMMA DetectTellCarries ==
    ASSUME ProfileInv, NEW h \in Handlers, DetectTell(h)
    PROVE  Carried'
<1>0. PICK a : a = agentOf[h]
  OBVIOUS
<1> USE <1>0
<1>1. /\ told \in [Agents -> Region]
      /\ seen \in [Handlers -> {"none", "checked", "stored", "entered", "done"}]
  BY DEF ProfileInv, Typed, ProfileTypeOK
<1>2. /\ pc[h] = "loop" /\ seen[h] = "entered" /\ seen' = [seen EXCEPT ![h] = "done"]
      /\ told' = [told EXCEPT ![a] = Found]
      /\ UNCHANGED <<linkVars, row, entry, read, edit, mixed, overtaken>>
  BY DEF DetectTell, Sees
<1>3. a \in Agents
  BY <1>2 DEF ProfileInv, Typed, LinkInv, HandlerKnows
<1>4. told'[a] = Found /\ \A b \in Agents : b # a => told'[b] = told[b]
  BY <1>1, <1>2, <1>3
<1>5. \A b \in Agents, g \in Handlers :
         /\ JoinsName(g, b)' <=> JoinsName(g, b)
         /\ JoinsRegion(g, b)' <=> JoinsRegion(g, b)
  BY <1>2 DEF JoinsName, JoinsRegion, linkVars
<1>6. /\ Detects(h, a) /\ ~Detects(h, a)'
      /\ \A b \in Agents, g \in Handlers : b # a \/ g # h =>
             (Detects(g, b)' <=> Detects(g, b)) /\ (Detects(g, b) => seen'[g] = seen[g])
  BY <1>1, <1>2 DEF Detects, linkVars
<1>7. \A e \in Edits, b \in Agents, f \in {"name", "region"} : Changes(e, b, f)' <=> Changes(e, b, f)
  BY <1>2 DEF Changes
<1>8. \A b \in Agents : NameCarried(b) /\ RegionCarried(b)
  BY DEF ProfileInv, Carried
<1>9. ASSUME NEW b \in Agents PROVE NameCarried(b)'
  BY <1>2, <1>5, <1>7, <1>8, NameFrame
<1>10. ASSUME NEW b \in Agents, b # a PROVE RegionCarried(b)'
  BY <1>10, <1>2, <1>4, <1>5, <1>6, <1>7, <1>8, RegionFrame
<1>11. RegionCarried(a)'
  <2>1. Found' = Found
    BY DEF Found
  <2>2. ASSUME <<a, "region">> \notin mixed
        PROVE  /\ row[a].region = Found /\ entry[a].region = row[a].region
               /\ \A g \in Handlers : ~JoinsRegion(g, a)' /\ ~Detects(g, a)'
               /\ \A e \in Edits : ~Changes(e, a, "region")'
    <3>1. /\ \A g \in Handlers : RegionWriter(g, a) => g = h
          /\ \A e \in Edits : ~Changes(e, a, "region")
      BY <2>2, <1>3, <1>6, <1>8 DEF RegionCarried, RegionWriter
    <3>2. ~JoinsRegion(h, a)
      BY <1>2 DEF JoinsRegion
    <3>3. row[a].region = Found /\ entry[a].region = row[a].region
      BY <3>1, <2>2, <1>2, <1>3, <1>6, <1>8 DEF RegionCarried, RegionWriter
    <3> QED
      BY <3>1, <3>2, <3>3, <1>3, <1>5, <1>6, <1>7 DEF RegionWriter
  <2> QED
    BY <2>1, <2>2, <1>2, <1>3, <1>4 DEF RegionCarried, RegionWriter
<1> QED
  BY <1>9, <1>10, <1>11 DEF Carried

\* ProfileLookup: the registration becomes the one writer of the name.
LEMMA LookupCarries ==
    ASSUME ProfileInv, NEW h \in Handlers, NEW a \in Agents, ProfileLookup(h, a)
    PROVE  Carried'
<1>1. /\ read \in [Handlers -> [name : Values \cup {None}, region : Region]]
      /\ row \in [Agents -> [name : Values, region : Region]]
      /\ mixed \in SUBSET (Agents \X Fields) /\ LinkTypeOK
  BY DEF ProfileInv, Typed, ProfileTypeOK, Row
<1>2. /\ pc[h] = "auth" /\ pc' = [pc EXCEPT ![h] = "found"]
      /\ agentOf' = [agentOf EXCEPT ![h] = a]
      /\ read' = Write(read, h, "name", row[a].name)
      /\ Joins(a, "name", FALSE)
      /\ UNCHANGED <<row, entry, told, seen, edit, overtaken>>
  BY DEF ProfileLookup, Lookup, Goto
<1>3. /\ <<a, "name">> \notin mixed' =>
             /\ <<a, "name">> \notin mixed
             /\ \A g \in Handlers : ~JoinsName(g, a)
             /\ \A e \in Edits : ~Changes(e, a, "name")
      /\ \A b \in Agents : b # a => (<<b, "name">> \in mixed' <=> <<b, "name">> \in mixed)
      /\ \A b \in Agents : <<b, "region">> \in mixed' <=> <<b, "region">> \in mixed
  BY <1>1, <1>2, NameJoins
<1>4. /\ read'[h].name = row[a].name
      /\ \A g \in Handlers : read'[g].region = read[g].region
      /\ \A g \in Handlers : g # h => read'[g].name = read[g].name
  <2>1. /\ read'[h] = With(read[h], "name", row[a].name)
        /\ \A g \in Handlers : g # h => read'[g] = read[g]
    BY <1>1, <1>2 DEF Write
  <2> QED
    BY <2>1 DEF With
<1>5. seen[h] \notin {"stored", "entered"}
  BY <1>2 DEF ProfileInv, Typed, HandlersKnow
<1>6. \A b \in Agents, g \in Handlers :
         /\ JoinsRegion(g, b)' => JoinsRegion(g, b)
         /\ Detects(g, b)' <=> Detects(g, b)
         /\ seen'[g] = seen[g]
  BY <1>1, <1>2, <1>5 DEF JoinsRegion, Detects, LinkTypeOK
<1>7. \A b \in Agents, g \in Handlers : JoinsName(g, b)' <=> JoinsName(g, b) \/ (g = h /\ b = a)
  BY <1>1, <1>2 DEF JoinsName, LinkTypeOK
<1>8. \A e \in Edits, b \in Agents, f \in {"name", "region"} : Changes(e, b, f)' <=> Changes(e, b, f)
  BY <1>2 DEF Changes
<1>9. \A b \in Agents : NameCarried(b) /\ RegionCarried(b)
  BY DEF ProfileInv, Carried
<1>10. ASSUME NEW b \in Agents PROVE RegionCarried(b)'
  BY <1>2, <1>3, <1>4, <1>6, <1>8, <1>9, RegionFrame
<1>11. ASSUME NEW b \in Agents, b # a PROVE NameCarried(b)'
  <2>1. \A g \in Handlers : JoinsName(g, b)' => JoinsName(g, b) /\ read'[g].name = read[g].name
    <3>1. ~JoinsName(h, b)
      BY <1>2 DEF JoinsName
    <3> QED
      BY <3>1, <1>4, <1>7, <1>11
  <2> QED
    BY <2>1, <1>11, <1>2, <1>3, <1>8, <1>9, NameFrame
<1>12. NameCarried(a)'
  <2>1. ASSUME <<a, "name">> \notin mixed'
        PROVE  /\ \A g \in Handlers : JoinsName(g, a)' <=> g = h
               /\ \A e \in Edits : ~Changes(e, a, "name")'
               /\ entry[a].name = row[a].name
    <3>1. \A e \in Edits : ~Changes(e, a, "name")
      BY <2>1, <1>3
    <3>2. entry[a].name = row[a].name
      BY <3>1, <2>1, <1>3, <1>9 DEF NameCarried
    <3> QED
      BY <3>1, <3>2, <2>1, <1>3, <1>7, <1>8
  <2> QED
    BY <2>1, <1>2, <1>4 DEF NameCarried
<1> QED
  BY <1>10, <1>11, <1>12 DEF Carried

\* ProfileGreet: it becomes the one writer of the region.
LEMMA GreetCarries ==
    ASSUME ProfileInv, NEW h \in Handlers, ProfileGreet(h)
    PROVE  Carried'
<1>0. PICK a : a = agentOf[h]
  OBVIOUS
<1> USE <1>0
<1>1. /\ read \in [Handlers -> [name : Values \cup {None}, region : Region]]
      /\ row \in [Agents -> [name : Values, region : Region]]
      /\ mixed \in SUBSET (Agents \X Fields) /\ LinkTypeOK
  BY DEF ProfileInv, Typed, ProfileTypeOK, Row
<1>2. /\ pc[h] = "found" /\ pc' = [pc EXCEPT ![h] = "greeted"] /\ agentOf' = agentOf
      /\ read' = Write(read, h, "region", row[a].region)
      /\ Joins(a, "region", FALSE)
      /\ UNCHANGED <<row, entry, told, seen, edit, overtaken>>
  BY DEF ProfileGreet, Greet, Goto
<1>3. a \in Agents
  BY <1>2 DEF ProfileInv, Typed, LinkInv, HandlerKnows
<1>4. /\ <<a, "region">> \notin mixed' =>
             /\ <<a, "region">> \notin mixed
             /\ \A g \in Handlers : ~RegionWriter(g, a)
             /\ \A e \in Edits : ~Changes(e, a, "region")
      /\ \A b \in Agents : b # a => (<<b, "region">> \in mixed' <=> <<b, "region">> \in mixed)
      /\ \A b \in Agents : <<b, "name">> \in mixed' <=> <<b, "name">> \in mixed
  BY <1>1, <1>2, <1>3, RegionJoins
<1>5. /\ read'[h].region = row[a].region
      /\ \A g \in Handlers : read'[g].name = read[g].name
      /\ \A g \in Handlers : g # h => read'[g].region = read[g].region
  <2>1. /\ read'[h] = With(read[h], "region", row[a].region)
        /\ \A g \in Handlers : g # h => read'[g] = read[g]
    BY <1>1, <1>2 DEF Write
  <2> QED
    BY <2>1 DEF With
<1>6. \A b \in Agents, g \in Handlers :
         /\ JoinsName(g, b)' <=> JoinsName(g, b)
         /\ Detects(g, b)' <=> Detects(g, b)
         /\ seen'[g] = seen[g]
         /\ JoinsRegion(g, b)' <=> JoinsRegion(g, b) \/ (g = h /\ b = a)
  BY <1>1, <1>2 DEF JoinsName, JoinsRegion, Detects, LinkTypeOK
<1>7. \A e \in Edits, b \in Agents, f \in {"name", "region"} : Changes(e, b, f)' <=> Changes(e, b, f)
  BY <1>2 DEF Changes
<1>8. \A b \in Agents : NameCarried(b) /\ RegionCarried(b)
  BY DEF ProfileInv, Carried
<1>9. ASSUME NEW b \in Agents PROVE NameCarried(b)'
  BY <1>2, <1>4, <1>5, <1>6, <1>7, <1>8, NameFrame
<1>10. ASSUME NEW b \in Agents, b # a PROVE RegionCarried(b)'
  <2>1. \A g \in Handlers : JoinsRegion(g, b)' => JoinsRegion(g, b) /\ read'[g].region = read[g].region
    <3>1. ~JoinsRegion(h, b)
      BY <1>2 DEF JoinsRegion
    <3> QED
      BY <3>1, <1>5, <1>6, <1>10
  <2> QED
    BY <2>1, <1>10, <1>2, <1>4, <1>6, <1>7, <1>8, RegionFrame
<1>11. RegionCarried(a)'
  <2>1. Found' = Found
    BY DEF Found
  <2>2. ASSUME <<a, "region">> \notin mixed'
        PROVE  /\ \A g \in Handlers : JoinsRegion(g, a)' <=> g = h
               /\ \A g \in Handlers : ~Detects(g, a)'
               /\ \A e \in Edits : ~Changes(e, a, "region")'
               /\ entry[a].region = row[a].region /\ told[a] = row[a].region
    <3>1. /\ \A g \in Handlers : ~JoinsRegion(g, a) /\ ~Detects(g, a)
          /\ \A e \in Edits : ~Changes(e, a, "region")
      BY <2>2, <1>4 DEF RegionWriter
    <3>2. entry[a].region = row[a].region /\ told[a] = row[a].region
      BY <3>1, <2>2, <1>3, <1>4, <1>8 DEF RegionCarried
    <3> QED
      BY <3>1, <3>2, <1>3, <1>6, <1>7
  <2> QED
    BY <2>1, <2>2, <1>2, <1>5 DEF RegionCarried, RegionWriter
<1> QED
  BY <1>9, <1>10, <1>11 DEF Carried

\* ProfileRegister: the entry gets what the registration read, which the row has.
LEMMA RegisterCarries ==
    ASSUME ProfileInv, NEW h \in Handlers, ProfileRegister(h)
    PROVE  Carried'
<1>0. PICK a : a = agentOf[h]
  OBVIOUS
<1> USE <1>0
<1>1. entry \in [Agents -> [name : Values, region : Region]] /\ LinkTypeOK
  BY DEF ProfileInv, Typed, ProfileTypeOK, Row
<1>2. /\ pc[h] = "greeted" /\ pc' = [pc EXCEPT ![h] = "registered"] /\ agentOf' = agentOf
      /\ entry' = [entry EXCEPT ![a] = read[h]]
      /\ UNCHANGED <<row, told, read, seen, edit, mixed, overtaken>>
  BY DEF ProfileRegister, Register, Goto
<1>3. a \in Agents
  BY <1>2 DEF ProfileInv, Typed, LinkInv, HandlerKnows
<1>4. entry'[a] = read[h] /\ \A b \in Agents : b # a => entry'[b] = entry[b]
  BY <1>1, <1>2, <1>3
<1>5. \A b \in Agents, g \in Handlers :
         /\ JoinsName(g, b)' => JoinsName(g, b) /\ g # h
         /\ Detects(g, b)' <=> Detects(g, b)
         /\ seen'[g] = seen[g]
         /\ JoinsRegion(g, b)' <=> JoinsRegion(g, b)
         /\ RegionWriter(g, b)' <=> RegionWriter(g, b)
  BY <1>1, <1>2 DEF JoinsName, JoinsRegion, Detects, RegionWriter, LinkTypeOK
<1>6. JoinsName(h, a) /\ JoinsRegion(h, a) /\ RegionWriter(h, a)
  BY <1>2 DEF JoinsName, JoinsRegion, RegionWriter
<1>7. \A e \in Edits, b \in Agents, f \in {"name", "region"} : Changes(e, b, f)' <=> Changes(e, b, f)
  BY <1>2 DEF Changes
<1>8. \A b \in Agents : NameCarried(b) /\ RegionCarried(b)
  BY DEF ProfileInv, Carried
<1>9. ASSUME NEW b \in Agents, b # a PROVE NameCarried(b)' /\ RegionCarried(b)'
  BY <1>9, <1>2, <1>4, <1>5, <1>7, <1>8, NameFrame, RegionFrame
<1>10. NameCarried(a)'
  <2>1. ASSUME <<a, "name">> \notin mixed
        PROVE  /\ entry'[a].name = row[a].name
               /\ \A g \in Handlers : ~JoinsName(g, a)'
               /\ \A e \in Edits : ~Changes(e, a, "name")'
    BY <2>1, <1>3, <1>4, <1>5, <1>6, <1>7, <1>8 DEF NameCarried
  <2> QED
    BY <2>1, <1>2 DEF NameCarried
<1>11. RegionCarried(a)'
  <2>1. Found' = Found
    BY DEF Found
  <2>2. <<a, "region">> \notin mixed => entry'[a].region = row[a].region
    BY <1>3, <1>4, <1>6, <1>8 DEF RegionCarried
  <2> QED
    BY <2>1, <2>2, <1>2, <1>3, <1>5, <1>7, <1>8 DEF RegionCarried
<1> QED
  BY <1>9, <1>10, <1>11 DEF Carried

\* ProfileAnnounce: the browsers are told the region the row has.
LEMMA AnnounceCarries ==
    ASSUME ProfileInv, NEW h \in Handlers, ProfileAnnounce(h)
    PROVE  Carried'
<1>0. PICK a : a = agentOf[h]
  OBVIOUS
<1> USE <1>0
<1>1. told \in [Agents -> Region] /\ LinkTypeOK
  BY DEF ProfileInv, Typed, ProfileTypeOK
<1>2. /\ pc[h] = "registered" /\ pc' = [pc EXCEPT ![h] = "loop"] /\ agentOf' = agentOf
      /\ told' = [told EXCEPT ![a] = read[h].region]
      /\ UNCHANGED <<row, entry, read, seen, edit, mixed, overtaken>>
  BY DEF ProfileAnnounce, Announce, Goto
<1>3. a \in Agents /\ ~Detects(h, a)
  BY <1>2 DEF ProfileInv, Typed, LinkInv, HandlerKnows, HandlersKnow, Detects
<1>4. told'[a] = read[h].region /\ \A b \in Agents : b # a => told'[b] = told[b]
  BY <1>1, <1>2, <1>3
<1>5. \A b \in Agents, g \in Handlers :
         /\ JoinsName(g, b)' <=> JoinsName(g, b)
         /\ Detects(g, b)' <=> Detects(g, b)
         /\ seen'[g] = seen[g]
         /\ JoinsRegion(g, b)' <=> JoinsRegion(g, b) /\ g # h
  BY <1>1, <1>2 DEF JoinsName, JoinsRegion, Detects, LinkTypeOK
<1>6. JoinsRegion(h, a) /\ RegionWriter(h, a)
  BY <1>2 DEF JoinsRegion, RegionWriter
<1>7. \A e \in Edits, b \in Agents, f \in {"name", "region"} : Changes(e, b, f)' <=> Changes(e, b, f)
  BY <1>2 DEF Changes
<1>8. \A b \in Agents : NameCarried(b) /\ RegionCarried(b)
  BY DEF ProfileInv, Carried
<1>9. ASSUME NEW b \in Agents PROVE NameCarried(b)'
  BY <1>2, <1>5, <1>7, <1>8, NameFrame
<1>10. ASSUME NEW b \in Agents, b # a PROVE RegionCarried(b)'
  BY <1>10, <1>2, <1>4, <1>5, <1>7, <1>8, RegionFrame
<1>11. RegionCarried(a)'
  <2>1. Found' = Found
    BY DEF Found
  <2>2. ASSUME <<a, "region">> \notin mixed
        PROVE  /\ told'[a] = row[a].region /\ entry[a].region = row[a].region
               /\ \A g \in Handlers : ~JoinsRegion(g, a)' /\ ~Detects(g, a)'
               /\ \A e \in Edits : ~Changes(e, a, "region")'
    <3>1. /\ \A g \in Handlers : RegionWriter(g, a) => g = h
          /\ \A e \in Edits : ~Changes(e, a, "region")
          /\ read[h].region = row[a].region
      BY <2>2, <1>3, <1>6, <1>8 DEF RegionCarried
    <3>2. \A g \in Handlers : ~Detects(g, a)
      BY <3>1, <1>3 DEF RegionWriter
    <3>3. entry[a].region = row[a].region
      BY <3>1, <3>2, <2>2, <1>3, <1>8 DEF RegionCarried
    <3> QED
      BY <3>1, <3>2, <3>3, <1>3, <1>4, <1>5, <1>7 DEF RegionWriter
  <2> QED
    BY <2>1, <2>2, <1>2 DEF RegionCarried, RegionWriter
<1> QED
  BY <1>9, <1>10, <1>11 DEF Carried

\* No step of a writer, of another or of nobody breaks it; one step per action.
LEMMA CarriedStep == ProfileInv /\ [Next]_vars => Carried'
<1> SUFFICES ASSUME ProfileInv, [Next]_vars PROVE Carried'
  OBVIOUS
<1>1. /\ Typed' /\ LinkTypeOK
      /\ seen \in [Handlers -> {"none", "checked", "stored", "entered", "done"}]
  BY TypedStep DEF ProfileInv, Typed, ProfileTypeOK
<1>2. ASSUME NEW e \in Edits, NEW a \in Agents, NEW f \in Fields,
             NEW value \in Values \cup {None}, EditRow(e, a, f, value)
      PROVE  Carried'
  BY <1>2, <1>1, EditRowCarries
<1>3. ASSUME NEW e \in Edits, EditEntry(e) \/ EditTell(e)
      PROVE  Carried'
  BY <1>3, EditEntryCarries, EditTellCarries
<1>4. ASSUME NEW h \in Handlers, DetectCheck(h)
      PROVE  Carried'
  <2>1. /\ pc[h] = "loop" /\ seen[h] = "none"
        /\ \E to \in {"done", "checked"} : seen' = [seen EXCEPT ![h] = to]
        /\ UNCHANGED <<linkVars, row, entry, told, read, edit, mixed, overtaken>>
    BY <1>4 DEF DetectCheck, Sees
  <2>2. \A g \in Handlers, b \in Agents :
           /\ JoinsName(g, b)' => JoinsName(g, b)
           /\ JoinsRegion(g, b)' => JoinsRegion(g, b)
           /\ Detects(g, b)' <=> Detects(g, b)
           /\ Detects(g, b) => seen'[g] = seen[g]
    BY <2>1, <1>1 DEF JoinsName, JoinsRegion, Detects, linkVars
  <2> QED
    BY <2>1, <2>2, QuietCarries
<1>5. ASSUME NEW h \in Handlers, NEW ok \in BOOLEAN, DetectStore(h, ok)
      PROVE  Carried'
  BY <1>5, DetectStoreCarries
<1>6. ASSUME NEW h \in Handlers, DetectEntry(h) \/ DetectTell(h)
      PROVE  Carried'
  BY <1>6, DetectEntryCarries, DetectTellCarries
<1>7. ASSUME NEW h \in Handlers, NEW a \in Agents, ProfileLookup(h, a)
      PROVE  Carried'
  BY <1>7, LookupCarries
<1>8. ASSUME NEW h \in Handlers, ProfileGreet(h) \/ ProfileRegister(h) \/ ProfileAnnounce(h)
      PROVE  Carried'
  BY <1>8, GreetCarries, RegisterCarries, AnnounceCarries
<1>9. ASSUME NEW h \in Handlers, ProfileBreak(h) \/ Connect(h)
      PROVE  Carried'
  <2>1. UNCHANGED profileVars /\ UNCHANGED agentOf
    BY <1>9 DEF ProfileBreak, Connect, Refuse, LinkLost, Leave, Cancel, Part, Break
  <2>2. \A g \in Handlers :
           /\ pc'[g] \in {"found", "greeted"} => pc'[g] = pc[g]
           /\ pc'[g] \in {"greeted", "registered"} => pc'[g] = pc[g]
    BY <1>9, <1>1 DEF ProfileBreak, Connect, Refuse, LinkLost, Leave, Cancel, Part, Break, Goto,
       LinkTypeOK
  <2>3. \A g \in Handlers, b \in Agents :
           /\ JoinsName(g, b)' => JoinsName(g, b)
           /\ JoinsRegion(g, b)' => JoinsRegion(g, b)
           /\ Detects(g, b)' <=> Detects(g, b)
           /\ seen'[g] = seen[g]
    BY <2>1, <2>2 DEF JoinsName, JoinsRegion, Detects, profileVars
  <2> QED
    BY <2>1, <2>3, QuietCarries DEF profileVars
<1>10. CASE UNCHANGED vars
  <2>1. UNCHANGED <<linkVars, row, entry, told, read, seen, edit, mixed>>
    BY <1>10 DEF vars, profileVars
  <2>2. \A g \in Handlers, b \in Agents :
           /\ JoinsName(g, b)' => JoinsName(g, b)
           /\ JoinsRegion(g, b)' => JoinsRegion(g, b)
           /\ Detects(g, b)' <=> Detects(g, b)
           /\ seen'[g] = seen[g]
    BY <2>1 DEF JoinsName, JoinsRegion, Detects, linkVars
  <2> QED
    BY <2>1, <2>2, QuietCarries
<1> QED
  BY <1>2, <1>3, <1>4, <1>5, <1>6, <1>7, <1>8, <1>9, <1>10 DEF Next

\* The table's region of an agent is written by an admin request, never with the
\* code an agent finds, and by the Region frame of one that had checked.
LEMMA RegionMoves ==
    ASSUME ProfileInv, [Next]_vars, NEW a \in Agents
    PROVE  \/ row'[a].region = row[a].region
           \/ \E e \in Edits : \E new : Writes(e, a, "region", new) /\ row'[a].region = new
           \/ /\ row'[a].region = Found
              /\ \E h \in Handlers :
                     agentOf[h] = a /\ seen[h] = "checked" /\ seen'[h] = "stored"
<1>1. /\ row \in [Agents -> [name : Values, region : Region]]
      /\ seen \in [Handlers -> {"none", "checked", "stored", "entered", "done"}]
  BY DEF ProfileInv, Typed, ProfileTypeOK, Row
<1>2. row[a] \in [name : Values, region : Region]
  BY <1>1
<1>3. ASSUME NEW e \in Edits, NEW b \in Agents, NEW f \in Fields,
             NEW value \in Values \cup {None}, EditRow(e, b, f, value)
      PROVE  \/ row'[a].region = row[a].region
             \/ \E new : Writes(e, a, "region", new) /\ row'[a].region = new
  <2>1. PICK new : Writes(e, b, f, new)
    BY <1>3, EditRowWrites DEF ProfileInv
  <2>2. b # a => row'[a] = row[a]
    BY <2>1, <1>1 DEF Writes, Write
  <2>3. b = a => row'[a] = With(row[a], f, new)
    BY <2>1, <1>1 DEF Writes, Write
  <2>4. CASE f = "name"
    BY <2>2, <2>3, <2>4, <1>2 DEF With
  <2>5. CASE f = "region" /\ b = a
    BY <2>1, <2>3, <2>5, <1>2 DEF With
  <2> QED
    BY <2>2, <2>4, <2>5 DEF Fields
<1>4. ASSUME NEW h \in Handlers, NEW ok \in BOOLEAN, DetectStore(h, ok)
      PROVE  \/ row'[a].region = row[a].region
             \/ /\ row'[a].region = Found
                /\ agentOf[h] = a /\ seen[h] = "checked" /\ seen'[h] = "stored"
  <2>1. /\ seen[h] = "checked" /\ seen'[h] = "stored"
        /\ row' = IF ok THEN Write(row, agentOf[h], "region", Found) ELSE row
    BY <1>4, <1>1 DEF DetectStore, Sees
  <2>2. CASE ok /\ agentOf[h] = a
    <3>1. row'[a] = With(row[a], "region", Found)
      BY <2>1, <2>2, <1>1 DEF Write
    <3> QED
      BY <3>1, <2>1, <2>2 DEF With
  <2>3. CASE ~ok \/ agentOf[h] # a
    BY <2>1, <2>3, <1>1 DEF Write
  <2> QED
    BY <2>2, <2>3
<1>5. ASSUME NEW h \in Handlers,
             \/ DetectCheck(h) \/ DetectEntry(h) \/ DetectTell(h)
             \/ (\E b \in Agents : ProfileLookup(h, b)) \/ ProfileGreet(h)
             \/ ProfileRegister(h) \/ ProfileAnnounce(h) \/ ProfileBreak(h) \/ Connect(h)
      PROVE  row' = row
  BY <1>5 DEF DetectCheck, DetectEntry, DetectTell, ProfileLookup, ProfileGreet,
     ProfileRegister, ProfileAnnounce, ProfileBreak, Connect, profileVars
<1>6. ASSUME NEW e \in Edits, EditEntry(e) \/ EditTell(e)
      PROVE  row' = row
  BY <1>6 DEF EditEntry, EditTell
<1>7. CASE UNCHANGED vars
  BY <1>7 DEF vars, profileVars
<1> QED
  BY <1>3, <1>4, <1>5, <1>6, <1>7 DEF Next

\* A handler that had checked when an operator's region was set is remembered.
LEMMA LookedBeforeStep == ProfileInv /\ [Next]_vars => LookedBefore'
<1> SUFFICES ASSUME ProfileInv, [Next]_vars, NEW h \in Handlers,
                    seen'[h] = "checked", row'[agentOf'[h]].region.source = "manual"
             PROVE  h \in overtaken'
  BY DEF LookedBefore
<1>1. /\ LinkTypeOK
      /\ seen \in [Handlers -> {"none", "checked", "stored", "entered", "done"}]
      /\ HandlersKnow /\ LookedBefore
  BY DEF ProfileInv, Typed, ProfileTypeOK
<1>2. CASE DetectCheck(h)
  <2>1. /\ row' = row /\ agentOf' = agentOf
        /\ seen' = [seen EXCEPT ![h] = IF row[agentOf[h]].region.source = "manual"
                                       THEN "done" ELSE "checked"]
    BY <1>2 DEF DetectCheck, Sees, linkVars
  <2> QED
    BY <2>1, <1>1
<1>3. CASE ~DetectCheck(h)
  <2>1. seen[h] = "checked"
    <3>1. CASE UNCHANGED seen
      BY <3>1
    <3>2. ASSUME NEW g \in Handlers, g # h, DetectCheck(g)
          PROVE  seen'[h] = seen[h]
      BY <3>2, <1>1 DEF DetectCheck, Sees
    <3>3. ASSUME NEW g \in Handlers,
                 (\E ok \in BOOLEAN : DetectStore(g, ok)) \/ DetectEntry(g) \/ DetectTell(g)
          PROVE  seen[h] = "checked"
      BY <3>3, <1>1 DEF DetectStore, DetectEntry, DetectTell, Sees
    <3>4. \/ UNCHANGED seen
          \/ \E g \in Handlers : \/ DetectCheck(g) \/ (\E ok \in BOOLEAN : DetectStore(g, ok))
                                 \/ DetectEntry(g) \/ DetectTell(g)
      BY DEF Next, vars, profileVars, EditRow, EditEntry, EditTell, ProfileLookup, ProfileGreet,
         ProfileRegister, ProfileAnnounce, ProfileBreak, Connect
    <3> QED
      BY <3>1, <3>2, <3>3, <3>4, <1>3
  <2>2. pc[h] = "loop" /\ agentOf[h] \in Agents
    BY <2>1, <1>1 DEF HandlersKnow, ProfileInv, Typed, LinkInv, HandlerKnows
  <2>3. agentOf'[h] = agentOf[h]
    <3>1. ASSUME NEW g \in Handlers, NEW a \in Agents, Lookup(g, a)
          PROVE  agentOf'[h] = agentOf[h]
      BY <3>1, <2>2, <1>1 DEF Lookup, Goto, LinkTypeOK
    <3>2. UNCHANGED agentOf \/ \E g \in Handlers, a \in Agents : Lookup(g, a)
      BY ProfileStepIsLinkStep
      DEF LinkNext, linkVars, Refuse, Greet, Register, Announce, LinkLost, Break, Leave, Cancel, Part
    <3> QED
      BY <3>1, <3>2
  <2>4. overtaken \subseteq overtaken'
    <3>1. ASSUME NEW e \in Edits, NEW a \in Agents, NEW f \in Fields,
                 NEW value \in Values \cup {None}, EditRow(e, a, f, value)
          PROVE  overtaken \subseteq overtaken'
      BY <3>1 DEF EditRow
    <3>2. \/ UNCHANGED overtaken
          \/ \E e \in Edits, a \in Agents, f \in Fields, value \in Values \cup {None} :
                 EditRow(e, a, f, value)
      BY DEF Next, vars, profileVars, EditEntry, EditTell, DetectCheck, DetectStore, DetectEntry,
         DetectTell, ProfileLookup, ProfileGreet, ProfileRegister, ProfileAnnounce, ProfileBreak,
         Connect
    <3> QED
      BY <3>1, <3>2
  <2>5. CASE row'[agentOf[h]].region = row[agentOf[h]].region
    BY <2>1, <2>3, <2>4, <2>5, <1>1 DEF LookedBefore
  <2>6. ASSUME NEW e \in Edits, NEW new, Writes(e, agentOf[h], "region", new),
               row'[agentOf[h]].region = new
        PROVE  h \in overtaken'
    BY <2>1, <2>3, <2>6 DEF Writes
  <2>7. row'[agentOf[h]].region # Found
    BY <2>3 DEF Found
  <2> QED
    BY <2>2, <2>5, <2>6, <2>7, RegionMoves
<1> QED
  BY <1>2, <1>3

\* It is inductive.
LEMMA ProfileStepInv == ProfileInv /\ [Next]_vars => ProfileInv'
  BY TypedStep, CarriedStep, LookedBeforeStep DEF ProfileInv

-----------------------------------------------------------------------------
(* The theorems                                                            *)

\* One writer at a time carries the table's value to the entry and the browsers.
THEOREM ProfileInvariant == Spec => []ProfileInv
  BY ProfileInitInv, ProfileStepInv, PTL DEF Spec

\* Every variable of names and regions keeps its type.
THEOREM ProfileTypeCorrect == Spec => []ProfileTypeOK
<1>1. ProfileInv => ProfileTypeOK
  BY DEF ProfileInv, Typed
<1> QED
  BY <1>1, ProfileInvariant, PTL

\* What is shown of an agent is what is stored once nobody writes it, unless writers
\* have overlapped or one could not write (admin.rs:746-767, 894-924, ws.rs:131-155).
THEOREM EntryFollowsRowAlways == Spec => []EntryFollowsRow
<1>1. ASSUME ProfileInv, NEW a \in Agents
      PROVE  /\ Writers(a, "name") = {} /\ <<a, "name">> \notin mixed =>
                    entry[a].name = row[a].name
             /\ Writers(a, "region") = {} /\ <<a, "region">> \notin mixed =>
                    entry[a].region = row[a].region /\ told[a] = row[a].region
  <2>1. NameCarried(a) /\ RegionCarried(a)
    BY <1>1 DEF ProfileInv, Carried
  <2>2. Writers(a, "name") = {} => \A e \in Edits : ~Changes(e, a, "name")
    BY NameWriters
  <2>3. Writers(a, "region") = {} =>
           /\ \A h \in Handlers : ~Detects(h, a)
           /\ \A e \in Edits : ~Changes(e, a, "region")
    BY RegionWriters
  <2> QED
    BY <2>1, <2>2, <2>3 DEF NameCarried, RegionCarried
<1>2. ProfileInv => EntryFollowsRow
  BY <1>1 DEF EntryFollowsRow
<1> QED
  BY <1>2, ProfileInvariant, PTL

\* An operator's region is lost to the agent's own code only by a frame that had
\* looked before it was set (ws.rs:301-316).
THEOREM OverriddenOnlyByRaceAlways == Spec => OverriddenOnlyByRace
<1> DEFINE ByRace == \A a \in Agents :
                         row[a].region.source = "manual" /\ row'[a].region = Found =>
                             \E h \in overtaken : seen[h] = "checked" /\ seen'[h] = "stored"
<1>1. ASSUME ProfileInv, [Next]_vars, NEW a \in Agents,
             row[a].region.source = "manual", row'[a].region = Found
      PROVE  \E h \in overtaken : seen[h] = "checked" /\ seen'[h] = "stored"
  <2>1. row[a].region # Found
    BY <1>1 DEF Found
  <2>2. \A e \in Edits : \A new : Writes(e, a, "region", new) => new # Found
    BY DEF Writes
  <2>3. PICK h \in Handlers : agentOf[h] = a /\ seen[h] = "checked" /\ seen'[h] = "stored"
    BY <2>1, <2>2, <1>1, RegionMoves
  <2>4. h \in overtaken
    BY <2>3, <1>1 DEF ProfileInv, LookedBefore
  <2> QED
    BY <2>3, <2>4
<1>2. ProfileInv /\ [Next]_vars => [ByRace]_vars
  BY <1>1
<1> QED
  BY <1>2, ProfileInvariant, PTL DEF Spec, OverriddenOnlyByRace

=============================================================================
