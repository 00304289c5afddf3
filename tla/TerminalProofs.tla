--------------------------- MODULE TerminalProofs ---------------------------
(***************************************************************************)
(* Proofs about Terminal for any agents, connections and terminals.        *)
(*                                                                         *)
(* Terminal implements AgentLink, so LinkInv is at hand.  A shell that is  *)
(* left behind is explained by what its connection still owes it: TermOpen *)
(* and TermClose are sent once each, in this order (AskedInOrder), and a   *)
(* connection that is alive leaves its loop only when it was replaced      *)
(* (LeftReplaced), its channel is read out and the terminals have dropped  *)
(* their clones of its sender (Attended).                                  *)
(*                                                                         *)
(* The output is followed from the shell to the browser: what was shown,   *)
(* what waits for the forwarder and what is on its way continue one        *)
(* another as long as the terminal is routed (Flows).                      *)
(***************************************************************************)
EXTENDS Terminal, AgentLinkProofs, SequenceTheorems

\* TermOpen is sent once and TermClose after it, as far as the task has come.
AskedInOrder ==
    \A t \in Terms :
        /\ down[t] \in {<<>>, <<"open">>, <<"close">>, <<"open", "close">>}
        /\ down[t] \in {<<"open">>, <<"open", "close">>} => shell[t] = "none"
        /\ tpc[t] \in {"new", "refused", "resolved", "inserted"} =>
              down[t] = <<>> /\ shell[t] = "none"
        /\ tpc[t] \in {"streaming", "leaving"} => down[t] \in {<<>>, <<"open">>}

Arriving == {"auth", "found", "greeted", "refused"}
PastLoop == {"leaving", "cancelling", "parting"} \cup Returned

\* A connection that has left its loop although its peer is there was replaced.
LeftReplaced ==
    \A h \in Handlers :
        (pc[h] \in PastLoop \ {"refused"} /\ link[h]) => agentTx[agentOf[h]] # h

\* A terminal was opened over a connection that had come to its announcement, and
\* has nothing to send any more when that leaves its loop with its peer there.
Attended ==
    \A t \in Terms : tpc[t] \notin {"new", "refused"} =>
        /\ via[t] \in Handlers
        /\ pc[via[t]] \notin Arriving
        /\ (pc[via[t]] \in PastLoop /\ link[via[t]]) =>
              tpc[t] \notin Holding /\ down[t] = <<>>

\* An agent session ends with its connection.
EndedWithLink == \A h \in ended : ~link[h] \/ pc[h] \in Returned

\* A terminal that is over has its close on the way, or was unlucky.
LeftByRace ==
    \A t \in Terms :
        (/\ tpc[t] \in {"removing", "closed"}
         /\ \/ shell[t] = "opening"
            \/ t \in held
            \/ down[t] = <<"open">>) =>
                t \in overtaken \/ down[t] = <<"close">> \/ ~link[via[t]]

TermInv == /\ TermTypeOK
           /\ AskedInOrder
           /\ LeftReplaced
           /\ Attended
           /\ EndedWithLink
           /\ LeftByRace

-----------------------------------------------------------------------------
(* Terminal implements AgentLink                                           *)

\* Every step of Terminal is a step of a connection or leaves the connections alone.
LEMMA TermStepIsLinkStep == [Next]_vars => [LinkNext]_linkVars
<1>1. ASSUME NEW h \in Handlers, Connect(h) \/ LoopBreak(h) \/ Depart(h)
      PROVE  LinkNext
  BY <1>1 DEF LinkNext, Connect, LoopBreak, Depart
<1>2. ASSUME NEW h \in Handlers, SessionEnds(h)
      PROVE  UNCHANGED linkVars
  BY <1>2 DEF SessionEnds
<1>3. ASSUME NEW t \in Terms, Socket(t)
      PROVE  UNCHANGED linkVars
  BY <1>3
  DEF Socket, TermRefuse, TermResolve, TermInsert, TermOpen, TermBreak, TermClose,
      TermReturn, Forward
<1>4. ASSUME NEW t \in Terms, Agent(t) \/ Deliver(t) \/ Relay(t)
      PROVE  UNCHANGED linkVars
  BY <1>4 DEF Agent, OpenShell, Write, ShellOver, Lose, Deliver, Relay
<1>5. CASE UNCHANGED vars
  BY <1>5 DEF vars
<1> QED
  BY <1>1, <1>2, <1>3, <1>4, <1>5 DEF Next

\* Terminals never change what a connection does.
THEOREM TerminalImplementsLink == Spec => LinkSpec
<1>1. Init => LinkInit
  BY DEF Init
<1>2. [Next]_vars => [LinkNext]_linkVars
  BY TermStepIsLinkStep
<1> QED
  BY <1>1, <1>2, PTL DEF Spec, LinkSpec

\* An agent shown online is served, whatever terminals are open.
THEOREM TermOnlineIsServed == Spec => []OnlineIsServed
  BY TerminalImplementsLink, OnlineIsServedAlways

-----------------------------------------------------------------------------
(* types and the order of what an agent is asked                           *)

\* What is left of a channel when its first message has been taken.
LEMMA Tails == /\ Tail(<<"open">>) = <<>>
               /\ Tail(<<"close">>) = <<>>
               /\ Tail(<<"open", "close">>) = <<"close">>
  OBVIOUS

\* No terminal has been opened yet.
LEMMA TermInitInv == Init => TermInv
  BY TerminalAssumption, LinkAssumption
  DEF Init, LinkInit, TermInv, TermTypeOK, LinkTypeOK, AskedInOrder, LeftReplaced,
      Attended, EndedWithLink, LeftByRace, Frames, Holding, PastLoop, Arriving, Returned, Points, Serving

\* What the channel holds after TermOpen and TermClose have been sent.
LEMMA Appends == /\ Append(<<>>, "open") = <<"open">>
                 /\ Append(<<>>, "close") = <<"close">>
                 /\ Append(<<"open">>, "close") = <<"open", "close">>
<1>1. Append(<<>>, "open") = <<"open">>
  OBVIOUS
<1>2. Append(<<>>, "close") = <<"close">>
  OBVIOUS
<1>3. Append(<<"open">>, "close") = <<"open", "close">>
  <2> DEFINE S == {"open", "close"}
             r == Append(<<"open">>, "close")
             q == <<"open", "close">>
  <2>1. <<"open">> \in Seq(S) /\ "close" \in S
    OBVIOUS
  <2>2. Len(<<"open">>) = 1 /\ <<"open">>[1] = "open"
    OBVIOUS
  <2>3. r \in Seq(S) /\ Len(r) = 2 /\ r[2] = "close"
    BY <2>1, <2>2, AppendProperties
  <2>4. r[1] = "open"
    BY <2>1, <2>2, AppendProperties
  <2>5. q \in Seq(S) /\ Len(q) = 2 /\ q[1] = "open" /\ q[2] = "close"
    OBVIOUS
  <2> HIDE DEF r, q, S
  <2>6. \A k \in 1..Len(r) : r[k] = q[k]
    BY <2>3, <2>4, <2>5
  <2>7. r = q
    BY <2>3, <2>5, <2>6, SeqEqual
  <2> QED
    BY <2>7 DEF r, q
<1> QED
  BY <1>1, <1>2, <1>3

\* What is taken from one channel and put into another keeps its type.
LEMMA Passes ==
    ASSUME NEW S, NEW q \in Seq(S), q # <<>>, NEW r \in Seq(S)
    PROVE  Tail(q) \in Seq(S) /\ Append(r, Head(q)) \in Seq(S)
<1>1. Head(q) \in S /\ Tail(q) \in Seq(S)
  BY HeadTailProperties
<1> QED
  BY <1>1

\* The two halves of TermTypeOK.
ControlOK ==
    /\ tpc \in [Terms -> {"new", "refused", "closed"} \cup Holding]
    /\ via \in [Terms -> Handlers \cup {None}]
    /\ \A t \in Terms : tpc[t] \in Holding => via[t] # None
    /\ sessions \in SUBSET Terms
    /\ fwd \in [Terms -> {"none", "running", "done"}]
    /\ shell \in [Terms -> {"none", "opening", "open", "over"}]
    /\ written \in [Terms -> 0..(MaxOut + 1)]
    /\ held \in SUBSET {t \in Terms : shell[t] = "open"}
    /\ ended \in SUBSET Handlers
    /\ overtaken \in SUBSET Terms

ChannelsOK ==
    /\ outbound \in [Terms -> Seq(Frames)]
    /\ shown \in [Terms -> Seq(Frames)]
    /\ up \in [Terms -> Seq(Frames)]
    /\ down \in [Terms -> Seq({"open", "close"})]

\* Each half has a proof of its own; the primed form serves the step.
LEMMA TypeHalves == TermTypeOK <=> LinkTypeOK /\ ControlOK /\ ChannelsOK
  BY DEF TermTypeOK, ControlOK, ChannelsOK

\* The same after a step.
LEMMA TypeHalvesNext == TermTypeOK' <=> LinkTypeOK' /\ ControlOK' /\ ChannelsOK'
  BY DEF TermTypeOK, ControlOK, ChannelsOK

\* A first message that opens the terminal finds no shell.
LEMMA OpenFindsNone ==
    ASSUME AskedInOrder, NEW t \in Terms, down[t] # <<>>, Head(down[t]) = "open"
    PROVE  shell[t] = "none"
<1>1. down[t] \in {<<"open">>, <<"close">>, <<"open", "close">>}
  BY DEF AskedInOrder
<1>2. down[t] # <<"close">>
  OBVIOUS
<1> QED
  BY <1>1, <1>2 DEF AskedInOrder

\* The tasks of a terminal and its shell keep their types; only an open shell is held.
LEMMA ControlStep ==
    LinkTypeOK /\ ControlOK /\ AskedInOrder /\ [Next]_vars => ControlOK'
<1> SUFFICES ASSUME LinkTypeOK, ControlOK, AskedInOrder, [Next]_vars
             PROVE  ControlOK'
  OBVIOUS
<1> USE TerminalAssumption DEF ControlOK
<1>1. ASSUME NEW t \in Terms, Socket(t)
      PROVE  ControlOK'
  <2>1. CASE TermRefuse(t) \/ TermBreak(t)
    BY <2>1 DEF TermRefuse, TermBreak, Step, Holding, agentVars
  <2>2. CASE \E a \in Agents : TermResolve(t, a)
    BY <2>2 DEF TermResolve, Step, Holding, agentVars, LinkTypeOK
  <2>3. CASE TermInsert(t) \/ TermReturn(t)
    BY <2>3 DEF TermInsert, TermReturn, Step, Holding, agentVars
  <2>4. CASE TermOpen(t) \/ TermClose(t)
    BY <2>4 DEF TermOpen, TermClose, Step, Holding, agentVars
  <2>5. CASE Forward(t)
    BY <2>5 DEF Forward, agentVars
  <2> QED
    BY <1>1, <2>1, <2>2, <2>3, <2>4, <2>5 DEF Socket
<1>2. ASSUME NEW t \in Terms, Agent(t)
      PROVE  ControlOK'
  <2>1. CASE OpenShell(t)
    BY <2>1 DEF OpenShell, socketVars
  <2>2. CASE Write(t)
    BY <2>2 DEF Write, socketVars
  <2>3. CASE ShellOver(t)
    BY <2>3 DEF ShellOver, socketVars
  <2>4. CASE Lose(t)
    BY <2>4 DEF Lose, socketVars, agentVars
  <2> QED
    BY <1>2, <2>1, <2>2, <2>3, <2>4 DEF Agent
<1>3. ASSUME NEW t \in Terms, Deliver(t)
      PROVE  ControlOK'
  <2>1. Head(down[t]) = "open" => shell[t] = "none"
    BY <1>3, OpenFindsNone DEF Deliver
  <2>2. /\ UNCHANGED <<tpc, via, sessions, fwd, written, ended>>
        /\ \/ UNCHANGED <<shell, held, overtaken>>
           \/ /\ shell[t] = "none"
              /\ shell' = [shell EXCEPT ![t] = "opening"]
              /\ UNCHANGED <<held, overtaken>>
           \/ /\ held' = held \ {t}
              /\ overtaken' \in {overtaken, overtaken \cup {t}}
              /\ UNCHANGED shell
    BY <1>3, <2>1 DEF Deliver, socketVars
  <2> QED
    BY <2>2
<1>4. ASSUME NEW t \in Terms, Relay(t)
      PROVE  ControlOK'
  BY <1>4 DEF Relay, agentVars
<1>5. ASSUME NEW h \in Handlers, Connect(h) \/ LoopBreak(h) \/ Depart(h)
      PROVE  ControlOK'
  BY <1>5 DEF Connect, LoopBreak, Depart, termVars, socketVars, agentVars
<1>6. ASSUME NEW h \in Handlers, SessionEnds(h)
      PROVE  ControlOK'
  BY <1>6 DEF SessionEnds, socketVars
<1>7. CASE UNCHANGED vars
  BY <1>7 DEF vars, termVars, socketVars, agentVars
<1> QED
  BY <1>1, <1>2, <1>3, <1>4, <1>5, <1>6, <1>7 DEF Next

\* The channels and the sockets carry what they were made for.
LEMMA ChannelsStep == ControlOK /\ ChannelsOK /\ [Next]_vars => ChannelsOK'
<1> SUFFICES ASSUME ControlOK, ChannelsOK, [Next]_vars
             PROVE  ChannelsOK'
  OBVIOUS
<1> USE DEF ChannelsOK
<1>1. ASSUME NEW t \in Terms, Socket(t)
      PROVE  ChannelsOK'
  <2>1. CASE TermRefuse(t) \/ (\E a \in Agents : TermResolve(t, a))
             \/ TermInsert(t) \/ TermBreak(t)
    BY <2>1 DEF TermRefuse, TermResolve, TermInsert, TermBreak
  <2>2. CASE TermReturn(t)
    BY <2>2 DEF TermReturn
  <2>3. CASE TermOpen(t) \/ TermClose(t)
    <3>1. /\ Append(down[t], "open") \in Seq({"open", "close"})
          /\ Append(down[t], "close") \in Seq({"open", "close"})
      OBVIOUS
    <3>2. down' \in [Terms -> Seq({"open", "close"})]
      BY <2>3, <3>1 DEF TermOpen, TermClose, Ask
    <3> QED
      BY <2>3, <3>2 DEF TermOpen, TermClose
  <2>4. CASE Forward(t)
    <3>1. outbound[t] \in Seq(Frames) /\ shown[t] \in Seq(Frames)
      OBVIOUS
    <3>2. ASSUME outbound[t] # <<>>
          PROVE  /\ Tail(outbound[t]) \in Seq(Frames)
                 /\ Append(shown[t], Head(outbound[t])) \in Seq(Frames)
      BY <3>1, <3>2, Passes
    <3>3. \/ /\ outbound[t] # <<>>
             /\ outbound' = [outbound EXCEPT ![t] = Tail(outbound[t])]
             /\ shown' = [shown EXCEPT ![t] = Append(shown[t], Head(outbound[t]))]
          \/ outbound' = [outbound EXCEPT ![t] = <<>>] /\ shown' = shown
      BY <2>4 DEF Forward
    <3>4. CASE outbound[t] # <<>>
               /\ outbound' = [outbound EXCEPT ![t] = Tail(outbound[t])]
               /\ shown' = [shown EXCEPT ![t] = Append(shown[t], Head(outbound[t]))]
      <4> DEFINE tail == Tail(outbound[t])
                 more == Append(shown[t], Head(outbound[t]))
      <4>1. tail \in Seq(Frames) /\ more \in Seq(Frames)
        BY <3>2, <3>4
      <4> HIDE DEF tail, more
      <4>2. outbound' = [outbound EXCEPT ![t] = tail] /\ shown' = [shown EXCEPT ![t] = more]
        BY <3>4 DEF tail, more
      <4>3. outbound' \in [Terms -> Seq(Frames)] /\ shown' \in [Terms -> Seq(Frames)]
        BY <4>1, <4>2
      <4> QED
        BY <2>4, <4>3 DEF Forward
    <3>5. CASE outbound' = [outbound EXCEPT ![t] = <<>>] /\ shown' = shown
      BY <2>4, <3>5 DEF Forward
    <3> QED
      BY <3>3, <3>4, <3>5
  <2> QED
    BY <1>1, <2>1, <2>2, <2>3, <2>4 DEF Socket
<1>2. ASSUME NEW t \in Terms, Agent(t)
      PROVE  ChannelsOK'
  <2>1. ASSUME NEW frames \in Seq(Frames), Report(t, frames)
        PROVE  up' \in [Terms -> Seq(Frames)]
    <3>1. up[t] \o frames \in Seq(Frames)
      OBVIOUS
    <3> QED
      BY <2>1, <3>1 DEF Report
  <2>2. CASE OpenShell(t)
    <3>1. <<1, Exit>> \in Seq(Frames)
      BY TerminalAssumption DEF Exit, Frames
    <3>2. up' = up \/ Report(t, <<1, Exit>>)
      BY <2>2 DEF OpenShell
    <3>3. up' \in [Terms -> Seq(Frames)]
      BY <2>1, <3>1, <3>2
    <3> QED
      BY <2>2, <3>3 DEF OpenShell, socketVars
  <2>3. CASE Write(t)
    <3>1. written[t] + 1 \in Frames
      BY <2>3, TerminalAssumption DEF Write, Frames, ControlOK
    <3>2. <<written[t] + 1>> \in Seq(Frames)
      BY <3>1
    <3>3. up' \in [Terms -> Seq(Frames)]
      BY <2>1, <2>3, <3>2 DEF Write
    <3> QED
      BY <2>3, <3>3 DEF Write, socketVars
  <2>4. CASE ShellOver(t)
    <3>1. <<Exit>> \in Seq(Frames)
      BY TerminalAssumption DEF Exit, Frames
    <3>2. up' \in [Terms -> Seq(Frames)]
      BY <2>1, <2>4, <3>1 DEF ShellOver
    <3> QED
      BY <2>4, <3>2 DEF ShellOver, socketVars
  <2>5. CASE Lose(t)
    <3>1. up[t] \in Seq(Frames) /\ up[t] # <<>>
      BY <2>5 DEF Lose
    <3>2. Front(up[t]) \in Seq(Frames)
      BY <3>1 DEF Front
    <3>3. up' \in [Terms -> Seq(Frames)]
      BY <2>5, <3>2 DEF Lose
    <3> QED
      BY <2>5, <3>3 DEF Lose, socketVars
  <2> QED
    BY <1>2, <2>2, <2>3, <2>4, <2>5 DEF Agent
<1>3. ASSUME NEW t \in Terms, Deliver(t)
      PROVE  ChannelsOK'
  BY <1>3 DEF Deliver, socketVars
<1>4. ASSUME NEW t \in Terms, Relay(t)
      PROVE  ChannelsOK'
  <2>1. up[t] \in Seq(Frames) /\ up[t] # <<>> /\ outbound[t] \in Seq(Frames)
    BY <1>4 DEF Relay
  <2>2. Tail(up[t]) \in Seq(Frames) /\ Append(outbound[t], Head(up[t])) \in Seq(Frames)
    BY <2>1, Passes
  <2>3. up' \in [Terms -> Seq(Frames)] /\ outbound' \in [Terms -> Seq(Frames)]
    BY <1>4, <2>2 DEF Relay
  <2> QED
    BY <1>4, <2>3 DEF Relay
<1>5. ASSUME NEW h \in Handlers, Depart(h)
      PROVE  ChannelsOK'
  <2>1. up' \in [Terms -> Seq(Frames)] /\ down' \in [Terms -> Seq({"open", "close"})]
    BY <1>5 DEF Depart, Cut
  <2> QED
    BY <1>5, <2>1 DEF Depart, socketVars
<1>6. ASSUME NEW h \in Handlers, Connect(h) \/ LoopBreak(h) \/ SessionEnds(h)
      PROVE  ChannelsOK'
  BY <1>6 DEF Connect, LoopBreak, SessionEnds, termVars, socketVars
<1>7. CASE UNCHANGED vars
  BY <1>7 DEF vars, termVars, socketVars
<1> QED
  BY <1>1, <1>2, <1>3, <1>4, <1>5, <1>6, <1>7 DEF Next

\* TermOpen and TermClose are asked once each, in this order.
LEMMA AskedStep == TermTypeOK /\ AskedInOrder /\ [Next]_vars => AskedInOrder'
<1> SUFFICES ASSUME ControlOK, ChannelsOK, AskedInOrder, [Next]_vars
             PROVE  AskedInOrder'
  BY TypeHalves
<1>t. tpc \in [Terms -> {"new", "refused", "closed"} \cup Holding]
  BY DEF ControlOK
<1>d. down \in [Terms -> Seq({"open", "close"})]
  BY DEF ChannelsOK
<1>s. shell \in [Terms -> {"none", "opening", "open", "over"}]
  BY DEF ControlOK
<1> DEFINE Asked(T, d, s) ==
             /\ d \in {<<>>, <<"open">>, <<"close">>, <<"open", "close">>}
             /\ d \in {<<"open">>, <<"open", "close">>} => s = "none"
             /\ T \in {"new", "refused", "resolved", "inserted"} => d = <<>> /\ s = "none"
             /\ T \in {"streaming", "leaving"} => d \in {<<>>, <<"open">>}
<1>a. \A t \in Terms : Asked(tpc[t], down[t], shell[t])
  BY DEF AskedInOrder
<1> SUFFICES \A t \in Terms : Asked(tpc'[t], down'[t], shell'[t])
  BY DEF AskedInOrder
\* A step of t changes nothing of any other terminal.
<1>o. ASSUME NEW t \in Terms,
             \A u \in Terms \ {t} :
                tpc'[u] = tpc[u] /\ down'[u] = down[u] /\ shell'[u] = shell[u],
             Asked(tpc'[t], down'[t], shell'[t])
      PROVE  \A u \in Terms : Asked(tpc'[u], down'[u], shell'[u])
  <2> TAKE u \in Terms
  <2> QED
    BY <1>o, <1>a
<1>u. ASSUME UNCHANGED <<tpc, down, shell>>
      PROVE  \A u \in Terms : Asked(tpc'[u], down'[u], shell'[u])
  BY <1>u, <1>a
<1>1. ASSUME NEW t \in Terms, Socket(t)
      PROVE  \A u \in Terms : Asked(tpc'[u], down'[u], shell'[u])
  <2>1. CASE TermOpen(t)
    <3>1. tpc[t] = "inserted" /\ tpc' = [tpc EXCEPT ![t] = "streaming"]
          /\ UNCHANGED shell /\ down[t] = <<>> /\ shell[t] = "none"
      BY <2>1, <1>a DEF TermOpen, Step, agentVars
    <3>2. down' = down \/ down' = [down EXCEPT ![t] = <<"open">>]
      BY <2>1, <3>1, Appends DEF TermOpen, Ask
    <3>3. down'[t] \in {<<>>, <<"open">>}
      BY <3>1, <3>2, <1>d
    <3>4. Asked(tpc'[t], down'[t], shell'[t])
      BY <3>1, <3>3, <1>t
    <3> QED
      BY <3>1, <3>2, <3>4, <1>o, <1>t, <1>d
  <2>2. CASE TermClose(t)
    <3>1. tpc[t] = "leaving" /\ tpc' = [tpc EXCEPT ![t] = "removing"]
          /\ UNCHANGED shell /\ down[t] \in {<<>>, <<"open">>}
      BY <2>2, <1>a DEF TermClose, Step, agentVars
    <3>2. down' = down \/ down' = [down EXCEPT ![t] = Append(down[t], "close")]
      BY <2>2 DEF TermClose, Ask
    <3>3. \/ down'[t] = down[t]
          \/ down[t] = <<>> /\ down'[t] = <<"close">>
          \/ down[t] = <<"open">> /\ down'[t] = <<"open", "close">>
      BY <3>1, <3>2, Appends, <1>d
    <3>c. <<"close">> \notin {<<"open">>, <<"open", "close">>}
          /\ <<"open">> # <<>>
      OBVIOUS
    <3>4. Asked("removing", down'[t], shell'[t])
      BY <3>1, <3>3, <3>c, <1>a
    <3>5. Asked(tpc'[t], down'[t], shell'[t])
      BY <3>1, <3>4, <1>t
    <3> QED
      BY <3>1, <3>2, <3>5, <1>o, <1>t, <1>d
  <2>3. CASE (\E a \in Agents : TermResolve(t, a))
             \/ TermRefuse(t) \/ TermInsert(t)
    <3>1. /\ tpc[t] \in {"new", "resolved"}
          /\ tpc'[t] \in {"resolved", "refused", "inserted"}
          /\ \A u \in Terms \ {t} : tpc'[u] = tpc[u]
          /\ UNCHANGED <<down, shell>>
      BY <2>3, <1>t DEF TermResolve, TermRefuse, TermInsert, Step, agentVars
    <3> QED
      BY <3>1, <1>a, <1>o
  <2>4. CASE TermBreak(t) \/ TermReturn(t) \/ Forward(t)
    <3>1. /\ \/ tpc[t] = "streaming" /\ tpc'[t] = "leaving"
             \/ tpc'[t] \in {tpc[t], "closed"}
          /\ \A u \in Terms \ {t} : tpc'[u] = tpc[u]
          /\ UNCHANGED <<down, shell>>
      BY <2>4, <1>t DEF TermBreak, TermReturn, Forward, Step, agentVars
    <3> QED
      BY <3>1, <1>a, <1>o
  <2> QED
    BY <1>1, <2>1, <2>2, <2>3, <2>4 DEF Socket
<1>2. ASSUME NEW t \in Terms, Agent(t)
      PROVE  \A u \in Terms : Asked(tpc'[u], down'[u], shell'[u])
  <2>1. /\ UNCHANGED <<tpc, down>>
        /\ \/ UNCHANGED shell
           \/ /\ shell[t] # "none"
              /\ \A u \in Terms \ {t} : shell'[u] = shell[u]
    BY <1>2, <1>s
    DEF Agent, OpenShell, Write, ShellOver, Lose, socketVars, agentVars
  <2> QED
    BY <2>1, <1>a, <1>o, <1>u
<1>3. ASSUME NEW t \in Terms, Deliver(t)
      PROVE  \A u \in Terms : Asked(tpc'[u], down'[u], shell'[u])
  <2>1. /\ down[t] \in {<<"open">>, <<"close">>, <<"open", "close">>}
        /\ down' = [down EXCEPT ![t] = Tail(down[t])]
        /\ UNCHANGED tpc
        /\ \A u \in Terms \ {t} : shell'[u] = shell[u]
    BY <1>3, <1>a, <1>s DEF Deliver, socketVars
  <2>2. \/ down[t] \in {<<"open">>, <<"close">>} /\ down'[t] = <<>>
        \/ down[t] = <<"open", "close">> /\ down'[t] = <<"close">>
    BY <2>1, <1>d, Tails
  <2>3. Asked(tpc'[t], down'[t], shell'[t])
    <3>1. down[t] # <<>>
      BY <1>3 DEF Deliver
    <3>2. tpc[t] \notin {"new", "refused", "resolved", "inserted"}
      BY <3>1, <1>a
    <3>3. tpc[t] \in {"streaming", "leaving"} => down'[t] = <<>>
      <4>1. <<"open", "close">> \notin {<<>>, <<"open">>}
        OBVIOUS
      <4> QED
        BY <2>2, <4>1, <1>a
    <3>4. <<"close">> \notin {<<"open">>, <<"open", "close">>}
          /\ <<>> \notin {<<"open">>, <<"open", "close">>}
      OBVIOUS
    <3> QED
      BY <2>1, <2>2, <3>2, <3>3, <3>4
  <2> QED
    BY <2>1, <2>3, <1>o, <1>d
<1>4. ASSUME NEW t \in Terms, Relay(t)
      PROVE  \A u \in Terms : Asked(tpc'[u], down'[u], shell'[u])
  BY <1>4, <1>u DEF Relay, agentVars
<1>5. ASSUME NEW h \in Handlers, Depart(h)
      PROVE  \A u \in Terms : Asked(tpc'[u], down'[u], shell'[u])
  <2>1. /\ UNCHANGED <<tpc, shell>>
        /\ \A u \in Terms : down'[u] \in {<<>>, down[u]}
    BY <1>5 DEF Depart, Cut, socketVars, agentVars
  <2> TAKE u \in Terms
  <2>2. <<>> \notin {<<"open">>, <<"open", "close">>}
    OBVIOUS
  <2> QED
    BY <2>1, <2>2, <1>a
<1>6. ASSUME NEW h \in Handlers, Connect(h) \/ LoopBreak(h) \/ SessionEnds(h)
      PROVE  \A u \in Terms : Asked(tpc'[u], down'[u], shell'[u])
  BY <1>6, <1>u
  DEF Connect, LoopBreak, SessionEnds, termVars, socketVars, agentVars
<1>7. CASE UNCHANGED vars
  BY <1>7, <1>u DEF vars, termVars, socketVars, agentVars
<1> QED
  BY <1>1, <1>2, <1>3, <1>4, <1>5, <1>6, <1>7 DEF Next

-----------------------------------------------------------------------------
(* what the connection of a terminal does                                  *)

\* A connection never comes back: not its link, not its place in the handler.
LEMMA LinkMoves ==
    ASSUME LinkTypeOK, [LinkNext]_linkVars, NEW h \in Handlers
    PROVE  /\ link'[h] => link[h]
           /\ pc[h] \in Returned => pc'[h] = pc[h]
           /\ pc[h] \notin Arriving => pc'[h] \notin Arriving
           /\ pc[h] \in PastLoop => pc'[h] \in PastLoop
           /\ (pc[h] \notin PastLoop \cup Arriving /\ pc'[h] \in PastLoop) => Break(h)
<1> USE DEF LinkTypeOK, Returned, PastLoop, Arriving, Goto
<1>1. ASSUME NEW g \in Handlers,
             Refuse(g) \/ (\E a \in Agents : Lookup(g, a)) \/ Greet(g)
             \/ Register(g) \/ Announce(g)
      PROVE  /\ link'[h] => link[h]
             /\ pc[h] \in Returned => pc'[h] = pc[h]
             /\ pc[h] \notin Arriving => pc'[h] \notin Arriving
             /\ pc[h] \in PastLoop => pc'[h] \in PastLoop
             /\ (pc[h] \notin PastLoop \cup Arriving /\ pc'[h] \in PastLoop) => Break(h)
  BY <1>1 DEF Refuse, Lookup, Greet, Register, Announce
<1>2. ASSUME NEW g \in Handlers, LinkLost(g)
      PROVE  (link'[h] => link[h]) /\ pc' = pc
  BY <1>2 DEF LinkLost
<1>3. ASSUME NEW g \in Handlers, Break(g)
      PROVE  link' = link /\ (g = h \/ pc'[h] = pc[h]) /\ pc[g] = "loop" /\ pc'[g] = "leaving"
  BY <1>3 DEF Break
<1>4. ASSUME NEW g \in Handlers, Leave(g) \/ Cancel(g) \/ Part(g)
      PROVE  /\ link' = link
             /\ g = h \/ pc'[h] = pc[h]
             /\ pc[g] \in {"leaving", "cancelling", "parting"}
             /\ pc'[g] \in {"cancelling", "parting", "superseded", "gone"}
  BY <1>4 DEF Leave, Cancel, Part
<1>5. CASE UNCHANGED linkVars
  BY <1>5 DEF linkVars
<1> QED
  BY <1>1, <1>2, <1>3, <1>4, <1>5 DEF LinkNext

\* A live connection leaves its loop replaced, and is not registered again.
LEMMA LeftReplacedStep ==
    LinkInv /\ LeftReplaced /\ [LinkNext]_linkVars => LeftReplaced'
<1> SUFFICES ASSUME LinkTypeOK, HandlerKnows, LeftReplaced, [LinkNext]_linkVars
             PROVE  LeftReplaced'
  BY DEF LinkInv
<1> USE LinkAssumption DEF LinkTypeOK, LeftReplaced, Returned, PastLoop, Goto
<1>1. ASSUME NEW g \in Handlers,
             Refuse(g) \/ (\E a \in Agents : Lookup(g, a)) \/ Greet(g)
             \/ Announce(g) \/ LinkLost(g)
      PROVE  LeftReplaced'
  BY <1>1 DEF Refuse, Lookup, Greet, Announce, LinkLost
<1>2. ASSUME NEW g \in Handlers, Register(g)
      PROVE  LeftReplaced'
  BY <1>2 DEF Register
<1>3. ASSUME NEW g \in Handlers, Break(g)
      PROVE  LeftReplaced'
  BY <1>3 DEF Break, Unregistered
<1>4. ASSUME NEW g \in Handlers, Leave(g)
      PROVE  LeftReplaced'
  <2>1. /\ pc[g] = "leaving"
        /\ \A h \in Handlers \ {g} : pc'[h] = pc[h]
        /\ UNCHANGED <<agentOf, link>>
        /\ \A a \in Agents : agentTx'[a] \in {agentTx[a], None}
    BY <1>4 DEF Leave
  <2>2. ASSUME NEW h \in Handlers, pc[h] \in PastLoop \ {"refused"},
               agentTx[agentOf[h]] # h
        PROVE  agentTx'[agentOf[h]] # h
    BY <2>1, <2>2 DEF HandlerKnows
  <2>3. ASSUME NEW h \in Handlers, pc'[h] \in PastLoop \ {"refused"}, link'[h]
        PROVE  agentTx[agentOf[h]] # h
    BY <2>1, <2>3
  <2> QED
    BY <2>1, <2>2, <2>3
<1>5. ASSUME NEW g \in Handlers, Cancel(g) \/ Part(g)
      PROVE  LeftReplaced'
  BY <1>5 DEF Cancel, Part
<1>6. CASE UNCHANGED linkVars
  BY <1>6 DEF linkVars
<1> QED
  BY <1>1, <1>2, <1>3, <1>4, <1>5, <1>6 DEF LinkNext

\* A session that has returned stays without its connection.
LEMMA EndedStep == TermTypeOK /\ EndedWithLink /\ [Next]_vars => EndedWithLink'
<1> SUFFICES ASSUME TermTypeOK, EndedWithLink, [Next]_vars
             PROVE  EndedWithLink'
  OBVIOUS
<1>1. \A h \in Handlers : /\ link'[h] => link[h]
                          /\ pc[h] \in Returned => pc'[h] \in Returned
  BY TermStepIsLinkStep, LinkMoves DEF TermTypeOK
<1>2. ended' = ended \/ \E h \in Handlers : SessionEnds(h)
  <2>1. ASSUME NEW h \in Handlers, Connect(h) \/ LoopBreak(h) \/ Depart(h)
        PROVE  ended' = ended
    BY <2>1 DEF Connect, LoopBreak, Depart, termVars, agentVars
  <2>2. ASSUME NEW t \in Terms, Socket(t)
        PROVE  ended' = ended
    BY <2>2 DEF Socket, TermRefuse, TermResolve, TermInsert, TermOpen, TermBreak,
                TermClose, TermReturn, Forward, agentVars
  <2>3. ASSUME NEW t \in Terms, Agent(t) \/ Deliver(t) \/ Relay(t)
        PROVE  ended' = ended
    BY <2>3 DEF Agent, OpenShell, Write, ShellOver, Lose, Deliver, Relay, agentVars
  <2>4. CASE UNCHANGED vars
    BY <2>4 DEF vars, termVars, agentVars
  <2> QED
    BY <2>1, <2>2, <2>3, <2>4 DEF Next
<1>3. CASE ended' = ended
  BY <1>1, <1>3 DEF EndedWithLink, TermTypeOK
<1>4. ASSUME NEW h \in Handlers, SessionEnds(h)
      PROVE  EndedWithLink'
  BY <1>1, <1>4 DEF SessionEnds, EndedWithLink, TermTypeOK, linkVars
<1> QED
  BY <1>2, <1>3, <1>4

\* What a connection's step does to the terminals: it may clear their channels.
LEMMA LinkSteps ==
    ASSUME NEW h \in Handlers, Connect(h) \/ LoopBreak(h) \/ Depart(h)
    PROVE  /\ UNCHANGED <<tpc, via, shell, held, overtaken>>
           /\ \A t \in Terms :
                 \/ down'[t] = down[t]
                 \/ down'[t] = <<>> /\ via[t] # None /\ pc'[via[t]] \in Returned
<1>1. CASE Connect(h) \/ LoopBreak(h)
  BY <1>1 DEF Connect, LoopBreak, termVars, socketVars, agentVars
<1>2. CASE Depart(h)
  BY <1>2 DEF Depart, Cut, socketVars, agentVars
<1> QED
  BY <1>1, <1>2

\* A connection whose peer is there leaves its loop only when no terminal holds
\* a clone of its sender and its channel is drained.
LEMMA AttendedStep ==
    LinkInv /\ TermTypeOK /\ AskedInOrder /\ LeftReplaced /\ Attended /\ [Next]_vars
        => Attended'
<1> SUFFICES ASSUME LinkInv, TermTypeOK, AskedInOrder, LeftReplaced, Attended,
                    [Next]_vars
             PROVE  Attended'
  OBVIOUS
<1>t. /\ tpc \in [Terms -> {"new", "refused", "closed"} \cup Holding]
      /\ via \in [Terms -> Handlers \cup {None}]
      /\ down \in [Terms -> Seq({"open", "close"})]
      /\ LinkTypeOK
  BY DEF TermTypeOK
<1>m. ASSUME NEW h \in Handlers
      PROVE  /\ link'[h] => link[h]
             /\ pc[h] \notin Arriving => pc'[h] \notin Arriving
             /\ pc[h] \in PastLoop => pc'[h] \in PastLoop
             /\ (pc[h] \notin PastLoop \cup Arriving /\ pc'[h] \in PastLoop) => Break(h)
  BY <1>t, TermStepIsLinkStep, LinkMoves
<1> USE <1>t DEF Attended
<1>1. ASSUME NEW t \in Terms, Socket(t)
      PROVE  Attended'
  <2>1. UNCHANGED linkVars
    BY <1>1
    DEF Socket, TermRefuse, TermResolve, TermInsert, TermOpen, TermBreak, TermClose,
        TermReturn, Forward
  <2>2. UNCHANGED <<pc, link>>
    BY <2>1 DEF linkVars
  <2>3. CASE \E a \in Agents : TermResolve(t, a)
    <3> PICK a \in Agents : TermResolve(t, a)
      BY <2>3
    <3>1. /\ via' = [via EXCEPT ![t] = agentTx[a]]
          /\ tpc' = [tpc EXCEPT ![t] = "resolved"]
          /\ agentTx[a] # None
          /\ UNCHANGED down
      BY DEF TermResolve, Step
    <3>2. /\ agentTx[a] \in Handlers
          /\ pc[agentTx[a]] \in Serving
          /\ agentOf[agentTx[a]] = a
      BY <3>1 DEF LinkInv, LinkTypeOK, OnlineIsServed
    <3>3. pc[agentTx[a]] \in PastLoop => ~link[agentTx[a]]
      BY <3>2 DEF LeftReplaced, Serving, Returned
    <3>4. pc[agentTx[a]] \notin Arriving
      BY <3>2 DEF Serving, Arriving
    <3> QED
      BY <2>2, <3>1, <3>2, <3>3, <3>4
  <2>4. CASE TermRefuse(t)
    BY <2>2, <2>4 DEF TermRefuse, Step
  <2>5. CASE TermOpen(t) \/ TermClose(t)
    <3>1. /\ tpc[t] \in {"inserted", "leaving"}
          /\ \A u \in Terms \ {t} : tpc'[u] = tpc[u] /\ down'[u] = down[u]
          /\ UNCHANGED via
      BY <2>5 DEF TermOpen, TermClose, Step, Ask
    <3>2. pc[via[t]] \in PastLoop => ~link[via[t]]
      BY <3>1 DEF Holding
    <3> QED
      BY <2>2, <3>1, <3>2 DEF Holding
  <2>6. CASE TermInsert(t) \/ TermBreak(t) \/ TermReturn(t) \/ Forward(t)
    <3>1. /\ UNCHANGED <<via, down>>
          /\ \A u \in Terms \ {t} : tpc'[u] = tpc[u]
          /\ tpc'[t] = tpc[t] \/ tpc[t] \in Holding
      BY <2>6 DEF TermInsert, TermBreak, TermReturn, Forward, Step, Holding
    <3> QED
      BY <2>2, <3>1 DEF Holding
  <2> QED
    BY <1>1, <2>3, <2>4, <2>5, <2>6 DEF Socket
<1>2. ASSUME NEW t \in Terms, Agent(t) \/ Deliver(t) \/ Relay(t)
      PROVE  Attended'
  <2>1. UNCHANGED linkVars
    BY <1>2 DEF Agent, OpenShell, Write, ShellOver, Lose, Deliver, Relay
  <2>2. UNCHANGED <<pc, link>>
    BY <2>1 DEF linkVars
  <2>3. UNCHANGED <<tpc, via>>
    BY <1>2 DEF Agent, OpenShell, Write, ShellOver, Lose, Deliver, Relay, socketVars
  <2>4. \/ down' = down
        \/ pc[via[t]] = "loop" /\ \A u \in Terms \ {t} : down'[u] = down[u]
    BY <1>2 DEF Agent, OpenShell, Write, ShellOver, Lose, Deliver, Relay, socketVars
  <2>5. "loop" \notin PastLoop
    BY DEF PastLoop, Returned
  <2> QED
    BY <2>2, <2>3, <2>4, <2>5
<1>3. ASSUME NEW h \in Handlers, LoopBreak(h)
      PROVE  Attended'
  <2>1. /\ UNCHANGED <<tpc, via, down>>
        /\ UNCHANGED link
        /\ \A g \in Handlers \ {h} : pc'[g] = pc[g]
        /\ link[h] => \A t \in Terms : via[t] = h => tpc[t] \notin Holding /\ down[t] = <<>>
    BY <1>3 DEF LoopBreak, Break, Goto, termVars, socketVars, LinkTypeOK
  <2> QED
    BY <2>1, <1>m
<1>4. ASSUME NEW h \in Handlers, Connect(h) \/ Depart(h)
      PROVE  Attended'
  <2>1. /\ UNCHANGED <<tpc, via>>
        /\ \A t \in Terms : down'[t] \in {<<>>, down[t]}
    BY <1>4, LinkSteps
  <2>2. ASSUME NEW g \in Handlers, Break(g)
        PROVE  FALSE
    BY <1>4, <2>2
    DEF Connect, Depart, Refuse, Lookup, Greet, Register, Announce, LinkLost, Cancel,
        Leave, Part, Break, Goto, LinkTypeOK
  <2> QED
    BY <2>1, <2>2, <1>m
<1>5. ASSUME NEW h \in Handlers, SessionEnds(h)
      PROVE  Attended'
  BY <1>5 DEF SessionEnds, linkVars, socketVars
<1>6. CASE UNCHANGED vars
  BY <1>6 DEF vars, linkVars, termVars, socketVars
<1> QED
  BY <1>1, <1>2, <1>3, <1>4, <1>5, <1>6 DEF Next

-----------------------------------------------------------------------------
(* a shell that is left behind                                             *)

\* The shell of t runs, or is about to.
Running(t) == shell[t] = "opening" \/ t \in held \/ down[t] = <<"open">>

Explained(t) == t \in overtaken \/ down[t] = <<"close">> \/ ~link[via[t]]

\* A terminal whose socket, channel and agent a step leaves alone stays explained.
LEMMA StaysExplained ==
    ASSUME TermTypeOK, Attended, [Next]_vars, LeftByRace, NEW t \in Terms,
           tpc'[t] \in {"removing", "closed"}, Running(t)',
           tpc[t] \in {"removing", "closed"}, Running(t),
           via'[t] = via[t], overtaken \subseteq overtaken',
           down[t] = <<"close">> => (down'[t] = <<"close">> \/ ~link[via[t]])
    PROVE  Explained(t)'
<1>1. via[t] \in Handlers
  BY DEF Attended
<1>2. link'[via[t]] => link[via[t]]
  BY <1>1, TermStepIsLinkStep, LinkMoves DEF TermTypeOK
<1> QED
  BY <1>2 DEF LeftByRace, Running, Explained

\* Each action keeps the reason why a shell is left behind.
LEMMA LeftByRaceStep ==
    TermTypeOK /\ AskedInOrder /\ Attended /\ EndedWithLink /\ LeftByRace /\ [Next]_vars
        => LeftByRace'
<1> SUFFICES ASSUME TermTypeOK, AskedInOrder, Attended, EndedWithLink, LeftByRace,
                    [Next]_vars
             PROVE  LeftByRace'
  OBVIOUS
<1>t. /\ tpc \in [Terms -> {"new", "refused", "closed"} \cup Holding]
      /\ via \in [Terms -> Handlers \cup {None}]
      /\ down \in [Terms -> Seq({"open", "close"})]
      /\ shell \in [Terms -> {"none", "opening", "open", "over"}]
      /\ held \in SUBSET {t \in Terms : shell[t] = "open"}
      /\ overtaken \in SUBSET Terms
      /\ LinkTypeOK
  BY DEF TermTypeOK
<1> SUFFICES ASSUME NEW t \in Terms, tpc'[t] \in {"removing", "closed"}, Running(t)'
             PROVE  Explained(t)'
  BY DEF LeftByRace, Running, Explained
<1>0. ASSUME tpc[t] \in {"removing", "closed"}, Running(t), via'[t] = via[t],
             overtaken \subseteq overtaken',
             down[t] = <<"close">> => (down'[t] = <<"close">> \/ ~link[via[t]])
      PROVE  Explained(t)'
  BY <1>0, StaysExplained
<1>1. ASSUME NEW u \in Terms, Socket(u)
      PROVE  Explained(t)'
  <2>1. /\ UNCHANGED <<shell, held, overtaken>>
        /\ UNCHANGED linkVars
    BY <1>1
    DEF Socket, TermRefuse, TermResolve, TermInsert, TermOpen, TermBreak, TermClose,
        TermReturn, Forward, agentVars
  <2>2. CASE TermClose(u) /\ u = t
    <3>1. /\ tpc[t] = "leaving"
          /\ UNCHANGED via
      BY <2>2 DEF TermClose, Step
    <3>2. CASE pc[via[t]] \in Returned
      <4>1. ~link[via[t]]
        BY <3>1, <3>2 DEF Attended, Holding, PastLoop
      <4> QED
        BY <2>1, <3>1, <4>1 DEF Explained, linkVars
    <3>3. CASE pc[via[t]] \notin Returned
      <4>1. down'[t] = Append(down[t], "close")
        BY <1>t, <2>2, <3>3 DEF TermClose, Ask
      <4>2. CASE down[t] = <<>>
        BY <4>1, <4>2, Appends DEF Explained
      <4>3. CASE down[t] = <<"open">>
        <5>1. down'[t] = <<"open", "close">> /\ shell[t] = "none"
          BY <4>1, <4>3, Appends DEF AskedInOrder
        <5>2. <<"open", "close">> # <<"open">>
          OBVIOUS
        <5>3. t \notin held'
          BY <1>t, <2>1, <5>1
        <5> QED
          BY <2>1, <5>1, <5>2, <5>3 DEF Running
      <4> QED
        BY <3>1, <4>2, <4>3 DEF AskedInOrder
    <3> QED
      BY <3>2, <3>3
  <2>3. CASE ~(TermClose(u) /\ u = t)
    <3>1. /\ tpc[t] \in {"removing", "closed"}
          /\ via'[t] = via[t]
          /\ down'[t] = down[t]
      BY <1>1, <1>t, <2>3
      DEF Socket, TermRefuse, TermResolve, TermInsert, TermOpen, TermBreak, TermClose,
          TermReturn, Forward, Step, Ask, Holding
    <3>2. Running(t)
      BY <2>1, <3>1 DEF Running
    <3> QED
      BY <1>0, <2>1, <3>1, <3>2
  <2> QED
    BY <2>2, <2>3
<1>2. ASSUME NEW u \in Terms, Agent(u) \/ Relay(u)
      PROVE  Explained(t)'
  <2>1. UNCHANGED <<tpc, via, down, overtaken>>
    BY <1>2 DEF Agent, OpenShell, Write, ShellOver, Lose, Relay, socketVars, agentVars
  <2>2. Running(t)
    <3>1. CASE Agent(u)
      BY <1>t, <2>1, <3>1
      DEF Agent, OpenShell, Write, ShellOver, Lose, agentVars, Running
    <3>2. CASE Relay(u)
      BY <2>1, <3>2 DEF Relay, agentVars, Running
    <3> QED
      BY <1>2, <3>1, <3>2
  <2> QED
    BY <1>0, <2>1, <2>2
<1>3. ASSUME NEW u \in Terms, Deliver(u), u # t
      PROVE  Explained(t)'
  <2>1. /\ UNCHANGED <<tpc, via>>
        /\ down'[t] = down[t] /\ shell'[t] = shell[t]
        /\ t \in held <=> t \in held'
        /\ overtaken \subseteq overtaken'
    BY <1>3, <1>t DEF Deliver, socketVars
  <2> QED
    BY <1>0, <2>1 DEF Running
<1>4. ASSUME Deliver(t)
      PROVE  Explained(t)'
  <2>1. /\ UNCHANGED <<tpc, via>>
        /\ via[t] \in Handlers /\ pc[via[t]] = "loop"
        /\ down'[t] = Tail(down[t])
        /\ UNCHANGED linkVars
        /\ down[t] \in {<<"open">>, <<"close">>, <<"open", "close">>}
        /\ overtaken \subseteq overtaken'
    BY <1>4, <1>t DEF Deliver, socketVars, AskedInOrder
  <2>2. CASE down[t] = <<"open">>
    BY <1>0, <1>4, <2>1, <2>2 DEF Running
  <2>3. CASE down[t] = <<"open", "close">>
    BY <2>1, <2>3, Tails DEF Explained
  <2>4. CASE down[t] = <<"close">> /\ ~Connected(t)
    <3>1. ~link[via[t]]
      BY <2>1, <2>4 DEF Connected, EndedWithLink, Returned
    <3> QED
      BY <2>1, <3>1 DEF Explained, linkVars
  <2>5. CASE down[t] = <<"close">> /\ Connected(t)
    <3>1. Head(down[t]) = "close"
      BY <2>5
    <3>2. /\ held' = held \ {t}
          /\ shell' = shell
          /\ overtaken' = IF shell[t] = "opening" THEN overtaken \cup {t} ELSE overtaken
      BY <1>4, <2>5, <3>1 DEF Deliver
    <3>3. down'[t] = <<>>
      BY <2>1, <2>5, Tails
    <3> QED
      BY <3>2, <3>3 DEF Running, Explained
  <2> QED
    BY <2>1, <2>2, <2>3, <2>4, <2>5
<1>5. ASSUME NEW h \in Handlers, Connect(h) \/ LoopBreak(h) \/ Depart(h)
      PROVE  Explained(t)'
  <2>1. /\ UNCHANGED <<tpc, via, shell, held, overtaken>>
        /\ \/ down'[t] = down[t]
           \/ down'[t] = <<>> /\ via[t] # None /\ pc'[via[t]] \in Returned
    BY <1>5, LinkSteps
  <2>2. CASE down'[t] = down[t]
    BY <1>0, <2>1, <2>2 DEF Running
  <2>3. CASE down'[t] = <<>> /\ down[t] # <<>> /\ pc'[via[t]] \in Returned
    <3>1. Depart(h)
      BY <1>5, <2>3 DEF Connect, LoopBreak, termVars
    <3>2. via[t] \in Handlers /\ pc[via[t]] \notin Arriving
      BY <2>1 DEF Attended
    <3>3. pc[via[t]] \in PastLoop
      BY <1>t, <2>3, <3>1, <3>2
      DEF Depart, Leave, Part, Goto, PastLoop, Returned, LinkTypeOK
    <3>4. ~link[via[t]]
      BY <2>1, <2>3, <3>3 DEF Attended
    <3>5. Running(t)
      BY <2>1, <2>3 DEF Running
    <3> QED
      BY <1>0, <2>1, <3>4, <3>5
  <2> QED
    BY <2>1, <2>2, <2>3
<1>6. ASSUME NEW h \in Handlers, SessionEnds(h)
      PROVE  Explained(t)'
  <2>1. UNCHANGED <<tpc, via, down, shell, held, overtaken>>
    BY <1>6 DEF SessionEnds, socketVars
  <2> QED
    BY <1>0, <2>1 DEF Running
<1>7. CASE UNCHANGED vars
  <2>1. UNCHANGED <<tpc, via, down, shell, held, overtaken>>
    BY <1>7 DEF vars, termVars, socketVars, agentVars
  <2> QED
    BY <1>0, <2>1 DEF Running
<1> QED
  BY <1>1, <1>2, <1>3, <1>4, <1>5, <1>6, <1>7 DEF Next

-----------------------------------------------------------------------------
(* the theorems                                                            *)

\* The invariant holds throughout.
THEOREM TermInvariant == Spec => []TermInv
<1>1. Init => TermInv
  BY TermInitInv
<1>2. TermInv /\ LinkInv /\ LinkInv' /\ [Next]_vars => TermInv'
  <2> SUFFICES ASSUME TermInv, LinkInv, LinkInv', [Next]_vars
               PROVE  TermInv'
    OBVIOUS
  <2>1. TermTypeOK'
    BY TypeHalves, ControlStep, ChannelsStep, TypeHalvesNext DEF TermInv, LinkInv
  <2>2. AskedInOrder'
    BY AskedStep DEF TermInv
  <2>3. LeftReplaced'
    BY TermStepIsLinkStep, LeftReplacedStep DEF TermInv
  <2>4. Attended'
    BY AttendedStep DEF TermInv
  <2>5. EndedWithLink'
    BY EndedStep DEF TermInv
  <2>6. LeftByRace'
    BY LeftByRaceStep DEF TermInv
  <2> QED
    BY <2>1, <2>2, <2>3, <2>4, <2>5, <2>6 DEF TermInv
<1>3. Spec => []LinkInv
  BY TerminalImplementsLink, LinkInvariant, PTL
<1> QED
  BY <1>1, <1>2, <1>3, PTL DEF Spec

\* Every variable of the terminals and of their connections keeps its type.
THEOREM TermTypeCorrect == Spec => []TermTypeOK
<1>1. TermInv => TermTypeOK
  BY DEF TermInv
<1> QED
  BY <1>1, TermInvariant, PTL

\* A shell outlives its terminal, with nobody to tell it to end, only when its
\* connection was lost or TermClose overtook open_term (ws.rs:603-606).
THEOREM ShellLeftOnlyByRaceAlways == Spec => []ShellLeftOnlyByRace
<1>1. TermInv => ShellLeftOnlyByRace
  <2> SUFFICES ASSUME TermInv, NEW t \in Terms, tpc[t] = "closed",
                      shell[t] = "opening" \/ t \in held
               PROVE  t \in overtaken \/ "close" \in Range(down[t]) \/ Lost(t)
    BY DEF ShellLeftOnlyByRace
  <2>1. t \in overtaken \/ down[t] = <<"close">> \/ ~link[via[t]]
    BY DEF TermInv, LeftByRace
  <2>2. down[t] = <<"close">> => "close" \in Range(down[t])
    BY DEF Range
  <2>3. via[t] # None
    BY LinkAssumption DEF TermInv, Attended
  <2> QED
    BY <2>1, <2>2, <2>3 DEF Lost
<1> QED
  BY <1>1, TermInvariant, PTL

-----------------------------------------------------------------------------
(* the way of the output                                                   *)

\* The frame at position i of the output of a shell that has written w chunks.
FrameAt(i, w) == IF i <= w THEN i ELSE Exit

\* q holds what such a shell has sent from position n + 1 on, m frames in all.
Follows(q, n, w, m) ==
    /\ n + Len(q) <= m
    /\ \A i \in 1..Len(q) : q[i] = FrameAt(n + i, w)

Total(t) == IF shell[t] = "over" THEN written[t] + 1 ELSE written[t]
Past(t) == Len(shown[t]) + Len(outbound[t])
Routing(t) == t \in sessions /\ fwd[t] = "running"

\* What was shown, what waits for the forwarder and, while it is routed there,
\* what is on its way continue one another; on a connection that carries frames
\* nothing is missing at the end.
Flows(t) ==
    /\ Follows(shown[t], 0, written[t], Total(t))
    /\ Follows(outbound[t], Len(shown[t]), written[t], Total(t))
    /\ Routing(t) => /\ Follows(up[t], Past(t), written[t], Total(t))
                     /\ Connected(t) => Past(t) + Len(up[t]) = Total(t)
    /\ shell[t] \in {"none", "opening"} => written[t] = 0 /\ up[t] = <<>>

\* A frame that is in the browser's channel or was shown to it.
ExitCame(t) ==
    \/ \E i \in 1..Len(outbound[t]) : outbound[t][i] = Exit
    \/ \E i \in 1..Len(shown[t]) : shown[t][i] = Exit

\* The entry and the forwarder at each point of the socket's task.
Routes(t) ==
    /\ t \in sessions => tpc[t] \in Holding \ {"resolved"}
    /\ fwd[t] = "none" <=> tpc[t] \in {"new", "refused", "resolved"}
    /\ (tpc[t] \in Holding \ {"resolved"} /\ t \notin sessions) =>
          fwd[t] = "done" \/ ExitCame(t)

\* More output does not change what came before it.
LEMMA FollowsLonger ==
    ASSUME NEW S, NEW q \in Seq(S), NEW n \in Nat, NEW w \in Nat, NEW v \in Nat,
           NEW m \in Nat, Follows(q, n, w, w), w <= v, v <= m
    PROVE  Follows(q, n, v, m)
  BY LenProperties DEF Follows, FrameAt

LEMMA FollowsNothing ==
    ASSUME NEW n \in Nat, NEW w, NEW m \in Nat, n <= m
    PROVE  Follows(<<>>, n, w, m)
  BY DEF Follows

\* The first frame of a channel and the rest of it.
LEMMA FollowsTail ==
    ASSUME NEW S, NEW q \in Seq(S), q # <<>>, NEW n \in Nat, NEW w \in Nat, NEW m \in Nat,
           Follows(q, n, w, m)
    PROVE  /\ n + 1 <= m
           /\ Head(q) = FrameAt(n + 1, w)
           /\ Follows(Tail(q), n + 1, w, m)
           /\ Len(q) = Len(Tail(q)) + 1
<1>1. /\ Len(q) \in Nat \ {0}
      /\ Tail(q) \in Seq(S) /\ Len(Tail(q)) = Len(q) - 1
      /\ \A i \in 1..Len(Tail(q)) : Tail(q)[i] = q[i + 1]
  BY EmptySeq, HeadTailProperties
<1>2. Head(q) = q[1]
  OBVIOUS
<1> HIDE DEF FrameAt
<1>3. \A i \in 1..Len(Tail(q)) : q[i + 1] = FrameAt(n + 1 + i, w)
  <2> SUFFICES ASSUME NEW i \in 1..Len(Tail(q))
               PROVE  q[i + 1] = FrameAt(n + 1 + i, w)
    OBVIOUS
  <2>1. i + 1 \in 1..Len(q) /\ n + 1 + i = n + (i + 1)
    BY <1>1
  <2> QED
    BY <2>1 DEF Follows
<1> QED
  BY <1>1, <1>2, <1>3 DEF Follows

\* One more frame behind the others.
LEMMA FollowsAppend ==
    ASSUME NEW S, NEW q \in Seq(S), NEW e \in S, NEW n \in Nat, NEW w \in Nat, NEW m \in Nat,
           Follows(q, n, w, m), e = FrameAt(n + Len(q) + 1, w), n + Len(q) + 1 <= m
    PROVE  Follows(Append(q, e), n, w, m) /\ Len(Append(q, e)) = Len(q) + 1
<1> DEFINE r == Append(q, e)
<1>1. /\ Len(q) \in Nat /\ Len(r) = Len(q) + 1
      /\ \A i \in 1..Len(q) : r[i] = q[i]
      /\ r[Len(q) + 1] = e
  BY AppendProperties, LenProperties
<1> HIDE DEF r
<1>2. ASSUME NEW i \in 1..Len(r)
      PROVE  r[i] = FrameAt(n + i, w)
  BY <1>1 DEF Follows
<1>3. Follows(r, n, w, m)
  BY <1>1, <1>2 DEF Follows
<1> QED
  BY <1>1, <1>3 DEF r

\* Several more frames.
LEMMA FollowsConcat ==
    ASSUME NEW S, NEW q \in Seq(S), NEW r \in Seq(S), NEW n \in Nat, NEW w \in Nat,
           NEW m \in Nat, Follows(q, n, w, m), Follows(r, n + Len(q), w, m)
    PROVE  Follows(q \o r, n, w, m) /\ Len(q \o r) = Len(q) + Len(r)
<1> DEFINE p == q \o r
<1>1. /\ Len(q) \in Nat /\ Len(r) \in Nat /\ Len(p) = Len(q) + Len(r)
      /\ \A i \in 1..Len(q) + Len(r) : p[i] = IF i <= Len(q) THEN q[i] ELSE r[i - Len(q)]
  BY ConcatProperties, LenProperties
<1> HIDE DEF p
<1>2. ASSUME NEW i \in 1..Len(p)
      PROVE  p[i] = FrameAt(n + i, w)
  <2>1. CASE i <= Len(q)
    <3>1. i \in 1..Len(q) /\ p[i] = q[i]
      BY <1>1, <2>1
    <3> QED
      BY <3>1 DEF Follows
  <2>2. CASE ~(i <= Len(q))
    <3>1. i - Len(q) \in 1..Len(r) /\ n + Len(q) + (i - Len(q)) = n + i
      BY <1>1, <2>2
    <3> QED
      BY <1>1, <2>2, <3>1 DEF Follows
  <2> QED
    BY <2>1, <2>2
<1>3. Follows(p, n, w, m)
  BY <1>1, <1>2 DEF Follows
<1> QED
  BY <1>1, <1>3 DEF p

\* One frame fewer.
LEMMA FollowsFront ==
    ASSUME NEW S, NEW q \in Seq(S), q # <<>>, NEW n \in Nat, NEW w \in Nat, NEW m \in Nat,
           Follows(q, n, w, m)
    PROVE  Follows(Front(q), n, w, m)
<1>1. Len(q) \in Nat \ {0} /\ \A i \in 1..Len(q) : q[i] \in S
  BY EmptySeq, ElementOfSeq
<1>2. /\ Len(Front(q)) = Len(q) - 1
      /\ \A i \in 1..Len(q) - 1 : Front(q)[i] = q[i]
  <2> DEFINE k == Len(q) - 1
  <2>1. k \in Nat /\ \A i \in 1..k : q[i] \in S
    BY <1>1
  <2> HIDE DEF k
  <2>2. /\ Len(SubSeq(q, 1, k)) = k
        /\ \A i \in 1..k : SubSeq(q, 1, k)[i] = q[i]
    BY <2>1
  <2> QED
    BY <2>2 DEF k, Front
<1> QED
  BY <1>1, <1>2 DEF Follows

\* A step of one terminal leaves the others alone.
LEMMA OthersAlone ==
    ASSUME ControlOK, ChannelsOK, NEW t \in Terms, NEW u \in Terms, u # t,
           Socket(t) \/ Agent(t) \/ Deliver(t) \/ Relay(t)
    PROVE  /\ tpc'[u] = tpc[u] /\ via'[u] = via[u] /\ fwd'[u] = fwd[u]
           /\ outbound'[u] = outbound[u] /\ shown'[u] = shown[u] /\ up'[u] = up[u]
           /\ shell'[u] = shell[u] /\ written'[u] = written[u]
           /\ u \in sessions' <=> u \in sessions
<1> USE DEF ControlOK, ChannelsOK
<1>1. CASE Socket(t)
  BY <1>1 DEF Socket, TermRefuse, TermResolve, TermInsert, TermOpen, TermBreak, TermClose,
              TermReturn, Forward, Step, agentVars
<1>2. CASE Agent(t)
  BY <1>2 DEF Agent, OpenShell, Write, ShellOver, Lose, Report, socketVars, agentVars
<1>3. CASE Deliver(t) \/ Relay(t)
  BY <1>3 DEF Deliver, Relay, socketVars, agentVars
<1> QED
  BY <1>1, <1>2, <1>3

\* A connection that has stopped to carry a terminal's frames never does so again.
LEMMA NeverReconnected ==
    ASSUME TermTypeOK, [Next]_vars, NEW t \in Terms, via[t] \in Handlers, via'[t] = via[t],
           Connected(t)'
    PROVE  Connected(t)
<1>1. /\ link'[via[t]] => link[via[t]]
      /\ pc[via[t]] \in Returned => pc'[via[t]] = pc[via[t]]
  BY TermStepIsLinkStep, LinkMoves DEF TermTypeOK
<1>2. ended \subseteq ended'
  <2>1. ASSUME NEW h \in Handlers, Connect(h) \/ LoopBreak(h) \/ Depart(h) \/ SessionEnds(h)
        PROVE  ended \subseteq ended'
    BY <2>1 DEF Connect, LoopBreak, Depart, SessionEnds, termVars, agentVars
  <2>2. ASSUME NEW u \in Terms, Socket(u)
        PROVE  ended' = ended
    BY <2>2 DEF Socket, TermRefuse, TermResolve, TermInsert, TermOpen, TermBreak,
                TermClose, TermReturn, Forward, agentVars
  <2>3. ASSUME NEW u \in Terms, Agent(u) \/ Deliver(u) \/ Relay(u)
        PROVE  ended' = ended
    BY <2>3 DEF Agent, OpenShell, Write, ShellOver, Lose, Deliver, Relay, agentVars
  <2>4. CASE UNCHANGED vars
    BY <2>4 DEF vars, termVars, agentVars
  <2> QED
    BY <2>1, <2>2, <2>3, <2>4 DEF Next
<1> QED
  BY <1>1, <1>2 DEF Connected

\* How much was shown, waits and was written.
LEMMA FlowSizes ==
    ASSUME ControlOK, ChannelsOK, NEW t \in Terms, Flows(t)
    PROVE  /\ Len(shown[t]) \in Nat /\ Len(outbound[t]) \in Nat /\ Len(up[t]) \in Nat
           /\ written[t] \in Nat /\ Total(t) \in Nat /\ written[t] <= Total(t)
           /\ Past(t) \in Nat /\ Past(t) <= Total(t)
<1>1. /\ Len(shown[t]) \in Nat /\ Len(outbound[t]) \in Nat /\ Len(up[t]) \in Nat
  BY LenProperties DEF ChannelsOK
<1>2. written[t] \in Nat
  BY TerminalAssumption DEF ControlOK
<1>3. Follows(outbound[t], Len(shown[t]), written[t], Total(t))
  BY DEF Flows
<1>4. Len(shown[t]) + Len(outbound[t]) <= Total(t)
  BY <1>3 DEF Follows
<1>5. Total(t) \in Nat /\ written[t] <= Total(t)
  BY <1>2 DEF Total
<1>6. Past(t) \in Nat /\ Past(t) <= Total(t)
  <2>1. Past(t) = Len(shown[t]) + Len(outbound[t])
    BY DEF Past
  <2>2. ASSUME NEW x \in Nat, NEW y \in Nat
        PROVE  x + y \in Nat
    OBVIOUS
  <2>3. Past(t) \in Nat
    BY <1>1, <2>1, <2>2
  <2>4. Past(t) <= Total(t)
    BY <1>4, <2>1
  <2> QED
    BY <2>3, <2>4
<1> QED
  BY <1>1, <1>2, <1>5, <1>6

\* The output of a terminal flows on when nothing of it changes, or when what was
\* on its way is lost with the connection.
LEMMA FlowsStays ==
    ASSUME ControlOK, ChannelsOK, NEW t \in Terms, Flows(t),
           shown'[t] = shown[t], outbound'[t] = outbound[t], written'[t] = written[t],
           Total(t)' = Total(t),
           shell'[t] \in {"none", "opening"} => shell[t] \in {"none", "opening"},
           Routing(t)' => Routing(t) /\ (Connected(t)' => Connected(t)),
           \/ up'[t] = up[t]
           \/ up'[t] = <<>> /\ (Routing(t)' => ~Connected(t)')
    PROVE  Flows(t)'
<1>1. /\ written[t] \in Nat /\ Total(t) \in Nat
      /\ Past(t) \in Nat /\ Past(t) <= Total(t)
  BY FlowSizes
<1>2. Past(t)' = Past(t)
  BY DEF Past
<1>3. Follows(<<>>, Past(t), written[t], Total(t))
  BY <1>1, FollowsNothing
<1> HIDE DEF Follows
<1>4. Routing(t)' => /\ Follows(up'[t], Past(t), written[t], Total(t))
                     /\ Connected(t)' => Past(t) + Len(up'[t]) = Total(t)
  BY <1>3 DEF Flows
<1>5. shell'[t] \in {"none", "opening"} => written'[t] = 0 /\ up'[t] = <<>>
  BY DEF Flows
<1>6. /\ Follows(shown'[t], 0, written'[t], Total(t)')
      /\ Follows(outbound'[t], Len(shown'[t]), written'[t], Total(t)')
  BY DEF Flows
<1>7. Routing(t)' => /\ Follows(up'[t], Past(t)', written'[t], Total(t)')
                     /\ Connected(t)' => Past(t)' + Len(up'[t]) = Total(t)'
  BY <1>2, <1>4
<1> QED
  BY <1>5, <1>6, <1>7 DEF Flows

\* The socket's task and its forwarder.
LEMMA FlowsSocket ==
    ASSUME ControlOK, ChannelsOK, AskedInOrder, NEW t \in Terms, Flows(t), Routes(t), Socket(t)
    PROVE  Flows(t)'
<1>1. /\ up' = up /\ shell' = shell /\ written' = written
      /\ Total(t)' = Total(t)
  BY DEF Socket, TermRefuse, TermResolve, TermInsert, TermOpen, TermBreak, TermClose,
         TermReturn, Forward, agentVars, Total
<1>2. CASE TermRefuse(t) \/ TermOpen(t) \/ TermBreak(t) \/ TermClose(t)
  <2>1. UNCHANGED <<linkVars, via, sessions, fwd, shown, outbound, ended>>
    BY <1>2 DEF TermRefuse, TermOpen, TermBreak, TermClose, agentVars
  <2>2. (Routing(t)' <=> Routing(t)) /\ (Connected(t)' <=> Connected(t))
    BY <2>1 DEF Routing, Connected, linkVars
  <2> QED
    BY <1>1, <2>1, <2>2, FlowsStays
<1>3. CASE \E a \in Agents : TermResolve(t, a)
  <2>1. UNCHANGED <<sessions, fwd, shown, outbound>> /\ tpc[t] = "new"
    BY <1>3 DEF TermResolve, Step
  <2>2. ~Routing(t)'
    BY <2>1 DEF Routes, Routing, Holding
  <2> QED
    BY <1>1, <2>1, <2>2, FlowsStays
<1>4. CASE TermInsert(t)
  <2>1. shell[t] = "none" /\ UNCHANGED <<shown, outbound>>
    BY <1>4 DEF TermInsert, Step, AskedInOrder
  <2>2. written[t] = 0 /\ up[t] = <<>> /\ Total(t) = 0
    BY <2>1 DEF Flows, Total
  <2>3. Past(t) = 0 /\ Past(t)' = 0
    <3>1. Past(t) \in Nat /\ Past(t) <= Total(t)
      BY FlowSizes
    <3>2. Past(t)' = Past(t)
      BY <2>1 DEF Past
    <3> QED
      BY <2>2, <3>1, <3>2
  <2>4. Follows(<<>>, 0, 0, 0) /\ Len(<<>>) = 0
    BY FollowsNothing
  <2> HIDE DEF Follows
  <2> QED
    BY <1>1, <2>1, <2>2, <2>3, <2>4 DEF Flows
<1>5. CASE TermReturn(t)
  <2>1. /\ shown' = shown /\ outbound'[t] = <<>>
        /\ ~Routing(t)'
    BY <1>5 DEF TermReturn, Routing, ControlOK, ChannelsOK
  <2>2. Follows(<<>>, Len(shown[t]), written[t], Total(t))
    <3>1. Len(shown[t]) <= Total(t)
      BY DEF Flows, Follows
    <3> QED
      BY <3>1, FlowSizes, FollowsNothing
  <2> HIDE DEF Follows
  <2> QED
    BY <1>1, <2>1, <2>2 DEF Flows
<1>6. CASE Forward(t)
  <2>1. CASE /\ outbound[t] # <<>>
             /\ shown' = [shown EXCEPT ![t] = Append(@, Head(outbound[t]))]
             /\ outbound' = [outbound EXCEPT ![t] = Tail(@)]
             /\ UNCHANGED fwd
    <3> DEFINE s == shown[t]
               o == outbound[t]
               w == written[t]
               m == Total(t)
    <3>1. /\ o # <<>> /\ o \in Seq(Frames) /\ s \in Seq(Frames)
          /\ shown'[t] = Append(s, Head(o)) /\ outbound'[t] = Tail(o)
      BY <2>1 DEF ChannelsOK
    <3>2. Follows(s, 0, w, m) /\ Follows(o, Len(s), w, m) /\ Len(s) \in Nat
          /\ w \in Nat /\ m \in Nat
      BY FlowSizes DEF Flows
    <3> HIDE DEF s, o, w, m
    <3>3. /\ Len(s) + 1 <= m /\ Head(o) = FrameAt(Len(s) + 1, w)
          /\ Follows(Tail(o), Len(s) + 1, w, m)
          /\ Len(o) = Len(Tail(o)) + 1
      BY <3>1, <3>2, FollowsTail
    <3>4. Head(o) \in Frames /\ Len(Tail(o)) \in Nat
      BY <3>1, HeadTailProperties, LenProperties
    <3>5. Follows(Append(s, Head(o)), 0, w, m) /\ Len(Append(s, Head(o))) = Len(s) + 1
      <4>1. Head(o) = FrameAt(0 + Len(s) + 1, w) /\ 0 + Len(s) + 1 <= m
        BY <3>2, <3>3
      <4> QED
        BY <3>1, <3>2, <3>4, <4>1, FollowsAppend
    <3>6. Past(t)' = Past(t)
      <4>1. Len(shown'[t]) + Len(outbound'[t]) = Len(s) + Len(o)
        BY <3>1, <3>2, <3>3, <3>4, <3>5
      <4> QED
        BY <4>1 DEF Past, s, o
    <3>7. (Routing(t)' <=> Routing(t)) /\ (Connected(t)' <=> Connected(t))
      BY <1>6, <2>1 DEF Forward, Routing, Connected, linkVars, agentVars
    <3>8. /\ Follows(shown'[t], 0, written'[t], Total(t)')
          /\ Follows(outbound'[t], Len(shown'[t]), written'[t], Total(t)')
      BY <1>1, <3>1, <3>3, <3>5 DEF w, m
    <3> HIDE DEF Follows
    <3>9. Routing(t)' => /\ Follows(up'[t], Past(t)', written'[t], Total(t)')
                         /\ Connected(t)' => Past(t)' + Len(up'[t]) = Total(t)'
      BY <1>1, <3>6, <3>7 DEF Flows
    <3> QED
      BY <1>1, <3>8, <3>9 DEF Flows
  <2>2. CASE /\ outbound' = [outbound EXCEPT ![t] = <<>>]
             /\ fwd' = [fwd EXCEPT ![t] = "done"]
             /\ UNCHANGED shown
    <3>1. outbound'[t] = <<>> /\ ~Routing(t)'
      BY <2>2 DEF Routing, ControlOK, ChannelsOK
    <3>2. Follows(<<>>, Len(shown[t]), written[t], Total(t))
      <4>1. Len(shown[t]) <= Total(t)
        BY DEF Flows, Follows
      <4> QED
        BY <4>1, FlowSizes, FollowsNothing
    <3> HIDE DEF Follows
    <3> QED
      BY <1>1, <2>2, <3>1, <3>2 DEF Flows
  <2> QED
    BY <1>6, <2>1, <2>2 DEF Forward
<1> QED
  BY <1>2, <1>3, <1>4, <1>5, <1>6 DEF Socket

\* What a shell that runs sends is the continuation of what it sent before.
LEMMA FlowsReported ==
    ASSUME ControlOK, ControlOK', ChannelsOK, NEW t \in Terms, Flows(t),
           NEW frames \in Seq(Frames), Report(t, frames),
           UNCHANGED <<shown, outbound, sessions, fwd>>, Connected(t)' <=> Connected(t),
           Total(t) = written[t], written[t] <= written'[t], written'[t] <= Total(t)',
           Follows(frames, Total(t), written'[t], Total(t)'),
           Total(t)' = Total(t) + Len(frames),
           shell'[t] \notin {"none", "opening"}
    PROVE  Flows(t)'
<1> DEFINE w == written[t]
           v == written'[t]
           m == Total(t)'
<1>1. /\ w \in Nat /\ v \in Nat /\ m \in Nat /\ w <= v /\ v <= m
      /\ Total(t) = w /\ m = w + Len(frames) /\ Len(frames) \in Nat
      /\ Len(shown[t]) \in Nat /\ Len(outbound[t]) \in Nat /\ Len(up[t]) \in Nat
      /\ Past(t) \in Nat
  <2>1. v \in Nat
    BY TerminalAssumption DEF ControlOK
  <2>2. Len(frames) \in Nat
    BY LenProperties
  <2>3. Total(t) \in Nat /\ w \in Nat
    BY FlowSizes
  <2>4. m \in Nat
    BY <2>2, <2>3
  <2> QED
    BY <2>1, <2>2, <2>3, <2>4, FlowSizes
<1>2. /\ shown[t] \in Seq(Frames) /\ outbound[t] \in Seq(Frames) /\ up[t] \in Seq(Frames)
      /\ Past(t)' = Past(t) /\ (Routing(t)' <=> Routing(t))
  BY DEF ChannelsOK, Past, Routing
<1>3. /\ Follows(shown[t], 0, w, w)
      /\ Follows(outbound[t], Len(shown[t]), w, w)
      /\ Routing(t) => Follows(up[t], Past(t), w, w)
      /\ Routing(t) /\ Connected(t) => Past(t) + Len(up[t]) = w
  BY <1>1 DEF Flows
<1>4. Follows(frames, w, v, m)
  BY <1>1
<1>5. up' = IF Connected(t) THEN [up EXCEPT ![t] = @ \o frames] ELSE up
  BY DEF Report
<1> HIDE DEF w, v, m
<1>6. /\ Follows(shown[t], 0, v, m)
      /\ Follows(outbound[t], Len(shown[t]), v, m)
      /\ Routing(t) => Follows(up[t], Past(t), v, m)
  BY <1>1, <1>2, <1>3, FollowsLonger
<1>7. ASSUME Routing(t), Connected(t)
      PROVE  /\ Follows(up'[t], Past(t), v, m)
             /\ Past(t) + Len(up'[t]) = m
  <2>1. up'[t] = up[t] \o frames
    BY <1>5, <1>7 DEF ChannelsOK
  <2>2. Follows(frames, Past(t) + Len(up[t]), v, m)
    BY <1>3, <1>4, <1>7
  <2>3. Follows(up[t] \o frames, Past(t), v, m) /\ Len(up[t] \o frames) = Len(up[t]) + Len(frames)
    BY <1>1, <1>2, <1>6, <1>7, <2>2, FollowsConcat
  <2>4. Past(t) + (Len(up[t]) + Len(frames)) = m
    BY <1>1, <1>3, <1>7
  <2> QED
    BY <2>1, <2>3, <2>4
<1>8. ASSUME Routing(t), ~Connected(t)
      PROVE  Follows(up'[t], Past(t), v, m)
  BY <1>5, <1>6, <1>8
<1> HIDE DEF Follows
<1>9. Routing(t)' => /\ Follows(up'[t], Past(t)', v, m)
                     /\ Connected(t)' => Past(t)' + Len(up'[t]) = m
  BY <1>2, <1>7, <1>8
<1>10. Follows(shown'[t], 0, v, m) /\ Follows(outbound'[t], Len(shown'[t]), v, m)
  BY <1>6
<1> QED
  BY <1>9, <1>10 DEF Flows, v, m

\* The agent's side of a terminal.
LEMMA FlowsAgent ==
    ASSUME ControlOK, ControlOK', ChannelsOK, NEW t \in Terms, Flows(t), Agent(t)
    PROVE  Flows(t)'
<1>1. /\ UNCHANGED <<shown, outbound, sessions, fwd>>
      /\ Connected(t)' <=> Connected(t)
      /\ Routing(t)' <=> Routing(t)
  BY DEF Agent, OpenShell, Write, ShellOver, Lose, socketVars, agentVars, linkVars, Connected,
         Routing
<1>2. Total(t) \in Nat /\ written[t] \in Nat
  BY FlowSizes
<1>3. CASE OpenShell(t)
  <2>0. shell[t] = "opening" /\ Total(t) = 0 /\ written[t] = 0 /\ up[t] = <<>>
    BY <1>3 DEF OpenShell, Flows, Total
  <2>1. CASE /\ shell' = [shell EXCEPT ![t] = "open"]
             /\ UNCHANGED <<written, up>>
    <3>1. shell'[t] = "open" /\ Total(t)' = Total(t)
      BY <2>0, <2>1 DEF Total, ControlOK
    <3> QED
      BY <1>1, <2>1, <3>1, FlowsStays
  <2>2. CASE /\ shell' = [shell EXCEPT ![t] = "over"]
             /\ written' = [written EXCEPT ![t] = 1]
             /\ Report(t, <<1, Exit>>)
    <3>1. shell'[t] = "over" /\ written'[t] = 1 /\ Total(t)' = 2
      BY <2>2 DEF Total, ControlOK
    <3>2. <<1, Exit>> \in Seq(Frames) /\ Len(<<1, Exit>>) = 2
      BY TerminalAssumption DEF Exit, Frames
    <3>3. Follows(<<1, Exit>>, 0, 1, 2)
      BY DEF Follows, FrameAt, Exit
    <3> HIDE DEF Follows
    <3>4. /\ Follows(<<1, Exit>>, Total(t), written'[t], Total(t)')
          /\ written[t] <= written'[t] /\ written'[t] <= Total(t)'
          /\ Total(t)' = Total(t) + Len(<<1, Exit>>)
      BY <2>0, <3>1, <3>2, <3>3
    <3> QED
      BY <1>1, <2>0, <2>2, <3>1, <3>2, <3>4, FlowsReported
  <2> QED
    BY <1>3, <2>1, <2>2 DEF OpenShell
<1>4. CASE Write(t)
  <2>1. /\ shell[t] = "open" /\ shell'[t] = "open" /\ written'[t] = written[t] + 1
        /\ written[t] < MaxOut /\ Report(t, <<written[t] + 1>>)
    BY <1>4 DEF Write, ControlOK
  <2>2. Total(t) = written[t] /\ Total(t)' = written[t] + 1
    BY <2>1 DEF Total
  <2>3. <<written[t] + 1>> \in Seq(Frames) /\ Len(<<written[t] + 1>>) = 1
    BY <1>2, <2>1, TerminalAssumption DEF Frames
  <2>4. Follows(<<written[t] + 1>>, written[t], written[t] + 1, written[t] + 1)
    BY <1>2 DEF Follows, FrameAt
  <2> HIDE DEF Follows
  <2>5. /\ Follows(<<written[t] + 1>>, Total(t), written'[t], Total(t)')
        /\ written[t] <= written'[t] /\ written'[t] <= Total(t)'
        /\ Total(t)' = Total(t) + Len(<<written[t] + 1>>)
    BY <1>2, <2>1, <2>2, <2>3, <2>4
  <2> QED
    BY <1>1, <2>1, <2>2, <2>3, <2>5, FlowsReported
<1>5. CASE ShellOver(t)
  <2>1. /\ shell[t] = "open" /\ shell'[t] = "over" /\ written' = written
        /\ Report(t, <<Exit>>)
    BY <1>5 DEF ShellOver, ControlOK
  <2>2. Total(t) = written[t] /\ Total(t)' = written[t] + 1
    BY <2>1 DEF Total
  <2>3. <<Exit>> \in Seq(Frames) /\ Len(<<Exit>>) = 1
    BY TerminalAssumption DEF Frames, Exit
  <2>4. Follows(<<Exit>>, written[t], written[t], written[t] + 1)
    BY <1>2 DEF Follows, FrameAt
  <2> HIDE DEF Follows
  <2>5. /\ Follows(<<Exit>>, Total(t), written'[t], Total(t)')
        /\ written[t] <= written'[t] /\ written'[t] <= Total(t)'
        /\ Total(t)' = Total(t) + Len(<<Exit>>)
    BY <1>2, <2>1, <2>2, <2>3, <2>4
  <2> QED
    BY <1>1, <2>1, <2>2, <2>3, <2>5, FlowsReported
<1>6. CASE Lose(t)
  <2>1. /\ up[t] # <<>> /\ ~link[via[t]] /\ up'[t] = Front(up[t])
        /\ UNCHANGED <<shell, written>> /\ Total(t)' = Total(t) /\ Past(t)' = Past(t)
    BY <1>1, <1>6 DEF Lose, ChannelsOK, agentVars, Total, Past
  <2>2. up[t] \in Seq(Frames) /\ Past(t) \in Nat
    BY FlowSizes DEF ChannelsOK
  <2>3. ~Connected(t) /\ shell[t] \notin {"none", "opening"}
    BY <2>1 DEF Connected, Flows
  <2>4. Routing(t) => Follows(up'[t], Past(t), written[t], Total(t))
    BY <1>2, <2>1, <2>2, FollowsFront DEF Flows
  <2> HIDE DEF Follows
  <2> QED
    BY <1>1, <2>1, <2>3, <2>4 DEF Flows
<1> QED
  BY <1>3, <1>4, <1>5, <1>6 DEF Agent

\* What the handler's loop passes to the agent and back.
LEMMA FlowsLoop ==
    ASSUME ControlOK, ChannelsOK, AskedInOrder, NEW t \in Terms, Flows(t),
           Deliver(t) \/ Relay(t)
    PROVE  Flows(t)'
<1>1. /\ UNCHANGED <<shown, fwd, written, linkVars, via, ended>>
      /\ Connected(t)' <=> Connected(t)
  BY DEF Deliver, Relay, socketVars, agentVars, linkVars, Connected
<1>2. CASE Deliver(t)
  <2>1. UNCHANGED <<outbound, sessions, up>> /\ (Routing(t)' <=> Routing(t))
    BY <1>2 DEF Deliver, socketVars, Routing
  <2>2. Head(down[t]) = "open" => shell[t] = "none"
    BY <1>2, OpenFindsNone DEF Deliver
  <2>3. shell'[t] = shell[t] \/ (shell[t] = "none" /\ shell'[t] = "opening")
    BY <1>2, <2>2 DEF Deliver, ControlOK
  <2>4. Total(t)' = Total(t)
    BY <1>1, <2>3 DEF Total
  <2> QED
    BY <1>1, <2>1, <2>3, <2>4, FlowsStays
<1>3. CASE Relay(t)
  <2>1. /\ up[t] # <<>> /\ up[t] \in Seq(Frames) /\ outbound[t] \in Seq(Frames)
        /\ up'[t] = Tail(up[t]) /\ shell' = shell
        /\ Total(t)' = Total(t) /\ shell[t] \notin {"none", "opening"}
        /\ Routing(t)' => Routing(t)
    BY <1>1, <1>3 DEF Relay, ChannelsOK, agentVars, Total, Flows, Routing
  <2>2. CASE ~Routing(t)
    <3>1. outbound' = outbound /\ ~Routing(t)'
      BY <1>3, <2>1, <2>2 DEF Relay, Routing
    <3> HIDE DEF Follows
    <3> QED
      BY <1>1, <2>1, <3>1 DEF Flows
  <2>3. CASE Routing(t)
    <3> DEFINE s == shown[t]
               o == outbound[t]
               u == up[t]
               w == written[t]
               m == Total(t)
               p == Past(t)
    <3>1. /\ Follows(u, p, w, m) /\ Follows(o, Len(s), w, m)
          /\ w \in Nat /\ m \in Nat /\ p \in Nat /\ Len(s) \in Nat /\ Len(o) \in Nat
          /\ p = Len(s) + Len(o)
      BY <2>3, FlowSizes DEF Flows, Past
    <3>2. outbound'[t] = Append(o, Head(u))
      BY <1>3, <2>3 DEF Relay, Routing, ChannelsOK
    <3>3. u # <<>> /\ u \in Seq(Frames) /\ o \in Seq(Frames) /\ up'[t] = Tail(u)
      BY <2>1
    <3> HIDE DEF s, o, u, w, m, p
    <3>4. /\ p + 1 <= m /\ Head(u) = FrameAt(p + 1, w)
          /\ Follows(Tail(u), p + 1, w, m) /\ Len(u) = Len(Tail(u)) + 1
      BY <3>1, <3>3, FollowsTail
    <3>5. Head(u) \in Frames /\ Len(Tail(u)) \in Nat
      BY <3>3, HeadTailProperties, LenProperties
    <3>6. /\ Follows(Append(o, Head(u)), Len(s), w, m)
          /\ Len(Append(o, Head(u))) = Len(o) + 1
      BY <3>1, <3>3, <3>4, <3>5, FollowsAppend
    <3>7. Past(t)' = p + 1
      <4>1. Len(shown'[t]) + Len(outbound'[t]) = Len(s) + (Len(o) + 1)
        BY <1>1, <3>2, <3>6 DEF s
      <4>2. Len(s) + (Len(o) + 1) = p + 1
        BY <3>1
      <4> QED
        BY <4>1, <4>2 DEF Past
    <3>8. ASSUME Connected(t)
          PROVE  p + 1 + Len(Tail(u)) = m
      <4>1. p + Len(u) = m
        BY <2>3, <3>8 DEF Flows, p, u, m
      <4>2. p + (Len(Tail(u)) + 1) = m
        BY <3>4, <4>1
      <4> DEFINE rest == Len(Tail(u))
      <4>3. rest \in Nat /\ p \in Nat /\ p + (rest + 1) = m
        BY <3>1, <3>5, <4>2
      <4> HIDE DEF rest
      <4>4. p + 1 + rest = m
        BY <4>3
      <4> QED
        BY <4>4 DEF rest
    <3>9. /\ Follows(outbound'[t], Len(shown'[t]), written'[t], Total(t)')
          /\ Follows(up'[t], Past(t)', written'[t], Total(t)')
          /\ Connected(t)' => Past(t)' + Len(up'[t]) = Total(t)'
      BY <1>1, <2>1, <3>2, <3>3, <3>4, <3>6, <3>7, <3>8 DEF s, w, m
    <3>10. Follows(shown'[t], 0, written'[t], Total(t)')
      BY <1>1, <2>1 DEF Flows
    <3> HIDE DEF Follows
    <3> QED
      BY <2>1, <3>9, <3>10 DEF Flows
  <2> QED
    BY <2>2, <2>3
<1> QED
  BY <1>2, <1>3

\* A step of a connection, or none: what was on its way may be lost with it.
LEMMA FlowsConnection ==
    ASSUME TermInv, NEW t \in Terms, Flows(t), Routes(t), [Next]_vars,
           \/ \E h \in Handlers : Connect(h) \/ LoopBreak(h) \/ Depart(h) \/ SessionEnds(h)
           \/ UNCHANGED vars
    PROVE  Flows(t)'
<1>1. /\ UNCHANGED <<tpc, via, sessions, outbound, fwd, shown, shell, written>>
      /\ \/ up' = up
         \/ up' = Cut(up) /\ \E h \in Handlers : Depart(h)
  BY DEF Connect, LoopBreak, Depart, SessionEnds, termVars, socketVars, agentVars, vars
<1>2. Total(t)' = Total(t) /\ (Routing(t)' <=> Routing(t))
  BY <1>1 DEF Total, Routing
<1>3. Routing(t) => via[t] \in Handlers
  BY DEF Routes, Routing, TermInv, Attended, Holding
<1>4. Routing(t) => (Connected(t)' => Connected(t))
  BY <1>1, <1>3, NeverReconnected DEF TermInv
<1>5. \/ up'[t] = up[t]
      \/ up'[t] = <<>> /\ ~Connected(t)'
  BY <1>1 DEF Cut, Connected
<1>6. ControlOK /\ ChannelsOK
  BY TypeHalves DEF TermInv
<1> QED
  BY <1>1, <1>2, <1>4, <1>5, <1>6, FlowsStays

OutputFlows == \A t \in Terms : Flows(t) /\ Routes(t)

\* Every step of Terminal, for the terminal it is about and for the others.
LEMMA FlowsStep ==
    ASSUME TermInv, TermInv', OutputFlows, [Next]_vars, NEW t \in Terms
    PROVE  Flows(t)'
<1>1. /\ ControlOK /\ ControlOK' /\ ChannelsOK /\ AskedInOrder /\ TermTypeOK
      /\ Flows(t) /\ Routes(t)
  BY TypeHalves, TypeHalvesNext DEF TermInv, OutputFlows
<1>2. ASSUME NEW u \in Terms, u # t, Socket(u) \/ Agent(u) \/ Deliver(u) \/ Relay(u)
      PROVE  Flows(t)'
  <2>1. /\ via'[t] = via[t] /\ fwd'[t] = fwd[t]
        /\ outbound'[t] = outbound[t] /\ shown'[t] = shown[t] /\ up'[t] = up[t]
        /\ shell'[t] = shell[t] /\ written'[t] = written[t]
        /\ t \in sessions' <=> t \in sessions
    BY <1>1, <1>2, OthersAlone
  <2>2. Total(t)' = Total(t) /\ (Routing(t)' <=> Routing(t))
    BY <2>1 DEF Total, Routing
  <2>3. Routing(t) => via[t] \in Handlers
    BY <1>1 DEF Routes, Routing, TermInv, Attended, Holding
  <2>4. Routing(t) => (Connected(t)' => Connected(t))
    BY <1>1, <2>1, <2>3, NeverReconnected
  <2> QED
    BY <1>1, <2>1, <2>2, <2>4, FlowsStays
<1>3. CASE Socket(t)
  BY <1>1, <1>3, FlowsSocket
<1>4. CASE Agent(t)
  BY <1>1, <1>4, FlowsAgent
<1>5. CASE Deliver(t) \/ Relay(t)
  BY <1>1, <1>5, FlowsLoop
<1>6. CASE \/ \E h \in Handlers : Connect(h) \/ LoopBreak(h) \/ Depart(h) \/ SessionEnds(h)
           \/ UNCHANGED vars
  BY <1>1, <1>6, FlowsConnection
<1> QED
  BY <1>2, <1>3, <1>4, <1>5, <1>6 DEF Next

\* The exit stays with the browser once it has come.
LEMMA ExitStays ==
    ASSUME ChannelsOK, NEW t \in Terms, ExitCame(t),
           \/ UNCHANGED <<outbound[t], shown[t]>>
           \/ /\ outbound[t] # <<>>
              /\ shown'[t] = Append(shown[t], Head(outbound[t]))
              /\ outbound'[t] = Tail(outbound[t])
           \/ \E e \in Frames : outbound'[t] = Append(outbound[t], e) /\ shown'[t] = shown[t]
    PROVE  ExitCame(t)'
<1> DEFINE o == outbound[t]
           s == shown[t]
<1>1. o \in Seq(Frames) /\ s \in Seq(Frames)
  BY DEF ChannelsOK
<1>2. Len(o) \in Nat /\ Len(s) \in Nat
  BY <1>1, LenProperties
<1>3. CASE UNCHANGED <<outbound[t], shown[t]>>
  BY <1>3 DEF ExitCame
<1>4. CASE /\ o # <<>> /\ shown'[t] = Append(s, Head(o)) /\ outbound'[t] = Tail(o)
  <2>1. /\ Head(o) \in Frames /\ Head(o) = o[1] /\ Len(Tail(o)) = Len(o) - 1
        /\ \A i \in 1..Len(Tail(o)) : Tail(o)[i] = o[i + 1]
    BY <1>1, <1>4, HeadTailProperties
  <2>2. /\ Len(Append(s, Head(o))) = Len(s) + 1
        /\ \A i \in 1..Len(s) : Append(s, Head(o))[i] = s[i]
        /\ Append(s, Head(o))[Len(s) + 1] = Head(o)
    BY <1>1, <2>1, AppendProperties
  <2>3. ASSUME NEW i \in 1..Len(s), s[i] = Exit
        PROVE  ExitCame(t)'
    BY <1>2, <1>4, <2>2, <2>3 DEF ExitCame
  <2>4. ASSUME NEW i \in 1..Len(o), o[i] = Exit
        PROVE  ExitCame(t)'
    <3>1. CASE i = 1
      BY <1>2, <1>4, <2>1, <2>2, <2>4, <3>1 DEF ExitCame
    <3>2. CASE i # 1
      <4>1. i - 1 \in 1..Len(Tail(o)) /\ (i - 1) + 1 = i
        BY <1>2, <2>1, <3>2
      <4>2. Tail(o)[i - 1] = Exit
        BY <2>1, <2>4, <4>1
      <4> QED
        BY <1>4, <4>1, <4>2 DEF ExitCame
    <3> QED
      BY <3>1, <3>2
  <2> QED
    BY <2>3, <2>4 DEF ExitCame
<1>5. ASSUME NEW e \in Frames, outbound'[t] = Append(o, e), shown'[t] = s
      PROVE  ExitCame(t)'
  <2>1. /\ Len(Append(o, e)) = Len(o) + 1
        /\ \A i \in 1..Len(o) : Append(o, e)[i] = o[i]
    BY <1>1, AppendProperties
  <2>2. \A i \in 1..Len(o) : i \in 1..Len(Append(o, e))
    BY <1>2, <2>1
  <2> QED
    BY <1>5, <2>1, <2>2 DEF ExitCame
<1> QED
  BY <1>3, <1>4, <1>5

\* The entry goes with the task or with the exit.
LEMMA RoutesStep ==
    ASSUME TermInv, OutputFlows, [Next]_vars, NEW t \in Terms
    PROVE  Routes(t)'
<1>1. ControlOK /\ ChannelsOK /\ Routes(t)
  BY TypeHalves DEF TermInv, OutputFlows
<1>2. ASSUME UNCHANGED <<tpc[t], fwd[t], outbound[t], shown[t]>>, t \in sessions' <=> t \in sessions
      PROVE  Routes(t)'
  BY <1>1, <1>2 DEF Routes, ExitCame
<1>3. ASSUME NEW u \in Terms, u # t, Socket(u) \/ Agent(u) \/ Deliver(u) \/ Relay(u)
      PROVE  Routes(t)'
  BY <1>1, <1>2, <1>3, OthersAlone
<1>4. CASE \/ \E h \in Handlers : Connect(h) \/ LoopBreak(h) \/ Depart(h) \/ SessionEnds(h)
           \/ Agent(t) \/ Deliver(t)
           \/ UNCHANGED vars
  <2>1. UNCHANGED <<tpc, sessions, outbound, fwd, shown>>
    BY <1>4 DEF Connect, LoopBreak, Depart, SessionEnds, Agent, OpenShell, Write, ShellOver,
                Lose, Deliver, vars, termVars, socketVars
  <2> QED
    BY <1>2, <2>1
<1>5. CASE Socket(t)
  <2>1. CASE TermRefuse(t) \/ TermOpen(t) \/ TermBreak(t) \/ TermClose(t)
             \/ (\E a \in Agents : TermResolve(t, a))
    <3>1. /\ UNCHANGED <<sessions, fwd, outbound, shown>>
          /\ \/ tpc[t] = "new" /\ tpc'[t] \in {"refused", "resolved"}
             \/ /\ tpc[t] \in Holding \ {"resolved"}
                /\ tpc'[t] \in Holding \ {"resolved"}
      BY <1>1, <2>1 DEF TermRefuse, TermOpen, TermBreak, TermClose, TermResolve, Step,
                        ControlOK, Holding
    <3> QED
      BY <1>1, <3>1 DEF Routes, ExitCame, Holding
  <2>2. CASE TermInsert(t)
    BY <1>1, <2>2 DEF TermInsert, Step, Routes, ControlOK, Holding
  <2>3. CASE TermReturn(t)
    BY <1>1, <2>3 DEF TermReturn, Step, Routes, ControlOK, Holding
  <2>4. CASE Forward(t)
    <3>1. tpc'[t] = tpc[t] /\ sessions' = sessions /\ fwd[t] = "running"
      BY <2>4 DEF Forward
    <3>2. CASE fwd'[t] = "done"
      BY <1>1, <3>1, <3>2 DEF Routes
    <3>3. CASE /\ outbound[t] # <<>>
               /\ shown' = [shown EXCEPT ![t] = Append(@, Head(outbound[t]))]
               /\ outbound' = [outbound EXCEPT ![t] = Tail(@)]
               /\ UNCHANGED fwd
      <4>1. /\ shown'[t] = Append(shown[t], Head(outbound[t]))
            /\ outbound'[t] = Tail(outbound[t])
        BY <1>1, <3>3 DEF ChannelsOK
      <4>2. ExitCame(t) => ExitCame(t)'
        BY <1>1, <3>3, <4>1, ExitStays
      <4> QED
        BY <1>1, <3>1, <3>3, <4>2 DEF Routes
    <3> QED
      BY <1>1, <2>4, <3>2, <3>3 DEF Forward, ControlOK
  <2> QED
    BY <1>5, <2>1, <2>2, <2>3, <2>4 DEF Socket
<1>6. CASE Relay(t)
  <2>1. /\ tpc'[t] = tpc[t] /\ fwd'[t] = fwd[t] /\ shown'[t] = shown[t]
        /\ up[t] # <<>> /\ up[t] \in Seq(Frames) /\ outbound[t] \in Seq(Frames)
    BY <1>1, <1>6 DEF Relay, ChannelsOK
  <2>2. Head(up[t]) \in Frames
    BY <2>1, HeadTailProperties
  <2>3. CASE t \in sessions /\ fwd[t] = "running"
    <3>1. outbound'[t] = Append(outbound[t], Head(up[t]))
      BY <1>1, <1>6, <2>3 DEF Relay, ChannelsOK
    <3>2. ExitCame(t) => ExitCame(t)'
      BY <1>1, <2>1, <2>2, <3>1, ExitStays
    <3>3. Head(up[t]) = Exit => ExitCame(t)'
      <4>1. /\ Len(outbound'[t]) = Len(outbound[t]) + 1
            /\ outbound'[t][Len(outbound[t]) + 1] = Head(up[t])
            /\ Len(outbound[t]) \in Nat
        BY <2>1, <2>2, <3>1, AppendProperties, LenProperties
      <4>2. Len(outbound[t]) + 1 \in 1..Len(outbound'[t])
        BY <4>1
      <4> QED
        BY <4>1, <4>2 DEF ExitCame
    <3>4. t \in sessions' \/ ExitCame(t)'
      BY <1>6, <2>3, <3>3 DEF Relay
    <3> QED
      BY <1>1, <2>1, <2>3, <3>4 DEF Routes
  <2>4. CASE ~(t \in sessions /\ fwd[t] = "running")
    <3>1. outbound' = outbound /\ sessions' \subseteq sessions
      BY <1>6, <2>4 DEF Relay
    <3>2. t \in sessions => fwd[t] = "done"
      BY <1>1, <2>4 DEF Routes, ControlOK, Holding
    <3> QED
      BY <1>1, <2>1, <3>1, <3>2 DEF Routes, ExitCame
  <2> QED
    BY <2>3, <2>4
<1> QED
  BY <1>3, <1>4, <1>5, <1>6 DEF Next

\* The output flows throughout.
THEOREM OutputFlowsAlways == Spec => []OutputFlows
<1>1. Init => OutputFlows
  <2> SUFFICES ASSUME Init, NEW t \in Terms
               PROVE  Flows(t) /\ Routes(t)
    BY DEF OutputFlows
  <2>1. /\ tpc[t] = "new" /\ sessions = {} /\ outbound[t] = <<>> /\ fwd[t] = "none"
        /\ shown[t] = <<>> /\ up[t] = <<>> /\ shell[t] = "none" /\ written[t] = 0
    BY DEF Init
  <2>2. Follows(<<>>, 0, 0, 0) /\ Len(<<>>) = 0 /\ Total(t) = 0 /\ ~Routing(t)
    BY <2>1, FollowsNothing DEF Total, Routing
  <2>3. Routes(t)
    BY <2>1 DEF Routes, Holding
  <2> HIDE DEF Follows
  <2>4. Flows(t)
    BY <2>1, <2>2 DEF Flows
  <2> QED
    BY <2>3, <2>4
<1>2. TermInv /\ TermInv' /\ OutputFlows /\ [Next]_vars => OutputFlows'
  <2> SUFFICES ASSUME TermInv, TermInv', OutputFlows, [Next]_vars
               PROVE  \A t \in Terms : Flows(t)' /\ Routes(t)'
    BY DEF OutputFlows
  <2> QED
    BY FlowsStep, RoutesStep
<1> QED
  BY <1>1, <1>2, TermInvariant, PTL DEF Spec

\* What a shell has sent, frame by frame.
LEMMA SentFrames ==
    ASSUME ControlOK, NEW t \in Terms
    PROVE  /\ Sent(t) \in Seq(Frames) /\ Len(Sent(t)) = Total(t)
           /\ \A i \in 1..Total(t) : Sent(t)[i] = FrameAt(i, written[t])
<1> DEFINE w == written[t]
           chunks == [i \in 1..w |-> i]
<1>1. w \in Nat /\ w <= MaxOut + 1
  BY TerminalAssumption DEF ControlOK
<1> HIDE DEF w
<1>2. chunks \in Seq(Frames) /\ Len(chunks) = w
  <2>1. \A i \in 1..w : i \in Frames
    BY <1>1, TerminalAssumption DEF Frames
  <2> QED
    BY <1>1, <2>1
<1>3. \A i \in 1..w : chunks[i] = i
  OBVIOUS
<1> HIDE DEF chunks
<1>4. CASE shell[t] = "over"
  <2>1. Sent(t) = chunks \o <<Exit>> /\ Total(t) = w + 1
    BY <1>4 DEF Sent, Total, chunks, w
  <2>2. <<Exit>> \in Seq(Frames) /\ Len(<<Exit>>) = 1 /\ <<Exit>>[1] = Exit
    BY TerminalAssumption DEF Exit, Frames
  <2>3. /\ chunks \o <<Exit>> \in Seq(Frames)
        /\ Len(chunks \o <<Exit>>) = w + 1
        /\ \A i \in 1..w + 1 : (chunks \o <<Exit>>)[i] =
                IF i <= w THEN chunks[i] ELSE <<Exit>>[i - w]
    BY <1>2, <2>2, ConcatProperties
  <2>4. ASSUME NEW i \in 1..w + 1
        PROVE  (chunks \o <<Exit>>)[i] = FrameAt(i, w)
    <3>1. CASE i <= w
      BY <1>1, <1>3, <2>3, <3>1 DEF FrameAt
    <3>2. CASE ~(i <= w)
      <4>1. i - w = 1
        BY <1>1, <3>2
      <4> QED
        BY <2>2, <2>3, <3>2, <4>1 DEF FrameAt
    <3> QED
      BY <3>1, <3>2
  <2> QED
    BY <2>1, <2>3, <2>4 DEF w
<1>5. CASE shell[t] # "over"
  <2>1. Sent(t) = chunks /\ Total(t) = w
    BY <1>2, <1>5, ConcatEmptySeq DEF Sent, Total, chunks, w
  <2> QED
    BY <1>1, <1>2, <1>3, <2>1 DEF FrameAt, w
<1> QED
  BY <1>4, <1>5

\* A browser is shown what its shell wrote from the first chunk on, in order and
\* without a gap, and nothing after the exit (ws.rs:553-570, 420-434).
THEOREM ShownInOrderAlways == Spec => []ShownInOrder
<1>1. TermInv /\ OutputFlows => ShownInOrder
  <2> SUFFICES ASSUME TermInv, OutputFlows, NEW t \in Terms
               PROVE  IsPrefix(shown[t] \o outbound[t], Sent(t))
    BY DEF ShownInOrder
  <2> DEFINE p == shown[t] \o outbound[t]
             q == Sent(t)
             n == Len(p)
  <2>1. ControlOK /\ ChannelsOK /\ Flows(t)
    BY TypeHalves DEF TermInv, OutputFlows
  <2>2. shown[t] \in Seq(Frames) /\ outbound[t] \in Seq(Frames)
    BY <2>1 DEF ChannelsOK
  <2>3. /\ q \in Seq(Frames) /\ Len(q) = Total(t)
        /\ \A i \in 1..Total(t) : q[i] = FrameAt(i, written[t])
    BY <2>1, SentFrames
  <2>4. p \in Seq(Frames) /\ Follows(p, 0, written[t], Total(t))
    <3>1. written[t] \in Nat /\ Total(t) \in Nat /\ 0 + Len(shown[t]) = Len(shown[t])
      BY <2>1, FlowSizes
    <3>2. /\ Follows(shown[t], 0, written[t], Total(t))
          /\ Follows(outbound[t], 0 + Len(shown[t]), written[t], Total(t))
      BY <2>1, <3>1 DEF Flows
    <3> HIDE DEF Follows
    <3> QED
      BY <2>2, <3>1, <3>2, FollowsConcat, ConcatProperties
  <2> HIDE DEF p, q
  <2>5. n \in Nat /\ n <= Total(t) /\ Total(t) \in Nat
    <3>1. Len(p) \in Nat
      BY <2>4, LenProperties
    <3>2. Total(t) \in Nat
      BY <2>1, FlowSizes
    <3>3. 0 + Len(p) <= Total(t)
      BY <2>4 DEF Follows
    <3> QED
      BY <3>1, <3>2, <3>3
  <2>6. \A i \in 1..n : p[i] = q[i] /\ p[i] \in Frames /\ q[i] \in Frames
    <3> SUFFICES ASSUME NEW i \in 1..n
                 PROVE  p[i] = q[i] /\ p[i] \in Frames
      OBVIOUS
    <3>1. i \in 1..Total(t) /\ 0 + i = i
      BY <2>5
    <3>2. p[i] = FrameAt(0 + i, written[t])
      BY <2>4 DEF Follows
    <3>3. p[i] \in Frames
      BY <2>4, ElementOfSeq
    <3> QED
      BY <2>3, <3>1, <3>2, <3>3
  <2> HIDE DEF n
  <2>7. SubSeq(p, 1, n) = SubSeq(q, 1, n)
    <3>1. /\ SubSeq(p, 1, n) \in Seq(Frames) /\ SubSeq(q, 1, n) \in Seq(Frames)
          /\ Len(SubSeq(p, 1, n)) = n /\ Len(SubSeq(q, 1, n)) = n
          /\ \A i \in 1..n : SubSeq(p, 1, n)[i] = p[i] /\ SubSeq(q, 1, n)[i] = q[i]
      BY <2>5, <2>6, SubSeqProperties
    <3> QED
      BY <2>6, <3>1, SeqEqual
  <2>8. Len(p) <= Len(q)
    BY <2>3, <2>5 DEF n
  <2> QED
    BY <2>7, <2>8 DEF IsPrefix, n, p, q
<1> QED
  BY <1>1, TermInvariant, OutputFlowsAlways, PTL

\* The entry of a terminal is there as long as its task needs it, and no longer
\* (ws.rs:555, 425-433, 606).
THEOREM RoutedWhileOpenAlways == Spec => []RoutedWhileOpen
<1>1. TermInv /\ OutputFlows => RoutedWhileOpen
  <2> SUFFICES ASSUME TermInv, OutputFlows, NEW t \in Terms
               PROVE  /\ t \in sessions => tpc[t] \in Holding
                      /\ tpc[t] = "streaming" /\ t \notin sessions =>
                            fwd[t] = "done" \/ Exit \in Range(outbound[t] \o shown[t])
    BY DEF RoutedWhileOpen
  <2>1. ChannelsOK /\ Routes(t)
    BY TypeHalves DEF TermInv, OutputFlows
  <2>2. ASSUME ExitCame(t)
        PROVE  Exit \in Range(outbound[t] \o shown[t])
    <3>1. Range(outbound[t] \o shown[t]) = Range(outbound[t]) \cup Range(shown[t])
      BY <2>1, RangeConcatenation DEF ChannelsOK
    <3>2. /\ DOMAIN outbound[t] = 1..Len(outbound[t])
          /\ DOMAIN shown[t] = 1..Len(shown[t])
      BY <2>1, LenProperties DEF ChannelsOK
    <3> QED
      BY <2>2, <3>1, <3>2 DEF ExitCame, Range
  <2> QED
    BY <2>1, <2>2 DEF Routes, Holding
<1> QED
  BY <1>1, TermInvariant, OutputFlowsAlways, PTL

=============================================================================
