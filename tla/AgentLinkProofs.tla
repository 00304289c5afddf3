-------------------------- MODULE AgentLinkProofs --------------------------
(***************************************************************************)
(* Proofs about AgentLink for any sets of agents and handlers.             *)
(*                                                                         *)
(* OnlineIsServed is not inductive: nothing in it says that a superseded   *)
(* handler fails the epoch comparison of its cleanup.  LinkInv adds why:   *)
(* epochs are handed out once (EpochsFresh), and a handler that still has  *)
(* its cleanup to run and whose epoch is the agent's conn_epoch is the     *)
(* registered one (CurrentIsRegistered).                                   *)
(***************************************************************************)
EXTENDS AgentLink, TLAPS

\* A handler past the lookup knows its agent; it has an epoch once greeted.
HandlerKnows ==
    \A h \in Handlers :
        /\ pc[h] \notin {"auth", "refused"} => agentOf[h] \in Agents
        /\ pc[h] \in {"auth", "found", "refused"} => epoch[h] = 0
        /\ pc[h] \notin {"auth", "found", "refused"} => epoch[h] > 0

\* next_epoch.fetch_add hands out each epoch once.
EpochsFresh ==
    /\ \A h \in Handlers : epoch[h] < nextEpoch
    /\ \A g, h \in Handlers : (g # h /\ epoch[g] > 0) => epoch[g] # epoch[h]

CurrentIsRegistered ==
    \A h \in Handlers :
        (pc[h] \in Serving /\ IsCurrent(h)) => agentTx[agentOf[h]] = h

LinkInv == /\ LinkTypeOK
           /\ HandlerKnows
           /\ EpochsFresh
           /\ OnlineIsServed
           /\ CurrentIsRegistered

-----------------------------------------------------------------------------
\* The invariant holds before any agent has connected.
LEMMA LinkInitInv == LinkInit => LinkInv
  BY LinkAssumption
  DEF LinkInit, LinkInv, LinkTypeOK, HandlerKnows, EpochsFresh, OnlineIsServed,
      CurrentIsRegistered, Points, Serving, Returned

\* No step of a handler breaks it; one step of the proof per action.
LEMMA LinkStepInv == LinkInv /\ [LinkNext]_linkVars => LinkInv'
<1> SUFFICES ASSUME LinkInv, [LinkNext]_linkVars
             PROVE  LinkInv'
  OBVIOUS
<1> USE LinkAssumption
        DEF LinkInv, LinkTypeOK, HandlerKnows, EpochsFresh, OnlineIsServed,
            CurrentIsRegistered, Points, Serving, Returned, Goto, IsCurrent
<1>1. ASSUME NEW h \in Handlers, Refuse(h)
      PROVE  LinkInv'
  BY <1>1 DEF Refuse
<1>2. ASSUME NEW h \in Handlers, NEW a \in Agents, Lookup(h, a)
      PROVE  LinkInv'
  BY <1>2 DEF Lookup
<1>3. ASSUME NEW h \in Handlers, Greet(h)
      PROVE  LinkInv'
  BY <1>3 DEF Greet
<1>4. ASSUME NEW h \in Handlers, Register(h)
      PROVE  LinkInv'
  BY <1>4 DEF Register
<1>5. ASSUME NEW h \in Handlers, Announce(h)
      PROVE  LinkInv'
  BY <1>5 DEF Announce
<1>6. ASSUME NEW h \in Handlers, LinkLost(h)
      PROVE  LinkInv'
  BY <1>6 DEF LinkLost
<1>7. ASSUME NEW h \in Handlers, Break(h)
      PROVE  LinkInv'
  BY <1>7 DEF Break
<1>8. ASSUME NEW h \in Handlers, Leave(h)
      PROVE  LinkInv'
  <2> DEFINE a == agentOf[h]
  <2>1. a \in Agents /\ pc[h] = "leaving"
    BY <1>8 DEF Leave
  <2>2. CASE IsCurrent(h)
    <3>1. agentTx[a] = h
      BY <2>1, <2>2
    <3>2. /\ online' = [online EXCEPT ![a] = FALSE]
          /\ agentTx' = [agentTx EXCEPT ![a] = None]
          /\ pc' = [pc EXCEPT ![h] = "cancelling"]
          /\ UNCHANGED <<connEpoch, nextEpoch, agentOf, epoch, link>>
      BY <1>8, <2>2 DEF Leave
    <3>3. LinkTypeOK' /\ HandlerKnows' /\ EpochsFresh'
      BY <2>1, <3>2
    \* h served only a, so no other agent loses its connection
    <3>4. OnlineIsServed'
      BY <2>1, <3>1, <3>2
    \* any other handler of a has another epoch than the one h had
    <3>5. CurrentIsRegistered'
      BY <2>1, <2>2, <3>1, <3>2
    <3> QED
      BY <3>3, <3>4, <3>5
  <2>3. CASE ~IsCurrent(h)
    <3>1. /\ pc' = [pc EXCEPT ![h] = "superseded"]
          /\ UNCHANGED <<online, connEpoch, agentTx, nextEpoch, agentOf, epoch, link>>
      BY <1>8, <2>3 DEF Leave
    <3> QED
      BY <2>1, <2>3, <3>1
  <2> QED
    BY <2>2, <2>3
<1>9. ASSUME NEW h \in Handlers, Cancel(h)
      PROVE  LinkInv'
  BY <1>9 DEF Cancel
<1>10. ASSUME NEW h \in Handlers, Part(h)
       PROVE  LinkInv'
  BY <1>10 DEF Part
<1>11. CASE UNCHANGED linkVars
  BY <1>11 DEF linkVars
<1> QED
  BY <1>1, <1>2, <1>3, <1>4, <1>5, <1>6, <1>7, <1>8, <1>9, <1>10, <1>11 DEF LinkNext

\* The invariant holds throughout.
THEOREM LinkInvariant == LinkSpec => []LinkInv
<1>1. LinkInit => LinkInv
  BY LinkInitInv
<1>2. LinkInv /\ [LinkNext]_linkVars => LinkInv'
  BY LinkStepInv
<1> QED
  BY <1>1, <1>2, PTL DEF LinkSpec

\* Every variable of the connection life cycle keeps its type.
THEOREM LinkTypeCorrect == LinkSpec => []LinkTypeOK
<1>1. LinkInv => LinkTypeOK
  BY DEF LinkInv
<1> QED
  BY <1>1, LinkInvariant, PTL

\* An agent shown online is served by a live handler, for any number of agents
\* and overlapping connections (ws.rs:141-155, 452-463).
THEOREM OnlineIsServedAlways == LinkSpec => []OnlineIsServed
<1>1. LinkInv => OnlineIsServed
  BY DEF LinkInv
<1> QED
  BY <1>1, LinkInvariant, PTL

-----------------------------------------------------------------------------
\* Of all steps only Register and a current Leave touch a registered sender.
LEMMA OnlyByItselfStep == LinkInv /\ [LinkNext]_linkVars => OnlyByItself
<1> SUFFICES ASSUME LinkInv, [LinkNext]_linkVars
             PROVE  OnlyByItself
  OBVIOUS
<1> USE LinkAssumption DEF LinkInv, LinkTypeOK, OnlyByItself, Goto
<1>1. ASSUME NEW h \in Handlers, Register(h)
      PROVE  OnlyByItself
  BY <1>1 DEF Register
<1>2. ASSUME NEW h \in Handlers, Leave(h)
      PROVE  OnlyByItself
  <2>1. agentOf[h] \in Agents /\ pc[h] = "leaving"
    BY <1>2 DEF Leave, HandlerKnows
  <2>2. IsCurrent(h) => agentTx[agentOf[h]] = h
    BY <2>1 DEF CurrentIsRegistered, Serving
  <2> QED
    BY <1>2, <2>1, <2>2 DEF Leave
<1>3. ASSUME UNCHANGED agentTx
      PROVE  OnlyByItself
  BY <1>3
<1> QED
  BY <1>1, <1>2, <1>3
  DEF LinkNext, linkVars, Refuse, Lookup, Greet, Announce, LinkLost, Break, Cancel, Part

\* The late cleanup of a superseded handler never takes its successor offline.
THEOREM TakenDownByItselfAlways == LinkSpec => TakenDownByItself
<1>1. LinkInv /\ [LinkNext]_linkVars => [OnlyByItself]_linkVars
  BY OnlyByItselfStep
<1>2. LinkSpec => []LinkInv
  BY LinkInvariant
<1> QED
  BY <1>1, <1>2, PTL DEF LinkSpec, TakenDownByItself

=============================================================================
