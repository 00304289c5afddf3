----------------------------- MODULE DiagProofs -----------------------------
(***************************************************************************)
(* Proofs about Diag for any agents, handlers, requests and budgets.       *)
(*                                                                         *)
(* Every action of Diag is an action of AgentLink or leaves its variables  *)
(* alone, so Diag implements AgentLink and inherits LinkInv.  On top of it *)
(* four invariants are built, each inductive relative to those before:     *)
(* BaseInv (types, and which requests are registered through which         *)
(* handlers), OneVoice (who may still say that a request is over),         *)
(* WithinCaps, and CancelledInTime.                                        *)
(***************************************************************************)
EXTENDS Diag, AgentLinkProofs, FiniteSetTheorems

\* A request beyond the gates went through a handler that had registered.
Routed ==
    \A r \in Requests :
        dpc[r] \in {"resolved", "inserted", "accepted"} =>
            /\ via[r] \in Handlers
            /\ pc[via[r]] \notin {"auth", "found", "greeted", "refused"}

\* An entry belongs to a request whose dispatch registered it; nothing has been
\* relayed before that, and no more than the budget while it is there.
Registered ==
    \A r \in Requests :
        /\ r \in pending => /\ dpc[r] \in {"inserted", "accepted"}
                            /\ relayed[r] <= MaxRelay
        /\ dpc[r] \in {"new", "resolved"} => relayed[r] = 0

BaseInv == DiagTypeOK /\ Routed /\ Registered

\* Of the entry, the frames still to broadcast and the done frame already
\* broadcast there is one at most for each request, and none before dispatch.
OneVoice ==
    \A r \in Requests :
        /\ \A g, h \in Owing(r) : g = h
        /\ \A h \in Handlers : ~(r \in closing[h] /\ out[h].req = r /\ out[h].done)
        /\ Owing(r) # {} => r \notin pending /\ doneShown[r] = 0
        /\ r \in pending => doneShown[r] = 0
        /\ dpc[r] \in {"new", "resolved"} => Owing(r) = {} /\ doneShown[r] = 0
        /\ doneShown[r] <= 1

\* An entry outlives the cancellation of its connection only if it came later.
CancelledInTime ==
    \A r \in pending : pc[via[r]] \in {"parting", "gone"} => r \in late

-----------------------------------------------------------------------------
(* Diag implements AgentLink                                               *)

\* Every step of Diag is a step of a connection or leaves the connections alone.
LEMMA StepIsLinkStep == [Next]_vars => [LinkNext]_linkVars
<1> USE DEF Next, Connect, Relay, Socket, Cleanup, Dispatch
<1>1. ASSUME NEW h \in Handlers, Connect(h)
      PROVE  LinkNext
  BY <1>1 DEF LinkNext
<1>2. ASSUME NEW h \in Handlers, Relay(h)
      PROVE  UNCHANGED linkVars
  BY <1>2 DEF Deliver, Frame, CloseOut, Emit
<1>3. ASSUME NEW h \in Handlers, Cleanup(h)
      PROVE  LinkNext
  BY <1>3 DEF LinkNext, DiagBreak, DiagLeave, DiagCancel, DiagPart
<1>6. ASSUME NEW h \in Handlers, Socket(h)
      PROVE  [LinkNext]_linkVars
  BY <1>6 DEF LinkNext, DiagLinkLost, SocketEnds, TimerTick, Chatter
<1>4. ASSUME NEW r \in Requests, Dispatch(r)
      PROVE  UNCHANGED linkVars
  BY <1>4 DEF GateRefuse, Resolve, Insert, Send, Expire
<1>5. CASE UNCHANGED vars
  BY <1>5 DEF vars
<1> QED
  BY <1>1, <1>2, <1>3, <1>4, <1>5, <1>6

\* The diagnostics never change what a connection does.
THEOREM DiagImplementsLink == Spec => LinkSpec
<1>1. Init => LinkInit
  BY DEF Init
<1>2. [Next]_vars => [LinkNext]_linkVars
  BY StepIsLinkStep
<1> QED
  BY <1>1, <1>2, PTL DEF Spec, LinkSpec

\* An agent shown online is served, whatever diagnostics run.
THEOREM DiagOnlineIsServed == Spec => []OnlineIsServed
  BY DiagImplementsLink, OnlineIsServedAlways

\* No late cleanup takes another connection down, whatever diagnostics run.
THEOREM DiagTakenDownByItself == Spec => TakenDownByItself
  BY DiagImplementsLink, TakenDownByItselfAlways

-----------------------------------------------------------------------------
(* types and routing                                                       *)

\* No request has been made yet.
LEMMA BaseInit == Init => BaseInv
  BY DiagAssumption
  DEF Init, DiagInit, LinkInit, BaseInv, DiagTypeOK, Routed, Registered, NoFrame

\* Each action keeps the types and the route of every request.
LEMMA BaseStep == LinkInv /\ BaseInv /\ [Next]_vars => BaseInv'
<1> SUFFICES ASSUME LinkInv, BaseInv, [Next]_vars
             PROVE  BaseInv'
  OBVIOUS
<1> USE DiagAssumption
        DEF BaseInv, DiagTypeOK, Routed, Registered, LinkInv, LinkTypeOK, Goto, NoFrame,
            linkVars
<1>1. ASSUME NEW h \in Handlers, Connect(h)
      PROVE  BaseInv'
  BY <1>1 DEF Connect, Refuse, Lookup, Greet, Register, Announce, diagVars
<1>16. ASSUME NEW h \in Handlers, Socket(h)
      PROVE  BaseInv'
  BY <1>16 DEF Socket, DiagLinkLost, SocketEnds, TimerTick, Chatter, LinkLost
<1>2. ASSUME NEW h \in Handlers, NEW r \in Requests, Deliver(h, r)
      PROVE  BaseInv'
  BY <1>2 DEF Deliver, InLoop
<1>3. ASSUME NEW h \in Handlers, NEW r \in Requests, NEW done \in BOOLEAN, NEW bytes \in {0, 1},
             Frame(h, r, done, bytes)
      PROVE  BaseInv'
  <2>1. relayed[r] + bytes \in Nat
    BY <1>3 DEF Frame
  <2>2. CASE r \in pending /\ AgentOfReq(r) = agentOf[h]
    <3>1. relayed[r] + bytes \in 0..(MaxRelay + 1)
      BY <1>3, <2>2
    <3>2. /\ relayed' = [relayed EXCEPT ![r] = @ + bytes]
          /\ pending' \in {pending, pending \ {r}}
          /\ relayed[r] + bytes > MaxRelay => pending' = pending \ {r}
          /\ aged' = aged \cap pending'
          /\ \E d \in BOOLEAN : out' = [out EXCEPT ![h] = [req |-> r, done |-> d]]
          /\ running' \in {running, [running EXCEPT ![h] = @ \ {r}]}
          /\ UNCHANGED <<linkVars, dpc, via, queue, closing, doneShown, late>>
      BY <1>3, <2>2 DEF Frame, Take
    <3>3. DiagTypeOK'
      <4>1. relayed' \in [Requests -> 0..(MaxRelay + 1)]
        BY <3>1, <3>2
      <4>2. out' \in [Handlers -> [req : Requests \cup {None}, done : BOOLEAN]]
        BY <3>2
      <4>3. running' \in [Handlers -> SUBSET Requests]
        BY <1>3 DEF Frame
      <4> QED
        BY <3>2, <4>1, <4>2, <4>3
    <3>4. Routed'
      BY <3>2
    <3>5. Registered'
      BY <2>2, <3>1, <3>2
    <3> QED
      BY <3>3, <3>4, <3>5
  <2>3. CASE ~(r \in pending /\ AgentOfReq(r) = agentOf[h])
    BY <1>3, <2>3 DEF Frame
  <2> QED
    BY <2>2, <2>3
<1>4. ASSUME NEW h \in Handlers, NEW r \in Requests, CloseOut(h, r)
      PROVE  BaseInv'
  BY <1>4 DEF CloseOut, ShowDone
<1>5. ASSUME NEW h \in Handlers, Emit(h)
      PROVE  BaseInv'
  BY <1>5 DEF Emit, ShowDone
<1>6. ASSUME NEW h \in Handlers, DiagBreak(h)
      PROVE  BaseInv'
  BY <1>6 DEF DiagBreak, Break
<1>7. ASSUME NEW h \in Handlers, DiagLeave(h)
      PROVE  BaseInv'
  BY <1>7 DEF DiagLeave, Leave, Dropped
<1>8. ASSUME NEW h \in Handlers, DiagCancel(h)
      PROVE  BaseInv'
  BY <1>8 DEF DiagCancel, Cancel, Orphans, InFlight, AgentOfReq
<1>9. ASSUME NEW h \in Handlers, DiagPart(h)
      PROVE  BaseInv'
  BY <1>9 DEF DiagPart, Part, Dropped
<1>10. ASSUME NEW r \in Requests, GateRefuse(r)
      PROVE  BaseInv'
  BY <1>10 DEF GateRefuse
<1>11. ASSUME NEW r \in Requests, NEW a \in Agents, Resolve(r, a)
      PROVE  BaseInv'
  <2>1. CASE online[a] /\ agentTx[a] # None
    \* the registered handler of an online agent is past Register
    <3>1. agentTx[a] \in Handlers /\ pc[agentTx[a]] \in Serving
      BY <2>1 DEF OnlineIsServed
    <3>2. via' = [via EXCEPT ![r] = agentTx[a]] /\ dpc' = [dpc EXCEPT ![r] = "resolved"]
      BY <1>11, <2>1 DEF Resolve
    <3>3. UNCHANGED <<linkVars, pending, aged, relayed, queue, running, out, closing,
                      doneShown, late>>
      BY <1>11 DEF Resolve
    <3>4. r \notin pending /\ relayed[r] = 0
      BY <1>11 DEF Resolve
    <3>5. DiagTypeOK'
      BY <3>1, <3>2, <3>3
    <3>6. Routed' /\ Registered'
      BY <3>1, <3>2, <3>3, <3>4 DEF Serving
    <3> QED
      BY <3>5, <3>6
  <2>2. CASE ~(online[a] /\ agentTx[a] # None)
    <3>1. /\ dpc[r] = "new" /\ dpc' = [dpc EXCEPT ![r] = "refused"]
          /\ UNCHANGED <<linkVars, via, pending, aged, relayed, queue, running, out,
                         closing, doneShown, late>>
      BY <1>11, <2>2 DEF Resolve
    <3> QED
      BY <3>1
  <2> QED
    BY <2>1, <2>2
<1>12. ASSUME NEW r \in Requests, Insert(r)
      PROVE  BaseInv'
  <2>1. CASE Full(pending \ aged, r)
    <3>1. /\ pending' = pending \ aged /\ aged' = {}
          /\ dpc[r] = "resolved" /\ dpc' = [dpc EXCEPT ![r] = "refused"]
          /\ UNCHANGED <<linkVars, via, relayed, queue, running, out, closing,
                         doneShown, late>>
      BY <1>12, <2>1 DEF Insert
    <3> QED
      BY <3>1
  <2>2. CASE ~Full(pending \ aged, r)
    BY <1>12, <2>2 DEF Insert
  <2> QED
    BY <2>1, <2>2
<1>13. ASSUME NEW r \in Requests, Send(r)
      PROVE  BaseInv'
  <2>1. CASE pc[via[r]] \in Returned
    <3>1. /\ pending' = pending \ {r} /\ aged' = aged \ {r}
          /\ dpc[r] = "inserted" /\ dpc' = [dpc EXCEPT ![r] = "refused"]
          /\ UNCHANGED <<linkVars, via, relayed, queue, running, out, closing,
                         doneShown, late>>
      BY <1>13, <2>1 DEF Send
    <3> QED
      BY <3>1
  <2>2. CASE pc[via[r]] \notin Returned
    <3>1. queue' = [queue EXCEPT ![via[r]] = @ \cup {r}] /\ via[r] \in Handlers
      BY <1>13, <2>2 DEF Send
    <3>2. queue' \in [Handlers -> SUBSET Requests]
      BY <3>1
    <3> QED
      BY <1>13, <2>2, <3>2 DEF Send
  <2> QED
    BY <2>1, <2>2
<1>14. ASSUME NEW r \in Requests, Expire(r)
      PROVE  BaseInv'
  BY <1>14 DEF Expire
<1>15. CASE UNCHANGED vars
  BY <1>15 DEF vars, linkVars, diagVars
<1> QED
  BY <1>1, <1>2, <1>3, <1>4, <1>5, <1>6, <1>7, <1>8, <1>9, <1>10, <1>11, <1>12,
     <1>13, <1>14, <1>15, <1>16 DEF Next, Relay, Cleanup, Dispatch

\* A timer never runs past its deadline.
LEMMA SocketStep == SocketTypeOK /\ [Next]_vars => SocketTypeOK'
<1> SUFFICES ASSUME SocketTypeOK, [Next]_vars
             PROVE  SocketTypeOK'
  OBVIOUS
<1> USE DiagAssumption DEF SocketTypeOK
<1>1. ASSUME UNCHANGED socketVars
      PROVE  SocketTypeOK'
  BY <1>1 DEF socketVars
<1>2. ASSUME NEW h \in Handlers, Written(h)
      PROVE  SocketTypeOK'
  BY <1>2 DEF Written
<1>3. ASSUME NEW h \in Handlers, Socket(h), ~Chatter(h)
      PROVE  SocketTypeOK'
  BY <1>3 DEF Socket, DiagLinkLost, SocketEnds, TimerTick
<1>4. ASSUME NEW h \in Handlers, NEW r \in Requests, NEW done \in BOOLEAN, NEW bytes \in {0, 1},
             Frame(h, r, done, bytes)
      PROVE  SocketTypeOK'
  BY <1>4 DEF Frame
<1>5. ASSUME NEW h \in Handlers, DiagBreak(h)
      PROVE  SocketTypeOK'
  BY <1>5 DEF DiagBreak
<1>6. ASSUME NEW h \in Handlers,
             \/ Connect(h) \/ Emit(h) \/ DiagLeave(h) \/ DiagCancel(h) \/ DiagPart(h)
             \/ \E r \in Requests : CloseOut(h, r)
      PROVE  UNCHANGED socketVars
  BY <1>6 DEF Connect, Emit, CloseOut, DiagLeave, DiagCancel, DiagPart, diagVars
<1>7. ASSUME NEW r \in Requests, Dispatch(r)
      PROVE  UNCHANGED socketVars
  BY <1>7 DEF Dispatch, GateRefuse, Resolve, Insert, Send, Expire
<1>8. CASE UNCHANGED vars
  BY <1>1, <1>8 DEF vars, diagVars
<1> QED
  BY <1>1, <1>2, <1>3, <1>4, <1>5, <1>6, <1>7, <1>8
  DEF Next, Relay, Cleanup, Socket, Chatter, Deliver

-----------------------------------------------------------------------------
(* one done frame per request                                              *)

\* Nobody owes a frame yet.
LEMMA OneVoiceInit == Init => OneVoice
  BY DiagAssumption DEF Init, DiagInit, OneVoice, Owing, NoFrame

\* Whoever takes an entry is the only one to speak for it afterwards.
LEMMA OneVoiceStep == BaseInv /\ OneVoice /\ [Next]_vars => OneVoice'
<1> SUFFICES ASSUME BaseInv, OneVoice, [Next]_vars
             PROVE  OneVoice'
  OBVIOUS
<1> USE DiagAssumption DEF BaseInv, DiagTypeOK, Registered, OneVoice, Owing, NoFrame
<1>1. ASSUME NEW h \in Handlers, Connect(h)
      PROVE  OneVoice'
  BY <1>1 DEF Connect, Refuse, Lookup, Greet, Register, Announce, diagVars
<1>16. ASSUME NEW h \in Handlers, Socket(h)
      PROVE  OneVoice'
  BY <1>16 DEF Socket, DiagLinkLost, SocketEnds, TimerTick, Chatter, LinkLost
<1>2. ASSUME NEW h \in Handlers, NEW r \in Requests, Deliver(h, r)
      PROVE  OneVoice'
  BY <1>2 DEF Deliver, InLoop
<1>3. ASSUME NEW h \in Handlers, NEW r \in Requests, NEW done \in BOOLEAN, NEW bytes \in {0, 1},
             Frame(h, r, done, bytes)
      PROVE  OneVoice'
  <2>1. CASE r \in pending /\ AgentOfReq(r) = agentOf[h]
    <3> DEFINE over == relayed[r] + bytes > MaxRelay
               d == done \/ over
    <3>1. /\ out[h] = NoFrame
          /\ out' = [out EXCEPT ![h] = [req |-> r, done |-> d]]
          /\ pending' = IF d THEN pending \ {r} ELSE pending
          /\ UNCHANGED <<dpc, closing, doneShown>>
      BY <1>3, <2>1 DEF Frame, InLoop, Take
    <3>2. ASSUME NEW q \in Requests, q # r
          PROVE  Owing(q)' = Owing(q)
      BY <3>1, <3>2
    \* the entry was there, so nobody owed the done frame yet
    <3>3. Owing(r)' = IF d THEN {h} ELSE {}
      <4>1. \A g \in Handlers : r \notin closing[g] /\ ~(out[g].req = r /\ out[g].done)
        BY <2>1
      <4>2. out'[h] = [req |-> r, done |-> d] /\ \A g \in Handlers \ {h} : out'[g] = out[g]
        BY <3>1
      <4>3. out'[h].req = r /\ out'[h].done = d
        BY <4>2
      <4> HIDE DEF d
      <4>4. \A g \in Handlers : (r \in closing'[g] \/ (out'[g].req = r /\ out'[g].done))
                                   <=> (g = h /\ d)
        BY <3>1, <4>1, <4>2, <4>3
      <4> QED
        BY <4>4
    <3>4. ASSUME NEW q \in Requests, NEW g \in Handlers
          PROVE  ~(q \in closing'[g] /\ out'[g].req = q /\ out'[g].done)
      BY <2>1, <3>1
    <3> HIDE DEF d, Owing
    <3> QED
      BY <2>1, <3>1, <3>2, <3>3, <3>4
  <2>2. CASE ~(r \in pending /\ AgentOfReq(r) = agentOf[h])
    BY <1>3, <2>2 DEF Frame
  <2> QED
    BY <2>1, <2>2
<1>4. ASSUME NEW h \in Handlers, NEW r \in Requests, CloseOut(h, r)
      PROVE  OneVoice'
  BY <1>4 DEF CloseOut, ShowDone
<1>5. ASSUME NEW h \in Handlers, Emit(h)
      PROVE  OneVoice'
  BY <1>5 DEF Emit, ShowDone
<1>6. ASSUME NEW h \in Handlers, DiagBreak(h)
      PROVE  OneVoice'
  BY <1>6 DEF DiagBreak, Break
<1>7. ASSUME NEW h \in Handlers, DiagLeave(h)
      PROVE  OneVoice'
  BY <1>7 DEF DiagLeave, Leave, Dropped
<1>8. ASSUME NEW h \in Handlers, DiagCancel(h)
      PROVE  OneVoice'
  BY <1>8 DEF DiagCancel, Cancel, Orphans, InFlight, AgentOfReq
<1>9. ASSUME NEW h \in Handlers, DiagPart(h)
      PROVE  OneVoice'
  BY <1>9 DEF DiagPart, Part, Dropped
<1>10. ASSUME NEW r \in Requests, GateRefuse(r)
      PROVE  OneVoice'
  BY <1>10 DEF GateRefuse
<1>11. ASSUME NEW r \in Requests, NEW a \in Agents, Resolve(r, a)
      PROVE  OneVoice'
  BY <1>11 DEF Resolve
<1>12. ASSUME NEW r \in Requests, Insert(r)
      PROVE  OneVoice'
  BY <1>12 DEF Insert
<1>13. ASSUME NEW r \in Requests, Send(r)
      PROVE  OneVoice'
  BY <1>13 DEF Send
<1>14. ASSUME NEW r \in Requests, Expire(r)
      PROVE  OneVoice'
  BY <1>14 DEF Expire
<1>15. CASE UNCHANGED vars
  BY <1>15 DEF vars, linkVars, diagVars
<1> QED
  BY <1>1, <1>2, <1>3, <1>4, <1>5, <1>6, <1>7, <1>8, <1>9, <1>10, <1>11, <1>12,
     <1>13, <1>14, <1>15, <1>16 DEF Next, Relay, Cleanup, Dispatch

-----------------------------------------------------------------------------
(* the in-flight budgets                                                   *)

\* A set of requests that is a subset of another's is no larger.
LEMMA SmallerSet ==
    ASSUME NEW S \in SUBSET Requests, NEW T \in SUBSET S, NEW n \in Nat,
           Cardinality(S) <= n
    PROVE  Cardinality(T) <= n
<1>1. IsFiniteSet(S)
  BY DiagAssumption, FS_Subset
<1>2. IsFiniteSet(T) /\ Cardinality(T) <= Cardinality(S)
  BY <1>1, FS_Subset
<1>3. Cardinality(S) \in Nat /\ Cardinality(T) \in Nat
  BY <1>1, <1>2, FS_CardinalityType
<1> QED
  BY <1>2, <1>3

\* One more request keeps a set that is below its cap within it.
LEMMA RoomForOne ==
    ASSUME NEW S \in SUBSET Requests, NEW r \in Requests, NEW n \in Nat,
           ~(Cardinality(S) >= n)
    PROVE  Cardinality(S \cup {r}) <= n
<1>1. IsFiniteSet(S)
  BY DiagAssumption, FS_Subset
<1>2. Cardinality(S) \in Nat
  BY <1>1, FS_CardinalityType
<1>3. Cardinality(S \cup {r}) \in {Cardinality(S), Cardinality(S) + 1}
  BY <1>1, FS_AddElement
<1> QED
  BY <1>2, <1>3

\* A registered request keeps its handler, and that handler its agent.
LEMMA AgentOfReqStable ==
    ASSUME BaseInv, LinkInv, [Next]_vars
    PROVE  \A r \in pending : AgentOfReq(r)' = AgentOfReq(r)
<1> USE DEF BaseInv, DiagTypeOK, Routed, Registered, AgentOfReq
<1>1. ASSUME NEW r \in pending
      PROVE  via'[r] = via[r]
  BY DEF Next, Connect, Relay, Socket, Cleanup, Dispatch, Deliver, Chatter, DiagLinkLost,
         SocketEnds, TimerTick, Frame, CloseOut, Emit,
         DiagBreak, DiagLeave, DiagCancel, DiagPart, GateRefuse, Resolve, Insert, Send,
         Expire, vars, diagVars
<1>2. ASSUME NEW h \in Handlers, pc[h] # "auth"
      PROVE  agentOf'[h] = agentOf[h]
  BY <1>2, StepIsLinkStep
  DEF LinkNext, linkVars, Refuse, Lookup, Greet, Register, Announce, LinkLost, Break,
      Leave, Cancel, Part, Goto, LinkInv, LinkTypeOK
<1> QED
  BY <1>1, <1>2

\* The empty table is within the caps.
LEMMA CapsInit == Init => WithinCaps
  BY FS_EmptySet, DiagAssumption DEF Init, DiagInit, WithinCaps, InFlight

\* Only Insert adds an entry, and it finds room for one.
LEMMA CapsStep == LinkInv /\ BaseInv /\ WithinCaps /\ [Next]_vars => WithinCaps'
<1> SUFFICES ASSUME LinkInv, BaseInv, WithinCaps, [Next]_vars
             PROVE  WithinCaps'
  OBVIOUS
<1> USE DiagAssumption DEF BaseInv, DiagTypeOK, WithinCaps
\* every step but Insert only removes entries
<1>1. ASSUME pending' \subseteq pending
      PROVE  WithinCaps'
  <2>1. Cardinality(pending') <= Total
    BY <1>1, SmallerSet
  <2>2. ASSUME NEW a \in Agents
        PROVE  Cardinality(InFlight(pending, a)') <= PerAgent
    <3>1. InFlight(pending, a)' \subseteq InFlight(pending, a)
      BY <1>1, AgentOfReqStable DEF InFlight
    <3> QED
      BY <3>1, SmallerSet DEF InFlight
  <2> QED
    BY <2>1, <2>2
<1>2. ASSUME NEW r \in Requests, Insert(r)
      PROVE  WithinCaps'
  <2> DEFINE kept == pending \ aged
  <2>1. CASE Full(kept, r)
    BY <1>1, <1>2, <2>1 DEF Insert
  <2>2. CASE ~Full(kept, r)
    <3>1. pending' = kept \cup {r} /\ UNCHANGED <<agentOf, via>>
      BY <1>2, <2>2 DEF Insert, linkVars
    <3>2. Cardinality(pending') <= Total
      BY <2>2, <3>1, RoomForOne DEF Full
    <3>3. ASSUME NEW a \in Agents, a # AgentOfReq(r)
          PROVE  Cardinality(InFlight(pending, a)') <= PerAgent
      <4>1. InFlight(pending, a)' \subseteq InFlight(pending, a)
        BY <3>1, <3>3 DEF InFlight, AgentOfReq
      <4> QED
        BY <4>1, SmallerSet DEF InFlight
    <3>4. Cardinality(InFlight(pending, AgentOfReq(r))') <= PerAgent
      <4>1. InFlight(pending, AgentOfReq(r))' = InFlight(kept, AgentOfReq(r)) \cup {r}
        BY <3>1 DEF InFlight, AgentOfReq
      <4>2. ~(Cardinality(InFlight(kept, AgentOfReq(r))) >= PerAgent)
        BY <2>2 DEF Full
      <4> QED
        BY <4>1, <4>2, RoomForOne DEF InFlight
    <3>5. AgentOfReq(r)' = AgentOfReq(r)
      BY <3>1 DEF AgentOfReq
    <3> QED
      BY <3>2, <3>3, <3>4, <3>5
  <2> QED
    BY <2>1, <2>2
<1>3. (\E r \in Requests : Insert(r)) \/ pending' \subseteq pending
  BY DEF Next, Connect, Relay, Socket, Cleanup, Dispatch, Deliver, Chatter, DiagLinkLost,
         SocketEnds, TimerTick, Frame, Take, CloseOut, Emit,
         DiagBreak, DiagLeave, DiagCancel, DiagPart, GateRefuse, Resolve, Send, Expire,
         vars, diagVars
<1> QED
  BY <1>1, <1>2, <1>3

-----------------------------------------------------------------------------
(* what a connection leaves behind, and what leaves diag_pending           *)

\* No connection has been cancelled yet.
LEMMA CancelledInit == Init => CancelledInTime
  BY DEF Init, DiagInit, CancelledInTime

\* Only DiagCancel makes a connection part, and it takes the entries with it.
LEMMA CancelledStep ==
    LinkInv /\ BaseInv /\ CancelledInTime /\ [Next]_vars => CancelledInTime'
<1> SUFFICES ASSUME LinkInv, BaseInv, CancelledInTime, [Next]_vars
             PROVE  CancelledInTime'
  OBVIOUS
<1> USE DEF BaseInv, DiagTypeOK, Routed, Registered, LinkInv, LinkTypeOK, CancelledInTime,
            Returned, Goto, linkVars
<1>1. ASSUME NEW h \in Handlers, Connect(h)
      PROVE  CancelledInTime'
  BY <1>1 DEF Connect, Refuse, Lookup, Greet, Register, Announce, diagVars
<1>16. ASSUME NEW h \in Handlers, Socket(h)
      PROVE  CancelledInTime'
  BY <1>16 DEF Socket, DiagLinkLost, SocketEnds, TimerTick, Chatter, LinkLost
<1>2. ASSUME NEW h \in Handlers, NEW r \in Requests, Deliver(h, r)
      PROVE  CancelledInTime'
  BY <1>2 DEF Deliver, InLoop
<1>3. ASSUME NEW h \in Handlers, NEW r \in Requests, NEW done \in BOOLEAN, NEW bytes \in {0, 1},
             Frame(h, r, done, bytes)
      PROVE  CancelledInTime'
  BY <1>3 DEF Frame, InLoop, Take
<1>4. ASSUME NEW h \in Handlers, NEW r \in Requests, CloseOut(h, r)
      PROVE  CancelledInTime'
  BY <1>4 DEF CloseOut, ShowDone
<1>5. ASSUME NEW h \in Handlers, Emit(h)
      PROVE  CancelledInTime'
  BY <1>5 DEF Emit, ShowDone
<1>6. ASSUME NEW h \in Handlers, DiagBreak(h)
      PROVE  CancelledInTime'
  BY <1>6 DEF DiagBreak, Break
<1>7. ASSUME NEW h \in Handlers, DiagLeave(h)
      PROVE  CancelledInTime'
  BY <1>7 DEF DiagLeave, Leave, Dropped
<1>8. ASSUME NEW h \in Handlers, DiagCancel(h)
      PROVE  CancelledInTime'
  BY <1>8 DEF DiagCancel, Cancel, Orphans, InFlight, AgentOfReq
<1>9. ASSUME NEW h \in Handlers, DiagPart(h)
      PROVE  CancelledInTime'
  BY <1>9 DEF DiagPart, Part, Dropped
<1>10. ASSUME NEW r \in Requests, GateRefuse(r)
      PROVE  CancelledInTime'
  BY <1>10 DEF GateRefuse
<1>11. ASSUME NEW r \in Requests, NEW a \in Agents, Resolve(r, a)
      PROVE  CancelledInTime'
  <2>1. /\ r \notin pending
        /\ UNCHANGED <<pc, pending, late>>
        /\ \A s \in Requests \ {r} : via'[s] = via[s]
    BY <1>11 DEF Resolve
  <2> QED
    BY <2>1
<1>12. ASSUME NEW r \in Requests, Insert(r)
      PROVE  CancelledInTime'
  BY <1>12 DEF Insert
<1>13. ASSUME NEW r \in Requests, Send(r)
      PROVE  CancelledInTime'
  BY <1>13 DEF Send
<1>14. ASSUME NEW r \in Requests, Expire(r)
      PROVE  CancelledInTime'
  BY <1>14 DEF Expire
<1>15. CASE UNCHANGED vars
  BY <1>15 DEF vars, linkVars, diagVars
<1> QED
  BY <1>1, <1>2, <1>3, <1>4, <1>5, <1>6, <1>7, <1>8, <1>9, <1>10, <1>11, <1>12,
     <1>13, <1>14, <1>15, <1>16 DEF Next, Relay, Cleanup, Dispatch

\* Insert drops only expired entries, Send only what it refuses; the rest is owed.
LEMMA ForgetStep == BaseInv /\ [Next]_vars => NoneForgotten
<1> SUFFICES ASSUME BaseInv, [Next]_vars
             PROVE  NoneForgotten
  OBVIOUS
<1> USE DiagAssumption DEF BaseInv, DiagTypeOK, Routed, Registered, Owing, NoneForgotten
<1>1. ASSUME NEW h \in Handlers, NEW r \in Requests, NEW done \in BOOLEAN,
             NEW bytes \in {0, 1}, Frame(h, r, done, bytes)
      PROVE  NoneForgotten
  <2>1. CASE pending' = pending
    BY <2>1
  <2>2. CASE pending' # pending
    <3>1. /\ out' = [out EXCEPT ![h] = [req |-> r, done |-> TRUE]]
          /\ pending' = pending \ {r}
      BY <1>1, <2>2 DEF Frame, Take
    <3>2. out'[h].req = r /\ out'[h].done
      BY <3>1
    <3> QED
      BY <3>1, <3>2
  <2> QED
    BY <2>1, <2>2
<1>2. ASSUME NEW h \in Handlers, DiagCancel(h)
      PROVE  NoneForgotten
  BY <1>2 DEF DiagCancel
<1>3. ASSUME NEW r \in Requests, Insert(r)
      PROVE  NoneForgotten
  BY <1>3 DEF Insert
<1>4. ASSUME NEW r \in Requests, Send(r)
      PROVE  NoneForgotten
  BY <1>4 DEF Send
<1>5. ASSUME pending' = pending
      PROVE  NoneForgotten
  BY <1>5
<1> QED
  BY <1>1, <1>2, <1>3, <1>4, <1>5
  DEF Next, Connect, Relay, Socket, Cleanup, Dispatch, Deliver, Chatter, DiagLinkLost,
      SocketEnds, TimerTick, CloseOut, Emit, DiagBreak,
      DiagLeave, DiagPart, GateRefuse, Resolve, Expire, vars, diagVars

-----------------------------------------------------------------------------
(* the theorems                                                            *)

DiagInv == LinkInv /\ BaseInv /\ SocketTypeOK /\ OneVoice /\ WithinCaps /\ CancelledInTime

\* The inductive invariant holds throughout.
THEOREM DiagInvariant == Spec => []DiagInv
<1>1. Init => DiagInv
  BY LinkInitInv, BaseInit, OneVoiceInit, CapsInit, CancelledInit,
     DiagAssumption DEF Init, DiagInit, DiagInv, SocketTypeOK
<1>2. DiagInv /\ [Next]_vars => DiagInv'
  BY StepIsLinkStep, LinkStepInv, BaseStep, SocketStep, OneVoiceStep, CapsStep,
     CancelledStep DEF DiagInv
<1> QED
  BY <1>1, <1>2, PTL DEF Spec

\* Every variable keeps its type; the relay budget is overshot by one frame at most.
THEOREM DiagTypeCorrect == Spec => []TypeOK
<1>1. DiagInv => TypeOK
  BY DEF DiagInv, BaseInv, TypeOK, LinkInv
<1> QED
  BY <1>1, DiagInvariant, PTL

\* No browser is told twice that a request is over, for any number of connections
\* that compete to say it (diag.rs take_pending_bytes, cancel_for_agent).
THEOREM AtMostOneDoneAlways == Spec => []AtMostOneDone
<1>1. DiagInv => AtMostOneDone
  BY DEF DiagInv, OneVoice, AtMostOneDone
<1> QED
  BY <1>1, DiagInvariant, PTL

\* The in-flight caps hold for any budgets (diag.rs dispatch).
THEOREM WithinCapsAlways == Spec => []WithinCaps
<1>1. DiagInv => WithinCaps
  BY DEF DiagInv
<1> QED
  BY <1>1, DiagInvariant, PTL

\* A connection that ended leaves only what it was superseded for or what was
\* registered after its cancellation.
THEOREM LeftBehindOnlyByRaceAlways == Spec => []LeftBehindOnlyByRace
<1>1. DiagInv => LeftBehindOnlyByRace
  BY DEF DiagInv, BaseInv, DiagTypeOK, Routed, CancelledInTime, LeftBehindOnlyByRace,
         Superseded, Returned
<1> QED
  BY <1>1, DiagInvariant, PTL

\* No entry leaves diag_pending without a done frame, unless expired or refused.
THEOREM NothingForgotten == Spec => NothingForgottenSilently
<1>1. DiagInv /\ [Next]_vars => [NoneForgotten]_vars
  BY ForgetStep DEF DiagInv
<1> QED
  BY <1>1, DiagInvariant, PTL DEF Spec, NothingForgottenSilently

=============================================================================
