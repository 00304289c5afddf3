----------------------------- MODULE TaskProofs -----------------------------
(***************************************************************************)
(* Proofs about TaskCalls and TaskSync for any sets of agents, handlers,   *)
(* calls and edits.  Init, Next, Spec and vars are those of TaskCalls;     *)
(* SyncInit, SyncNext, SyncSpec and taskSyncVars those of TaskSync.        *)
(*                                                                         *)
(* TaskCalls: WaitersExact is not inductive: that the entry of an answered *)
(* call is gone needs to know that a result is sent to a caller only when  *)
(* it was read, and that nothing travels before the call waits.            *)
(* RunFollowsCall says so.  The refinement of Exchange needs the same.     *)
(*                                                                         *)
(* TaskSync: MirrorFollowsStore and EditsTakeHold speak of the moment when *)
(* no request is in progress.  The invariant says what holds in between:   *)
(* where the mirror, or a set that was read and is still to be stored,     *)
(* differs from what is stored, a request owes the agent a refresh (Owed); *)
(* where the last message to a connected agent, or one under way, differs  *)
(* from what is stored and mirrored, another that does not is due (Due).   *)
(***************************************************************************)
EXTENDS TaskCalls, TaskSync, AgentLinkProofs, SequenceTheorems

(* Calls *)

\* What is under way for a call agrees with where the call stands.
RunFollowsCall ==
    \A c \in Calls :
        /\ cpc[c] \in {"new", "resolved", "entered"} => run[c] = "none"
        /\ cpc[c] \in {"waiting", "late", "abandoned"} => run[c] # "none"
        /\ c \in got => run[c] = "read"
        /\ cpc[c] = "ended" /\ run[c] # "none" => answer[c] \in {"result", "timeout"}
        /\ answer[c] = "result" => run[c] = "read"

CallInv == /\ LinkInv
           /\ CallTypeOK
           /\ RunFollowsCall
           /\ WaitersExact
           /\ ResultReachesCaller

CallParts == CallTypeOK /\ RunFollowsCall /\ WaitersExact /\ ResultReachesCaller

-----------------------------------------------------------------------------
\* The invariant holds before any call.
LEMMA CallInitInv == Init => CallInv
<1> SUFFICES ASSUME Init PROVE CallInv
  OBVIOUS
<1>1. LinkInv
  BY LinkInitInv DEF Init
<1>2. CallTypeOK
  BY <1>1 DEF LinkInv, Init, CallTypeOK, Holding, RunPoints
<1>3. RunFollowsCall /\ WaitersExact /\ ResultReachesCaller
  BY DEF Init, RunFollowsCall, WaitersExact, ResultReachesCaller
<1> QED
  BY <1>1, <1>2, <1>3 DEF CallInv

\* Every step is a step of the connections, or leaves them alone.
LEMMA CallsKeepLink == [Next]_vars => [LinkNext]_linkVars
<1> SUFFICES ASSUME [Next]_vars PROVE [LinkNext]_linkVars
  OBVIOUS
<1>1. ASSUME NEW h \in Handlers, Connect(h) PROVE LinkNext
  BY <1>1 DEF Connect, LinkNext
<1>2. ASSUME NEW h \in Handlers, LoopBreak(h) PROVE LinkNext
  BY <1>2 DEF LoopBreak, LinkNext
<1>3. ASSUME NEW h \in Handlers, Depart(h) PROVE LinkNext
  BY <1>3 DEF Depart, LinkNext
<1>4. ASSUME NEW h \in Handlers, SessionEnds(h) PROVE UNCHANGED linkVars
  BY <1>4 DEF SessionEnds
<1>5. ASSUME NEW c \in Calls, Caller(c) PROVE UNCHANGED linkVars
  BY <1>5 DEF Caller, CallRefuse, CallResolve, CallEnter, CallSend, CallAnswer,
              CallTimeout, CallGiveUp, CallAbandon
<1>6. ASSUME NEW c \in Calls, Travel(c) PROVE UNCHANGED linkVars
  BY <1>6 DEF Travel, Deliver, Finish, Lose, Read
<1>7. CASE UNCHANGED vars
  BY <1>7 DEF vars
<1> QED
  BY <1>1, <1>2, <1>3, <1>4, <1>5, <1>6, <1>7 DEF Next

\* Runs of tasks never change what a connection does (ws.rs:110-470).
THEOREM CallsImplementLink == Spec => LinkSpec
<1>1. Init => LinkInit
  BY DEF Init
<1>2. [Next]_vars => [LinkNext]_linkVars
  BY CallsKeepLink
<1> QED
  BY <1>1, <1>2, PTL DEF Spec, LinkSpec

\* The steps of the waiting administrator keep the invariant.
LEMMA CallerStepInv ==
  ASSUME CallInv, LinkInv', NEW c \in Calls, Caller(c)
  PROVE  CallParts'
<1> USE DEF CallInv, CallParts, CallTypeOK, LinkInv, RunFollowsCall, WaitersExact,
            ResultReachesCaller, Holding, RunPoints, Step, Tell
<1>1. CASE CallRefuse(c)
  BY <1>1 DEF CallRefuse
<1>2. ASSUME NEW a \in Agents, CallResolve(c, a) PROVE CallParts'
  BY <1>2 DEF CallResolve, LinkTypeOK
<1>3. CASE CallEnter(c)
  BY <1>3 DEF CallEnter
<1>4. CASE CallSend(c)
  BY <1>4 DEF CallSend
<1>5. CASE CallAnswer(c)
  BY <1>5 DEF CallAnswer
<1>6. CASE CallTimeout(c)
  BY <1>6 DEF CallTimeout
<1>7. CASE CallGiveUp(c)
  BY <1>7 DEF CallGiveUp
<1>8. CASE CallAbandon(c)
  BY <1>8 DEF CallAbandon
<1> QED
  BY <1>1, <1>2, <1>3, <1>4, <1>5, <1>6, <1>7, <1>8 DEF Caller

\* So do the steps of the request and of the result on their way.
LEMMA TravelStepInv ==
  ASSUME CallInv, LinkInv', NEW c \in Calls, Travel(c)
  PROVE  CallParts'
<1> USE DEF CallInv, CallParts, CallTypeOK, LinkInv, RunFollowsCall, WaitersExact,
            ResultReachesCaller, Holding, RunPoints, Moves
<1>1. CASE Deliver(c)
  BY <1>1 DEF Deliver
<1>2. CASE Finish(c)
  BY <1>2 DEF Finish
<1>3. CASE Lose(c)
  BY <1>3 DEF Lose
<1>4. CASE Read(c)
  BY <1>4 DEF Read
<1> QED
  BY <1>1, <1>2, <1>3, <1>4 DEF Travel

\* A handler that leaves drops what it holds; nothing else of a call changes.
LEMMA HandlerStepInv ==
  ASSUME CallInv, LinkInv', NEW h \in Handlers,
         Connect(h) \/ LoopBreak(h) \/ Depart(h) \/ SessionEnds(h)
  PROVE  CallParts'
<1> USE DEF CallInv, CallParts, CallTypeOK, LinkInv, RunFollowsCall, WaitersExact,
            ResultReachesCaller, Holding, RunPoints
<1>1. CASE Connect(h)
  BY <1>1 DEF Connect, callVars
<1>2. CASE LoopBreak(h)
  BY <1>2 DEF LoopBreak, callVars
<1>3. CASE Depart(h)
  <2>1. /\ run' \in [Calls -> RunPoints]
        /\ \A c \in Calls : \/ run'[c] = run[c]
                            \/ run[c] = "queued" /\ run'[c] = "dropped"
                            \/ run[c] = "result" /\ run'[c] = "lost"
    BY <1>3 DEF Depart
  <2>2. UNCHANGED <<cpc, via, waiters, got, answer, stored, ended>>
    BY <1>3 DEF Depart
  <2> QED
    BY <2>1, <2>2
<1>4. CASE SessionEnds(h)
  BY <1>4 DEF SessionEnds
<1> QED
  BY <1>1, <1>2, <1>3, <1>4

\* No step of the program breaks the invariant.
LEMMA CallStepInv == CallInv /\ [Next]_vars => CallInv'
<1> SUFFICES ASSUME CallInv, [Next]_vars PROVE CallInv'
  OBVIOUS
<1>1. LinkInv'
  BY CallsKeepLink, LinkStepInv DEF CallInv
<1>2. CASE UNCHANGED vars
  <2>1. CallParts'
    BY <1>1, <1>2 DEF vars, callVars, CallInv, CallParts, CallTypeOK, LinkInv,
                      RunFollowsCall, WaitersExact, ResultReachesCaller
  <2> QED
    BY <1>1, <2>1 DEF CallInv, CallParts
<1>3. CASE Next
  <2>1. CallParts'
    BY <1>1, <1>3, CallerStepInv, TravelStepInv, HandlerStepInv DEF Next
  <2> QED
    BY <1>1, <2>1 DEF CallInv, CallParts
<1> QED
  BY <1>2, <1>3

\* The invariant holds throughout.
THEOREM CallInvariant == Spec => []CallInv
<1>1. Init => CallInv
  BY CallInitInv
<1>2. CallInv /\ [Next]_vars => CallInv'
  BY CallStepInv
<1> QED
  BY <1>1, <1>2, PTL DEF Spec

\* Every variable keeps its type.
THEOREM CallTypeCorrect == Spec => []CallTypeOK
<1>1. CallInv => CallTypeOK
  BY DEF CallInv
<1> QED
  BY <1>1, CallInvariant, PTL

\* The map of waiters holds exactly the calls that can still be answered, for
\* any number of calls, agents and overlapping connections.
THEOREM WaitersExactAlways == Spec => []WaitersExact
<1>1. CallInv => WaitersExact
  BY DEF CallInv
<1> QED
  BY <1>1, CallInvariant, PTL

\* A result the server has read is the answer of its call, or its call gave up.
THEOREM ResultReachesCallerAlways == Spec => []ResultReachesCaller
<1>1. CallInv => ResultReachesCaller
  BY DEF CallInv
<1> QED
  BY <1>1, CallInvariant, PTL

-----------------------------------------------------------------------------
(* The refinement.                                                         *)

\* The initial states are initial states of Exchange.
LEMMA InitRefines == Init => Promise!ExchangeInit
  BY DEF Init, Promise!ExchangeInit, Outcome

\* A step of the caller asks, concludes, or is not visible to Exchange.
LEMMA CallerRefines ==
  ASSUME CallInv, NEW c \in Calls, Caller(c)
  PROVE  [Promise!ExchangeNext]_(Promise!exchangeVars)
<1> USE DEF CallInv, CallTypeOK, RunFollowsCall, Outcome, Step, Tell
<1>1. CASE CallRefuse(c) \/ (CallSend(c) /\ run' = run) \/ CallGiveUp(c) \/ CallAbandon(c)
  <2>1. run' = run /\ Outcome(c) = "none" /\ Outcome(c)' = "failed"
    BY <1>1 DEF CallRefuse, CallSend, CallGiveUp, CallAbandon
  <2>2. \A d \in Calls : d # c => Outcome(d)' = Outcome(d)
    BY <1>1 DEF CallRefuse, CallSend, CallGiveUp, CallAbandon
  <2>3. Promise!Conclude(c, "failed")
    BY <2>1, <2>2 DEF Promise!Conclude
  <2> QED
    BY <2>3 DEF Promise!ExchangeNext
<1>2. CASE CallSend(c) /\ run' # run
  <2>1. /\ run' = [run EXCEPT ![c] = "queued"] /\ run[c] = "none"
        /\ cpc[c] = "entered" /\ cpc' = [cpc EXCEPT ![c] = "waiting"]
        /\ UNCHANGED answer
    BY <1>2 DEF CallSend
  <2>2. \A d \in Calls : Outcome(d)' = Outcome(d)
    BY <2>1
  <2>3. Promise!Ask(c)
    BY <2>1, <2>2 DEF Promise!Ask
  <2> QED
    BY <2>3 DEF Promise!ExchangeNext
<1>3. CASE CallAnswer(c)
  <2>1. run' = run /\ run[c] = "read" /\ Outcome(c) = "none" /\ Outcome(c)' = "answered"
    BY <1>3 DEF CallAnswer
  <2>2. \A d \in Calls : d # c => Outcome(d)' = Outcome(d)
    BY <1>3 DEF CallAnswer
  <2>3. Promise!Conclude(c, "answered")
    BY <2>1, <2>2 DEF Promise!Conclude
  <2> QED
    BY <2>3 DEF Promise!ExchangeNext
<1>4. ASSUME CallEnter(c) \/ CallTimeout(c) \/ (\E a \in Agents : CallResolve(c, a))
      PROVE  UNCHANGED Promise!exchangeVars
  <2>1. run' = run /\ \A d \in Calls : Outcome(d)' = Outcome(d)
    BY <1>4 DEF CallEnter, CallTimeout, CallResolve
  <2> QED
    BY <2>1 DEF Promise!exchangeVars
<1> QED
  BY <1>1, <1>2, <1>3, <1>4 DEF Caller

\* The delivery of the request begins the run; the way of the result is hidden.
LEMMA TravelRefines ==
  ASSUME CallInv, NEW c \in Calls, Travel(c)
  PROVE  [Promise!ExchangeNext]_(Promise!exchangeVars)
<1> USE DEF CallInv, CallTypeOK, RunFollowsCall, Outcome, Moves
<1>1. UNCHANGED <<cpc, answer>> /\ \A d \in Calls : Outcome(d)' = Outcome(d)
  BY DEF Travel, Deliver, Finish, Lose, Read
<1>2. CASE Deliver(c) /\ Connected(c)
  <2>1. run[c] = "queued" /\ run' = [run EXCEPT ![c] = "running"]
    BY <1>2 DEF Deliver
  <2>2. Promise!Run(c)
    BY <1>1, <2>1 DEF Promise!Run
  <2> QED
    BY <2>2 DEF Promise!ExchangeNext
<1>3. ASSUME \/ Deliver(c) /\ ~Connected(c)
             \/ Finish(c) \/ Lose(c) \/ Read(c)
      PROVE  UNCHANGED Promise!exchangeVars
  <2>1. \/ run[c] = "queued" /\ run' = [run EXCEPT ![c] = "dropped"]
        \/ run[c] = "running" /\ run' = [run EXCEPT ![c] = "result"]
        \/ run[c] = "running" /\ run' = [run EXCEPT ![c] = "lost"]
        \/ run[c] = "result" /\ run' = [run EXCEPT ![c] = "lost"]
        \/ run[c] = "result" /\ run' = [run EXCEPT ![c] = "read"]
    BY <1>3 DEF Deliver, Finish, Lose, Read
  <2> QED
    BY <1>1, <2>1 DEF Promise!exchangeVars
<1> QED
  BY <1>2, <1>3 DEF Travel

\* What a handler drops when it leaves was asked for, and run or not, before.
LEMMA HandlerRefines ==
  ASSUME CallInv, NEW h \in Handlers,
         Connect(h) \/ LoopBreak(h) \/ Depart(h) \/ SessionEnds(h)
  PROVE  UNCHANGED Promise!exchangeVars
<1> USE DEF CallInv, CallTypeOK, Outcome
<1>1. UNCHANGED <<cpc, answer>>
  BY DEF Connect, LoopBreak, Depart, SessionEnds, callVars
<1>2. \A c \in Calls : \/ run'[c] = run[c]
                       \/ run[c] = "queued" /\ run'[c] = "dropped"
                       \/ run[c] = "result" /\ run'[c] = "lost"
  BY DEF Connect, LoopBreak, Depart, SessionEnds, callVars
<1>3. \A c \in Calls : Outcome(c)' = Outcome(c)
  BY <1>1
<1> QED
  BY <1>1, <1>2, <1>3 DEF Promise!exchangeVars

\* Every step of TaskCalls is a step of Exchange or a stutter.
LEMMA StepRefines == CallInv /\ [Next]_vars => [Promise!ExchangeNext]_(Promise!exchangeVars)
<1> SUFFICES ASSUME CallInv, [Next]_vars
             PROVE  [Promise!ExchangeNext]_(Promise!exchangeVars)
  OBVIOUS
<1>1. CASE UNCHANGED vars
  BY <1>1 DEF vars, callVars, Promise!exchangeVars, Outcome
<1>2. CASE Next
  BY <1>2, CallerRefines, TravelRefines, HandlerRefines DEF Next
<1> QED
  BY <1>1, <1>2

\* A one-shot run keeps what Exchange promises its caller: asked for once, run
\* at most once, concluded once, and answered only by its own run, whatever
\* connection, handler or agent fails (admin.rs:1328-1401).
THEOREM CallsImplementExchange == Spec => Promise!SafeExchange
<1>1. Init => Promise!ExchangeInit
  BY InitRefines
<1>2. CallInv /\ [Next]_vars => [Promise!ExchangeNext]_(Promise!exchangeVars)
  BY StepRefines
<1>3. Spec => []CallInv
  BY CallInvariant
<1> QED
  BY <1>1, <1>2, <1>3, PTL DEF Spec, Promise!SafeExchange

-----------------------------------------------------------------------------
(* Sync: the invariant *)

\* A partial map from agents to the feature.
Partial == UNION {[as -> BOOLEAN] : as \in SUBSET Agents}

SyncTypes ==
    /\ SyncTypeOK
    /\ computed \in [Procs -> Partial]
    /\ wire \in [Handlers -> Seq(Nat)]
    /\ late \subseteq Procs \X Agents /\ lateSend \subseteq Procs \X Agents
    /\ misStored \subseteq Agents /\ misSent \subseteq Agents

Refreshing == {"refresh_all", "refresh_agent"}

\* What a process has computed and has to push belongs to where it stands.
ProcsFit ==
    /\ \A c \in Edits :
         /\ stage[c] \notin Refreshing => scope[c] = {}
         /\ DOMAIN computed[c] \in {{}, scope[c]}
         /\ stage[c] # "pushing" => todo[c] = {}
    /\ \A h \in Handlers :
         /\ DOMAIN computed[h] # {} => pc[h] = "greeted" /\ DOMAIN computed[h] = {agentOf[h]}
         /\ todo[h] # {} => pc[h] = "registered"
    /\ \A p \in Procs : push[p].at # "idle" =>
         /\ push[p].agent \in Agents
         /\ push[p].at = "read" => /\ push[p].to \in Handlers
                                   /\ pc[push[p].to] \notin {"auth", "found", "refused"}
                                   /\ agentOf[push[p].to] = push[p].agent

\* A change of a's feature that is stored in the database will reach the mirror.
Owed(a) ==
    \E c \in Edits :
        /\ stage[c] \in Refreshing /\ a \in scope[c]
        /\ DOMAIN computed[c] = {} \/ computed[c][a] = Effective(a)

\* What a process has read is what is stored, or is going to be overwritten.
ComputedFresh ==
    \A p \in Procs : \A a \in DOMAIN computed[p] :
        <<p, a>> \in late \/ computed[p][a] = Effective(a) \/ Owed(a)

MirrorFresh ==
    \A a \in Agents : a \in misStored \/ features[a] = Effective(a) \/ Owed(a)

LastSent(h) == IF wire[h] = <<>> THEN running[h] ELSE wire[h][Len(wire[h])]
Shown(a) == IF features[a] THEN rows ELSE 0

\* The message p is about to send to a says what is stored and mirrored.
Current(p, a) ==
    /\ push[p].agent = a /\ push[p].rows = rows
    /\ \/ push[p].at = "loaded"
       \/ push[p].at = "read" /\ push[p].on = features[a] /\ push[p].to = agentTx[a]

\* Such a message is due to a, from a process in ps where it is on its way.
Due(a, ps) ==
    \/ \E c \in Edits : stage[c] = "collect"
    \/ \E p \in Procs : a \in todo[p]
    \/ \E p \in ps : Current(p, a)

\* A message that may be overtaken is current, or another one is due.
PushesFresh ==
    \A a \in Agents : agentTx[a] # None =>
        \A p \in Procs : Pushing(p, a) =>
            <<p, a>> \in lateSend \/ Current(p, a) \/ Due(a, Procs \ {p})

SentFresh ==
    \A a \in Agents : agentTx[a] # None =>
        \/ a \in misSent
        \/ LastSent(agentTx[a]) = Shown(a)
        \/ Due(a, Procs)

SyncInv == /\ LinkInv
           /\ SyncTypes
           /\ ProcsFit
           /\ ComputedFresh /\ MirrorFresh
           /\ PushesFresh /\ SentFresh

\* The empty map is the empty sequence.
LEMMA PartialMap ==
  ASSUME NEW as \in SUBSET Agents, NEW f \in [as -> BOOLEAN]
  PROVE  f \in Partial
  BY DEF Partial

LEMMA EmptyMap ==
  ASSUME NEW f \in Partial
  PROVE  /\ f = <<>> <=> DOMAIN f = {}
         /\ [a \in {} |-> FALSE] \in Partial /\ DOMAIN [a \in {} |-> FALSE] = {}
<1>1. DOMAIN f = {} => f = <<>>
  <2> SUFFICES ASSUME DOMAIN f = {} PROVE f = <<>>
    OBVIOUS
  <2>1. f = [i \in 1 .. 0 |-> FALSE]
    BY DEF Partial
  <2> QED
    BY <2>1
<1>2. f = <<>> => DOMAIN f = {}
  OBVIOUS
<1>3. [a \in {} |-> FALSE] \in Partial
  BY DEF Partial
<1> QED
  BY <1>1, <1>2, <1>3

\* What storing a computed set does, and to which processes it makes it late.
LEMMA StoreEffect ==
  ASSUME SyncTypes, NEW p \in Procs, Store(p)
  PROVE  /\ features' \in [Agents -> BOOLEAN]
         /\ computed' \in [Procs -> Partial]
         /\ late' \subseteq Procs \X Agents
         /\ misStored' \subseteq Agents
         /\ DOMAIN computed'[p] = {}
         /\ \A q \in Procs : q # p => computed'[q] = computed[q]
         /\ \A a \in Agents :
              IF a \in DOMAIN computed[p]
              THEN /\ features'[a] = computed[p][a]
                   /\ <<p, a>> \in late => a \in misStored'
                   /\ \A q \in Procs : q # p /\ a \in DOMAIN computed[q] => <<q, a>> \in late'
              ELSE /\ features'[a] = features[a]
                   /\ a \in misStored => a \in misStored'
         /\ \A q \in Procs : \A a \in Agents : q # p /\ <<q, a>> \in late => <<q, a>> \in late'
<1> USE DEF SyncTypes, SyncTypeOK, Store
<1>1. features' \in [Agents -> BOOLEAN]
  OBVIOUS
<1>2. computed' \in [Procs -> Partial] /\ DOMAIN computed'[p] = {}
  BY EmptyMap
<1>3. late' \subseteq Procs \X Agents
  OBVIOUS
<1>4. misStored' \subseteq Agents
  OBVIOUS
<1>5. \A q \in Procs : q # p => computed'[q] = computed[q]
  OBVIOUS
<1>6. ASSUME NEW a \in Agents, a \in DOMAIN computed[p]
      PROVE  /\ features'[a] = computed[p][a]
             /\ <<p, a>> \in late => a \in misStored'
             /\ \A q \in Procs : q # p /\ a \in DOMAIN computed[q] => <<q, a>> \in late'
  BY <1>6
<1>7. ASSUME NEW a \in Agents, a \notin DOMAIN computed[p]
      PROVE  features'[a] = features[a] /\ (a \in misStored => a \in misStored')
  BY <1>7
<1>8. \A q \in Procs : \A a \in Agents : q # p /\ <<q, a>> \in late => <<q, a>> \in late'
  OBVIOUS
<1> QED
  BY <1>1, <1>2, <1>3, <1>4, <1>5, <1>6, <1>7, <1>8

\* Every step is a step of the connections, or leaves them alone.
LEMMA SyncKeepsLink == [SyncNext]_taskSyncVars => [LinkNext]_linkVars
<1> SUFFICES ASSUME [SyncNext]_taskSyncVars PROVE [LinkNext]_linkVars
  OBVIOUS
<1>1. ASSUME NEW c \in Edits,
             \/ EditRows(c) \/ (\E b \in BOOLEAN : SetGlobal(c, b))
             \/ \E a \in Agents, choice \in Choices : SetOverride(c, a, choice)
             \/ Collect(c) \/ Recompute(c) \/ Apply(c)
      PROVE  UNCHANGED linkVars
  BY <1>1 DEF EditRows, SetGlobal, SetOverride, Collect, Recompute, Apply
<1>2. ASSUME NEW p \in Procs, Push(p) PROVE UNCHANGED linkVars
  BY <1>2 DEF Push, PushLoad, PushRead, PushSend
<1>3. ASSUME NEW h \in Handlers, Load(h) \/ Forward(h) PROVE UNCHANGED linkVars
  BY <1>3 DEF Load, Forward
<1>4. ASSUME NEW h \in Handlers, SyncRegister(h) \/ SyncAnnounce(h) \/ SyncBreak(h) PROVE LinkNext
  BY <1>4 DEF SyncRegister, SyncAnnounce, SyncBreak, LinkNext
<1>5. ASSUME NEW h \in Handlers,
             \/ Refuse(h) \/ (\E a \in Agents : Lookup(h, a)) \/ Greet(h)
             \/ LinkLost(h) \/ Leave(h) \/ Cancel(h) \/ Part(h)
      PROVE  LinkNext
  BY <1>5 DEF LinkNext
<1>6. CASE UNCHANGED taskSyncVars
  BY <1>6 DEF taskSyncVars
<1> QED
  BY <1>1, <1>2, <1>3, <1>4, <1>5, <1>6 DEF SyncNext

\* Nor do edits of tasks and features, and what is pushed of them (ws.rs:110-470).
THEOREM SyncImplementsLink == SyncSpec => LinkSpec
<1>1. SyncInit => LinkInit
  BY DEF SyncInit
<1>2. [SyncNext]_taskSyncVars => [LinkNext]_linkVars
  BY SyncKeepsLink
<1> QED
  BY <1>1, <1>2, PTL DEF SyncSpec, LinkSpec

-----------------------------------------------------------------------------
(* Types *)

\* What an admin request does keeps the types.
LEMMA EditTypes ==
  ASSUME SyncInv, NEW c \in Edits,
         \/ EditRows(c) \/ (\E b \in BOOLEAN : SetGlobal(c, b))
         \/ \E a \in Agents, choice \in Choices : SetOverride(c, a, choice)
         \/ Collect(c) \/ Recompute(c) \/ Apply(c)
  PROVE  SyncTypes'
<1> USE DEF SyncInv, SyncTypes, SyncTypeOK, LinkInv, LinkTypeOK, storedVars, history
<1>1. CASE EditRows(c)
  BY <1>1 DEF EditRows
<1>2. ASSUME NEW b \in BOOLEAN, SetGlobal(c, b) PROVE SyncTypes'
  BY <1>2 DEF SetGlobal
<1>3. ASSUME NEW a \in Agents, NEW choice \in Choices, SetOverride(c, a, choice) PROVE SyncTypes'
  BY <1>3 DEF SetOverride
<1>4. CASE Collect(c)
  BY <1>4 DEF Collect
<1>5. CASE Recompute(c)
  <2>1. [a \in scope[c] |-> Effective(a)] \in [scope[c] -> BOOLEAN]
    BY DEF Effective, Choices
  <2>2. [a \in scope[c] |-> Effective(a)] \in Partial /\ c \in Procs
    BY <2>1 DEF Partial, Procs
  <2>3. computed' \in [Procs -> Partial]
    BY <1>5, <2>2 DEF Recompute, Compute
  <2>4. \A p \in Procs : DOMAIN computed'[p] \subseteq Agents
                         /\ \A a \in DOMAIN computed'[p] : computed'[p][a] \in BOOLEAN
    BY <2>3 DEF Partial
  <2> QED
    BY <1>5, <2>3, <2>4 DEF Recompute
<1>6. CASE Apply(c)
  <2>1. c \in Procs /\ Store(c)
    BY <1>6 DEF Apply, Procs
  <2>2. /\ features' \in [Agents -> BOOLEAN] /\ computed' \in [Procs -> Partial]
        /\ late' \subseteq Procs \X Agents /\ misStored' \subseteq Agents
    BY <2>1, StoreEffect
  <2>3. \A p \in Procs : DOMAIN computed'[p] \subseteq Agents
                         /\ \A a \in DOMAIN computed'[p] : computed'[p][a] \in BOOLEAN
    BY <2>2 DEF Partial
  <2>4. todo' \in [Procs -> SUBSET Agents] /\ scope' \in [Edits -> SUBSET Agents]
    BY <1>6, <2>1 DEF Apply, Changed
  <2>5. stage' \in [Edits -> {"new", "collect", "refresh_all", "refresh_agent", "pushing"}]
    BY <1>6 DEF Apply
  <2> QED
    BY <1>6, <2>2, <2>3, <2>4, <2>5 DEF Apply
<1> QED
  BY <1>1, <1>2, <1>3, <1>4, <1>5, <1>6

\* So does a push.
LEMMA PushTypes ==
  ASSUME SyncInv, NEW p \in Procs, Push(p)
  PROVE  SyncTypes'
<1> USE DEF SyncInv, SyncTypes, SyncTypeOK, LinkInv, LinkTypeOK, storedVars, history, PushType
<1>0. NoPush \in PushType
  BY DEF NoPush
<1>1. ASSUME NEW a \in Agents, PushLoad(p, a) PROVE SyncTypes'
  <2>1. push' = [push EXCEPT ![p] = [NoPush EXCEPT !.at = "loaded", !.agent = a, !.rows = rows]]
    BY <1>1 DEF PushLoad
  <2>2. [NoPush EXCEPT !.at = "loaded", !.agent = a, !.rows = rows] \in PushType
    BY DEF NoPush
  <2> QED
    BY <1>1, <2>1, <2>2 DEF PushLoad
<1>2. CASE PushRead(p)
  <2> DEFINE a == push[p].agent
             m == [push[p] EXCEPT !.at = "read", !.to = agentTx[a], !.on = features[a]]
  <2>1. a \in Agents
    BY <1>2 DEF PushRead, ProcsFit
  <2>2. push[p] \in PushType /\ agentTx[a] \in Handlers \cup {None} /\ features[a] \in BOOLEAN
    BY <2>1
  <2>3. m \in PushType
    BY <2>2
  <2>4. push' \in [Procs -> PushType]
    <3>1. push' = [push EXCEPT ![p] = NoPush] \/ push' = [push EXCEPT ![p] = m]
      BY <1>2 DEF PushRead
    <3> HIDE DEF m, PushType
    <3> QED
      BY <1>0, <2>3, <3>1
  <2>5. lateSend' \subseteq Procs \X Agents
    BY <1>2 DEF PushRead
  <2> QED
    BY <1>2, <2>4, <2>5 DEF PushRead
<1>3. CASE PushSend(p)
  <2> DEFINE m == push[p]
  <2>1. m.agent \in Agents /\ m.to \in Handlers /\ m.rows \in Nat /\ m.on \in BOOLEAN
    BY <1>3 DEF PushSend, ProcsFit
  <2>2. wire' \in [Handlers -> Seq(Nat)]
    <3>1. wire[m.to] \in Seq(Nat) /\ (IF m.on THEN m.rows ELSE 0) \in Nat
      BY <2>1
    <3>2. Append(wire[m.to], IF m.on THEN m.rows ELSE 0) \in Seq(Nat)
      BY <3>1, AppendProperties
    <3>3. wire' = wire \/ wire' = [wire EXCEPT ![m.to] = Append(@, IF m.on THEN m.rows ELSE 0)]
      BY <1>3 DEF PushSend
    <3> QED
      BY <3>2, <3>3
  <2>3. lateSend' \subseteq Procs \X Agents /\ misSent' \subseteq Agents
    <3> HIDE DEF PushType
    <3> QED
      BY <1>3, <2>1 DEF PushSend
  <2>4. push' \in [Procs -> PushType]
    BY <1>0, <1>3 DEF PushSend
  <2> QED
    BY <1>3, <2>2, <2>3, <2>4 DEF PushSend
<1> QED
  BY <1>1, <1>2, <1>3 DEF Push

\* So do the steps of a handler.
LEMMA HandlerTypes ==
  ASSUME SyncInv, NEW h \in Handlers,
         Load(h) \/ SyncRegister(h) \/ Forward(h) \/ UNCHANGED syncVars
  PROVE  SyncTypes'
<1> USE DEF SyncInv, SyncTypes, SyncTypeOK, LinkInv, LinkTypeOK, storedVars, history
<1>0. h \in Procs
  BY DEF Procs
<1>1. CASE Load(h)
  <2>1. agentOf[h] \in Agents
    BY <1>1 DEF Load, HandlerKnows
  <2>2. [a \in {agentOf[h]} |-> Effective(a)] \in [{agentOf[h]} -> BOOLEAN]
    BY <2>1 DEF Effective, Choices
  <2>3. [a \in {agentOf[h]} |-> Effective(a)] \in Partial
    <3>1. {agentOf[h]} \in SUBSET Agents
      BY <2>1
    <3> QED
      BY <2>2, <3>1, PartialMap
  <2>4. computed' \in [Procs -> Partial]
    BY <1>0, <1>1, <2>3 DEF Load, Compute
  <2>5. \A p \in Procs : DOMAIN computed'[p] \subseteq Agents
                         /\ \A a \in DOMAIN computed'[p] : computed'[p][a] \in BOOLEAN
    BY <2>4 DEF Partial
  <2> QED
    BY <1>1, <2>4, <2>5 DEF Load
<1>2. CASE SyncRegister(h)
  <2>1. Store(h) /\ agentOf[h] \in Agents
    BY <1>2 DEF SyncRegister, Register, Goto, HandlerKnows
  <2>2. /\ features' \in [Agents -> BOOLEAN] /\ computed' \in [Procs -> Partial]
        /\ late' \subseteq Procs \X Agents /\ misStored' \subseteq Agents
    BY <1>0, <2>1, StoreEffect
  <2>3. \A p \in Procs : DOMAIN computed'[p] \subseteq Agents
                         /\ \A a \in DOMAIN computed'[p] : computed'[p][a] \in BOOLEAN
    BY <2>2 DEF Partial
  <2>4. todo' \in [Procs -> SUBSET Agents]
    BY <1>2, <2>1 DEF SyncRegister
  <2> QED
    BY <1>2, <2>2, <2>3, <2>4 DEF SyncRegister
<1>3. CASE Forward(h)
  <2>1. wire[h] \in Seq(Nat) /\ wire[h] # <<>>
    BY <1>3 DEF Forward
  <2>2. Head(wire[h]) \in Nat /\ Tail(wire[h]) \in Seq(Nat)
    BY <2>1, HeadTailProperties
  <2>3. running' \in [Handlers -> Nat] /\ wire' \in [Handlers -> Seq(Nat)]
    BY <1>3, <2>2 DEF Forward
  <2> QED
    BY <1>3, <2>3 DEF Forward
<1>4. CASE UNCHANGED syncVars
  BY <1>4 DEF syncVars
<1> QED
  BY <1>1, <1>2, <1>3, <1>4

-----------------------------------------------------------------------------
(* Where the processes stand *)

\* An admin request keeps ProcsFit.
LEMMA EditFits ==
  ASSUME SyncInv, SyncTypes', NEW c \in Edits,
         \/ EditRows(c) \/ (\E b \in BOOLEAN : SetGlobal(c, b))
         \/ \E a \in Agents, choice \in Choices : SetOverride(c, a, choice)
         \/ Collect(c) \/ Recompute(c) \/ Apply(c)
  PROVE  ProcsFit'
<1> USE EditsAssumption DEF SyncInv, SyncTypes, SyncTypeOK, Refreshing
<1>0. /\ UNCHANGED <<push, pc, agentOf>> /\ c \in Procs /\ \A h \in Handlers : h \in Procs /\ h # c
      /\ \A d \in Edits : d \in Procs
  BY DEF EditRows, SetGlobal, SetOverride, Collect, Recompute, Apply, linkVars, Procs
<1>1. \A p \in Procs : p # c => computed'[p] = computed[p] /\ todo'[p] = todo[p]
  <2>1. Apply(c) => \A q \in Procs : q # c => computed'[q] = computed[q]
    BY <1>0, StoreEffect DEF Apply
  <2>2. ASSUME ~Apply(c) PROVE \A q \in Procs : q # c => computed'[q] = computed[q]
    BY <2>2 DEF EditRows, SetGlobal, SetOverride, Collect, Recompute, Compute
  <2>3. \A q \in Procs : q # c => todo'[q] = todo[q]
    BY DEF EditRows, SetGlobal, SetOverride, Collect, Recompute, Apply
  <2> QED
    BY <2>1, <2>2, <2>3
<1>2. \A d \in Edits : d # c => stage'[d] = stage[d] /\ scope'[d] = scope[d]
  BY DEF EditRows, SetGlobal, SetOverride, Collect, Recompute, Apply
<1>3. /\ stage'[c] \notin Refreshing => scope'[c] = {}
      /\ DOMAIN computed'[c] \in {{}, scope'[c]}
      /\ stage'[c] # "pushing" => todo'[c] = {}
  <2>0. /\ stage[c] \notin Refreshing => scope[c] = {}
        /\ DOMAIN computed[c] \in {{}, scope[c]}
        /\ stage[c] # "pushing" => todo[c] = {}
    BY DEF ProcsFit
  <2>1. ASSUME \/ EditRows(c) \/ (\E b \in BOOLEAN : SetGlobal(c, b))
               \/ \E a \in Agents, choice \in Choices : SetOverride(c, a, choice)
        PROVE  /\ stage'[c] # "pushing" /\ todo'[c] = todo[c] /\ computed'[c] = computed[c]
               /\ stage[c] = "new"
               /\ stage'[c] \notin Refreshing => scope'[c] = scope[c]
    BY <2>1 DEF EditRows, SetGlobal, SetOverride
  <2>2. CASE Collect(c)
    BY <2>0, <2>2 DEF Collect
  <2>3. CASE Recompute(c)
    BY <1>0, <2>0, <2>3 DEF Recompute, Compute
  <2>4. CASE Apply(c)
    <3>1. DOMAIN computed'[c] = {}
      BY <1>0, <2>4, StoreEffect DEF Apply
    <3>2. stage'[c] = "pushing" /\ scope'[c] = {}
      BY <2>4 DEF Apply
    <3> QED
      BY <3>1, <3>2
  <2> QED
    BY <2>0, <2>1, <2>2, <2>3, <2>4
<1>4. \A h \in Handlers : UNCHANGED <<computed[h], todo[h], pc[h], agentOf[h]>>
  BY <1>0, <1>1
<1>5. \A d \in Edits : d # c => UNCHANGED <<computed[d], todo[d], stage[d], scope[d]>>
  BY <1>0, <1>1, <1>2
<1> QED
  BY <1>0, <1>3, <1>4, <1>5 DEF ProcsFit

\* So does a push: what it is sent to is a handler of its agent.
LEMMA PushFits ==
  ASSUME SyncInv, NEW p \in Procs, Push(p)
  PROVE  ProcsFit'
<1> USE DEF SyncInv, SyncTypes, SyncTypeOK, LinkInv, LinkTypeOK
<1>1. /\ UNCHANGED <<linkVars, computed, stage, scope>>
      /\ \A q \in Procs : todo'[q] \subseteq todo[q]
      /\ \A q \in Procs : q # p => push'[q] = push[q]
  <2>1. ASSUME NEW a \in Agents, PushLoad(p, a) PROVE \A q \in Procs : todo'[q] \subseteq todo[q]
    BY <2>1 DEF PushLoad
  <2>2. PushRead(p) \/ PushSend(p) => UNCHANGED todo
    BY DEF PushRead, PushSend
  <2>3. \A q \in Procs : q # p => push'[q] = push[q]
    BY DEF Push, PushLoad, PushRead, PushSend
  <2>4. UNCHANGED <<linkVars, computed, stage, scope>>
    BY DEF Push, PushLoad, PushRead, PushSend
  <2> QED
    BY <2>1, <2>2, <2>3, <2>4 DEF Push
<1>2. push'[p].at # "idle" =>
         /\ push'[p].agent \in Agents
         /\ push'[p].at = "read" => /\ push'[p].to \in Handlers
                                    /\ pc[push'[p].to] \notin {"auth", "found", "refused"}
                                    /\ agentOf[push'[p].to] = push'[p].agent
  <2>1. ASSUME NEW a \in Agents, PushLoad(p, a)
        PROVE  push'[p].agent = a /\ push'[p].at = "loaded"
    <3>1. push'[p] = [NoPush EXCEPT !.at = "loaded", !.agent = a, !.rows = rows]
      BY <2>1 DEF PushLoad
    <3> QED
      BY <3>1 DEF NoPush
  <2>2. CASE PushRead(p)
    <3> DEFINE a == push[p].agent
    <3>1. a \in Agents /\ push[p] \in PushType
      BY <2>2 DEF PushRead, ProcsFit
    <3>2. CASE agentTx[a] = None
      BY <2>2, <3>2 DEF PushRead, NoPush
    <3>3. CASE agentTx[a] # None
      <4>1. push'[p] = [push[p] EXCEPT !.at = "read", !.to = agentTx[a], !.on = features[a]]
        BY <2>2, <3>3 DEF PushRead
      <4>2. push'[p].agent = a /\ push'[p].to = agentTx[a]
        BY <3>1, <4>1 DEF PushType
      <4>3. agentTx[a] \in Handlers /\ pc[agentTx[a]] \in Serving /\ agentOf[agentTx[a]] = a
        BY <3>1, <3>3 DEF OnlineIsServed
      <4> QED
        BY <3>1, <4>2, <4>3 DEF Serving
    <3> QED
      BY <3>2, <3>3
  <2>3. CASE PushSend(p)
    BY <2>3 DEF PushSend, NoPush
  <2> QED
    BY <2>1, <2>2, <2>3 DEF Push
<1> QED
  BY <1>1, <1>2 DEF ProcsFit, linkVars, Procs

\* So does a handler that moves on without touching what it has to push.
LEMMA FitsKept ==
  ASSUME ProcsFit, NEW h \in Handlers, LinkTypeOK, HandlerKnows,
         UNCHANGED <<computed, todo, push, stage, scope>>,
         \A g \in Handlers : g # h => pc'[g] = pc[g] /\ agentOf'[g] = agentOf[g],
         pc[h] = "auth" \/ agentOf'[h] = agentOf[h],
         pc[h] \notin {"auth", "found", "refused"} => pc'[h] \notin {"auth", "found", "refused"},
         pc[h] = "registered" => pc'[h] = "registered" \/ todo[h] = {},
         pc[h] = "greeted" => pc'[h] = "greeted"
  PROVE  ProcsFit'
<1>1. \A c \in Edits :
        /\ stage'[c] \notin Refreshing => scope'[c] = {}
        /\ DOMAIN computed'[c] \in {{}, scope'[c]}
        /\ stage'[c] # "pushing" => todo'[c] = {}
  BY DEF ProcsFit
<1>2. ASSUME NEW g \in Handlers
      PROVE  /\ DOMAIN computed'[g] # {} => pc'[g] = "greeted" /\ DOMAIN computed'[g] = {agentOf'[g]}
             /\ todo'[g] # {} => pc'[g] = "registered"
  <2>1. /\ DOMAIN computed[g] # {} => pc[g] = "greeted" /\ DOMAIN computed[g] = {agentOf[g]}
        /\ todo[g] # {} => pc[g] = "registered"
    BY DEF ProcsFit
  <2>2. CASE g # h
    BY <2>1, <2>2
  <2>3. CASE g = h
    BY <2>1, <2>3
  <2> QED
    BY <2>2, <2>3
<1>3. ASSUME NEW p \in Procs, push[p].at # "idle"
      PROVE  /\ push[p].agent \in Agents
             /\ push[p].at = "read" => /\ push[p].to \in Handlers
                                       /\ pc'[push[p].to] \notin {"auth", "found", "refused"}
                                       /\ agentOf'[push[p].to] = push[p].agent
  <2> DEFINE g == push[p].to
  <2>1. /\ push[p].agent \in Agents
        /\ push[p].at = "read" => /\ g \in Handlers
                                  /\ pc[g] \notin {"auth", "found", "refused"} /\ agentOf[g] = push[p].agent
    BY <1>3 DEF ProcsFit
  <2>2. CASE g # h
    BY <2>1, <2>2
  <2>3. CASE g = h
    BY <2>1, <2>3
  <2> QED
    BY <2>2, <2>3
<1> QED
  BY <1>1, <1>2, <1>3 DEF ProcsFit

\* So do the steps of a handler.
LEMMA HandlerFits ==
  ASSUME SyncInv, NEW h \in Handlers,
         \/ Load(h) \/ SyncRegister(h) \/ SyncAnnounce(h) \/ SyncBreak(h) \/ Forward(h)
         \/ /\ \/ Refuse(h) \/ (\E a \in Agents : Lookup(h, a)) \/ Greet(h)
               \/ LinkLost(h) \/ Leave(h) \/ Cancel(h) \/ Part(h)
            /\ UNCHANGED syncVars
  PROVE  ProcsFit'
<1> USE EditsAssumption DEF SyncInv, SyncTypes, LinkInv
<1>0. h \in Procs /\ (\A c \in Edits : c \in Procs /\ c # h) /\ \A g \in Handlers : g \in Procs
  BY DEF Procs
<1>1. /\ \A c \in Edits :
           /\ stage[c] \notin Refreshing => scope[c] = {}
           /\ DOMAIN computed[c] \in {{}, scope[c]}
           /\ stage[c] # "pushing" => todo[c] = {}
      /\ \A g \in Handlers :
           /\ DOMAIN computed[g] # {} => pc[g] = "greeted" /\ DOMAIN computed[g] = {agentOf[g]}
           /\ todo[g] # {} => pc[g] = "registered"
  BY DEF ProcsFit
<1>2. CASE Load(h)
  <2>1. /\ UNCHANGED <<pc, agentOf, todo, push, stage, scope>>
        /\ \A q \in Procs : q # h => computed'[q] = computed[q]
        /\ pc[h] = "greeted" /\ DOMAIN computed'[h] = {agentOf[h]}
    BY <1>0, <1>2 DEF Load, Compute, linkVars
  <2> QED
    BY <1>0, <1>1, <2>1 DEF ProcsFit
<1>3. CASE SyncRegister(h)
  <2>1. Store(h) /\ Register(h) /\ UNCHANGED <<stage, scope, push, agentOf>>
    BY <1>3 DEF SyncRegister, Register
  <2>2. DOMAIN computed'[h] = {} /\ \A q \in Procs : q # h => computed'[q] = computed[q]
    BY <1>0, <2>1, StoreEffect
  <2>3. pc[h] = "greeted" /\ pc'[h] = "registered" /\ \A g \in Handlers : g # h => pc'[g] = pc[g]
    BY <2>1 DEF Register, Goto, LinkTypeOK
  <2>4. \A q \in Procs : q # h => todo'[q] = todo[q]
    BY <1>3 DEF SyncRegister, SyncTypeOK
  <2>5. \A g \in Handlers :
          /\ DOMAIN computed'[g] # {} => pc'[g] = "greeted" /\ DOMAIN computed'[g] = {agentOf'[g]}
          /\ todo'[g] # {} => pc'[g] = "registered"
    BY <1>0, <1>1, <2>1, <2>2, <2>3, <2>4
  <2>6. \A g \in Handlers : pc[g] \notin {"auth", "found", "refused"}
                            => pc'[g] \notin {"auth", "found", "refused"}
    BY <2>3
  <2> QED
    BY <1>0, <1>1, <2>1, <2>2, <2>4, <2>5, <2>6 DEF ProcsFit
<1>4. CASE SyncAnnounce(h) \/ SyncBreak(h) \/ Forward(h)
  <2>1. UNCHANGED <<computed, todo, push, stage, scope, agentOf>>
    BY <1>4 DEF SyncAnnounce, SyncBreak, Forward, Announce, Break, syncVars, linkVars
  <2>2. \/ pc' = pc
        \/ pc[h] = "registered" /\ todo[h] = {} /\ pc' = [pc EXCEPT ![h] = "loop"]
        \/ pc[h] = "loop" /\ pc' = [pc EXCEPT ![h] = "leaving"]
    BY <1>4 DEF SyncAnnounce, SyncBreak, Forward, Announce, Break, Goto, linkVars
  <2>3. \A g \in Handlers : g # h => pc'[g] = pc[g]
    BY <2>2 DEF LinkTypeOK
  <2>4. \/ pc'[h] = pc[h]
        \/ pc[h] = "registered" /\ todo[h] = {} /\ pc'[h] = "loop"
        \/ pc[h] = "loop" /\ pc'[h] = "leaving"
    BY <2>2 DEF LinkTypeOK
  <2>5. /\ \A g \in Handlers : g # h => pc'[g] = pc[g] /\ agentOf'[g] = agentOf[g]
        /\ pc[h] = "auth" \/ agentOf'[h] = agentOf[h]
        /\ pc[h] \notin {"auth", "found", "refused"} => pc'[h] \notin {"auth", "found", "refused"}
        /\ pc[h] = "registered" => pc'[h] = "registered" \/ todo[h] = {}
        /\ pc[h] = "greeted" => pc'[h] = "greeted"
    BY <2>1, <2>3, <2>4
  <2> QED
    BY <2>1, <2>5, FitsKept
<1>5. CASE /\ \/ Refuse(h) \/ (\E a \in Agents : Lookup(h, a)) \/ Greet(h)
              \/ LinkLost(h) \/ Leave(h) \/ Cancel(h) \/ Part(h)
           /\ UNCHANGED syncVars
  <2>1. UNCHANGED <<computed, todo, push, stage, scope>>
    BY <1>5 DEF syncVars
  <2>2. \/ pc' = pc /\ agentOf' = agentOf
        \/ /\ pc[h] \in {"auth", "found"} /\ agentOf' = agentOf
           /\ pc' = [pc EXCEPT ![h] = "refused"] \/ pc' = [pc EXCEPT ![h] = "greeted"]
        \/ \E a \in Agents : /\ pc[h] = "auth" /\ agentOf' = [agentOf EXCEPT ![h] = a]
                             /\ pc' = [pc EXCEPT ![h] = "found"]
        \/ /\ pc[h] \in {"leaving", "cancelling", "parting"} /\ agentOf' = agentOf
           /\ \E to \in {"cancelling", "superseded", "parting", "gone"} :
                pc' = [pc EXCEPT ![h] = to]
    <3>1. Refuse(h) \/ Greet(h) =>
            /\ pc[h] \in {"auth", "found"} /\ agentOf' = agentOf
            /\ pc' = [pc EXCEPT ![h] = "refused"] \/ pc' = [pc EXCEPT ![h] = "greeted"]
      BY DEF Refuse, Greet, Goto
    <3>2. ASSUME NEW a \in Agents, Lookup(h, a)
          PROVE  /\ pc[h] = "auth" /\ agentOf' = [agentOf EXCEPT ![h] = a]
                 /\ pc' = [pc EXCEPT ![h] = "found"]
      BY <3>2 DEF Lookup, Goto
    <3>3. LinkLost(h) => pc' = pc /\ agentOf' = agentOf
      BY DEF LinkLost
    <3>4. Leave(h) \/ Cancel(h) \/ Part(h) =>
            /\ pc[h] \in {"leaving", "cancelling", "parting"} /\ agentOf' = agentOf
            /\ \E to \in {"cancelling", "superseded", "parting", "gone"} :
                 pc' = [pc EXCEPT ![h] = to]
      BY DEF Leave, Cancel, Part, Goto
    <3> QED
      BY <1>5, <3>1, <3>2, <3>3, <3>4
  <2>3. /\ \A g \in Handlers : g # h => pc'[g] = pc[g] /\ agentOf'[g] = agentOf[g]
        /\ pc[h] = "auth" \/ agentOf'[h] = agentOf[h]
        /\ pc[h] \notin {"auth", "found", "refused"} => pc'[h] \notin {"auth", "found", "refused"}
        /\ pc[h] = "registered" => pc'[h] = "registered"
        /\ pc[h] = "greeted" => pc'[h] = "greeted"
    BY <2>2 DEF LinkTypeOK
  <2> QED
    BY <2>1, <2>3, FitsKept
<1> QED
  BY <1>2, <1>3, <1>4, <1>5

-----------------------------------------------------------------------------
(* The mirror *)

\* Nothing changes for the mirror while nobody stores, reads or refreshes.
LEMMA MirrorQuiet ==
  ASSUME SyncInv, UNCHANGED <<global, override, features, computed, scope, late, misStored>>,
         \A c \in Edits : stage'[c] \in Refreshing <=> stage[c] \in Refreshing
  PROVE  ComputedFresh' /\ MirrorFresh'
<1>1. \A a : Effective(a)' = Effective(a)
  BY DEF Effective
<1>2. \A a : Owed(a) => Owed(a)'
  BY <1>1 DEF Owed
<1> QED
  BY <1>1, <1>2 DEF SyncInv, ComputedFresh, MirrorFresh

\* A stored change is owed to every agent it is about.
LEMMA MirrorChanged ==
  ASSUME SyncInv, NEW c \in Edits,
         \/ \E b \in BOOLEAN : SetGlobal(c, b)
         \/ \E a \in Agents, choice \in Choices : SetOverride(c, a, choice)
  PROVE  ComputedFresh' /\ MirrorFresh'
<1> USE DEF SyncInv, SyncTypes, SyncTypeOK
<1>1. /\ UNCHANGED <<features, computed, late, misStored>>
      /\ scope[c] = {} /\ DOMAIN computed[c] = {}
      /\ stage'[c] \in Refreshing
      /\ \A d \in Edits : d # c => stage'[d] = stage[d] /\ scope'[d] = scope[d]
  BY DEF SetGlobal, SetOverride, ProcsFit, Refreshing, history
<1>2. \A a \in Agents : a \in scope'[c] => Owed(a)'
  BY <1>1 DEF Owed
<1>3. \A a \in Agents : a \in scope'[c] \/ Effective(a)' = Effective(a)
  BY DEF SetGlobal, SetOverride, Effective
<1>4. ASSUME NEW a \in Agents, Effective(a)' = Effective(a), Owed(a) PROVE Owed(a)'
  BY <1>1, <1>4 DEF Owed
<1>5. \A p \in Procs : \A a \in DOMAIN computed[p] : a \in Agents
  OBVIOUS
<1> QED
  BY <1>1, <1>2, <1>3, <1>4, <1>5 DEF ComputedFresh, MirrorFresh

\* What a process reads is what is stored.
LEMMA MirrorRead ==
  ASSUME SyncInv, NEW p \in Procs,
         \/ p \in Edits /\ Recompute(p)
         \/ p \in Handlers /\ Load(p)
  PROVE  ComputedFresh' /\ MirrorFresh'
<1> USE DEF SyncInv, SyncTypes, SyncTypeOK
<1>1. /\ UNCHANGED <<global, override, features, stage, scope, late, misStored>>
      /\ \A q \in Procs : q # p => computed'[q] = computed[q]
      /\ \A a \in DOMAIN computed'[p] : computed'[p][a] = Effective(a)
  BY DEF Recompute, Load, Compute, storedVars, history
<1>2. p \in Edits => DOMAIN computed'[p] = scope[p]
  BY EditsAssumption DEF Recompute, Compute, Load
<1>3. \A a : Effective(a)' = Effective(a)
  BY <1>1 DEF Effective
<1>4. ASSUME NEW a, Owed(a) PROVE Owed(a)'
  BY <1>1, <1>2, <1>3, <1>4 DEF Owed, Procs
<1> QED
  BY <1>1, <1>3, <1>4 DEF ComputedFresh, MirrorFresh

\* Storing keeps the mirror fresh: what is stored is either late or current or owed.
LEMMA MirrorStored ==
  ASSUME SyncInv, NEW p \in Procs, Store(p), UNCHANGED <<global, override>>,
         \A d \in Edits : d # p => stage'[d] = stage[d] /\ scope'[d] = scope[d],
         p \in Edits => scope[p] \subseteq DOMAIN computed[p]
  PROVE  ComputedFresh' /\ MirrorFresh'
<1> USE DEF SyncInv
<1>1. /\ DOMAIN computed'[p] = {}
      /\ \A q \in Procs : q # p => computed'[q] = computed[q]
      /\ \A q \in Procs : \A a \in Agents : q # p /\ <<q, a>> \in late => <<q, a>> \in late'
  BY StoreEffect
<1>2. \A a \in Agents : a \in DOMAIN computed[p] =>
        /\ features'[a] = computed[p][a]
        /\ <<p, a>> \in late => a \in misStored'
        /\ \A q \in Procs : q # p /\ a \in DOMAIN computed[q] => <<q, a>> \in late'
  BY StoreEffect
<1>3. \A a \in Agents : a \notin DOMAIN computed[p] =>
        features'[a] = features[a] /\ (a \in misStored => a \in misStored')
  BY StoreEffect
<1>4. \A a : Effective(a)' = Effective(a)
  BY DEF Effective
<1>5. ASSUME NEW a, Owed(a)
      PROVE  Owed(a)' \/ (a \in DOMAIN computed[p] /\ computed[p][a] = Effective(a))
  <2>1. PICK d \in Edits : /\ stage[d] \in Refreshing /\ a \in scope[d]
                           /\ DOMAIN computed[d] = {} \/ computed[d][a] = Effective(a)
    BY <1>5 DEF Owed
  <2>2. CASE d = p
    BY <2>1, <2>2
  <2>3. CASE d # p
    <3>1. computed'[d] = computed[d] /\ stage'[d] = stage[d] /\ scope'[d] = scope[d]
      BY <1>1, <2>3 DEF Procs
    <3> QED
      BY <1>4, <2>1, <3>1 DEF Owed
  <2> QED
    BY <2>2, <2>3
<1>6. MirrorFresh'
  <2> SUFFICES ASSUME NEW a \in Agents
               PROVE  a \in misStored' \/ features'[a] = Effective(a) \/ Owed(a)'
    BY <1>4 DEF MirrorFresh
  <2>1. CASE a \in DOMAIN computed[p]
    BY <1>2, <1>5, <2>1 DEF ComputedFresh
  <2>2. CASE a \notin DOMAIN computed[p]
    BY <1>3, <1>5, <2>2 DEF MirrorFresh
  <2> QED
    BY <2>1, <2>2
<1>7. ComputedFresh'
  <2> SUFFICES ASSUME NEW q \in Procs, NEW a \in DOMAIN computed'[q]
               PROVE  <<q, a>> \in late' \/ computed'[q][a] = Effective(a) \/ Owed(a)'
    BY <1>4 DEF ComputedFresh
  <2>1. q # p /\ computed'[q] = computed[q]
    BY <1>1
  <2>2. a \in Agents
    BY <2>1 DEF SyncTypes, SyncTypeOK
  <2>3. CASE a \in DOMAIN computed[p]
    BY <1>2, <2>1, <2>2, <2>3
  <2>4. CASE a \notin DOMAIN computed[p]
    BY <1>1, <1>5, <2>1, <2>2, <2>4 DEF ComputedFresh
  <2> QED
    BY <2>3, <2>4
<1> QED
  BY <1>6, <1>7

\* No step spoils the mirror.
LEMMA MirrorStep ==
  ASSUME SyncInv, [SyncNext]_taskSyncVars
  PROVE  ComputedFresh' /\ MirrorFresh'
<1>0. (\A c \in Edits : c \in Procs) /\ \A h \in Handlers : h \in Procs /\ h \notin Edits
  BY EditsAssumption DEF Procs
<1>1. ASSUME NEW c \in Edits, EditRows(c) \/ Collect(c) PROVE ComputedFresh' /\ MirrorFresh'
  <2>1. UNCHANGED <<global, override, features, computed, scope, late, misStored>>
    BY <1>1 DEF EditRows, Collect, storedVars, history
  <2>2. \A d \in Edits : stage'[d] \in Refreshing <=> stage[d] \in Refreshing
    BY <1>1 DEF EditRows, Collect, Refreshing, SyncInv, SyncTypes, SyncTypeOK
  <2> QED
    BY <2>1, <2>2, MirrorQuiet
<1>2. ASSUME NEW c \in Edits,
             \/ \E b \in BOOLEAN : SetGlobal(c, b)
             \/ \E a \in Agents, choice \in Choices : SetOverride(c, a, choice)
      PROVE  ComputedFresh' /\ MirrorFresh'
  BY <1>2, MirrorChanged
<1>3. ASSUME NEW c \in Edits, Recompute(c) PROVE ComputedFresh' /\ MirrorFresh'
  BY <1>0, <1>3, MirrorRead
<1>4. ASSUME NEW c \in Edits, Apply(c) PROVE ComputedFresh' /\ MirrorFresh'
  <2>1. Store(c) /\ UNCHANGED <<global, override>>
    BY <1>4 DEF Apply, storedVars
  <2>2. \A d \in Edits : d # c => stage'[d] = stage[d] /\ scope'[d] = scope[d]
    BY <1>4 DEF Apply, SyncInv, SyncTypes, SyncTypeOK
  <2>3. scope[c] \subseteq DOMAIN computed[c]
    <3>1. computed[c] # <<>> /\ computed[c] \in Partial
      BY <1>0, <1>4 DEF Apply, SyncInv, SyncTypes
    <3>2. DOMAIN computed[c] # {}
      BY <3>1, EmptyMap
    <3> QED
      BY <3>2 DEF SyncInv, ProcsFit
  <2> QED
    BY <1>0, <2>1, <2>2, <2>3, MirrorStored
<1>5. ASSUME NEW p \in Procs, Push(p) PROVE ComputedFresh' /\ MirrorFresh'
  <2>1. UNCHANGED <<global, override, features, computed, scope, late, misStored, stage>>
    BY <1>5 DEF Push, PushLoad, PushRead, PushSend, storedVars, history
  <2> QED
    BY <2>1, MirrorQuiet
<1>6. ASSUME NEW h \in Handlers, Load(h) PROVE ComputedFresh' /\ MirrorFresh'
  BY <1>0, <1>6, MirrorRead
<1>7. ASSUME NEW h \in Handlers, SyncRegister(h) PROVE ComputedFresh' /\ MirrorFresh'
  <2>1. Store(h) /\ UNCHANGED <<global, override, stage, scope>>
    BY <1>7 DEF SyncRegister, storedVars
  <2> QED
    BY <1>0, <2>1, MirrorStored
<1>8. ASSUME NEW h \in Handlers, SyncAnnounce(h) \/ SyncBreak(h) \/ Forward(h) \/ UNCHANGED syncVars
      PROVE  ComputedFresh' /\ MirrorFresh'
  <2>1. UNCHANGED <<global, override, features, computed, scope, late, misStored, stage>>
    BY <1>8 DEF SyncAnnounce, SyncBreak, Forward, syncVars, storedVars, history
  <2> QED
    BY <2>1, MirrorQuiet
<1>9. CASE UNCHANGED taskSyncVars
  <2>1. UNCHANGED <<global, override, features, computed, scope, late, misStored, stage>>
    BY <1>9 DEF taskSyncVars, syncVars, storedVars, history
  <2> QED
    BY <2>1, MirrorQuiet
<1> QED
  BY <1>1, <1>2, <1>3, <1>4, <1>5, <1>6, <1>7, <1>8, <1>9 DEF SyncNext

-----------------------------------------------------------------------------
(* The pushes *)

\* A step after which an agent is offline, is still to be pushed to, or has the
\* connection and the features it had, keeps what is under way to it.
LEMMA PushQuiet ==
  ASSUME SyncInv, UNCHANGED <<rows, push, lateSend, misSent>>,
         \A p \in Procs : todo[p] \subseteq todo'[p],
         \A c \in Edits : stage[c] = "collect" => stage'[c] = "collect",
         \A h \in Handlers : LastSent(h)' = LastSent(h),
         \A a \in Agents : \/ agentTx'[a] = None
                           \/ \E p \in Procs : a \in todo'[p]
                           \/ agentTx'[a] = agentTx[a] /\ features'[a] = features[a]
  PROVE  PushesFresh' /\ SentFresh'
<1>1. ASSUME NEW a \in Agents, NEW ps, \E p \in Procs : a \in todo'[p]
      PROVE  Due(a, ps)'
  BY <1>1 DEF Due
<1>2. ASSUME NEW a \in Agents, NEW ps \in SUBSET Procs, Due(a, ps),
             agentTx'[a] = agentTx[a], features'[a] = features[a]
      PROVE  Due(a, ps)'
  <2>1. ASSUME NEW p \in Procs, Current(p, a) PROVE Current(p, a)'
    BY <1>2, <2>1 DEF Current
  <2> QED
    BY <1>2, <2>1 DEF Due
<1>3. ASSUME NEW a \in Agents, agentTx'[a] # None, NEW p \in Procs, Pushing(p, a)'
      PROVE  <<p, a>> \in lateSend' \/ Current(p, a)' \/ Due(a, Procs \ {p})'
  <2>1. CASE \E q \in Procs : a \in todo'[q]
    BY <1>1, <2>1
  <2>2. CASE agentTx'[a] = agentTx[a] /\ features'[a] = features[a]
    <3>1. <<p, a>> \in lateSend \/ Current(p, a) \/ Due(a, Procs \ {p})
      BY <1>3, <2>2 DEF SyncInv, PushesFresh, Pushing
    <3>2. Current(p, a) => Current(p, a)'
      BY <2>2 DEF Current
    <3>3. Due(a, Procs \ {p}) => Due(a, Procs \ {p})'
      BY <1>2, <2>2
    <3> QED
      BY <3>1, <3>2, <3>3
  <2> QED
    BY <1>3, <2>1, <2>2
<1>4. ASSUME NEW a \in Agents, agentTx'[a] # None
      PROVE  a \in misSent' \/ LastSent(agentTx[a])' = Shown(a)' \/ Due(a, Procs)'
  <2>1. CASE \E q \in Procs : a \in todo'[q]
    BY <1>1, <2>1
  <2>2. CASE agentTx'[a] = agentTx[a] /\ features'[a] = features[a]
    <3>1. a \in misSent \/ LastSent(agentTx[a]) = Shown(a) \/ Due(a, Procs)
      BY <1>4, <2>2 DEF SyncInv, SentFresh
    <3>2. Due(a, Procs) => Due(a, Procs)'
      BY <1>2, <2>2
    <3>3. agentTx[a] \in Handlers
      BY <1>4, <2>2 DEF SyncInv, LinkInv, LinkTypeOK
    <3>4. LastSent(agentTx[a])' = LastSent(agentTx[a])
      <4>1. \A h \in Handlers : (IF wire'[h] = <<>> THEN running'[h] ELSE wire'[h][Len(wire'[h])])
                                = LastSent(h)
        BY DEF LastSent
      <4>2. LastSent(agentTx[a])' = (IF wire'[agentTx'[a]] = <<>> THEN running'[agentTx'[a]]
                                     ELSE wire'[agentTx'[a]][Len(wire'[agentTx'[a]])])
        BY DEF LastSent
      <4> QED
        BY <2>2, <3>3, <4>1, <4>2
    <3>5. Shown(a)' = Shown(a)
      BY <2>2 DEF Shown
    <3> QED
      BY <3>1, <3>2, <3>4, <3>5
  <2> QED
    BY <1>4, <2>1, <2>2
<1>5. PushesFresh'
  BY <1>3 DEF PushesFresh
<1>6. SentFresh'
  BY <1>4 DEF SentFresh
<1> QED
  BY <1>5, <1>6

\* A message made from the rows just read is current.
LEMMA PushLoadFresh ==
  ASSUME SyncInv, NEW p \in Procs, NEW a \in Agents, PushLoad(p, a)
  PROVE  PushesFresh' /\ SentFresh'
<1> USE DEF SyncInv, SyncTypes, SyncTypeOK
<1>1. /\ UNCHANGED <<rows, features, agentTx, stage, wire, running, lateSend, misSent>>
      /\ \A q \in Procs : q # p => push'[q] = push[q] /\ todo'[q] = todo[q]
      /\ \A b \in Agents : b # a => (b \in todo[p] <=> b \in todo'[p])
      /\ push[p].at = "idle"
  BY DEF PushLoad, linkVars, storedVars, history
<1>2. push'[p].agent = a /\ push'[p].rows = rows /\ push'[p].at = "loaded"
  <2>1. push'[p] = [NoPush EXCEPT !.at = "loaded", !.agent = a, !.rows = rows]
    BY DEF PushLoad
  <2> QED
    BY <2>1 DEF NoPush
<1>3. Current(p, a)'
  BY <1>1, <1>2 DEF Current
<1>4. ASSUME NEW b \in Agents, b # a
      PROVE  /\ ~Pushing(p, b)'
             /\ \A q \in Procs : Current(q, b) => Current(q, b)'
             /\ \A ps \in SUBSET Procs : Due(b, ps) => Due(b, ps)'
  <2>1. ~Pushing(p, b)'
    BY <1>2, <1>4 DEF Pushing
  <2>2. \A q \in Procs : Current(q, b) => Current(q, b)'
    BY <1>1 DEF Current
  <2>3. \A q \in Procs : b \in todo[q] => b \in todo'[q]
    BY <1>1, <1>4
  <2> QED
    BY <1>1, <2>1, <2>2, <2>3 DEF Due
<1>5. \A ps \in SUBSET Procs : p \in ps => Due(a, ps)'
  BY <1>3 DEF Due
<1>6. ASSUME NEW b \in Agents, agentTx'[b] # None, NEW q \in Procs, Pushing(q, b)'
      PROVE  <<q, b>> \in lateSend' \/ Current(q, b)' \/ Due(b, Procs \ {q})'
  <2>1. CASE b = a
    <3>1. CASE q = p
      BY <1>3, <2>1, <3>1
    <3>2. CASE q # p
      <4>1. Due(a, Procs \ {q})'
        <5>1. Procs \ {q} \in SUBSET Procs /\ p \in Procs \ {q}
          BY <3>2
        <5> QED
          BY <1>5, <5>1, Zenon
      <4> QED
        BY <2>1, <4>1
    <3> QED
      BY <3>1, <3>2
  <2>2. CASE b # a
    <3>1. q # p /\ Pushing(q, b)
      BY <1>1, <1>4, <1>6, <2>2 DEF Pushing
    <3>2. <<q, b>> \in lateSend \/ Current(q, b) \/ Due(b, Procs \ {q})
      BY <1>1, <1>6, <3>1 DEF PushesFresh
    <3> QED
      BY <1>1, <1>4, <2>2, <3>2
  <2> QED
    BY <2>1, <2>2
<1>7. ASSUME NEW b \in Agents, agentTx'[b] # None
      PROVE  b \in misSent' \/ LastSent(agentTx[b])' = Shown(b)' \/ Due(b, Procs)'
  <2>1. CASE b = a
    BY <1>5, <2>1
  <2>2. CASE b # a
    <3>1. b \in misSent \/ LastSent(agentTx[b]) = Shown(b) \/ Due(b, Procs)
      BY <1>1, <1>7 DEF SentFresh
    <3>2. LastSent(agentTx[b])' = LastSent(agentTx[b]) /\ Shown(b)' = Shown(b)
      BY <1>1 DEF LastSent, Shown
    <3> QED
      BY <1>1, <1>4, <2>2, <3>1, <3>2
  <2> QED
    BY <2>1, <2>2
<1>8. PushesFresh'
  BY <1>6 DEF PushesFresh
<1>9. SentFresh'
  BY <1>7 DEF SentFresh
<1> QED
  BY <1>8, <1>9

\* Reading the sender and the features keeps a message current.
LEMMA PushReadFresh ==
  ASSUME SyncInv, NEW p \in Procs, PushRead(p)
  PROVE  PushesFresh' /\ SentFresh'
<1> USE DEF SyncInv, SyncTypes, SyncTypeOK
<1> DEFINE a == push[p].agent
<1>1. /\ UNCHANGED <<rows, features, agentTx, stage, todo, wire, running, misSent>>
      /\ \A q \in Procs : q # p => push'[q] = push[q]
      /\ \A q \in Procs, b \in Agents : b # a => (<<q, b>> \in lateSend <=> <<q, b>> \in lateSend')
      /\ push[p].at = "loaded" /\ a \in Agents
  BY DEF PushRead, ProcsFit, linkVars, storedVars, history
<1>2. CASE agentTx[a] = None
  <2>1. push'[p] = NoPush
    BY <1>2 DEF PushRead
  <2>2. ASSUME NEW b \in Agents, agentTx[b] # None
        PROVE  /\ ~Pushing(p, b)'
               /\ \A q \in Procs : Current(q, b) => Current(q, b)'
               /\ \A ps \in SUBSET Procs : Due(b, ps) => Due(b, ps)'
    <3>1. b # a
      BY <1>2, <2>2
    <3>2. \A q \in Procs : Current(q, b) => Current(q, b)'
      BY <1>1, <3>1 DEF Current
    <3> QED
      BY <1>1, <2>1, <3>2 DEF Due, Pushing, NoPush
  <2>3. ASSUME NEW b \in Agents, agentTx'[b] # None, NEW q \in Procs, Pushing(q, b)'
        PROVE  <<q, b>> \in lateSend' \/ Current(q, b)' \/ Due(b, Procs \ {q})'
    <3>1. q # p /\ Pushing(q, b) /\ b # a
      BY <1>1, <1>2, <2>2, <2>3 DEF Pushing
    <3>2. <<q, b>> \in lateSend \/ Current(q, b) \/ Due(b, Procs \ {q})
      BY <1>1, <2>3, <3>1 DEF PushesFresh
    <3>3. Due(b, Procs \ {q}) => Due(b, Procs \ {q})'
      BY <1>1, <2>2, <2>3
    <3> QED
      BY <1>1, <2>2, <2>3, <3>1, <3>2, <3>3
  <2>4. ASSUME NEW b \in Agents, agentTx'[b] # None
        PROVE  b \in misSent' \/ LastSent(agentTx[b])' = Shown(b)' \/ Due(b, Procs)'
    <3>1. b \in misSent \/ LastSent(agentTx[b]) = Shown(b) \/ Due(b, Procs)
      BY <1>1, <2>4 DEF SentFresh
    <3>2. LastSent(agentTx[b])' = LastSent(agentTx[b]) /\ Shown(b)' = Shown(b)
      BY <1>1 DEF LastSent, Shown
    <3> QED
      BY <1>1, <2>2, <2>4, <3>1, <3>2
  <2>5. PushesFresh'
    BY <2>3 DEF PushesFresh
  <2>6. SentFresh'
    BY <2>4 DEF SentFresh
  <2> QED
    BY <2>5, <2>6
<1>3. CASE agentTx[a] # None
  <2>1. /\ push'[p].agent = a /\ push'[p].rows = push[p].rows /\ push'[p].at = "read"
        /\ push'[p].to = agentTx[a] /\ push'[p].on = features[a]
        /\ lateSend' = lateSend
    <3>1. push'[p] = [push[p] EXCEPT !.at = "read", !.to = agentTx[a], !.on = features[a]]
      BY <1>3 DEF PushRead
    <3> QED
      BY <1>3, <3>1 DEF PushRead, PushType
  <2>2. \A b \in Agents, q \in Procs : Current(q, b) => Current(q, b)'
    BY <1>1, <2>1 DEF Current
  <2>3. \A b \in Agents : \A ps \in SUBSET Procs : Due(b, ps) => Due(b, ps)'
    BY <1>1, <2>2 DEF Due
  <2>4. \A b \in Agents, q \in Procs : Pushing(q, b)' => Pushing(q, b)
    BY <1>1, <2>1 DEF Pushing
  <2>5. PushesFresh'
    <3> SUFFICES ASSUME NEW b \in Agents, agentTx'[b] # None, NEW q \in Procs, Pushing(q, b)'
                 PROVE  <<q, b>> \in lateSend' \/ Current(q, b)' \/ Due(b, Procs \ {q})'
      BY DEF PushesFresh
    <3>1. <<q, b>> \in lateSend \/ Current(q, b) \/ Due(b, Procs \ {q})
      BY <1>1, <2>4 DEF PushesFresh
    <3> QED
      BY <2>1, <2>2, <2>3, <3>1
  <2>6. SentFresh'
    <3> SUFFICES ASSUME NEW b \in Agents, agentTx'[b] # None
                 PROVE  b \in misSent' \/ LastSent(agentTx[b])' = Shown(b)' \/ Due(b, Procs)'
      BY DEF SentFresh
    <3>1. b \in misSent \/ LastSent(agentTx[b]) = Shown(b) \/ Due(b, Procs)
      BY <1>1 DEF SentFresh
    <3>2. LastSent(agentTx[b])' = LastSent(agentTx[b]) /\ Shown(b)' = Shown(b)
      BY <1>1 DEF LastSent, Shown
    <3> QED
      BY <1>1, <2>3, <3>1, <3>2
  <2> QED
    BY <2>5, <2>6
<1> QED
  BY <1>2, <1>3

\* The last message is the one just queued.
LEMMA LastOfAppend ==
  ASSUME NEW s \in Seq(Nat), NEW x \in Nat
  PROVE  Append(s, x) # <<>> /\ Append(s, x)[Len(Append(s, x))] = x
<1>1. Len(Append(s, x)) = Len(s) + 1 /\ Append(s, x)[Len(s) + 1] = x
  BY AppendProperties
<1> QED
  BY <1>1, AppendProperties

\* The registered sender leads to a handler of the agent that has not returned.
LEMMA RegisteredServes ==
  ASSUME LinkInv, NEW b \in Agents, agentTx[b] # None
  PROVE  /\ agentTx[b] \in Handlers /\ pc[agentTx[b]] \notin Returned
         /\ agentOf[agentTx[b]] = b
  BY DEF LinkInv, LinkTypeOK, OnlineIsServed, Serving, Returned

\* Sending overtakes every other message to the agent that is under way.
LEMMA PushSendFresh ==
  ASSUME SyncInv, NEW p \in Procs, PushSend(p)
  PROVE  PushesFresh' /\ SentFresh'
<1> USE DEF SyncInv, SyncTypes, SyncTypeOK
<1>0. PICK a \in Agents, to \in Handlers, x \in Nat :
        /\ a = push[p].agent /\ to = push[p].to /\ agentOf[to] = a
        /\ x = IF push[p].on THEN push[p].rows ELSE 0
  <2>1. push[p].rows \in Nat /\ push[p].at = "read"
    BY DEF PushType, PushSend
  <2>2. (IF push[p].on THEN push[p].rows ELSE 0) \in Nat
    BY <2>1
  <2> QED
    BY <2>1, <2>2 DEF ProcsFit
<1>1. /\ UNCHANGED <<rows, features, agentTx, stage, todo, running>>
      /\ \A q \in Procs : q # p => push'[q] = push[q]
      /\ push'[p] = NoPush
      /\ push[p].at = "read"
  BY DEF PushSend, linkVars, storedVars, history
<1>2. ASSUME NEW b \in Agents, agentTx[b] # None
      PROVE  /\ agentTx[b] \in Handlers /\ pc[agentTx[b]] \notin Returned
             /\ agentOf[agentTx[b]] = b
  BY <1>2, RegisteredServes
<1>3. \A b \in Agents, q \in Procs : Pushing(q, b)' => q # p /\ Pushing(q, b)
  BY <1>1 DEF Pushing, NoPush
<1>4. \A b \in Agents, q \in Procs : q # p => (Current(q, b) => Current(q, b)')
  BY <1>1 DEF Current
<1>5. ASSUME NEW b \in Agents, NEW ps \in SUBSET Procs, Due(b, ps), ~Current(p, b)
      PROVE  Due(b, ps)'
  BY <1>1, <1>4, <1>5 DEF Due
<1>6. \A b \in Agents : b # a => ~Current(p, b)
  BY <1>0 DEF Current
<1>7. \A h \in Handlers : h # to => wire'[h] = wire[h]
  BY <1>0 DEF PushSend
<1>8. CASE pc[to] \in Returned
  <2>1. /\ UNCHANGED <<wire, misSent>>
        /\ \A q \in Procs, b \in Agents : q # p => (<<q, b>> \in lateSend <=> <<q, b>> \in lateSend')
    BY <1>0, <1>8 DEF PushSend
  <2>2. \A b \in Agents : agentTx[b] # None => ~Current(p, b)
    <3> SUFFICES ASSUME NEW b \in Agents, agentTx[b] # None, Current(p, b) PROVE FALSE
      OBVIOUS
    <3>1. to = agentTx[b]
      BY <1>0, <1>1 DEF Current
    <3> QED
      BY <1>2, <1>8, <3>1
  <2>3. PushesFresh'
    <3> SUFFICES ASSUME NEW b \in Agents, agentTx'[b] # None, NEW q \in Procs, Pushing(q, b)'
                 PROVE  <<q, b>> \in lateSend' \/ Current(q, b)' \/ Due(b, Procs \ {q})'
      BY DEF PushesFresh
    <3>1. q # p /\ Pushing(q, b) /\ agentTx[b] # None
      BY <1>1, <1>3
    <3>2. <<q, b>> \in lateSend \/ Current(q, b) \/ Due(b, Procs \ {q})
      BY <3>1 DEF PushesFresh
    <3>3. Due(b, Procs \ {q}) => Due(b, Procs \ {q})'
      BY <1>5, <2>2, <3>1
    <3> QED
      BY <1>4, <2>1, <3>1, <3>2, <3>3
  <2>4. SentFresh'
    <3> SUFFICES ASSUME NEW b \in Agents, agentTx'[b] # None
                 PROVE  b \in misSent' \/ LastSent(agentTx[b])' = Shown(b)' \/ Due(b, Procs)'
      BY DEF SentFresh
    <3>1. b \in misSent \/ LastSent(agentTx[b]) = Shown(b) \/ Due(b, Procs)
      BY <1>1 DEF SentFresh
    <3>2. LastSent(agentTx[b])' = LastSent(agentTx[b]) /\ Shown(b)' = Shown(b)
      BY <1>1, <2>1 DEF LastSent, Shown
    <3>3. Due(b, Procs) => Due(b, Procs)'
      BY <1>1, <1>5, <2>2
    <3> QED
      BY <2>1, <3>1, <3>2, <3>3
  <2> QED
    BY <2>3, <2>4
<1>9. CASE pc[to] \notin Returned
  <2>1. /\ wire' = [wire EXCEPT ![to] = Append(@, x)]
        /\ lateSend' = (lateSend \ {<<p, a>>})
                 \cup {<<q, a>> : q \in {q \in Procs \ {p} : Pushing(q, a)}}
        /\ misSent' = IF <<p, a>> \in lateSend THEN misSent \cup {a} ELSE misSent \ {a}
    BY <1>0, <1>9 DEF PushSend
  <2>2. LastSent(to)' = x
    <3>1. wire[to] \in Seq(Nat) /\ wire'[to] = Append(wire[to], x)
      BY <1>1, <2>1
    <3>2. Append(wire[to], x) # <<>> /\ Append(wire[to], x)[Len(Append(wire[to], x))] = x
      BY <3>1, LastOfAppend
    <3>3. wire'[to] # <<>> /\ wire'[to][Len(wire'[to])] = x
      BY <3>1, <3>2, Zenon
    <3> QED
      BY <3>3 DEF LastSent
  <2>3. PushesFresh'
    <3> SUFFICES ASSUME NEW b \in Agents, agentTx'[b] # None, NEW q \in Procs, Pushing(q, b)'
                 PROVE  <<q, b>> \in lateSend' \/ Current(q, b)' \/ Due(b, Procs \ {q})'
      BY DEF PushesFresh
    <3>1. q # p /\ Pushing(q, b) /\ agentTx[b] # None
      BY <1>1, <1>3
    <3>2. CASE b = a
      BY <2>1, <3>1, <3>2
    <3>3. CASE b # a
      <4>1. <<q, b>> \in lateSend \/ Current(q, b) \/ Due(b, Procs \ {q})
        BY <3>1 DEF PushesFresh
      <4>2. Due(b, Procs \ {q}) => Due(b, Procs \ {q})'
        BY <1>5, <1>6, <3>3
      <4>3. <<q, b>> \in lateSend => <<q, b>> \in lateSend'
        BY <2>1, <3>1
      <4> QED
        BY <1>4, <3>1, <4>1, <4>2, <4>3
    <3> QED
      BY <3>2, <3>3
  <2>4. SentFresh'
    <3> SUFFICES ASSUME NEW b \in Agents, agentTx'[b] # None
                 PROVE  b \in misSent' \/ LastSent(agentTx[b])' = Shown(b)' \/ Due(b, Procs)'
      BY DEF SentFresh
    <3>1. CASE b # a
      <4>1. b \in misSent \/ LastSent(agentTx[b]) = Shown(b) \/ Due(b, Procs)
        BY <1>1 DEF SentFresh
      <4>2. agentTx[b] \in Handlers /\ agentTx[b] # to
        BY <1>0, <1>1, <1>2, <3>1
      <4>3. LastSent(agentTx[b])' = LastSent(agentTx[b]) /\ Shown(b)' = Shown(b)
        BY <1>1, <1>7, <4>2 DEF LastSent, Shown
      <4>4. Due(b, Procs) => Due(b, Procs)'
        BY <1>5, <1>6, <3>1
      <4>5. b \in misSent => b \in misSent'
        BY <2>1, <3>1
      <4> QED
        BY <4>1, <4>3, <4>4, <4>5
    <3>2. CASE b = a /\ <<p, a>> \in lateSend
      BY <2>1, <3>2
    <3>3. CASE b = a /\ Current(p, a)
      <4>1. push[p].rows = rows /\ push[p].on = features[a] /\ to = agentTx[a]
        BY <1>0, <1>1, <3>3 DEF Current
      <4>2. Shown(a)' = x
        BY <1>0, <1>1, <4>1 DEF Shown
      <4> QED
        BY <1>1, <2>2, <3>3, <4>1, <4>2
    <3>4. CASE b = a /\ ~Current(p, a) /\ <<p, a>> \notin lateSend
      <4>1. Pushing(p, a)
        BY <1>0, <1>1 DEF Pushing
      <4>2. Due(a, Procs \ {p})
        BY <1>1, <3>4, <4>1 DEF PushesFresh
      <4>3. Due(a, Procs)'
        BY <1>1, <1>4, <4>2 DEF Due
      <4> QED
        BY <3>4, <4>3
    <3> QED
      BY <3>1, <3>2, <3>3, <3>4
  <2> QED
    BY <2>3, <2>4
<1> QED
  BY <1>8, <1>9

\* A change of the rows is due to every agent, until the request collects those
\* that are online: it then pushes to each of them.
LEMMA RowsFresh ==
  ASSUME SyncInv, SyncTypes', NEW c \in Edits, EditRows(c) \/ Collect(c)
  PROVE  PushesFresh' /\ SentFresh'
<1>1. CASE EditRows(c)
  <2>1. stage'[c] = "collect"
    BY <1>1 DEF EditRows, SyncInv, SyncTypes, SyncTypeOK
  <2>2. \A a, ps : Due(a, ps)'
    BY <2>1 DEF Due
  <2> QED
    BY <2>2 DEF PushesFresh, SentFresh
<1>2. CASE Collect(c)
  <2>1. c \in Procs /\ todo'[c] = {a \in Agents : online[a]} /\ agentTx' = agentTx
    BY <1>2 DEF Collect, SyncInv, SyncTypes, SyncTypeOK, Procs, linkVars
  <2>2. \A a \in Agents : agentTx'[a] # None => a \in todo'[c]
    BY <2>1 DEF SyncInv, LinkInv, OnlineIsServed
  <2>3. \A ps : \A a \in Agents : agentTx'[a] # None => Due(a, ps)'
    BY <2>1, <2>2 DEF Due
  <2> QED
    BY <2>3 DEF PushesFresh, SentFresh
<1> QED
  BY <1>1, <1>2

\* Taking the oldest message leaves the last one.
LEMMA LastOfTail ==
  ASSUME NEW s \in Seq(Nat), s # <<>>
  PROVE  /\ Tail(s) = <<>> => s[Len(s)] = Head(s)
         /\ Tail(s) # <<>> => Tail(s)[Len(Tail(s))] = s[Len(s)]
<1>1. Len(s) \in Nat \ {0}
  BY EmptySeq
<1>2. /\ Tail(s) \in Seq(Nat) /\ Len(Tail(s)) = Len(s) - 1
      /\ \A i \in 1 .. Len(Tail(s)) : Tail(s)[i] = s[i + 1]
  BY HeadTailProperties
<1>3. ASSUME Tail(s) = <<>> PROVE s[Len(s)] = Head(s)
  <2>1. Len(Tail(s)) = 0
    BY <1>3, EmptySeq
  <2>2. Len(Tail(s)) = Len(s) - 1
    BY <1>2
  <2>3. Len(s) = 1
    <3> DEFINE n == Len(s)
    <3>1. n \in Nat /\ n - 1 = 0
      BY <1>1, <2>1, <2>2
    <3> HIDE DEF n
    <3>2. n = 1
      BY <3>1
    <3> QED
      BY <3>2 DEF n
  <2> QED
    BY <2>3
<1>4. ASSUME Tail(s) # <<>> PROVE Tail(s)[Len(Tail(s))] = s[Len(s)]
  <2>1. Len(Tail(s)) \in Nat \ {0}
    BY <1>2, <1>4, EmptySeq
  <2>2. Len(Tail(s)) \in 1 .. Len(Tail(s)) /\ Len(Tail(s)) + 1 = Len(s)
    BY <1>1, <1>2, <2>1
  <2> QED
    BY <1>2, <2>2
<1> QED
  BY <1>3, <1>4

\* The message the loop takes becomes what the agent runs.
LEMMA ForwardKeepsLast ==
  ASSUME SyncInv, NEW h \in Handlers, Forward(h)
  PROVE  \A g \in Handlers : LastSent(g)' = LastSent(g)
<1>1. /\ wire[h] \in Seq(Nat) /\ wire[h] # <<>>
      /\ wire'[h] = Tail(wire[h]) /\ running'[h] = Head(wire[h])
      /\ \A g \in Handlers : g # h => wire'[g] = wire[g] /\ running'[g] = running[g]
  BY DEF Forward, SyncInv, SyncTypes, SyncTypeOK
<1>2. ASSUME NEW g \in Handlers, g # h PROVE LastSent(g)' = LastSent(g)
  BY <1>1, <1>2 DEF LastSent
<1>3. LastSent(h)' = LastSent(h)
  <2>1. CASE Tail(wire[h]) = <<>>
    <3>1. wire[h][Len(wire[h])] = Head(wire[h])
      BY <1>1, <2>1, LastOfTail
    <3> QED
      BY <1>1, <2>1, <3>1 DEF LastSent
  <2>2. CASE Tail(wire[h]) # <<>>
    <3>1. Tail(wire[h])[Len(Tail(wire[h]))] = wire[h][Len(wire[h])]
      BY <1>1, <2>2, LastOfTail
    <3>2. wire'[h] # <<>> /\ wire'[h][Len(wire'[h])] = wire[h][Len(wire[h])]
      BY <1>1, <2>2, <3>1, Zenon
    <3> QED
      BY <1>1, <3>2 DEF LastSent
  <2> QED
    BY <2>1, <2>2
<1> QED
  BY <1>2, <1>3

\* Agents whose stored features change are pushed to by the request that stored
\* them, or by the handler that registered with them.
LEMMA StoreFresh ==
  ASSUME SyncInv, NEW p \in Procs,
         \/ p \in Edits /\ Apply(p)
         \/ p \in Handlers /\ SyncRegister(p)
  PROVE  PushesFresh' /\ SentFresh'
<1> USE DEF SyncInv, SyncTypes, SyncTypeOK
<1>0. /\ UNCHANGED <<rows, push, wire, running, lateSend, misSent>> /\ Store(p)
      /\ \A q \in Procs : q # p => todo'[q] = todo[q]
  BY DEF Apply, SyncRegister, storedVars
<1>1. \A a \in Agents : a \notin DOMAIN computed[p] => features'[a] = features[a]
  BY <1>0, StoreEffect
<1>2. todo[p] = {} /\ (\A c \in Edits : stage[c] = "collect" => stage'[c] = "collect")
      /\ \A a \in Agents : \/ a \in todo'[p]
                           \/ agentTx'[a] = agentTx[a] /\ features'[a] = features[a]
  <2>1. CASE p \in Edits /\ Apply(p)
    <3>0. computed[p] \in Partial /\ computed[p] # <<>> /\ DOMAIN computed[p] \in {{}, scope[p]}
      BY <2>1 DEF Apply, ProcsFit
    <3>1. DOMAIN computed[p] # {} /\ DOMAIN computed[p] = scope[p]
      BY <3>0, EmptyMap
    <3>2. stage[p] \in Refreshing
      BY <2>1, <3>1 DEF ProcsFit
    <3>3. todo[p] = {} /\ \A c \in Edits : stage[c] = "collect" => stage'[c] = "collect"
      BY <2>1, <3>2 DEF ProcsFit, Apply, Refreshing
    <3>4. todo'[p] = IF stage[p] = "refresh_all" THEN Changed(p) ELSE scope[p]
      BY <2>1 DEF Apply
    <3>5. \A a \in Agents : a \in DOMAIN computed[p] => features'[a] = computed[p][a]
      BY <1>0, StoreEffect
    <3>6. \A a \in Agents : a \in todo'[p] \/ features'[a] = features[a]
      BY <1>1, <3>1, <3>4, <3>5 DEF Changed
    <3>7. agentTx' = agentTx
      BY <2>1 DEF Apply, linkVars
    <3> QED
      BY <3>3, <3>6, <3>7
  <2>2. CASE p \in Handlers /\ SyncRegister(p)
    <3>1. /\ DOMAIN computed[p] \subseteq {agentOf[p]} /\ todo'[p] = {agentOf[p]}
          /\ todo[p] = {} /\ stage' = stage
          /\ \A a \in Agents : a # agentOf[p] => agentTx'[a] = agentTx[a]
      BY <2>2 DEF SyncRegister, Register, Goto, ProcsFit, LinkInv, LinkTypeOK
    <3> QED
      BY <1>1, <3>1
  <2> QED
    BY <2>1, <2>2
<1>3. \A h \in Handlers : LastSent(h)' = LastSent(h)
  BY <1>0 DEF LastSent
<1>4. \A q \in Procs : todo[q] \subseteq todo'[q]
  BY <1>0, <1>2
<1> QED
  BY <1>0, <1>2, <1>3, <1>4, PushQuiet

\* No step loses sight of what is under way.
LEMMA PushStep ==
  ASSUME SyncInv, SyncTypes', [SyncNext]_taskSyncVars
  PROVE  PushesFresh' /\ SentFresh'
<1>0. (\A c \in Edits : c \in Procs) /\ \A h \in Handlers : h \in Procs
  BY DEF Procs
<1>1. ASSUME NEW c \in Edits, EditRows(c) \/ Collect(c) PROVE PushesFresh' /\ SentFresh'
  BY <1>1, RowsFresh
<1>2. ASSUME NEW c \in Edits,
             \/ \E b \in BOOLEAN : SetGlobal(c, b)
             \/ \E a \in Agents, choice \in Choices : SetOverride(c, a, choice)
             \/ Recompute(c)
      PROVE  PushesFresh' /\ SentFresh'
  <2>1. UNCHANGED <<rows, push, lateSend, misSent, todo, wire, running, agentTx, features>>
    BY <1>2 DEF SetGlobal, SetOverride, Recompute, linkVars, storedVars, history
  <2>2. \A d \in Edits : stage[d] = "collect" => stage'[d] = "collect"
    BY <1>2 DEF SetGlobal, SetOverride, Recompute, SyncInv, SyncTypes, SyncTypeOK
  <2>3. \A h \in Handlers : LastSent(h)' = LastSent(h)
    BY <2>1 DEF LastSent
  <2> QED
    BY <2>1, <2>2, <2>3, PushQuiet
<1>3. ASSUME NEW c \in Edits, Apply(c) PROVE PushesFresh' /\ SentFresh'
  BY <1>0, <1>3, StoreFresh
<1>4. ASSUME NEW p \in Procs, Push(p) PROVE PushesFresh' /\ SentFresh'
  BY <1>4, PushLoadFresh, PushReadFresh, PushSendFresh DEF Push
<1>5. ASSUME NEW h \in Handlers, SyncRegister(h) PROVE PushesFresh' /\ SentFresh'
  BY <1>0, <1>5, StoreFresh
<1>6. ASSUME NEW h \in Handlers, Load(h) \/ SyncAnnounce(h) \/ SyncBreak(h) \/ Forward(h)
      PROVE  PushesFresh' /\ SentFresh'
  <2>1. UNCHANGED <<rows, push, lateSend, misSent, todo, stage, agentTx, features>>
    BY <1>6 DEF Load, SyncAnnounce, Announce, SyncBreak, Break, Forward,
                linkVars, syncVars, storedVars, history
  <2>2. \A g \in Handlers : LastSent(g)' = LastSent(g)
    <3>1. CASE Forward(h)
      BY <3>1, ForwardKeepsLast
    <3>2. CASE ~Forward(h)
      <4>1. UNCHANGED <<wire, running>>
        BY <1>6, <3>2 DEF Load, SyncAnnounce, SyncBreak, syncVars
      <4> QED
        BY <4>1 DEF LastSent
    <3> QED
      BY <3>1, <3>2
  <2> QED
    BY <2>1, <2>2, PushQuiet
<1>7. ASSUME NEW h \in Handlers, UNCHANGED syncVars,
             \/ Refuse(h) \/ (\E a \in Agents : Lookup(h, a)) \/ Greet(h)
             \/ LinkLost(h) \/ Leave(h) \/ Cancel(h) \/ Part(h)
      PROVE  PushesFresh' /\ SentFresh'
  <2>1. UNCHANGED <<rows, push, lateSend, misSent, todo, stage, wire, running, features>>
    BY <1>7 DEF syncVars, storedVars, history
  <2>2. \A a \in Agents : agentTx'[a] = None \/ agentTx'[a] = agentTx[a]
    BY <1>7 DEF Refuse, Lookup, Greet, LinkLost, Leave, Cancel, Part, SyncInv, LinkInv, LinkTypeOK
  <2>3. \A g \in Handlers : LastSent(g)' = LastSent(g)
    BY <2>1 DEF LastSent
  <2> QED
    BY <2>1, <2>2, <2>3, PushQuiet
<1>8. CASE UNCHANGED taskSyncVars
  <2>1. UNCHANGED <<rows, push, lateSend, misSent, todo, stage, wire, running, features, agentTx>>
    BY <1>8 DEF taskSyncVars, linkVars, syncVars, storedVars, history
  <2>2. \A g \in Handlers : LastSent(g)' = LastSent(g)
    BY <2>1 DEF LastSent
  <2> QED
    BY <2>1, <2>2, PushQuiet
<1> QED
  BY <1>1, <1>2, <1>3, <1>4, <1>5, <1>6, <1>7, <1>8 DEF SyncNext

-----------------------------------------------------------------------------
(* The results *)

\* The invariant holds before any agent has connected.
LEMMA SyncInitInv == SyncInit => SyncInv
<1> SUFFICES ASSUME SyncInit PROVE SyncInv
  OBVIOUS
<1> USE DEF SyncInit
<1>1. LinkInv
  BY LinkInitInv
<1>2. computed \in [Procs -> Partial] /\ \A p \in Procs : DOMAIN computed[p] = {}
  <2>1. [a \in {} |-> FALSE] \in Partial /\ DOMAIN [a \in {} |-> FALSE] = {}
    <3>1. [a \in {} |-> FALSE] \in [{} -> BOOLEAN]
      OBVIOUS
    <3>2. {} \in SUBSET Agents
      OBVIOUS
    <3> QED
      BY <3>1, <3>2, PartialMap
  <2> HIDE DEF SyncInit
  <2>2. computed = [p \in Procs |-> [a \in {} |-> FALSE]]
    BY DEF SyncInit
  <2> QED
    BY <2>1, <2>2
<1>3. SyncTypes
  <2>1. override \in [Agents -> Choices] /\ features \in [Agents -> BOOLEAN]
    BY DEF Choices, Effective
  <2>2. push \in [Procs -> PushType]
    BY DEF NoPush, PushType
  <2>3. /\ wire \in [Handlers -> Seq(Nat)]
        /\ rows \in Nat \ {0} /\ global \in BOOLEAN
        /\ stage \in [Edits -> {"new", "collect", "refresh_all", "refresh_agent", "pushing"}]
        /\ scope \in [Edits -> SUBSET Agents]
        /\ todo \in [Procs -> SUBSET Agents]
        /\ running \in [Handlers -> Nat]
    OBVIOUS
  <2>4. late = {} /\ lateSend = {} /\ misStored = {} /\ misSent = {}
    OBVIOUS
  <2> QED
    BY <1>2, <2>1, <2>2, <2>3, <2>4 DEF SyncTypes, SyncTypeOK
<1>4. ProcsFit
  BY <1>2 DEF ProcsFit, NoPush, Procs
<1>5. ComputedFresh /\ MirrorFresh
  BY <1>2 DEF ComputedFresh, MirrorFresh
<1>6. PushesFresh /\ SentFresh
  BY DEF PushesFresh, SentFresh, LinkInit
<1> QED
  BY <1>1, <1>3, <1>4, <1>5, <1>6 DEF SyncInv

\* No step breaks it.
LEMMA SyncStepInv == SyncInv /\ [SyncNext]_taskSyncVars => SyncInv'
<1> SUFFICES ASSUME SyncInv, [SyncNext]_taskSyncVars PROVE SyncInv'
  OBVIOUS
<1>1. LinkInv'
  BY SyncKeepsLink, LinkStepInv DEF SyncInv
<1>2. SyncTypes'
  <2>1. ASSUME NEW h \in Handlers, SyncAnnounce(h) \/ SyncBreak(h) PROVE UNCHANGED syncVars
    BY <2>1 DEF SyncAnnounce, SyncBreak
  <2>2. UNCHANGED syncVars => SyncTypes'
    BY DEF SyncInv, SyncTypes, SyncTypeOK, syncVars, storedVars, history
  <2>3. UNCHANGED taskSyncVars => SyncTypes'
    BY <2>2 DEF taskSyncVars
  <2> QED
    BY <2>1, <2>2, <2>3, EditTypes, PushTypes, HandlerTypes DEF SyncNext
<1>3. ProcsFit'
  <2>1. UNCHANGED taskSyncVars => ProcsFit'
    BY DEF SyncInv, ProcsFit, taskSyncVars, linkVars, syncVars
  <2> QED
    BY <1>2, <2>1, EditFits, PushFits, HandlerFits DEF SyncNext
<1>4. ComputedFresh' /\ MirrorFresh'
  BY MirrorStep
<1>5. PushesFresh' /\ SentFresh'
  BY <1>2, PushStep
<1> QED
  BY <1>1, <1>2, <1>3, <1>4, <1>5 DEF SyncInv

\* What the server mirrors and sends agrees with what is stored, or will.
THEOREM SyncInvariant == SyncSpec => []SyncInv
<1> QED
  BY SyncInitInv, SyncStepInv, PTL DEF SyncSpec

\* The variables of the task and feature sync keep their types.
THEOREM SyncTypeCorrect == SyncSpec => []SyncTypeOK
<1>1. SyncInv => SyncTypeOK
  BY DEF SyncInv, SyncTypes
<1> QED
  BY <1>1, SyncInvariant, PTL

\* Once no request is in progress, the mirror holds what is stored, but for the
\* agents whose older set a late process put back.
LEMMA QuietMirror ==
  ASSUME SyncInv, Quiet, NEW a \in Agents, a \notin misStored
  PROVE  features[a] = Effective(a)
<1>1. ~Owed(a)
  BY DEF Owed, Quiet, Refreshing
<1> QED
  BY <1>1 DEF SyncInv, MirrorFresh

\* Whatever requests and connections overlap, the features the server acts on
\* end up as they are stored, unless a late process put older ones back.
THEOREM MirrorFollowsStoreAlways == SyncSpec => []MirrorFollowsStore
<1>1. SyncInv => MirrorFollowsStore
  BY QuietMirror DEF MirrorFollowsStore
<1> QED
  BY <1>1, SyncInvariant, PTL

\* A connected agent that has been sent everything runs the stored task set, or
\* nothing where the feature is off, for any number of agents, connections and
\* requests; but for a mirror put back and a push overtaken.
THEOREM EditsTakeHoldAlways == SyncSpec => []EditsTakeHold
<1>1. SyncInv => EditsTakeHold
  <2> SUFFICES ASSUME SyncInv, Quiet, NEW a \in Agents, a \notin misStored, a \notin misSent,
                      Synced(a)
               PROVE  running[agentTx[a]] = Wanted(a)
    BY DEF EditsTakeHold
  <2>1. agentTx[a] # None /\ wire[agentTx[a]] = <<>>
    BY DEF Synced, SyncInv, LinkInv, OnlineIsServed
  <2>2. ~Due(a, Procs)
    BY DEF Due, Quiet, Current
  <2>3. LastSent(agentTx[a]) = Shown(a)
    BY <2>1, <2>2 DEF SyncInv, SentFresh
  <2>4. features[a] = Effective(a)
    BY QuietMirror
  <2> QED
    BY <2>1, <2>3, <2>4 DEF LastSent, Shown, Wanted
<1> QED
  BY <1>1, SyncInvariant, PTL

=============================================================================
