------------------------------ MODULE TaskSync ------------------------------
(***************************************************************************)
(* How an operator's changes reach the agents: the scheduled tasks stored  *)
(* in the database (admin.rs, ping and custom task handlers), the feature  *)
(* that allows an agent to run them (features.rs), its mirror in           *)
(* AgentState.features, and the TasksSync message with which state.rs      *)
(* push_tasks replaces everything the agent runs.                          *)
(*                                                                         *)
(* A process is an admin request or an agent's handler on its way into the *)
(* select loop.  The database and the agents map have a lock each, every   *)
(* process takes them one after the other, and what it read under one it   *)
(* uses under the next, or after both.  The task rows are a version number *)
(* and one feature stands for the pair "ping" and "tasks".                 *)
(***************************************************************************)
EXTENDS AgentLink, Sequences

CONSTANT Edits      \* admin requests, each of which changes one thing

ASSUME EditsAssumption == Edits \cap Handlers = {}

VARIABLES
    rows,       \* version of the stored task rows
    global,     \* stored default of the feature
    override,   \* stored override per agent, None when it is cleared
    features,   \* AgentState.features contains the feature
    computed,   \* the effective set a process has read from the database
    stage,      \* where each admin request stands
    scope,      \* the agents whose set the request recomputes
    todo,       \* agents a process has yet to push to
    push,       \* the push_tasks call a process is in
    wire,       \* TasksSync in the channel of each handler, oldest first
    running,    \* version of the rows the agent's session runs, 0 for none
    late,       \* history: <<p, a>> if, since p computed the set of a and until
                \* it stores it, another process stored that of a
    lateSend,   \* history: the same from p's PushLoad to its send to a
    misStored,  \* history: agents whose mirror was last stored by a late process
    misSent     \* history: agents to which a late process sent last

storedVars == <<rows, global, override>>
history == <<late, lateSend, misStored, misSent>>
syncVars == <<storedVars, features, computed, stage, scope, todo, push, wire,
              running, history>>
taskSyncVars == <<linkVars, syncVars>>

Procs == Edits \cup Handlers
Choices == {None, TRUE, FALSE}

\* mutant: the global default wins over the override
EffectiveOfGlobal(a) == IF global THEN global ELSE override[a]

\* features::merge, effective_for
Effective(a) == IF override[a] = None THEN global ELSE override[a]

NoPush == [at |-> "idle", agent |-> None, rows |-> 0, to |-> None, on |-> FALSE]

SyncInit ==
    /\ LinkInit
    /\ rows = 1
    /\ global \in BOOLEAN
    /\ override = [a \in Agents |-> None]
    /\ features = [a \in Agents |-> Effective(a)]
    /\ computed = [p \in Procs |-> [a \in {} |-> FALSE]]
    /\ stage = [c \in Edits |-> "new"]
    /\ scope = [c \in Edits |-> {}]
    /\ todo = [p \in Procs |-> {}]
    /\ push = [p \in Procs |-> NoPush]
    /\ wire = [h \in Handlers |-> <<>>]
    /\ running = [h \in Handlers |-> 0]
    /\ late = {} /\ lateSend = {} /\ misStored = {} /\ misSent = {}

\* p reads the effective set of the agents in as; db lock held
Compute(p, as) ==
    /\ computed' = [computed EXCEPT ![p] = [a \in as |-> Effective(a)]]

\* mutant: the entry of an agent that is offline is left as it was
StoreOnline(p) ==
    LET as == {a \in DOMAIN computed[p] : online[a]} IN
    /\ features' = [a \in Agents |-> IF a \in as THEN computed[p][a] ELSE features[a]]
    /\ computed' = [computed EXCEPT ![p] = [a \in {} |-> FALSE]]
    /\ UNCHANGED <<late, misStored>>

\* p stores what it computed in the agents map; write lock held
Store(p) ==
    LET as == DOMAIN computed[p] IN
    /\ features' = [a \in Agents |-> IF a \in as THEN computed[p][a] ELSE features[a]]
    /\ computed' = [computed EXCEPT ![p] = [a \in {} |-> FALSE]]
    /\ late' = {x \in late : x[1] # p}
               \cup {x \in (Procs \ {p}) \X as : x[2] \in DOMAIN computed[x[1]]}
    /\ misStored' = (misStored \ as) \cup {a \in as : <<p, a>> \in late}

-----------------------------------------------------------------------------
(* admin requests: first the change is committed, under the database lock  *)

\* A ping or custom task is created, changed or deleted, or the order of the ping
\* tasks is set (update_setting, ping_task_order): every agent's list is pushed.
EditRows(c) ==
    /\ stage[c] = "new"
    /\ rows' = rows + 1
    /\ stage' = [stage EXCEPT ![c] = "collect"]
    /\ UNCHANGED <<linkVars, global, override, features, computed, scope, todo,
                   push, wire, running, history>>

\* set_global_features
SetGlobal(c, b) ==
    /\ stage[c] = "new"
    /\ global' = b
    /\ scope' = [scope EXCEPT ![c] = Agents]
    /\ stage' = [stage EXCEPT ![c] = "refresh_all"]
    /\ UNCHANGED <<linkVars, rows, override, features, computed, todo, push, wire,
                   running, history>>

\* set_agent_features
SetOverride(c, a, choice) ==
    /\ stage[c] = "new"
    /\ override' = [override EXCEPT ![a] = choice]
    /\ scope' = [scope EXCEPT ![c] = {a}]
    /\ stage' = [stage EXCEPT ![c] = "refresh_agent"]
    /\ UNCHANGED <<linkVars, rows, global, features, computed, todo, push, wire,
                   running, history>>

\* push_tasks_all: the ids of the agents that are online, agents lock held
Collect(c) ==
    /\ stage[c] = "collect"
    /\ todo' = [todo EXCEPT ![c] = {a \in Agents : online[a]}]
    /\ stage' = [stage EXCEPT ![c] = "pushing"]
    /\ UNCHANGED <<linkVars, storedVars, features, computed, scope, push, wire,
                   running, history>>

\* refresh_all and refresh_agent, the section under the database lock
Recompute(c) ==
    /\ stage[c] \in {"refresh_all", "refresh_agent"}
    /\ computed[c] = <<>>
    /\ Compute(c, scope[c])
    /\ UNCHANGED <<linkVars, storedVars, features, stage, scope, todo, push, wire,
                   running, history>>

\* mutant: nothing is pushed to an agent that loses the feature
ChangedOn(c) == {a \in scope[c] : computed[c][a] /\ ~features[a]}

\* The agents refresh_all pushes to
Changed(c) == {a \in scope[c] : computed[c][a] # features[a]}

\* ... and the section under the agents write lock
Apply(c) ==
    /\ computed[c] # <<>>
    /\ todo' = [todo EXCEPT ![c] = IF stage[c] = "refresh_all" THEN Changed(c)
                                                               ELSE scope[c]]
    /\ stage' = [stage EXCEPT ![c] = "pushing"]
    /\ scope' = [scope EXCEPT ![c] = {}]
    /\ Store(c)
    /\ UNCHANGED <<linkVars, storedVars, push, wire, running, lateSend, misSent>>

-----------------------------------------------------------------------------
(* push_tasks                                                              *)

\* The rows are read, db lock held.
PushLoad(p, a) ==
    /\ push[p].at = "idle"
    /\ a \in todo[p]
    /\ todo' = [todo EXCEPT ![p] = @ \ {a}]
    /\ push' = [push EXCEPT ![p] = [NoPush EXCEPT !.at = "loaded", !.agent = a,
                                                  !.rows = rows]]
    /\ UNCHANGED <<linkVars, storedVars, features, computed, stage, scope, wire,
                   running, history>>

\* The sender and the features are cloned, agents lock held.  Offline: return.
PushRead(p) ==
    LET a == push[p].agent IN
    /\ push[p].at = "loaded"
    /\ IF agentTx[a] = None
       THEN /\ push' = [push EXCEPT ![p] = NoPush]
            /\ lateSend' = lateSend \ {<<p, a>>}
       ELSE /\ push' = [push EXCEPT ![p] = [@ EXCEPT !.at = "read", !.to = agentTx[a],
                                                     !.on = features[a]]]
            /\ UNCHANGED lateSend
    /\ UNCHANGED <<linkVars, storedVars, features, computed, stage, scope, todo, wire,
                   running, late, misStored, misSent>>

Pushing(q, a) == push[q].at # "idle" /\ push[q].agent = a

\* The message is queued, no lock held; sending to a handler that returned fails.
\* A feature that is off sends an empty set.
PushSend(p) ==
    LET m == push[p] IN
    /\ m.at = "read"
    /\ push' = [push EXCEPT ![p] = NoPush]
    /\ IF pc[m.to] \in Returned
       THEN /\ lateSend' = lateSend \ {<<p, m.agent>>}
            /\ UNCHANGED <<wire, misSent>>
       ELSE /\ wire' = [wire EXCEPT ![m.to] = Append(@, IF m.on THEN m.rows ELSE 0)]
            /\ lateSend' = (lateSend \ {<<p, m.agent>>})
                    \cup {<<q, m.agent>> : q \in {q \in Procs \ {p} : Pushing(q, m.agent)}}
            /\ misSent' = IF <<p, m.agent>> \in lateSend THEN misSent \cup {m.agent}
                                                         ELSE misSent \ {m.agent}
    /\ UNCHANGED <<linkVars, storedVars, features, computed, stage, scope, todo,
                   running, late, misStored>>

Push(p) == (\E a \in Agents : PushLoad(p, a)) \/ PushRead(p) \/ PushSend(p)

-----------------------------------------------------------------------------
(* the handler                                                             *)

\* The persisted state is loaded, db lock held, before the agents map is touched.
Load(h) ==
    /\ pc[h] = "greeted"
    /\ computed[h] = <<>>
    /\ Compute(h, {agentOf[h]})
    /\ UNCHANGED <<linkVars, storedVars, features, stage, scope, todo, push, wire,
                   running, history>>

SyncRegister(h) ==
    /\ computed[h] # <<>>
    /\ Register(h)
    /\ Store(h)
    /\ todo' = [todo EXCEPT ![h] = {agentOf[h]}]
    /\ UNCHANGED <<storedVars, stage, scope, push, wire, running, lateSend, misSent>>

\* The loop is entered once the handler's own push_tasks has returned.
SyncAnnounce(h) ==
    /\ todo[h] = {}
    /\ push[h].at = "idle"
    /\ Announce(h)
    /\ UNCHANGED syncVars

\* recv yields None only when the channel is drained and every clone is dropped.
SyncBreak(h) ==
    /\ Break(h)
    /\ link[h] => /\ wire[h] = <<>>
                  /\ \A p \in Procs : push[p].at = "read" => push[p].to # h
    /\ UNCHANGED syncVars

\* The loop forwards the oldest message; the agent replaces all it runs.
Forward(h) ==
    /\ pc[h] = "loop" /\ link[h]
    /\ wire[h] # <<>>
    /\ running' = [running EXCEPT ![h] = Head(wire[h])]
    /\ wire' = [wire EXCEPT ![h] = Tail(@)]
    /\ UNCHANGED <<linkVars, storedVars, features, computed, stage, scope, todo, push,
                   history>>

SyncNext ==
    \/ \E c \in Edits :
           \/ EditRows(c) \/ (\E b \in BOOLEAN : SetGlobal(c, b))
           \/ \E a \in Agents, choice \in Choices : SetOverride(c, a, choice)
           \/ Collect(c) \/ Recompute(c) \/ Apply(c)
    \/ \E p \in Procs : Push(p)
    \/ \E h \in Handlers :
           \/ Load(h) \/ SyncRegister(h) \/ SyncAnnounce(h) \/ SyncBreak(h) \/ Forward(h)
           \/ /\ \/ Refuse(h) \/ (\E a \in Agents : Lookup(h, a)) \/ Greet(h)
                 \/ LinkLost(h) \/ Leave(h) \/ Cancel(h) \/ Part(h)
              /\ UNCHANGED syncVars

SyncSpec == SyncInit /\ [][SyncNext]_taskSyncVars

-----------------------------------------------------------------------------
PushType ==
    [at : {"idle", "loaded", "read"}, agent : Agents \cup {None}, rows : Nat,
     to : Handlers \cup {None}, on : BOOLEAN]

SyncTypeOK ==
    /\ rows \in Nat \ {0}
    /\ global \in BOOLEAN
    /\ override \in [Agents -> Choices]
    /\ features \in [Agents -> BOOLEAN]
    /\ \A p \in Procs : /\ DOMAIN computed[p] \subseteq Agents
                        /\ \A a \in DOMAIN computed[p] : computed[p][a] \in BOOLEAN
    /\ stage \in [Edits -> {"new", "collect", "refresh_all", "refresh_agent", "pushing"}]
    /\ scope \in [Edits -> SUBSET Agents]
    /\ todo \in [Procs -> SUBSET Agents]
    /\ push \in [Procs -> PushType]
    /\ \A h \in Handlers : wire[h] \in Seq(Nat)
    /\ running \in [Handlers -> Nat]

\* Every request that changed something has pushed to all it had to push to.
Quiet ==
    /\ \A c \in Edits : stage[c] \in {"new", "pushing"}
    /\ \A p \in Procs : todo[p] = {} /\ push[p].at = "idle"

Wanted(a) == IF Effective(a) THEN rows ELSE 0

\* a is connected and its agent has been given everything queued for it.
Synced(a) ==
    LET h == agentTx[a] IN
    /\ online[a]
    /\ pc[h] = "loop" /\ link[h]
    /\ wire[h] = <<>>

\* Once no request is in progress, the features the server acts on are those
\* that are stored, unless a process that read them before another process
\* stored its own put the older ones back (features.rs:82-136, ws.rs:131-149).
MirrorFollowsStore ==
    Quiet => \A a \in Agents : features[a] # Effective(a) => a \in misStored

\* Once no request is in progress, a connected agent that has been sent all
\* runs the stored task set, or nothing where the feature is off: whether it
\* was online, offline or connecting when the operator made the change, and
\* whatever sessions overlap.  The two exceptions are a mirror put back (above)
\* and a push overtaken between its read and its send (state.rs:167-207).
EditsTakeHold ==
    Quiet => \A a \in Agents \ (misStored \cup misSent) :
                 Synced(a) => running[agentTx[a]] = Wanted(a)

\* "Re-sync so an agent that just lost `ping`/`tasks` stops running them instead
\* of waiting for its next reconnect" (features.rs:112-113).  Does not hold: a
\* handler that read its features before the toggle registers with them after.
DisabledStops ==
    Quiet => \A a \in Agents :
                 Synced(a) /\ ~Effective(a) => running[agentTx[a]] = 0

=============================================================================
