------------------------------- MODULE Alerts -------------------------------
(***************************************************************************)
(* The alert evaluator (alerts.rs): every EVALUATION_INTERVAL_SECS it      *)
(* reads the agents map, the rules and the latest task results, feeds each *)
(* (rule, agent) window, persists the transitions and queues notifications.*)
(* Its windows, offline timers and failure counts live in memory only; the *)
(* firing states are saved in alert_state and reloaded at startup.         *)
(*                                                                         *)
(* A tick awaits nothing that suspends (notify::dispatch spawns one task   *)
(* per channel and returns), so it is one action; the spawned sends finish *)
(* later, in any order.  A crash inside a tick is a tick whose last saves  *)
(* fail followed by Restart.  Time is counted in evaluation intervals.     *)
(***************************************************************************)
EXTENDS SampleWindow

CONSTANTS
    Rules, Agents,
    Configs,    \* rule rows: kind, threshold, duration, num, den, cooldown, consecutive
    Steps,      \* intervals from one tick to the next (skipped ticks, downtime)
    MaxSend,    \* intervals a channel send may last before its timeout
    Start,      \* the clock at startup
    MaxTime,    \* bound on the clock
    MaxEdits    \* bound on the edits of rules

Keys == Rules \X Agents
Kinds == {"metric", "offline", "task"}

ASSUME AlertAssumption ==
    /\ Start \in Nat /\ MaxTime \in Nat /\ Start <= MaxTime
    /\ MaxGap \in Nat /\ MaxSend \in Nat
    /\ MaxEdits \in Nat
    /\ Steps \subseteq Nat \ {0}
    /\ Configs \subseteq [kind : Kinds, threshold : Nat, duration : Nat \ {0}, num : Nat,
                          den : Nat \ {0}, cooldown : Nat, consecutive : Nat \ {0}]

VARIABLES
    clock,
    cfg, enabled,   \* the alert_rules rows
    edits,          \* edits made, for the bound
    lastExit,       \* latest task result per agent: "none", "ok" or "fail"
    signatures,     \* Evaluator.signatures: {} for a rule not seen enabled
    windows, states, failures,  \* Evaluator, per key
    offlineSince,   \* likewise: {} when absent
    saved,          \* the alert_state table
    outbox,         \* sends in flight
    paged,          \* history: the last page sent off per key
    news,           \* history: the last page delivered per key
    cleared,        \* history: keys whose trouble was seen over since they fired
    failRuns,       \* history: failed runs in a row per agent
    log,            \* history: samples recorded per key since its window was made
    unsaved,        \* history: keys whose last transition could not be saved
    garbled         \* history: keys whose last page was lost or crossed another

evalVars == <<signatures, windows, states, offlineSince, failures>>
histVars == <<paged, cleared, failRuns, log, unsaved>>
vars == <<clock, cfg, enabled, edits, lastExit, evalVars, saved, outbox, news, garbled, histVars>>

None == "none"
Quiet == [firing |-> FALSE, since |-> 0, lastNotify |-> 0]
NoPage(k) == [key |-> k, kind |-> None, at |-> 0]
PerKey(v) == [k \in Keys |-> v]
CfgOf(k) == cfg[k[1]]

\* RuleSignature: the fields whose edit restarts a rule's windows
Signature(c) == [kind |-> c.kind, threshold |-> c.threshold, duration |-> c.duration,
                 num |-> c.num, den |-> c.den]

Init ==
    /\ clock = Start
    /\ cfg \in [Rules -> Configs]
    /\ enabled = [r \in Rules |-> TRUE]
    /\ edits = 0
    /\ lastExit = [a \in Agents |-> None]
    /\ signatures = [r \in Rules |-> {}]
    /\ windows = PerKey(EmptyWindow)
    /\ states = PerKey(Quiet)
    /\ offlineSince = PerKey({})
    /\ failures = PerKey(0)
    /\ saved = PerKey(Quiet)
    /\ outbox = {}
    /\ paged = [k \in Keys |-> NoPage(k)]
    /\ news = [k \in Keys |-> NoPage(k)]
    /\ cleared = {}
    /\ failRuns = [a \in Agents |-> 0]
    /\ log = PerKey({})
    /\ unsaved = {}
    /\ garbled = {}

-----------------------------------------------------------------------------
(* the observations of one tick                                            *)

\* What a tick finds: the agent's flag, its metric value, a run finished since.
\* What no rule looks at is left out.
Inputs ==
    LET watched == {cfg[r].kind : r \in Rules} IN
    {in \in [online : BOOLEAN, value : {None, "normal", "high"}, ran : {None, "ok", "fail"}] :
        /\ "metric" \in watched \/ in.value = None
        /\ "task" \in watched \/ in.ran = None
        /\ watched # {"task"} \/ in.online}

\* mutant: a restart forgets that the grace period had elapsed
SeedFromNow(k, now) == now

\* offline_since of a key that has none: a persisted firing state means the
\* grace period was over before the restart.
Seed(k, now) ==
    LET grace == CfgOf(k).threshold
        s == states[k] IN
    IF s.firing /\ s.since > 0 /\ s.since <= now THEN s.since - grace
    ELSE now - (IF s.firing THEN grace ELSE 0)

\* Rules whose signature is new or changed, or that are disabled: their windows
\* and offline timers go; failure counts stay until the rule is inactive.
Stale(k) == ~enabled[k[1]] \/ signatures[k[1]] # {Signature(CfgOf(k))}

OfflineSince(k, in, now) ==
    IF in.online THEN {}
    ELSE IF Stale(k) \/ offlineSince[k] = {} THEN {Seed(k, now)} ELSE offlineSince[k]

Exit(a, in) == IF in.ran = None THEN lastExit[a] ELSE in.ran

\* Counted once per tick, on the latest result whatever its age.
Failures(k, in) ==
    CASE Exit(k[2], in) = "fail" -> failures[k] + 1
      [] Exit(k[2], in) = "ok" -> 0
      [] OTHER -> failures[k]

\* None: nothing to record for this key.
Observation(k, in, now) ==
    LET c == CfgOf(k) IN
    CASE c.kind = "metric" -> IF ~in.online \/ in.value = None THEN None
                              ELSE IF in.value = "high" THEN "breach" ELSE "clear"
      [] c.kind = "offline" -> IF in.online THEN "clear"
                               ELSE IF \E t \in OfflineSince(k, in, now) : now - t >= c.threshold
                                    THEN "breach" ELSE "clear"
      [] c.kind = "task" -> IF Exit(k[2], in) = None THEN None
                            ELSE IF Failures(k, in) >= c.consecutive THEN "breach" ELSE "clear"

\* What the rule watches is over, in fact: host online, task succeeded, value normal.
TroubleOver(k, in) ==
    LET c == CfgOf(k) IN
    CASE c.kind = "metric" -> in.online /\ in.value = "normal"
      [] c.kind = "offline" -> in.online
      [] c.kind = "task" -> Exit(k[2], in) = "ok"

-----------------------------------------------------------------------------
(* one tick                                                                *)

Window(k, in, now) ==
    LET w == IF Stale(k) THEN EmptyWindow ELSE windows[k]
        obs == Observation(k, in, now) IN
    IF ~enabled[k[1]] THEN EmptyWindow
    ELSE IF obs = None THEN w
    ELSE Record(w, now, CfgOf(k).duration, obs = "breach")

\* The key's window yields a decision that differs from its state.
Flips(k, in, now) ==
    LET c == CfgOf(k)
        w == Window(k, in, now) IN
    /\ enabled[k[1]]
    /\ Observation(k, in, now) # None
    /\ Mature(w, now, c.duration)
    /\ Firing(w, c.num, c.den) # states[k].firing

\* mutant: the cooldown applies to recoveries as well
NotifiesBoth(k, now) == now - states[k].lastNotify >= CfgOf(k).cooldown

\* A recovery always notifies; a firing respects the cooldown.
Notifies(k, now) ==
    states[k].firing \/ now - states[k].lastNotify >= CfgOf(k).cooldown

\* mutant: since is only ever cleared
NextStateUndated(k, now) ==
    [states[k] EXCEPT !.firing = ~@, !.since = 0,
                      !.lastNotify = IF Notifies(k, now) THEN now ELSE @]

NextState(k, now) ==
    [firing |-> ~states[k].firing,
     since |-> IF states[k].firing THEN 0 ELSE now,
     lastNotify |-> IF Notifies(k, now) THEN now ELSE states[k].lastNotify]

Page(k, now) ==
    [key |-> k, kind |-> IF states[k].firing THEN "recovered" ELSE "firing", at |-> now]

Sample(k, in, now) == [ts |-> now, breached |-> Observation(k, in, now) = "breach"]

\* Evaluator.tick, at time now, with what it found per agent.
Evaluate(now, input) ==
    LET In(k) == input[k[2]]
        flipped == {k \in Keys : Flips(k, In(k), now)}
        notified == {k \in flipped : Notifies(k, now)}
        active == {k \in Keys : enabled[k[1]]} IN
    /\ signatures' = [r \in Rules |-> IF enabled[r] THEN {Signature(cfg[r])} ELSE {}]
    /\ windows' = [k \in Keys |-> Window(k, In(k), now)]
    /\ offlineSince' = [k \in Keys |->
           IF k \in active /\ CfgOf(k).kind = "offline" THEN OfflineSince(k, In(k), now)
           ELSE IF Stale(k) THEN {} ELSE offlineSince[k]]
    /\ failures' = [k \in Keys |->
           IF k \notin active THEN 0
           ELSE IF CfgOf(k).kind = "task" THEN Failures(k, In(k)) ELSE failures[k]]
    /\ states' = [k \in Keys |-> IF k \in flipped THEN NextState(k, now) ELSE states[k]]
    \* save_alert_state may fail; the error is logged and the state kept
    /\ \E ok \in SUBSET flipped :
          /\ saved' = [k \in Keys |-> IF k \in ok THEN states'[k] ELSE saved[k]]
          /\ unsaved' = (unsaved \cup flipped) \ ok
    /\ outbox' = outbox \cup {Page(k, now) : k \in notified}
    /\ paged' = [k \in Keys |-> IF k \in notified THEN Page(k, now) ELSE paged[k]]
    /\ garbled' = (garbled \ notified) \cup (notified \cap {p.key : p \in outbox})
    /\ cleared' = (cleared \cup {k \in Keys : TroubleOver(k, In(k))})
                      \ {k \in flipped : ~states[k].firing}
    /\ log' = [k \in Keys |->
           (IF Stale(k) THEN {} ELSE log[k])
               \cup (IF k \in active /\ Observation(k, In(k), now) # None
                     THEN {Sample(k, In(k), now)} ELSE {})]

Tick ==
    \E d \in Steps, input \in [Agents -> Inputs] :
        /\ \A p \in outbox : clock + d - p.at <= MaxSend
        /\ clock + d <= MaxTime
        /\ clock' = clock + d
        /\ lastExit' = [a \in Agents |-> Exit(a, input[a])]
        /\ failRuns' = [a \in Agents |-> CASE input[a].ran = "fail" -> failRuns[a] + 1
                                           [] input[a].ran = "ok" -> 0
                                           [] OTHER -> failRuns[a]]
        /\ Evaluate(clock + d, input)
        /\ UNCHANGED <<cfg, enabled, edits, news>>

\* A spawned send ends, by its timeout at the latest: delivered, or given up.
Delivered(p) ==
    /\ p \in outbox
    /\ outbox' = outbox \ {p}
    /\ news' = [news EXCEPT ![p.key] = p]
    /\ UNCHANGED <<clock, cfg, enabled, edits, lastExit, evalVars, saved, garbled, histVars>>

GivenUp(p) ==
    /\ p \in outbox
    /\ outbox' = outbox \ {p}
    /\ garbled' = garbled \cup {p.key}
    /\ UNCHANGED <<clock, cfg, enabled, edits, lastExit, evalVars, saved, news, histVars>>

\* mutant: the saved firing states are not reloaded
RestartBlank ==
    /\ signatures' = [r \in Rules |-> {}]
    /\ windows' = PerKey(EmptyWindow)
    /\ offlineSince' = PerKey({})
    /\ failures' = PerKey(0)
    /\ states' = PerKey(Quiet)
    /\ log' = PerKey({})
    /\ garbled' = garbled \cup {p.key : p \in outbox}
    /\ outbox' = {}
    /\ UNCHANGED <<clock, cfg, enabled, edits, lastExit, saved, paged, news, cleared, failRuns, unsaved>>

\* The server restarts: the evaluator starts from the saved states.
Restart ==
    /\ signatures' = [r \in Rules |-> {}]
    /\ windows' = PerKey(EmptyWindow)
    /\ offlineSince' = PerKey({})
    /\ failures' = PerKey(0)
    /\ states' = saved
    /\ log' = PerKey({})
    /\ garbled' = garbled \cup {p.key : p \in outbox}
    /\ outbox' = {}
    /\ UNCHANGED <<clock, cfg, enabled, edits, lastExit, saved, paged, news, cleared, failRuns, unsaved>>

\* An admin edits, disables or enables a rule; a firing state is kept.  To delete
\* one is to disable it for good: its saved states go with it, and no later rule
\* gets its id (AUTOINCREMENT), so nothing reads them.
EditRule(r, c, on) ==
    /\ edits < MaxEdits
    /\ edits' = edits + 1
    /\ cfg' = [cfg EXCEPT ![r] = c]
    /\ enabled' = [enabled EXCEPT ![r] = on]
    /\ cleared' = cleared \cup {k \in Keys : k[1] = r}
    /\ UNCHANGED <<clock, lastExit, evalVars, saved, outbox, paged, news, failRuns, log,
                   unsaved, garbled>>

Next ==
    \/ Tick
    \/ \E p \in outbox : Delivered(p) \/ GivenUp(p)
    \/ Restart
    \/ \E r \in Rules, c \in Configs, on \in BOOLEAN : EditRule(r, c, on)

Spec == Init /\ [][Next]_vars

-----------------------------------------------------------------------------
(* properties                                                              *)

Pages == [key : Keys, kind : {None, "firing", "recovered"}, at : 0..MaxTime]

\* The evaluator's maps, the saved rows and the sends keep their types, and a
\* window never keeps a breach without its sample (alerts.rs:523-580).
AlertTypeOK ==
    /\ clock \in Start..MaxTime /\ edits <= MaxEdits
    /\ cfg \in [Rules -> Configs] /\ enabled \in [Rules -> BOOLEAN]
    /\ lastExit \in [Agents -> {None, "ok", "fail"}]
    /\ \A k \in Keys :
          /\ windows[k].hit \subseteq windows[k].seen
          /\ windows[k].seen \subseteq windows[k].started..clock
          /\ \A t \in offlineSince[k] : t <= clock
          /\ failures[k] <= MaxTime
          /\ states[k].since <= clock /\ (states[k].firing => states[k].since > 0)
    /\ outbox \subseteq Pages
    /\ paged \in [Keys -> Pages] /\ news \in [Keys -> Pages]

\* A firing rule that asks for every sample of its window (ratio 1) is declared
\* recovered only after what it watches was seen over since it fired, whatever
\* restarts, sampling gaps and failed saves happened in between
\* (alerts.rs:205-206: "a restart cannot produce a false recovery").  A task rule
\* that asks for several failures is left out: a restart forgets its count.
NoFalseRecovery ==
    [][\A k \in Keys :
          (/\ paged'[k] # paged[k] /\ paged'[k].kind = "recovered"
           /\ CfgOf(k).num = CfgOf(k).den
           /\ CfgOf(k).kind = "task" => CfgOf(k).consecutive = 1) => k \in cleared']_vars

\* The state of a key and the last page an operator received about it agree,
\* unless the firing fell in the cooldown, a page is still under way, was lost
\* or crossed another one, or the last transition could not be saved
\* (alerts.rs:246-288: recovery always notifies, firing respects the cooldown).
OperatorKnows ==
    \A k \in Keys \ (garbled \cup unsaved \cup {p.key : p \in outbox}) :
        /\ states[k].firing => news[k].kind = "firing"
                               \/ states[k].lastNotify < states[k].since
        /\ ~states[k].firing => news[k].kind # "firing"

\* A restart does not page again: two pages in a row that say "firing" only
\* happen when a transition between them could not be saved.
NoRepeatedFiringPage ==
    [][\A k \in Keys :
          (paged'[k] # paged[k] /\ paged'[k].kind = "firing" /\ paged[k].kind = "firing")
              => k \in unsaved]_vars

\* The incremental window decides what the whole log of samples since it was
\* made says: the unbroken run ending now, cut to the rule's duration.
WindowMeetsReference ==
    \A k \in Keys :
        LET w == windows[k]
            c == CfgOf(k)
            now == Latest(w.seen) IN
        (w.seen # {} /\ ~Stale(k)) =>
            /\ Mature(w, now, c.duration) <=> RefMature(log[k], now, c.duration)
            /\ Mature(w, now, c.duration) =>
                  (Firing(w, c.num, c.den)
                      <=> RefFiring(log[k], now, c.duration, c.num, c.den))

\* What db.rs:1424 says of a task rule: it fires on `consecutive` failures in a
\* row.  The evaluator counts ticks that see the latest run failed, not runs.
FiresOnConsecutiveFailures ==
    [][\A k \in Keys :
          (CfgOf(k).kind = "task" /\ paged'[k] # paged[k] /\ paged'[k].kind = "firing")
              => failRuns'[k[2]] >= CfgOf(k).consecutive]_vars

=============================================================================
