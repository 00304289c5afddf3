---------------------------- MODULE PingHistory -----------------------------
(***************************************************************************)
(* Periodic probes: the agent's ping_scheduler (main.rs), which sends its  *)
(* whole result set whenever one task was probed, and the table in which   *)
(* the server keeps one row per sample (ws.rs Ping, db.rs                  *)
(* insert_ping_history), telling resent results by their age.              *)
(*                                                                         *)
(* Time is counted in ticks of the scheduler, one second each.  A task's   *)
(* next run is counted from an instant after the tick's own, so it falls   *)
(* on the tick that is "interval" later or on the one after that.  A probe *)
(* takes no time, and a sample is its task and its number.                 *)
(***************************************************************************)
EXTENDS Naturals, Sequences

CONSTANTS
    Tasks,      \* ping tasks of the agent
    Interval,   \* interval_sec of each, at least 5
    MaxDelay,   \* bound on the ticks a report takes to the server
    MaxTime     \* bound on the ticks

VARIABLES
    now,        \* ticks so far
    specs,      \* Shared.ping_tasks of the session
    due,        \* next_run; 0 where there is no entry
    latest,     \* task_results: number of the last sample, 0 where there is none
    made,       \* samples taken of each task, in all sessions
    wire,       \* reports on their way, oldest first
    rows,       \* ping_history of each task
    misjudged   \* history: samples that were refused without being stored

vars == <<now, specs, due, latest, made, wire, rows, misjudged>>

Init ==
    /\ now = 0
    /\ specs = {}
    /\ due = [t \in Tasks |-> 0]
    /\ latest = [t \in Tasks |-> 0]
    /\ made = [t \in Tasks |-> 0]
    /\ wire = <<>>
    /\ rows = [t \in Tasks |-> {}]
    /\ misjudged = {}

\* TasksSync replaces the list.
Sync(tasks) ==
    /\ specs # tasks
    /\ specs' = tasks
    /\ UNCHANGED <<now, due, latest, made, wire, rows, misjudged>>

(***************************************************************************)
(* One round of ping_scheduler: what belongs to no task any more is        *)
(* dropped, every task that is due is probed, and if anything changed all  *)
(* results are sent.                                                       *)
(***************************************************************************)
Round(slip) ==
    LET probed == {t \in specs : now + 1 >= due[t]}
        kept == [t \in Tasks |-> IF t \in specs THEN latest[t] ELSE 0]
        results == [t \in Tasks |-> IF t \in probed THEN made[t] + 1 ELSE kept[t]]
    IN
    /\ now < MaxTime
    /\ wire # <<>> => now < Head(wire).at + MaxDelay
    /\ now' = now + 1
    /\ due' = [t \in Tasks |->
                  IF t \in probed THEN now' + Interval[t] + slip[t]
                  ELSE IF t \in specs THEN due[t] ELSE 0]
    /\ latest' = results
    /\ made' = [t \in Tasks |-> IF t \in probed THEN made[t] + 1 ELSE made[t]]
    /\ wire' = IF probed # {} \/ kept # latest
               THEN Append(wire, [at |-> now', results |-> results]) ELSE wire
    /\ UNCHANGED <<specs, rows, misjudged>>

\* A new session starts with nothing; reports in the old socket are lost.
Reconnect ==
    /\ due' = [t \in Tasks |-> 0]
    /\ latest' = [t \in Tasks |-> 0]
    /\ specs' = {}
    /\ wire' = <<>>
    /\ UNCHANGED <<now, made, rows, misjudged>>

\* MAX(interval_sec - 2, 1)
Window(t) == IF Interval[t] > 3 THEN Interval[t] - 2 ELSE 1

\* insert_ping_history refuses a result if a row of the task is too recent.
Refused(t) == \E r \in rows[t] : r.ts + Window(t) > now

Receive ==
    /\ wire # <<>>
    /\ LET results == Head(wire).results IN
       /\ rows' = [t \in Tasks |->
              IF results[t] = 0 \/ Refused(t) THEN rows[t]
              ELSE rows[t] \cup {[ts |-> now, sample |-> results[t]]}]
       /\ misjudged' = misjudged \cup
              {<<t, results[t]>> : t \in {t \in Tasks :
                  /\ results[t] # 0 /\ Refused(t)
                  /\ \A r \in rows[t] : r.sample # results[t]}}
    /\ wire' = Tail(wire)
    /\ UNCHANGED <<now, specs, due, latest, made>>

Next ==
    \/ \E tasks \in SUBSET Tasks : Sync(tasks)
    \/ \E slip \in [Tasks -> {0, 1}] : Round(slip)
    \/ Reconnect \/ Receive

Spec == Init /\ [][Next]_vars

\* "A task cannot produce two samples closer together than its own interval, so
\* anything arriving sooner is a resend of one already stored" (db.rs:891-893).
\* Does not hold: a result that is resent after interval - 2 seconds is stored
\* again, and the task's next sample, seconds later, is the one refused.
SoonerIsResend == misjudged = {}
=============================================================================
