------------------------------ MODULE Traffic ------------------------------
(***************************************************************************)
(* The accounting of an agent's traffic in its billing cycle: billing.rs   *)
(* (cycle_start_for, apply_metrics), the Metrics frames that feed it       *)
(* (ws.rs), the flush task and the load at startup (main.rs serve), and    *)
(* the operator's change of the reset day (admin.rs update_billing).       *)
(*                                                                         *)
(* One agent and one direction: rx and tx are treated alike.  The clock    *)
(* counts days, over months whose lengths are a parameter.  A frame holds  *)
(* the agent's cumulative counter.  It can wait in the socket of a session *)
(* the agent has left while the next session is served.                    *)
(*                                                                         *)
(* Fields boot, moved, base, upTo, clean, ordered and gen are history: the *)
(* code has no such state, and no guard reads them.                        *)
(***************************************************************************)
EXTENDS Naturals, Sequences, FiniteSetsExt

CONSTANTS
    None,
    MonthLengths,   \* days of each month, a sequence
    ResetDays,      \* values of BillingInfo.reset_day, 1..31
    MaxBytes, MaxReboots, MaxSessions, MaxFrames, MaxEdits, MaxRestarts

ASSUME TrafficAssumption ==
    /\ MonthLengths \in Seq(Nat \ {0}) /\ Len(MonthLengths) > 1
    /\ ResetDays \subseteq Nat \ {0} /\ None \notin Nat
    /\ MaxSessions \in Nat \ {0}

VARIABLES
    clock,      \* the day, from the first of the second month on
    agent,      \* the agent: net counter, boot number, bytes moved in all
    session,    \* the session the agent is in
    wire,       \* frames not yet read, per session
    traffic,    \* AgentState.traffic
    resetDay,   \* AgentState.billing.reset_day
    row,        \* the agent's stored traffic row
    storedDay,  \* the stored reset_day
    snap,       \* the flush task's copy, None outside of a flush
    edit,       \* update_billing: where it stands and its copies
    edits, restarts,
    acked,      \* history: fresh cycles started by edits that have returned
    rolledBack  \* history: the row was left with an older cycle than that, by a
                \* flush or because it could not be stored

vars == <<clock, agent, session, wire, traffic, resetDay, row, storedDay, snap,
          edit, edits, restarts, acked, rolledBack>>

-----------------------------------------------------------------------------
(* the calendar: months and days are numbered from 1                       *)

Months == DOMAIN MonthLengths
FirstDay[m \in Months] == IF m = 1 THEN 1 ELSE FirstDay[m - 1] + MonthLengths[m - 1]

MonthOf(d) ==
    CHOOSE m \in Months : FirstDay[m] <= d /\ d < FirstDay[m] + MonthLengths[m]

LastDay == FirstDay[Len(MonthLengths)] + MonthLengths[Len(MonthLengths)] - 1

\* mutant: a reset day past the end of the month spills into the next
ResetInUnclamped(rd, m) == FirstDay[m] + rd - 1

\* The reset day of month m, clamped to its length (days_in_month).
ResetIn(rd, m) == FirstDay[m] + Min({rd, MonthLengths[m]}) - 1

CycleStart(rd, d) ==
    LET m == MonthOf(d) IN
    IF ResetIn(rd, m) <= d THEN ResetIn(rd, m) ELSE ResetIn(rd, m - 1)

-----------------------------------------------------------------------------
(* counters                                                                *)

Usage(cycle, g) ==
    [cycle |-> cycle, rx |-> 0, last |-> None, boot |-> 0, base |-> 0, upTo |-> 0,
     clean |-> TRUE, ordered |-> TRUE, gen |-> g]

Frame == [net |-> agent.net, boot |-> agent.boot, moved |-> agent.moved]

\* mutant: a counter not seen before counts from zero (unwrap_or(0))
CountedFromBoot(t, f) ==
    LET prev == IF t.last = None THEN 0 ELSE t.last
    IN  IF f.net >= prev THEN t.rx + (f.net - prev) ELSE t.rx

\* A first reading and one that went backwards only set the baseline.
Counted(t, f) ==
    IF t.last # None /\ f.net >= t.last THEN t.rx + (f.net - t.last) ELSE t.rx

\* No frame sent later has been read in this cycle.
InTime(t, f) == f.moved >= t.upTo /\ (t.last = None \/ f.boot >= t.boot)

Read(t, f) ==
    [t EXCEPT !.rx = Counted(t, f),
              !.last = f.net,
              !.boot = f.boot,
              !.base = IF t.last = None THEN f.moved ELSE @,
              !.upTo = Max({@, f.moved}),
              !.clean = @ /\ (t.last = None \/ f.boot = t.boot),
              !.ordered = @ /\ InTime(t, f)]

\* apply_metrics: the cycle is turned first, and a frame with two empty counters
\* is skipped; idle is whether the other direction's is empty.
ApplyMetrics(t, rd, f, d, idle) ==
    LET turned == IF rd # None /\ t.cycle < CycleStart(rd, d)
                  THEN Usage(CycleStart(rd, d), t.gen) ELSE t
    IN  IF f.net = 0 /\ idle THEN turned ELSE Read(turned, f)

Idle == [at |-> "idle", day |-> None, copy |-> None]

Init ==
    /\ clock = FirstDay[2]
    /\ agent = [net |-> 0, boot |-> 0, moved |-> 0]
    /\ session = 1
    /\ wire = [s \in 1 .. MaxSessions |-> <<>>]
    /\ resetDay \in ResetDays \cup {None}
    /\ storedDay = resetDay
    /\ traffic = Usage(0, 0)
    /\ row = Usage(0, 0)
    /\ snap = None
    /\ edit = Idle
    /\ edits = 0 /\ restarts = 0 /\ acked = 0 /\ rolledBack = FALSE

-----------------------------------------------------------------------------
(* the environment and the agent                                           *)

Midnight ==
    /\ clock < LastDay
    /\ clock' = clock + 1
    /\ UNCHANGED <<agent, session, wire, traffic, resetDay, row, storedDay, snap,
                   edit, edits, restarts, acked, rolledBack>>

Move ==
    /\ agent.moved < MaxBytes
    /\ agent' = [agent EXCEPT !.net = @ + 1, !.moved = @ + 1]
    /\ UNCHANGED <<clock, session, wire, traffic, resetDay, row, storedDay, snap,
                   edit, edits, restarts, acked, rolledBack>>

\* metrics_loop
Sample ==
    /\ Len(wire[session]) < MaxFrames
    /\ wire' = [wire EXCEPT ![session] = Append(@, Frame)]
    /\ UNCHANGED <<clock, agent, session, traffic, resetDay, row, storedDay, snap,
                   edit, edits, restarts, acked, rolledBack>>

\* The agent gives its session up and opens another; rebooting, it starts at 0.
Reconnect ==
    /\ session < MaxSessions
    /\ session' = session + 1
    /\ \/ UNCHANGED agent
       \/ agent.boot < MaxReboots /\ agent' = [agent EXCEPT !.net = 0, !.boot = @ + 1]
    /\ UNCHANGED <<clock, wire, traffic, resetDay, row, storedDay, snap, edit, edits,
                   restarts, acked, rolledBack>>

\* What a session the agent has left still had in its socket is lost.
Lose(s) ==
    /\ s < session
    /\ wire[s] # <<>>
    /\ wire' = [wire EXCEPT ![s] = <<>>]
    /\ UNCHANGED <<clock, agent, session, traffic, resetDay, row, storedDay, snap, edit,
                   edits, restarts, acked, rolledBack>>

-----------------------------------------------------------------------------
(* the server                                                              *)

\* A handler reads a Metrics frame; agents write lock held.
Metrics(s, idle) ==
    /\ wire[s] # <<>>
    /\ traffic' = ApplyMetrics(traffic, resetDay, Head(wire[s]), clock, idle)
    /\ wire' = [wire EXCEPT ![s] = Tail(@)]
    /\ UNCHANGED <<clock, agent, session, resetDay, row, storedDay, snap, edit, edits,
                   restarts, acked, rolledBack>>

\* The flush task copies the counters under the agents lock ...
FlushRead ==
    /\ snap = None
    /\ traffic.last # None
    /\ snap' = traffic
    /\ UNCHANGED <<clock, agent, session, wire, traffic, resetDay, row, storedDay,
                   edit, edits, restarts, acked, rolledBack>>

\* ... and stores them under the database lock.
FlushWrite ==
    /\ snap # None
    /\ row' = snap
    /\ snap' = None
    /\ rolledBack' = (snap.gen < acked)
    /\ UNCHANGED <<clock, agent, session, wire, traffic, resetDay, storedDay,
                   edit, edits, restarts, acked>>

\* update_billing, set_billing: database lock
BillingSave(rd) ==
    /\ edit.at = "idle" /\ edits < MaxEdits
    /\ edits' = edits + 1
    /\ storedDay' = rd
    /\ edit' = [Idle EXCEPT !.at = "saved", !.day = rd]
    /\ UNCHANGED <<clock, agent, session, wire, traffic, resetDay, row, snap,
                   restarts, acked, rolledBack>>

\* The agents write lock: a changed reset day starts a fresh cycle.
BillingApply ==
    /\ edit.at = "saved"
    /\ traffic' = IF edit.day # resetDay /\ edit.day # None
                  THEN Usage(CycleStart(edit.day, clock), edits) ELSE traffic
    /\ resetDay' = edit.day
    /\ edit' = [edit EXCEPT !.at = "applied", !.copy = traffic']
    /\ UNCHANGED <<clock, agent, session, wire, row, storedDay, snap, edits,
                   restarts, acked, rolledBack>>

\* mutant: the counters are left to the next flush
BillingReturn(stored) ==
    /\ edit.at = "applied"
    /\ edit' = Idle
    /\ acked' = edit.copy.gen
    /\ UNCHANGED <<clock, agent, session, wire, traffic, resetDay, row, storedDay, snap,
                   edits, restarts, rolledBack>>

\* The counters are stored and the request returns, also when that failed.
BillingStore(stored) ==
    /\ edit.at = "applied"
    /\ row' = IF stored THEN edit.copy ELSE row
    /\ edit' = Idle
    /\ acked' = edit.copy.gen
    /\ rolledBack' = (row'.gen < edit.copy.gen)
    /\ UNCHANGED <<clock, agent, session, wire, traffic, resetDay, storedDay, snap,
                   edits, restarts>>

\* mutant: the last counter is loaded as zero
ReloadUnbased == traffic' = [row EXCEPT !.last = IF @ = None THEN @ ELSE 0]

\* mutant: the last counter is not stored
ReloadNoLast == traffic' = [row EXCEPT !.last = None]

Reload == traffic' = row

\* The server process ends at any point and starts again from the database;
\* every session ends with it.
Restart ==
    /\ restarts < MaxRestarts
    /\ restarts' = restarts + 1
    /\ Reload
    /\ resetDay' = storedDay
    /\ snap' = None
    /\ edit' = Idle
    /\ wire' = [s \in DOMAIN wire |-> <<>>]
    /\ UNCHANGED <<clock, agent, session, row, storedDay, edits, acked, rolledBack>>

Next ==
    \/ Midnight \/ Move \/ Sample \/ Reconnect
    \/ \E s \in DOMAIN wire : Lose(s) \/ \E idle \in BOOLEAN : Metrics(s, idle)
    \/ FlushRead \/ FlushWrite
    \/ (\E rd \in ResetDays \cup {None} : BillingSave(rd)) \/ BillingApply
    \/ \E stored \in BOOLEAN : BillingStore(stored)
    \/ Restart

Spec == Init /\ [][Next]_vars

-----------------------------------------------------------------------------
UsageType ==
    [cycle : Nat, rx : Nat, last : Nat \cup {None}, boot : Nat, base : Nat, upTo : Nat,
     clean : BOOLEAN, ordered : BOOLEAN, gen : Nat]

TrafficTypeOK ==
    /\ clock \in 1 .. LastDay
    /\ agent \in [net : Nat, boot : Nat, moved : Nat]
    /\ session \in 1 .. MaxSessions
    /\ DOMAIN wire = 1 .. MaxSessions
    /\ traffic \in UsageType /\ row \in UsageType
    /\ snap \in UsageType \cup {None}
    /\ {resetDay, storedDay} \subseteq ResetDays \cup {None}
    /\ edit.at \in {"idle", "saved", "applied"}
    /\ traffic.last = None => traffic.rx = 0

\* What is counted is exactly what the agent moved between the first and the
\* last reading of the cycle, through any restart of the server, as long as the
\* agent did not reboot and its frames came in order (billing.rs:82-95,
\* main.rs:207-221).
CountedExactly ==
    traffic.last # None /\ traffic.clean /\ traffic.ordered =>
        traffic.rx = traffic.upTo - traffic.base

\* Nothing is counted twice, even when the agent reboots, as long as its frames
\* come in order (billing.rs:83-87).
CountedOnceInOrder == traffic.ordered => traffic.rx <= traffic.upTo - traffic.base

\* "The next sample will compute the correct delta from this new value"
\* (billing.rs:85-86), after a reboot or a reconnect.  Does not hold: a late
\* frame of the session the agent left moves the baseline back.
CountedOnce == traffic.rx <= traffic.upTo - traffic.base

\* Day t is a midnight on which the cycle turns.
Turns(rd, t) ==
    LET m == MonthOf(t)
        dayOfMonth == t - FirstDay[m] + 1
    IN  dayOfMonth = rd \/ (dayOfMonth < rd /\ dayOfMonth = MonthLengths[m])

\* cycle_start_for is the most recent turn, in months shorter than the reset day
\* too (billing.rs:34-59).
CycleStartIsLatestTurn ==
    \A rd \in ResetDays :
        CycleStart(rd, clock) = Max({t \in 1 .. clock : Turns(rd, t)})

\* A fresh cycle the operator was told of is not undone by a restart, unless the
\* flush task stored counters it had copied before (main.rs:263-290), or the edit
\* could not store its own, which is only logged (admin.rs:1795-1831).
AckedCycleKept == traffic.gen < acked => rolledBack

=============================================================================
