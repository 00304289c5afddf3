---------------------------- MODULE SampleWindow ----------------------------
(***************************************************************************)
(* alerts.rs SampleWindow: the sliding window that turns one boolean       *)
(* observation per evaluation into a firing decision.  The deque of        *)
(* samples has one sample per timestamp in increasing order, so it is      *)
(* modelled by the set `seen` of its timestamps and the set `hit` of those *)
(* that breached.  A ratio is num/den; floating-point rounding is left out.*)
(***************************************************************************)
EXTENDS Integers, FiniteSets

CONSTANT MaxGap     \* MAX_SAMPLE_GAP_SECS

Latest(S) == CHOOSE t \in S : \A u \in S : u <= t
Earliest(S) == CHOOSE t \in S : \A u \in S : t <= u

EmptyWindow == [started |-> 0, seen |-> {}, hit |-> {}]

\* The clock went back, or too long passed since the last sample.
Broken(w, now) ==
    w.seen # {} /\ (Latest(w.seen) > now \/ now - Latest(w.seen) > MaxGap)

\* mutant: a sampling gap does not restart the window
RecordAcrossGap(w, now, duration, breached) ==
    LET recent == {t \in w.seen : t >= now - duration} \ {now} IN
    [started |-> IF w.seen = {} THEN now ELSE w.started,
     seen |-> recent \cup {now},
     hit |-> (w.hit \cap recent) \cup (IF breached THEN {now} ELSE {})]

\* The samples after record(now, duration, _, breached).
Record(w, now, duration, breached) ==
    LET base == IF Broken(w, now) THEN EmptyWindow ELSE w
        recent == {t \in base.seen : t >= now - duration} \ {now} IN
    [started |-> IF base.seen = {} THEN now ELSE base.started,
     seen |-> recent \cup {now},
     hit |-> (base.hit \cap recent) \cup (IF breached THEN {now} ELSE {})]

\* record returns None until the window has been observed for its whole duration.
Mature(w, now, duration) == now - w.started >= duration

\* A ratio of zero still needs one breach.
Firing(w, num, den) ==
    /\ w.hit # {}
    /\ Cardinality(w.hit) * den >= num * Cardinality(w.seen)

-----------------------------------------------------------------------------
\* What the window stands for, from the whole log of [ts, breached] samples: the
\* unbroken run of samples that ends now, cut to the last `duration`.
RunStart(log, now) ==
    Earliest({s \in {x.ts : x \in log} :
                 \A x \in log : (x.ts >= s /\ x.ts < now) =>
                     \E y \in log : y.ts > x.ts /\ y.ts - x.ts <= MaxGap})

RefMature(log, now, duration) == now - RunStart(log, now) >= duration

RefFiring(log, now, duration, num, den) ==
    LET recent == {x \in log : x.ts >= now - duration /\ x.ts >= RunStart(log, now)}
        bad == {x \in recent : x.breached} IN
    bad # {} /\ Cardinality(bad) * den >= num * Cardinality(recent)

=============================================================================
