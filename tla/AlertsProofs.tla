---------------------------- MODULE AlertsProofs ----------------------------
(***************************************************************************)
(* Proofs about Alerts for any rules, agents and rows of alert_rules, any  *)
(* pace of the ticks and any gap a window tolerates.                       *)
(*                                                                         *)
(* WindowMeetsReference needs Logged: a window holds exactly what the last *)
(* duration of the unbroken run of its log holds (Stands), a relation that *)
(* record() keeps when it appends a sample and cuts the front.             *)
(*                                                                         *)
(* OperatorKnows needs StatesPaged and PagesArrive: the last page sent off *)
(* says what the state says, and it is the last one to arrive unless two   *)
(* pages of the key were on their way together.                            *)
(*                                                                         *)
(* NoFalseRecovery needs AllBreached: while the trouble of a firing rule   *)
(* that asks for every sample lasts, its window holds breaches only, and   *)
(* an offline timer, made anew or not, has run past the grace period.      *)
(***************************************************************************)
EXTENDS Alerts, FiniteSetTheorems, TLAPS

-----------------------------------------------------------------------------
(* The window and the log it stands for                                    *)

WindowType == [started : Nat, seen : SUBSET Nat, hit : SUBSET Nat]
SampleType == [ts : Nat, breached : BOOLEAN]

\* A log of at most one sample per instant.
IsLog(l) == l \subseteq SampleType /\ \A x, y \in l : x.ts = y.ts => x = y

Times(l) == {x.ts : x \in l}

\* The samples of log l from s on follow each other without a gap up to n.
Run(l, n, s) ==
    \A x \in l : (x.ts >= s /\ x.ts < n) => \E y \in l : y.ts > x.ts /\ y.ts - x.ts <= MaxGap

\* What window w is to hold of log l whose last sample is at n.
Held(w, l, n, duration) == {x \in l : x.ts >= n - duration /\ x.ts >= w.started}

\* w holds what a fresh look at l, whose last sample is at n, would keep; it started
\* where the unbroken run that ends at n did.
Stands(w, l, n, duration) ==
    /\ n \in Times(l) /\ \A x \in l : x.ts <= n
    /\ w.started \in Times(l)
    /\ \A s \in Times(l) : Run(l, n, s) <=> s >= w.started
    /\ w.seen = Times(Held(w, l, n, duration))
    /\ w.hit = Times({x \in Held(w, l, n, duration) : x.breached})

\* An element of S that all others are below is the latest.
LEMMA LatestIs ==
  ASSUME NEW S \in SUBSET Nat, NEW n \in S, \A t \in S : t <= n
  PROVE  Latest(S) = n
<1> DEFINE P(t) == \A u \in S : u <= t
<1>1. P(n)
  OBVIOUS
<1>2. Latest(S) = CHOOSE t \in S : P(t)
  BY DEF Latest
<1>3. Latest(S) \in S /\ P(Latest(S))
  <2> HIDE DEF P
  <2> QED
    BY <1>1, <1>2, Zenon
<1> DEFINE m == Latest(S)
<1>4. m \in Nat /\ n \in Nat /\ m <= n /\ n <= m
  BY <1>3
<1> HIDE DEF m
<1>5. m = n
  BY <1>4
<1> QED
  BY <1>5 DEF m

\* The same of the element all others are above.
LEMMA EarliestIs ==
  ASSUME NEW S \in SUBSET Nat, NEW n \in S, \A t \in S : n <= t
  PROVE  Earliest(S) = n
<1> DEFINE P(t) == \A u \in S : t <= u
<1>1. P(n)
  OBVIOUS
<1>2. Earliest(S) = CHOOSE t \in S : P(t)
  BY DEF Earliest
<1>3. Earliest(S) \in S /\ P(Earliest(S))
  <2> HIDE DEF P
  <2> QED
    BY <1>1, <1>2, Zenon
<1> DEFINE m == Earliest(S)
<1>4. m \in Nat /\ n \in Nat /\ m <= n /\ n <= m
  BY <1>3
<1> HIDE DEF m
<1>5. m = n
  BY <1>4
<1> QED
  BY <1>5 DEF m

\* Samples are as many as their instants.
LEMMA AsMany ==
  ASSUME NEW l, IsLog(l), NEW n \in Nat, \A x \in l : x.ts <= n
  PROVE  IsFiniteSet(l) /\ Cardinality(Times(l)) = Cardinality(l)
<1> DEFINE f == [x \in l |-> x.ts]
<1>1. Times(l) \subseteq 0 .. n /\ \A x \in l : x.ts \in Times(l)
  <2>1. \A x \in l : x.ts \in Nat /\ x.ts <= n
    BY DEF IsLog, SampleType
  <2> QED
    BY <2>1 DEF Times
<1>2. IsFiniteSet(Times(l))
  <2>1. IsFiniteSet(0 .. n)
    BY FS_Interval
  <2>2. Times(l) \in SUBSET (0 .. n)
    BY <1>1
  <2> QED
    BY <2>1, <2>2, FS_Subset
<1>3. f \in Injection(l, Times(l))
  BY <1>1 DEF Injection, IsInjective, IsLog
<1>4. f \in Surjection(l, Times(l))
  BY <1>3 DEF Injection, Surjection, Times
<1>5. IsFiniteSet(l) /\ Cardinality(l) <= Cardinality(Times(l))
      /\ (Cardinality(l) = Cardinality(Times(l)) <=> f \in Surjection(l, Times(l)))
  BY <1>2, <1>3, FS_Injection
<1> QED
  BY <1>4, <1>5

\* A window that stands for a log decides as the reference does.
LEMMA StandsDecides ==
  ASSUME NEW w \in WindowType, NEW l, IsLog(l), NEW n \in Nat, NEW duration \in Nat,
         NEW num, NEW den, Stands(w, l, n, duration)
  PROVE  /\ n = Latest(w.seen)
         /\ Mature(w, n, duration) <=> RefMature(l, n, duration)
         /\ Firing(w, num, den) <=> RefFiring(l, n, duration, num, den)
<1> DEFINE H == Held(w, l, n, duration)
<1>0. /\ \A x \in l : x.ts \in Nat /\ x.ts <= n
      /\ w.started \in Nat /\ Times(l) \subseteq Nat
  BY DEF IsLog, SampleType, WindowType, Stands, Times
<1>1. n = Latest(w.seen)
  <2>1. PICK x \in l : x.ts = n
    BY DEF Stands, Times
  <2>2. w.started <= n
    BY <1>0 DEF Stands, Times
  <2>3. x \in H
    BY <1>0, <2>1, <2>2 DEF Held
  <2>4. n \in w.seen
    BY <2>1, <2>3 DEF Stands, Times
  <2>5. \A t \in w.seen : t \in Nat /\ t <= n
    BY <1>0 DEF Stands, Times, Held
  <2> QED
    BY <2>4, <2>5, LatestIs
<1>2. RunStart(l, n) = w.started
  <2> DEFINE S == {s \in Times(l) : Run(l, n, s)}
  <2>1. RunStart(l, n) = Earliest(S)
    BY DEF RunStart, Times, Run
  <2>2. S = {s \in Times(l) : s >= w.started}
    BY DEF Stands
  <2>3. w.started \in S /\ S \subseteq Nat /\ \A s \in S : w.started <= s
    BY <1>0, <2>2 DEF Stands
  <2> HIDE DEF S
  <2> QED
    BY <2>1, <2>3, EarliestIs
<1>3. Mature(w, n, duration) <=> RefMature(l, n, duration)
  BY <1>2 DEF Mature, RefMature
<1>4. RefFiring(l, n, duration, num, den) <=>
        /\ {x \in H : x.breached} # {}
        /\ Cardinality({x \in H : x.breached}) * den >= num * Cardinality(H)
  BY <1>2 DEF RefFiring, Held
<1>5. IsLog(H) /\ IsLog({x \in H : x.breached}) /\ \A x \in H : x.ts <= n
  BY <1>0 DEF Held, IsLog
<1>6. /\ Cardinality(w.seen) = Cardinality(H)
      /\ Cardinality(w.hit) = Cardinality({x \in H : x.breached})
  <2>1. Cardinality(Times(H)) = Cardinality(H)
    BY <1>5, AsMany
  <2>2. Cardinality(Times({x \in H : x.breached})) = Cardinality({x \in H : x.breached})
    <3> DEFINE B == {x \in H : x.breached}
    <3>1. IsLog(B) /\ \A x \in B : x.ts <= n
      BY <1>5
    <3> HIDE DEF B
    <3>2. Cardinality(Times(B)) = Cardinality(B)
      BY <3>1, AsMany
    <3> QED
      BY <3>2 DEF B
  <2> QED
    BY <2>1, <2>2 DEF Stands
<1>7. w.hit # {} <=> {x \in H : x.breached} # {}
  BY DEF Stands, Times
<1> QED
  BY <1>1, <1>3, <1>4, <1>6, <1>7 DEF Firing

\* Recording a sample keeps a window standing for its log.
LEMMA RecordStands ==
  ASSUME NEW w \in WindowType, NEW l, IsLog(l), NEW n \in Nat, NEW now \in Nat, now > n,
         NEW duration \in Nat, NEW b \in BOOLEAN, Stands(w, l, n, duration), MaxGap \in Nat
  PROVE  Stands(Record(w, now, duration, b), l \cup {[ts |-> now, breached |-> b]}, now, duration)
<1> DEFINE z == [ts |-> now, breached |-> b]
           k == l \cup {z}
           v == Record(w, now, duration, b)
<1>0. /\ \A x \in l : x.ts \in Nat /\ x.ts <= n /\ x.ts < now
      /\ z.ts = now /\ z.breached = b /\ z \in k
      /\ w.started \in Nat /\ w.started <= n /\ n \in Times(l)
      /\ Latest(w.seen) = n /\ w.seen # {}
  <2>1. \A x \in l : x.ts \in Nat /\ x.ts <= n
    BY DEF IsLog, SampleType, Stands
  <2>2. w.started \in Nat /\ w.started <= n /\ n \in Times(l)
    BY <2>1 DEF Stands, Times
  <2>3. Latest(w.seen) = n
    BY StandsDecides
  <2>4. w.seen # {}
    <3>1. PICK x \in l : x.ts = n
      BY <2>2 DEF Times
    <3>2. x \in Held(w, l, n, duration)
      BY <2>1, <2>2, <3>1 DEF Held
    <3> QED
      BY <3>2 DEF Stands, Times
  <2>5. \A x \in l : x.ts < now
    BY <2>1
  <2> QED
    BY <2>1, <2>2, <2>3, <2>4, <2>5
<1>1. Broken(w, now) <=> now - n > MaxGap
  BY <1>0 DEF Broken
<1>2. (\A x \in k : x \in l \/ x = z) /\ l \subseteq k
  OBVIOUS
<1>3. Times(k) = Times(l) \cup {now}
  BY <1>0 DEF Times
<1> HIDE DEF k, z
<1>4. now \in Times(k) /\ \A x \in k : x.ts \in Nat /\ x.ts <= now
  <2>1. \A x \in l : x.ts \in Nat /\ x.ts <= now
    BY <1>0
  <2>2. z.ts \in Nat /\ z.ts <= now
    BY <1>0
  <2> QED
    BY <1>2, <1>3, <2>1, <2>2
<1>5. CASE now - n > MaxGap
  <2>1. v = [started |-> now, seen |-> {now}, hit |-> IF b THEN {now} ELSE {}]
    BY <1>1, <1>5 DEF Record, EmptyWindow
  <2>2. v.started = now /\ v.seen = {now} /\ v.hit = IF b THEN {now} ELSE {}
    BY <2>1
  <2> HIDE DEF v
  <2>3. \A s \in Times(k) : Run(k, now, s) <=> s >= now
    <3>1. Run(k, now, now)
      BY <1>0, <1>2 DEF Run
    <3>2. ASSUME NEW s \in Times(l) PROVE ~Run(k, now, s) /\ ~(s >= now)
      <4>1. PICK x \in l : x.ts = n
        BY <1>0 DEF Times
      <4>2. s \in Nat /\ s <= n
        BY <1>0, <3>2 DEF Times
      <4>3. \A y \in k : y.ts > n => y.ts = now
        BY <1>0, <1>2
      <4>4. \A y \in k : ~(y.ts > n /\ y.ts - n <= MaxGap)
        BY <1>5, <4>3
      <4> QED
        BY <1>0, <1>2, <4>1, <4>2, <4>4 DEF Run
    <3>3. now >= now
      OBVIOUS
    <3> QED
      BY <1>3, <3>1, <3>2, <3>3
  <2>4. Held(v, k, now, duration) = {z}
    BY <1>0, <1>2, <2>2 DEF Held
  <2>5. v.seen = Times(Held(v, k, now, duration))
    BY <1>0, <2>2, <2>4 DEF Times
  <2>6. v.hit = Times({x \in Held(v, k, now, duration) : x.breached})
    <3>1. CASE b
      <4>1. {x \in {z} : x.breached} = {z}
        BY <1>0, <3>1
      <4>2. Times({z}) = {now}
        BY <1>0 DEF Times
      <4> QED
        BY <2>2, <2>4, <3>1, <4>1, <4>2
    <3>2. CASE ~b
      <4>1. {x \in {z} : x.breached} = {}
        BY <1>0, <3>2
      <4> QED
        BY <2>2, <2>4, <3>2, <4>1 DEF Times
    <3> QED
      BY <3>1, <3>2
  <2>7. \A x \in k : x.ts <= now
    BY <1>4
  <2>8. v.started \in Times(k) /\ now \in Times(k)
    BY <1>4, <2>2
  <2> QED
    <3>1. \A s \in Times(k) : Run(k, now, s) <=> s >= v.started
      BY <2>2, <2>3
    <3>2. Stands(v, k, now, duration)
      BY <2>5, <2>6, <2>7, <2>8, <3>1, Zenon DEF Stands
    <3> QED
      BY <3>2 DEF v, k, z
<1>6. CASE ~(now - n > MaxGap)
  <2> DEFINE recent == {t \in w.seen : t >= now - duration} \ {now}
  <2>1. v = [started |-> w.started, seen |-> recent \cup {now},
             hit |-> (w.hit \cap recent) \cup (IF b THEN {now} ELSE {})]
    BY <1>0, <1>1, <1>6 DEF Record
  <2>2. /\ v.started = w.started /\ v.seen = recent \cup {now}
        /\ v.hit = (w.hit \cap recent) \cup (IF b THEN {now} ELSE {})
    BY <2>1
  <2> HIDE DEF v
  <2>3. \A s \in Times(k) : Run(k, now, s) <=> s >= w.started
    <3>1. Run(k, now, now) /\ now >= w.started
      BY <1>0, <1>2 DEF Run
    <3>2. ASSUME NEW s \in Times(l) PROVE Run(k, now, s) <=> Run(l, n, s)
      <4>0. s \in Nat /\ s <= n
        BY <1>0, <3>2 DEF Times
      <4>1. PICK u \in l : u.ts = n
        BY <1>0 DEF Times
      <4>2. ASSUME Run(l, n, s) PROVE Run(k, now, s)
        <5> SUFFICES ASSUME NEW x \in k, x.ts >= s, x.ts < now
                     PROVE  \E y \in k : y.ts > x.ts /\ y.ts - x.ts <= MaxGap
          BY DEF Run
        <5>1. x \in l /\ x.ts \in Nat /\ x.ts <= n
          BY <1>0, <1>2
        <5>2. CASE x.ts = n
          <6>1. z.ts > x.ts /\ z.ts - x.ts <= MaxGap
            BY <1>0, <1>6, <5>2
          <6> QED
            BY <1>0, <6>1
        <5>3. CASE x.ts < n
          BY <1>2, <4>2, <5>1, <5>3 DEF Run
        <5> QED
          BY <5>1, <5>2, <5>3
      <4>3. ASSUME Run(k, now, s) PROVE Run(l, n, s)
        <5> SUFFICES ASSUME NEW x \in l, x.ts >= s, x.ts < n
                     PROVE  \E y \in l : y.ts > x.ts /\ y.ts - x.ts <= MaxGap
          BY DEF Run
        <5>0. x.ts \in Nat /\ x.ts < now
          BY <1>0
        <5>1. PICK y \in k : y.ts > x.ts /\ y.ts - x.ts <= MaxGap
          BY <1>2, <4>3, <5>0 DEF Run
        <5>2. CASE y \in l
          BY <5>1, <5>2
        <5>3. CASE y = z
          <6>1. u.ts > x.ts /\ u.ts - x.ts <= MaxGap
            BY <1>0, <4>1, <5>0, <5>1, <5>3
          <6> QED
            BY <6>1
        <5> QED
          BY <1>2, <5>2, <5>3
      <4> QED
        BY <4>2, <4>3
    <3>3. \A s \in Times(l) : Run(l, n, s) <=> s >= w.started
      BY DEF Stands
    <3> QED
      BY <1>3, <3>1, <3>2, <3>3
  <2>4. \A x \in l : x \in Held(v, k, now, duration) <=>
                        x \in Held(w, l, n, duration) /\ x.ts >= now - duration
    <3>1. ASSUME NEW x \in l PROVE x.ts >= now - duration => x.ts >= n - duration
      BY <1>0
    <3> QED
      BY <1>2, <2>2, <3>1 DEF Held
  <2>5. z \in Held(v, k, now, duration)
    BY <1>0, <2>2 DEF Held
  <2>6. \A x \in Held(v, k, now, duration) : x \in l \/ x = z
    BY <1>2 DEF Held
  <2>7. /\ w.seen = Times(Held(w, l, n, duration))
        /\ w.hit = Times({x \in Held(w, l, n, duration) : x.breached})
        /\ Held(w, l, n, duration) \subseteq l
    BY DEF Stands, Held
  <2>8. v.seen = Times(Held(v, k, now, duration))
    <3>1. ASSUME NEW t \in v.seen PROVE t \in Times(Held(v, k, now, duration))
      <4>1. CASE t = now
        BY <1>0, <2>5, <4>1 DEF Times
      <4>2. CASE t \in recent
        <5>1. PICK x \in Held(w, l, n, duration) : x.ts = t
          BY <2>7, <4>2 DEF Times
        <5>2. x \in Held(v, k, now, duration)
          BY <2>4, <2>7, <4>2, <5>1
        <5> QED
          BY <5>1, <5>2 DEF Times
      <4> QED
        BY <2>2, <4>1, <4>2
    <3>2. ASSUME NEW x \in Held(v, k, now, duration) PROVE x.ts \in v.seen
      <4>1. CASE x = z
        BY <1>0, <2>2, <4>1
      <4>2. CASE x \in l
        BY <1>0, <2>2, <2>4, <2>7, <4>2 DEF Times
      <4> QED
        BY <2>6, <4>1, <4>2
    <3> QED
      BY <3>1, <3>2 DEF Times
  <2>9. v.hit = Times({x \in Held(v, k, now, duration) : x.breached})
    <3>1. ASSUME NEW t \in v.hit
          PROVE  t \in Times({x \in Held(v, k, now, duration) : x.breached})
      <4>1. CASE t = now /\ b
        BY <1>0, <2>5, <4>1 DEF Times
      <4>2. CASE t \in w.hit \cap recent
        <5>1. PICK x \in Held(w, l, n, duration) : x.ts = t /\ x.breached
          BY <2>7, <4>2 DEF Times
        <5>2. x \in Held(v, k, now, duration)
          BY <2>4, <2>7, <4>2, <5>1
        <5> QED
          BY <5>1, <5>2 DEF Times
      <4> QED
        BY <2>2, <4>1, <4>2
    <3>2. ASSUME NEW x \in Held(v, k, now, duration), x.breached PROVE x.ts \in v.hit
      <4>1. CASE x = z
        BY <1>0, <2>2, <3>2, <4>1
      <4>2. CASE x \in l
        <5>1. x.ts \in w.hit
          BY <2>4, <2>7, <3>2, <4>2 DEF Times
        <5>2. x.ts \in w.seen /\ x.ts >= now - duration /\ x.ts # now
          <6>1. x.ts \in Nat /\ x.ts < now
            BY <1>0, <4>2
          <6> QED
            BY <2>4, <2>7, <4>2, <6>1 DEF Times
        <5> QED
          BY <2>2, <5>1, <5>2
      <4> QED
        BY <2>6, <4>1, <4>2
    <3> QED
      BY <3>1, <3>2 DEF Times
  <2>10. \A x \in k : x.ts <= now
    BY <1>4
  <2>11. v.started \in Times(k) /\ now \in Times(k)
    <3>1. w.started \in Times(l)
      BY DEF Stands
    <3> QED
      BY <1>3, <2>2, <3>1
  <2> QED
    <3>1. \A s \in Times(k) : Run(k, now, s) <=> s >= v.started
      BY <2>2, <2>3
    <3>2. Stands(v, k, now, duration)
      BY <2>8, <2>9, <2>10, <2>11, <3>1, Zenon DEF Stands
    <3> QED
      BY <3>2 DEF v, k, z
<1> QED
  BY <1>5, <1>6 DEF k, z

\* So does the first sample.
LEMMA FirstStands ==
  ASSUME NEW w, w.seen = {}, w.hit = {}, NEW now \in Nat, NEW duration \in Nat, NEW b \in BOOLEAN
  PROVE  Stands(Record(w, now, duration, b), {[ts |-> now, breached |-> b]}, now, duration)
<1> DEFINE z == [ts |-> now, breached |-> b]
           v == Record(w, now, duration, b)
<1>1. ~Broken(w, now)
  BY DEF Broken
<1>2. v = [started |-> now, seen |-> {now}, hit |-> IF b THEN {now} ELSE {}]
  BY <1>1 DEF Record
<1>3. v.started = now /\ v.seen = {now} /\ v.hit = IF b THEN {now} ELSE {}
  BY <1>2
<1> HIDE DEF v
<1>4. z.ts = now /\ z.breached = b
  OBVIOUS
<1>5. Times({z}) = {now} /\ Held(v, {z}, now, duration) = {z}
  BY <1>3, <1>4 DEF Times, Held
<1>6. v.hit = Times({x \in {z} : x.breached})
  <2>1. CASE b
    <3>1. {x \in {z} : x.breached} = {z}
      BY <1>4, <2>1
    <3> QED
      BY <1>3, <1>5, <2>1, <3>1
  <2>2. CASE ~b
    <3>1. {x \in {z} : x.breached} = {}
      BY <1>4, <2>2
    <3> QED
      BY <1>3, <2>2, <3>1 DEF Times
  <2> QED
    BY <2>1, <2>2
<1>7. Run({z}, now, now) /\ now >= now /\ \A x \in {z} : x.ts <= now
  BY <1>4 DEF Run
<1>8. \A s \in Times({z}) : Run({z}, now, s) <=> s >= v.started
  BY <1>3, <1>5, <1>7
<1> HIDE DEF z
<1>9. Stands(v, {z}, now, duration)
  BY <1>3, <1>5, <1>6, <1>7, <1>8 DEF Stands
<1> QED
  BY <1>9 DEF v, z

-----------------------------------------------------------------------------
(* Types and dates                                                         *)

StateType == [firing : BOOLEAN, since : Nat, lastNotify : Nat]

AlertTypes ==
    /\ clock \in Nat /\ edits \in Nat
    /\ cfg \in [Rules -> Configs] /\ enabled \in [Rules -> BOOLEAN]
    /\ lastExit \in [Agents -> {None, "ok", "fail"}]
    /\ windows \in [Keys -> WindowType]
    /\ states \in [Keys -> StateType] /\ saved \in [Keys -> StateType]
    /\ offlineSince \in [Keys -> SUBSET Int]
    /\ failures \in [Keys -> Nat]
    /\ outbox \subseteq Pages
    /\ paged \in [Keys -> Pages] /\ news \in [Keys -> Pages]
    /\ cleared \subseteq Keys /\ unsaved \subseteq Keys /\ garbled \subseteq Keys
    /\ log \in [Keys -> SUBSET SampleType]

\* Nothing is dated in the future.
StateDated(s, n) == s.since <= n /\ s.lastNotify <= n /\ (s.firing => s.since > 0)

Dated ==
    /\ Start <= clock /\ clock <= MaxTime /\ edits <= MaxEdits
    /\ \A k \in Keys :
          /\ windows[k].hit \subseteq windows[k].seen
          /\ windows[k].seen \subseteq windows[k].started .. clock
          /\ \A t \in offlineSince[k] : t <= clock
          /\ failures[k] <= clock - Start
          /\ StateDated(states[k], clock) /\ StateDated(saved[k], clock)
          /\ \A x \in log[k] : x.ts <= clock

\* The keys a tick changes the state of, and those it pages.
Flipped(now, input) == {k \in Keys : Flips(k, input[k[2]], now)}
Notified(now, input) == {k \in Flipped(now, input) : Notifies(k, now)}

\* A tick at now that found input and saved the states of ok.
TickOf(now, input, ok) ==
    /\ now \in Nat /\ now > clock /\ now <= MaxTime /\ clock' = now
    /\ input \in [Agents -> Inputs] /\ ok \subseteq Flipped(now, input)
    /\ lastExit' = [a \in Agents |-> Exit(a, input[a])]
    /\ UNCHANGED <<cfg, enabled, edits, news>>
    /\ signatures' = [r \in Rules |-> IF enabled[r] THEN {Signature(cfg[r])} ELSE {}]
    /\ windows' = [k \in Keys |-> Window(k, input[k[2]], now)]
    /\ offlineSince' = [k \in Keys |->
           IF enabled[k[1]] /\ CfgOf(k).kind = "offline" THEN OfflineSince(k, input[k[2]], now)
           ELSE IF Stale(k) THEN {} ELSE offlineSince[k]]
    /\ failures' = [k \in Keys |->
           IF ~enabled[k[1]] THEN 0
           ELSE IF CfgOf(k).kind = "task" THEN Failures(k, input[k[2]]) ELSE failures[k]]
    /\ states' = [k \in Keys |->
           IF k \in Flipped(now, input) THEN NextState(k, now) ELSE states[k]]
    /\ saved' = [k \in Keys |-> IF k \in ok THEN states'[k] ELSE saved[k]]
    /\ unsaved' = (unsaved \cup Flipped(now, input)) \ ok
    /\ outbox' = outbox \cup {Page(k, now) : k \in Notified(now, input)}
    /\ paged' = [k \in Keys |-> IF k \in Notified(now, input) THEN Page(k, now) ELSE paged[k]]
    /\ garbled' = (garbled \ Notified(now, input))
                      \cup (Notified(now, input) \cap {p.key : p \in outbox})
    /\ cleared' = (cleared \cup {k \in Keys : TroubleOver(k, input[k[2]])})
                      \ {k \in Flipped(now, input) : ~states[k].firing}
    /\ log' = [k \in Keys |->
           (IF Stale(k) THEN {} ELSE log[k])
               \cup (IF enabled[k[1]] /\ Observation(k, input[k[2]], now) # None
                     THEN {Sample(k, input[k[2]], now)} ELSE {})]

\* Every tick is one of those.
LEMMA TickIs ==
  ASSUME Tick, AlertTypes
  PROVE  \E now, input, ok : TickOf(now, input, ok)
<1>1. PICK d \in Steps, input \in [Agents -> Inputs] :
         /\ clock + d <= MaxTime
         /\ clock' = clock + d
         /\ lastExit' = [a \in Agents |-> Exit(a, input[a])]
         /\ Evaluate(clock + d, input)
         /\ UNCHANGED <<cfg, enabled, edits, news>>
  BY DEF Tick
<1> DEFINE now == clock + d
<1>2. now \in Nat /\ now > clock
  BY AlertAssumption DEF AlertTypes
<1>3. Evaluate(now, input) /\ now <= MaxTime /\ clock' = now
  BY <1>1
<1> HIDE DEF now
<1>4. PICK ok \in SUBSET Flipped(now, input) :
         /\ saved' = [k \in Keys |-> IF k \in ok THEN states'[k] ELSE saved[k]]
         /\ unsaved' = (unsaved \cup Flipped(now, input)) \ ok
  BY <1>3 DEF Evaluate, Flipped
<1>5. /\ signatures' = [r \in Rules |-> IF enabled[r] THEN {Signature(cfg[r])} ELSE {}]
      /\ windows' = [k \in Keys |-> Window(k, input[k[2]], now)]
      /\ states' = [k \in Keys |->
             IF k \in Flipped(now, input) THEN NextState(k, now) ELSE states[k]]
      /\ outbox' = outbox \cup {Page(k, now) : k \in Notified(now, input)}
      /\ paged' = [k \in Keys |-> IF k \in Notified(now, input) THEN Page(k, now) ELSE paged[k]]
      /\ garbled' = (garbled \ Notified(now, input))
                      \cup (Notified(now, input) \cap {p.key : p \in outbox})
      /\ cleared' = (cleared \cup {k \in Keys : TroubleOver(k, input[k[2]])})
                      \ {k \in Flipped(now, input) : ~states[k].firing}
  BY <1>3, Zenon DEF Evaluate, Flipped, Notified
<1> DEFINE active == {k \in Keys : enabled[k[1]]}
<1>6. \A k \in Keys : k \in active <=> enabled[k[1]]
  OBVIOUS
<1>7. offlineSince' = [k \in Keys |->
           IF k \in active /\ CfgOf(k).kind = "offline" THEN OfflineSince(k, input[k[2]], now)
           ELSE IF Stale(k) THEN {} ELSE offlineSince[k]]
  BY <1>3, Zenon DEF Evaluate
<1>8. failures' = [k \in Keys |->
           IF k \notin active THEN 0
           ELSE IF CfgOf(k).kind = "task" THEN Failures(k, input[k[2]]) ELSE failures[k]]
  BY <1>3, Zenon DEF Evaluate
<1>9. log' = [k \in Keys |->
           (IF Stale(k) THEN {} ELSE log[k])
               \cup (IF k \in active /\ Observation(k, input[k[2]], now) # None
                     THEN {Sample(k, input[k[2]], now)} ELSE {})]
  BY <1>3, Zenon DEF Evaluate
<1> HIDE DEF active
<1>10. offlineSince' = [k \in Keys |->
           IF enabled[k[1]] /\ CfgOf(k).kind = "offline" THEN OfflineSince(k, input[k[2]], now)
           ELSE IF Stale(k) THEN {} ELSE offlineSince[k]]
  BY <1>6, <1>7
<1>11. failures' = [k \in Keys |->
           IF ~enabled[k[1]] THEN 0
           ELSE IF CfgOf(k).kind = "task" THEN Failures(k, input[k[2]]) ELSE failures[k]]
  BY <1>6, <1>8
<1>12. log' = [k \in Keys |->
           (IF Stale(k) THEN {} ELSE log[k])
               \cup (IF enabled[k[1]] /\ Observation(k, input[k[2]], now) # None
                     THEN {Sample(k, input[k[2]], now)} ELSE {})]
  BY <1>6, <1>9
<1>13. TickOf(now, input, ok)
  BY <1>1, <1>2, <1>3, <1>4, <1>5, <1>10, <1>11, <1>12, Zenon DEF TickOf
<1> QED
  BY <1>13

\* The rule of a key, and what a tick finds of its agent.
LEMMA KeyTypes ==
  ASSUME AlertTypes, NEW k \in Keys
  PROVE  /\ k[1] \in Rules /\ k[2] \in Agents /\ enabled[k[1]] \in BOOLEAN
         /\ CfgOf(k) \in Configs
         /\ CfgOf(k).kind \in {"metric", "offline", "task"}
         /\ CfgOf(k).threshold \in Nat /\ CfgOf(k).duration \in Nat /\ CfgOf(k).num \in Nat
         /\ CfgOf(k).den \in Nat \ {0} /\ CfgOf(k).consecutive \in Nat \ {0}
         /\ CfgOf(k).cooldown \in Nat
<1>1. k[1] \in Rules /\ k[2] \in Agents
  BY DEF Keys
<1>2. CfgOf(k) \in Configs
  BY <1>1 DEF AlertTypes, CfgOf
<1>3. CfgOf(k) \in [kind : Kinds, threshold : Nat, duration : Nat \ {0}, num : Nat,
                    den : Nat \ {0}, cooldown : Nat, consecutive : Nat \ {0}]
  BY <1>2, AlertAssumption
<1> QED
  BY <1>1, <1>2, <1>3 DEF AlertTypes, Kinds

\* What a tick finds of an agent.
LEMMA InputTypes ==
  ASSUME NEW in \in Inputs
  PROVE  /\ in.online \in BOOLEAN
         /\ in.value \in {None, "normal", "high"}
         /\ in.ran \in {None, "ok", "fail"}
  BY DEF Inputs

\* What a window holds lies between its start and the sample recorded last.
WindowDated(w, n) == w.hit \subseteq w.seen /\ w.seen \subseteq w.started .. n

\* record() yields a window that ends at the new sample.
LEMMA RecordTypes ==
  ASSUME NEW w \in WindowType, NEW n \in Nat, WindowDated(w, n), NEW now \in Nat, now > n,
         NEW duration \in Nat, NEW b \in BOOLEAN
  PROVE  Record(w, now, duration, b) \in WindowType /\ WindowDated(Record(w, now, duration, b), now)
<1> DEFINE base == IF Broken(w, now) THEN EmptyWindow ELSE w
           recent == {t \in base.seen : t >= now - duration} \ {now}
           v == Record(w, now, duration, b)
<1>1. base \in WindowType /\ WindowDated(base, n)
  BY DEF EmptyWindow, WindowType, WindowDated
<1>2. /\ v = [started |-> IF base.seen = {} THEN now ELSE base.started,
              seen |-> recent \cup {now},
              hit |-> (base.hit \cap recent) \cup (IF b THEN {now} ELSE {})]
      /\ recent \subseteq base.seen
  BY DEF Record
<1> HIDE DEF v, base, recent
<1>3. v.started \in Nat /\ v.started <= now
      /\ \A t \in recent : t \in Nat /\ v.started <= t /\ t <= now
  <2>1. /\ base.started \in Nat /\ base.seen \subseteq Nat
        /\ \A t \in base.seen : t \in Nat /\ base.started <= t /\ t <= n
    BY <1>1 DEF WindowType, WindowDated
  <2>2. v.started = IF base.seen = {} THEN now ELSE base.started
    BY <1>2
  <2>3. CASE base.seen = {}
    BY <1>2, <2>2, <2>3
  <2>4. CASE base.seen # {}
    <3>1. \A t \in base.seen : t <= now
      BY <2>1
    <3>2. base.started <= now
      BY <2>1, <2>4
    <3> QED
      BY <1>2, <2>1, <2>2, <2>4, <3>1, <3>2
  <2> QED
    BY <2>3, <2>4
<1>4. v.seen = recent \cup {now} /\ v.hit = (base.hit \cap recent) \cup (IF b THEN {now} ELSE {})
  BY <1>2
<1>5. v \in WindowType
  <2>1. v.seen \in SUBSET Nat /\ v.hit \in SUBSET Nat
    BY <1>3, <1>4
  <2>2. v = [started |-> v.started, seen |-> v.seen, hit |-> v.hit]
    BY <1>2
  <2> QED
    BY <1>3, <2>1, <2>2 DEF WindowType
<1>6. WindowDated(v, now)
  BY <1>3, <1>4 DEF WindowDated
<1> QED
  BY <1>5, <1>6 DEF v

\* An empty window has type and dates.
LEMMA EmptyTypes ==
  ASSUME NEW n \in Nat
  PROVE  EmptyWindow \in WindowType /\ WindowDated(EmptyWindow, n)
  BY DEF EmptyWindow, WindowType, WindowDated

\* What a tick makes of a key: types and dates.
LEMMA TickWindow ==
  ASSUME AlertTypes, Dated, NEW now, NEW input, NEW ok, TickOf(now, input, ok), NEW k \in Keys
  PROVE  Window(k, input[k[2]], now) \in WindowType /\ WindowDated(Window(k, input[k[2]], now), now)
<1> DEFINE w == IF Stale(k) THEN EmptyWindow ELSE windows[k]
           obs == Observation(k, input[k[2]], now)
<1>0. now \in Nat /\ now > clock /\ clock \in Nat
  BY DEF TickOf, AlertTypes
<1>1. windows[k] \in WindowType /\ WindowDated(windows[k], clock)
  BY DEF AlertTypes, Dated, WindowDated
<1>2. w \in WindowType /\ WindowDated(w, clock)
  BY <1>0, <1>1, EmptyTypes
<1>3. WindowDated(w, now)
  BY <1>0, <1>2 DEF WindowDated, WindowType
<1>4. CfgOf(k).duration \in Nat
  BY KeyTypes
<1>5. (obs = "breach") \in BOOLEAN
  OBVIOUS
<1> DEFINE b == obs = "breach"
<1>6. /\ Record(w, now, CfgOf(k).duration, b) \in WindowType
      /\ WindowDated(Record(w, now, CfgOf(k).duration, b), now)
  <2> HIDE DEF w, obs
  <2> QED
    BY <1>0, <1>2, <1>4, <1>5, RecordTypes
<1>7. Window(k, input[k[2]], now) = IF ~enabled[k[1]] THEN EmptyWindow
                                    ELSE IF obs = None THEN w
                                    ELSE Record(w, now, CfgOf(k).duration, b)
  BY DEF Window
<1> HIDE DEF w, obs, b
<1> QED
  BY <1>0, <1>2, <1>3, <1>6, <1>7, EmptyTypes

\* Its offline timer: a seed lies in the past, whatever the saved state says.
LEMMA TickOffline ==
  ASSUME AlertTypes, Dated, NEW now, NEW input, NEW ok, TickOf(now, input, ok), NEW k \in Keys
  PROVE  /\ offlineSince'[k] \in SUBSET Int /\ \A t \in offlineSince'[k] : t <= now
<1>0. /\ now \in Nat /\ now > clock /\ clock \in Nat
      /\ offlineSince[k] \in SUBSET Int /\ \A t \in offlineSince[k] : t \in Int /\ t <= now
      /\ states[k] \in StateType /\ CfgOf(k).threshold \in Nat
  BY KeyTypes DEF TickOf, AlertTypes, Dated
<1>1. Seed(k, now) \in Int /\ Seed(k, now) <= now
  <2>1. states[k].since \in Nat
    BY <1>0 DEF StateType
  <2> QED
    BY <1>0, <2>1 DEF Seed
<1>2. \A t \in OfflineSince(k, input[k[2]], now) : t \in Int /\ t <= now
  BY <1>0, <1>1 DEF OfflineSince
<1>3. offlineSince'[k] = IF enabled[k[1]] /\ CfgOf(k).kind = "offline"
                         THEN OfflineSince(k, input[k[2]], now)
                         ELSE IF Stale(k) THEN {} ELSE offlineSince[k]
  BY DEF TickOf
<1> QED
  BY <1>0, <1>2, <1>3

\* Its failures: one more per tick at most, and a tick takes an interval at least.
LEMMA TickFailures ==
  ASSUME AlertTypes, Dated, NEW now, NEW input, NEW ok, TickOf(now, input, ok), NEW k \in Keys
  PROVE  failures'[k] \in Nat /\ failures'[k] <= now - Start
<1>0. /\ now \in Nat /\ now > clock /\ clock \in Nat /\ Start \in Nat /\ Start <= clock
      /\ failures[k] \in Nat /\ failures[k] <= clock - Start
  BY AlertAssumption DEF TickOf, AlertTypes, Dated
<1> DEFINE e == Exit(k[2], input[k[2]])
           f == Failures(k, input[k[2]])
<1>1. f = failures[k] + 1 \/ f = 0 \/ f = failures[k]
  <2>1. CASE e = "fail"
    BY <2>1 DEF Failures
  <2>2. CASE e = "ok"
    BY <2>2 DEF Failures
  <2>3. CASE e # "fail" /\ e # "ok"
    BY <2>3 DEF Failures
  <2> QED
    BY <2>1, <2>2, <2>3
<1>2. failures'[k] = IF ~enabled[k[1]] THEN 0
                     ELSE IF CfgOf(k).kind = "task" THEN f ELSE failures[k]
  BY DEF TickOf
<1> HIDE DEF f, e
<1> QED
  BY <1>0, <1>1, <1>2

\* Its state, in memory and saved: a firing one has a date.
LEMMA TickStates ==
  ASSUME AlertTypes, Dated, NEW now, NEW input, NEW ok, TickOf(now, input, ok), NEW k \in Keys
  PROVE  /\ states'[k] \in StateType /\ StateDated(states'[k], now)
         /\ saved'[k] \in StateType /\ StateDated(saved'[k], now)
<1>0. /\ now \in Nat /\ now > clock /\ clock \in Nat
      /\ states[k] \in StateType /\ StateDated(states[k], clock)
      /\ saved[k] \in StateType /\ StateDated(saved[k], clock)
  BY DEF TickOf, AlertTypes, Dated
<1>1. NextState(k, now) \in StateType /\ StateDated(NextState(k, now), now)
  <2>1. states[k].lastNotify \in Nat /\ states[k].lastNotify <= now
    BY <1>0 DEF StateType, StateDated
  <2>2. PICK a, b, c : /\ NextState(k, now) = [firing |-> a, since |-> b, lastNotify |-> c]
                       /\ a = ~states[k].firing
                       /\ b = IF states[k].firing THEN 0 ELSE now
                       /\ c = IF Notifies(k, now) THEN now ELSE states[k].lastNotify
    BY DEF NextState
  <2>3. a \in BOOLEAN /\ b \in Nat /\ b <= now /\ (a => b > 0)
    <3>1. CASE states[k].firing
      <4>1. b = 0 /\ a = FALSE
        BY <2>2, <3>1
      <4>2. b \in Nat /\ b <= now
        BY <1>0, <4>1
      <4> QED
        BY <4>1, <4>2, Zenon
    <3>2. CASE ~states[k].firing
      <4>1. b = now /\ a = TRUE
        BY <2>2, <3>2
      <4> QED
        BY <1>0, <4>1
    <3> QED
      BY <3>1, <3>2
  <2>4. c \in Nat /\ c <= now
    BY <1>0, <2>1, <2>2
  <2> QED
    BY <2>2, <2>3, <2>4 DEF StateType, StateDated
<1>2. /\ StateDated(states[k], now) /\ StateDated(saved[k], now)
  BY <1>0 DEF StateDated, StateType
<1>3. /\ states'[k] = IF k \in Flipped(now, input) THEN NextState(k, now) ELSE states[k]
      /\ saved'[k] = IF k \in ok THEN states'[k] ELSE saved[k]
  BY DEF TickOf
<1>4. states'[k] \in StateType /\ StateDated(states'[k], now)
  BY <1>0, <1>1, <1>2, <1>3
<1> QED
  BY <1>0, <1>2, <1>3, <1>4

\* A tick keeps types and dates.
LEMMA TickTypes ==
  ASSUME AlertTypes, Dated, NEW now, NEW input, NEW ok, TickOf(now, input, ok)
  PROVE  (AlertTypes /\ Dated)'
<1>0. /\ now \in Nat /\ now > clock /\ clock \in Nat /\ clock' = now /\ now <= MaxTime
      /\ Start <= clock /\ Start \in Nat /\ MaxTime \in Nat
  BY AlertAssumption DEF TickOf, AlertTypes, Dated
<1>1. \A k \in Keys : windows'[k] \in WindowType /\ WindowDated(windows'[k], now)
  <2>1. \A k \in Keys : windows'[k] = Window(k, input[k[2]], now)
    BY DEF TickOf
  <2> QED
    BY <2>1, TickWindow
<1>2. lastExit' \in [Agents -> {None, "ok", "fail"}]
  <2>1. \A a \in Agents : Exit(a, input[a]) \in {None, "ok", "fail"}
    <3> SUFFICES ASSUME NEW a \in Agents PROVE Exit(a, input[a]) \in {None, "ok", "fail"}
      OBVIOUS
    <3>1. input[a].ran \in {None, "ok", "fail"} /\ lastExit[a] \in {None, "ok", "fail"}
      BY InputTypes DEF TickOf, AlertTypes
    <3> QED
      BY <3>1 DEF Exit
  <2> QED
    BY <2>1 DEF TickOf
<1>3. \A k \in Keys : Page(k, now) \in Pages
  BY <1>0 DEF Page, Pages
<1>4. paged' \in [Keys -> Pages] /\ outbox' \subseteq Pages
  <2>1. paged' \in [Keys -> Pages]
    BY <1>3 DEF TickOf, AlertTypes
  <2>2. outbox' \subseteq Pages
    BY <1>3 DEF TickOf, AlertTypes, Notified, Flipped
  <2> QED
    BY <2>1, <2>2
<1>5. \A k \in Keys : log'[k] \in SUBSET SampleType /\ \A x \in log'[k] : x.ts <= now
  <2> SUFFICES ASSUME NEW k \in Keys
               PROVE  log'[k] \in SUBSET SampleType /\ \A x \in log'[k] : x.ts <= now
    OBVIOUS
  <2>1. /\ Sample(k, input[k[2]], now) \in SampleType
        /\ Sample(k, input[k[2]], now).ts = now
    BY <1>0 DEF Sample, SampleType
  <2>2. log[k] \in SUBSET SampleType /\ \A x \in log[k] : x.ts <= now
    BY <1>0 DEF AlertTypes, Dated, SampleType
  <2>3. \A x \in log'[k] : x \in log[k] \/ x = Sample(k, input[k[2]], now)
    BY DEF TickOf
  <2> QED
    BY <1>0, <2>1, <2>2, <2>3
<1>6. /\ cleared' \subseteq Keys /\ unsaved' \subseteq Keys /\ garbled' \subseteq Keys
  BY DEF TickOf, AlertTypes, Flipped, Notified
<1>7. /\ windows' \in [Keys -> WindowType] /\ states' \in [Keys -> StateType]
      /\ saved' \in [Keys -> StateType] /\ offlineSince' \in [Keys -> SUBSET Int]
      /\ failures' \in [Keys -> Nat] /\ log' \in [Keys -> SUBSET SampleType]
  <2>1. /\ windows' = [k \in Keys |-> windows'[k]] /\ states' = [k \in Keys |-> states'[k]]
        /\ saved' = [k \in Keys |-> saved'[k]]
        /\ offlineSince' = [k \in Keys |-> offlineSince'[k]]
        /\ failures' = [k \in Keys |-> failures'[k]] /\ log' = [k \in Keys |-> log'[k]]
    BY DEF TickOf
  <2>2. /\ states' \in [Keys -> StateType] /\ saved' \in [Keys -> StateType]
    BY <2>1, TickStates
  <2>3. offlineSince' \in [Keys -> SUBSET Int]
    BY <2>1, TickOffline
  <2>4. failures' \in [Keys -> Nat]
    BY <2>1, TickFailures
  <2> QED
    BY <1>1, <1>5, <2>1, <2>2, <2>3, <2>4
<1>8. AlertTypes'
  <2>1. UNCHANGED <<cfg, enabled, edits, news>>
    BY DEF TickOf
  <2> QED
    BY <1>0, <1>2, <1>4, <1>6, <1>7, <2>1 DEF AlertTypes
<1>9. Dated'
  <2>1. edits' = edits
    BY DEF TickOf
  <2>2. Start <= now
    BY <1>0
  <2>3. \A k \in Keys : StateDated(states'[k], now) /\ StateDated(saved'[k], now)
    BY TickStates
  <2>4. \A k \in Keys : \A t \in offlineSince'[k] : t <= now
    BY TickOffline
  <2>5. \A k \in Keys : failures'[k] <= now - Start
    BY TickFailures
  <2> QED
    BY <1>0, <1>1, <1>5, <2>1, <2>2, <2>3, <2>4, <2>5 DEF Dated, WindowDated, StateDated
<1> QED
  BY <1>8, <1>9

\* So does every other step.
LEMMA TypesKept ==
  ASSUME AlertTypes, Dated,
         \/ \E p \in outbox : Delivered(p) \/ GivenUp(p)
         \/ Restart
         \/ \E r \in Rules, c \in Configs, on \in BOOLEAN : EditRule(r, c, on)
         \/ UNCHANGED vars
  PROVE  (AlertTypes /\ Dated)'
<1>1. CASE \E p \in outbox : Delivered(p) \/ GivenUp(p)
  <2>1. PICK p \in outbox : Delivered(p) \/ GivenUp(p)
    BY <1>1
  <2>2. /\ UNCHANGED <<clock, cfg, enabled, edits, lastExit, evalVars, saved, histVars>>
        /\ outbox' \subseteq outbox
        /\ garbled' \subseteq garbled \cup {p.key}
        /\ news' \in {news, [news EXCEPT ![p.key] = p]}
    BY <2>1 DEF Delivered, GivenUp
  <2>3. p \in Pages /\ p.key \in Keys
    BY DEF AlertTypes, Pages
  <2>4. news' \in [Keys -> Pages] /\ garbled' \subseteq Keys
    BY <2>2, <2>3 DEF AlertTypes
  <2> QED
    BY <2>2, <2>4 DEF AlertTypes, Dated, StateDated, evalVars, histVars
<1>2. CASE Restart
  <2>1. /\ UNCHANGED <<clock, cfg, enabled, edits, lastExit, saved, paged, news, cleared, unsaved>>
        /\ windows' = [k \in Keys |-> EmptyWindow] /\ offlineSince' = [k \in Keys |-> {}]
        /\ failures' = [k \in Keys |-> 0] /\ states' = saved /\ log' = [k \in Keys |-> {}]
        /\ garbled' = garbled \cup {p.key : p \in outbox} /\ outbox' = {}
    BY <1>2 DEF Restart, PerKey
  <2>2. garbled' \subseteq Keys
    BY <2>1 DEF AlertTypes, Pages
  <2>3. EmptyWindow \in WindowType /\ EmptyWindow.hit = {} /\ EmptyWindow.seen = {}
    BY DEF EmptyWindow, WindowType
  <2>4. windows' \in [Keys -> WindowType] /\ failures' \in [Keys -> Nat]
        /\ offlineSince' \in [Keys -> SUBSET Int] /\ log' \in [Keys -> SUBSET SampleType]
    BY <2>1, <2>3
  <2>5. AlertTypes'
    BY <2>1, <2>2, <2>4 DEF AlertTypes
  <2>6. 0 <= clock - Start
    BY AlertAssumption DEF AlertTypes, Dated
  <2>7. Dated'
    BY <2>1, <2>3, <2>6 DEF Dated, StateDated
  <2> QED
    BY <2>5, <2>7
<1>3. CASE \E r \in Rules, c \in Configs, on \in BOOLEAN : EditRule(r, c, on)
  <2>1. PICK r \in Rules, c \in Configs, on \in BOOLEAN : EditRule(r, c, on)
    BY <1>3
  <2>2. /\ UNCHANGED <<clock, lastExit, windows, states, offlineSince, failures, saved, outbox, paged,
                       news, log, unsaved, garbled>>
        /\ edits < MaxEdits /\ edits' = edits + 1
        /\ cfg' = [cfg EXCEPT ![r] = c] /\ enabled' = [enabled EXCEPT ![r] = on]
        /\ cleared' = cleared \cup {k \in Keys : k[1] = r}
    BY <2>1 DEF EditRule, evalVars
  <2>3. edits' \in Nat /\ edits' <= MaxEdits
    BY <2>2, AlertAssumption DEF AlertTypes
  <2>4. cfg' \in [Rules -> Configs] /\ enabled' \in [Rules -> BOOLEAN] /\ cleared' \subseteq Keys
    BY <2>2 DEF AlertTypes
  <2> QED
    BY <2>2, <2>3, <2>4 DEF AlertTypes, Dated, StateDated
<1>4. CASE UNCHANGED vars
  BY <1>4 DEF vars, evalVars, histVars, AlertTypes, Dated, StateDated
<1> QED
  BY <1>1, <1>2, <1>3, <1>4

-----------------------------------------------------------------------------
(* States, pages and what arrives of them                                  *)

\* The state of a key whose last transition was saved is the one a restart finds,
\* and agrees with the last page about it.
StatesPaged ==
    \A k \in Keys \ unsaved :
        /\ saved[k] = states[k]
        /\ states[k].firing => paged[k].kind = "firing" \/ states[k].lastNotify < states[k].since
        /\ ~states[k].firing => paged[k].kind # "firing"

\* Of a key whose pages did not meet, one page at most is on its way, the last one;
\* without it, that is the last one delivered.
PagesArrive ==
    \A k \in Keys \ garbled :
        /\ \A p \in outbox : p.key = k => p = paged[k]
        /\ (\A p \in outbox : p.key # k) => news[k] = paged[k]

\* A tick pages what it flips, and a key with a page still under way is garbled.
LEMMA PagesTick ==
  ASSUME AlertTypes, Dated, StatesPaged, PagesArrive,
         NEW now, NEW input, NEW ok, TickOf(now, input, ok)
  PROVE  (StatesPaged /\ PagesArrive)'
<1>0. /\ now \in Nat /\ now > clock /\ clock \in Nat
      /\ UNCHANGED news /\ ok \subseteq Flipped(now, input)
  BY DEF TickOf, AlertTypes
<1>1. ASSUME NEW k \in Keys \ unsaved'
      PROVE  /\ saved'[k] = states'[k]
             /\ states'[k].firing => \/ paged'[k].kind = "firing"
                                     \/ states'[k].lastNotify < states'[k].since
             /\ ~states'[k].firing => paged'[k].kind # "firing"
  <2>0. /\ saved'[k] = IF k \in ok THEN states'[k] ELSE saved[k]
        /\ states'[k] = IF k \in Flipped(now, input) THEN NextState(k, now) ELSE states[k]
        /\ paged'[k] = IF k \in Notified(now, input) THEN Page(k, now) ELSE paged[k]
    BY DEF TickOf
  <2>1. CASE k \in Flipped(now, input)
    <3>1. k \in ok
      BY <1>1, <2>1 DEF TickOf
    <3>2. saved'[k] = states'[k] /\ states'[k] = NextState(k, now)
      BY <2>0, <2>1, <3>1
    <3>3. CASE states[k].firing
      <4>1. k \in Notified(now, input)
        BY <2>1, <3>3 DEF Notified, Notifies
      <4>2. paged'[k] = [key |-> k, kind |-> "recovered", at |-> now]
        BY <2>0, <3>3, <4>1 DEF Page
      <4>3. paged'[k].kind # "firing"
        BY <4>2
      <4>4. states'[k].firing = ~states[k].firing
        BY <3>2 DEF NextState
      <4> QED
        BY <3>2, <3>3, <4>3, <4>4
    <3>4. CASE ~states[k].firing
      <4>0. states'[k].firing = ~states[k].firing
        BY <3>2 DEF NextState
      <4>1. states'[k].since = now
        BY <3>2, <3>4 DEF NextState
      <4>2. k \in Notified(now, input) => paged'[k].kind = "firing"
        BY <2>0, <3>4 DEF Page
      <4>3. k \notin Notified(now, input) => states'[k].lastNotify = states[k].lastNotify
        BY <2>1, <3>2 DEF Notified, NextState
      <4>4. states[k].lastNotify < now
        BY <1>0 DEF AlertTypes, Dated, StateDated, StateType
      <4> QED
        BY <3>2, <3>4, <4>0, <4>1, <4>2, <4>3, <4>4
    <3> QED
      BY <3>3, <3>4
  <2>2. CASE k \notin Flipped(now, input)
    <3>1. k \notin unsaved /\ k \notin ok /\ k \notin Notified(now, input)
      BY <1>0, <1>1, <2>2 DEF TickOf, Notified
    <3> QED
      BY <1>1, <2>0, <2>2, <3>1 DEF StatesPaged
  <2> QED
    BY <2>1, <2>2
<1>2. ASSUME NEW k \in Keys \ garbled'
      PROVE  /\ \A p \in outbox' : p.key = k => p = paged'[k]
             /\ (\A p \in outbox' : p.key # k) => news'[k] = paged'[k]
  <2>0. /\ outbox' = outbox \cup {Page(j, now) : j \in Notified(now, input)}
        /\ paged'[k] = IF k \in Notified(now, input) THEN Page(k, now) ELSE paged[k]
        /\ garbled' = (garbled \ Notified(now, input))
                          \cup (Notified(now, input) \cap {p.key : p \in outbox})
        /\ \A j : Page(j, now).key = j
    BY DEF TickOf, Page
  <2>1. CASE k \in Notified(now, input)
    <3>1. \A p \in outbox : p.key # k
      BY <1>2, <2>0, <2>1
    <3>2. \A p \in outbox' : p.key = k => p = Page(k, now)
      BY <2>0, <3>1
    <3>3. Page(k, now) \in outbox' /\ Page(k, now).key = k
      BY <2>0, <2>1
    <3> QED
      BY <2>0, <2>1, <3>2, <3>3
  <2>2. CASE k \notin Notified(now, input)
    <3>1. k \notin garbled /\ paged'[k] = paged[k]
      BY <1>2, <2>0, <2>2
    <3>2. \A p \in outbox' : p.key = k => p \in outbox
      BY <2>0, <2>2
    <3>3. outbox \subseteq outbox'
      BY <2>0
    <3> QED
      BY <1>0, <1>2, <3>1, <3>2, <3>3 DEF PagesArrive
  <2> QED
    BY <2>1, <2>2
<1> QED
  BY <1>1, <1>2 DEF StatesPaged, PagesArrive

\* Between ticks pages arrive, are lost or are forgotten by a restart.
LEMMA PagesKept ==
  ASSUME AlertTypes, StatesPaged, PagesArrive,
         \/ \E p \in outbox : Delivered(p) \/ GivenUp(p)
         \/ Restart
         \/ \E r \in Rules, c \in Configs, on \in BOOLEAN : EditRule(r, c, on)
         \/ UNCHANGED vars
  PROVE  (StatesPaged /\ PagesArrive)'
<1>1. ASSUME NEW p \in outbox, Delivered(p) PROVE (StatesPaged /\ PagesArrive)'
  <2>1. /\ outbox' = outbox \ {p} /\ news' = [news EXCEPT ![p.key] = p]
        /\ UNCHANGED <<states, saved, paged, unsaved, garbled>>
    BY <1>1 DEF Delivered, evalVars, histVars
  <2>2. \A k \in Keys : news'[k] = IF k = p.key THEN p ELSE news[k]
    BY <2>1 DEF AlertTypes
  <2>3. ASSUME NEW k \in Keys \ garbled'
        PROVE  /\ \A q \in outbox' : q.key = k => q = paged'[k]
               /\ (\A q \in outbox' : q.key # k) => news'[k] = paged'[k]
    <3>1. k \in Keys \ garbled
      BY <2>1, <2>3
    <3>2. CASE k = p.key
      BY <2>1, <2>2, <3>1, <3>2 DEF PagesArrive
    <3>3. CASE k # p.key
      BY <2>1, <2>2, <3>1, <3>3 DEF PagesArrive
    <3> QED
      BY <3>2, <3>3
  <2> QED
    BY <2>1, <2>3 DEF StatesPaged, PagesArrive
<1>2. ASSUME NEW p \in outbox, GivenUp(p) PROVE (StatesPaged /\ PagesArrive)'
  <2>1. /\ outbox' = outbox \ {p} /\ garbled' = garbled \cup {p.key}
        /\ UNCHANGED <<states, saved, paged, unsaved, news>>
    BY <1>2 DEF GivenUp, evalVars, histVars
  <2> QED
    BY <2>1 DEF StatesPaged, PagesArrive
<1>3. CASE Restart
  <2>1. /\ outbox' = {} /\ garbled' = garbled \cup {p.key : p \in outbox}
        /\ states' = saved /\ UNCHANGED <<saved, paged, unsaved, news>>
    BY <1>3 DEF Restart
  <2> QED
    BY <2>1 DEF StatesPaged, PagesArrive
<1>4. CASE (\E r \in Rules, c \in Configs, on \in BOOLEAN : EditRule(r, c, on)) \/ UNCHANGED vars
  <2>1. UNCHANGED <<states, saved, paged, unsaved, news, outbox, garbled>>
    BY <1>4 DEF EditRule, vars, evalVars, histVars
  <2> QED
    BY <2>1 DEF StatesPaged, PagesArrive
<1> QED
  BY <1>1, <1>2, <1>3, <1>4

-----------------------------------------------------------------------------
(* A firing rule whose trouble lasts                                       *)

\* The rule of k fires only on a window full of breaches.
AsksAll(k) == /\ CfgOf(k).num = CfgOf(k).den
              /\ CfgOf(k).kind = "task" => CfgOf(k).consecutive = 1

\* Offline for the grace period, if offline at all.
GraceOver(k, since, now) == \E t \in since : now - t >= CfgOf(k).threshold

AllBreached ==
    \A k \in Keys : (states[k].firing /\ AsksAll(k) /\ k \notin cleared) =>
        /\ windows[k].seen = windows[k].hit
        /\ CfgOf(k).kind = "offline" =>
               offlineSince[k] = {} \/ GraceOver(k, offlineSince[k], clock)

\* With as many breaches as samples there is nothing but breaches.
LEMMA FullRatio ==
  ASSUME NEW w \in WindowType, NEW n \in Nat, WindowDated(w, n), NEW d \in Nat \ {0},
         Firing(w, d, d)
  PROVE  w.hit = w.seen
<1>1. IsFiniteSet(w.seen)
  <2>1. IsFiniteSet(0 .. n)
    BY FS_Interval
  <2>2. w.seen \in SUBSET (0 .. n)
    BY DEF WindowDated, WindowType
  <2> QED
    BY <2>1, <2>2, FS_Subset
<1>2. w.hit \in SUBSET w.seen
  BY DEF WindowDated
<1>3. /\ IsFiniteSet(w.hit) /\ Cardinality(w.hit) <= Cardinality(w.seen)
      /\ Cardinality(w.hit) = Cardinality(w.seen) => w.hit = w.seen
  BY <1>1, <1>2, FS_Subset
<1>4. Cardinality(w.hit) \in Nat /\ Cardinality(w.seen) \in Nat
  BY <1>1, <1>3, FS_CardinalityType
<1>5. Cardinality(w.hit) * d >= d * Cardinality(w.seen)
  BY DEF Firing
<1>6. \A a, b \in Nat : a * d >= d * b => a >= b
  <2> SUFFICES ASSUME NEW a \in Nat, NEW b \in Nat, a < b PROVE a * d < d * b
    OBVIOUS
  <2>1. PICK c \in Nat : b = a + c /\ c > 0
    <3>1. b - a \in Nat /\ b = a + (b - a) /\ b - a > 0
      OBVIOUS
    <3> QED
      BY <3>1
  <2>2. d * b = a * d + d * c
    BY <2>1
  <2>3. d * c > 0
    BY <2>1
  <2>4. a * d \in Nat /\ d * c \in Nat
    BY <2>1
  <2> QED
    BY <2>2, <2>3, <2>4
<1>7. Cardinality(w.hit) >= Cardinality(w.seen)
  BY <1>4, <1>5, <1>6
<1>8. Cardinality(w.hit) = Cardinality(w.seen)
  BY <1>3, <1>4, <1>7
<1> QED
  BY <1>3, <1>8

\* Conversely.
LEMMA FullFires ==
  ASSUME NEW w \in WindowType, NEW n \in Nat, WindowDated(w, n), NEW d \in Nat \ {0},
         w.hit = w.seen, w.seen # {}
  PROVE  Firing(w, d, d)
<1>1. IsFiniteSet(w.seen)
  <2>1. IsFiniteSet(0 .. n)
    BY FS_Interval
  <2>2. w.seen \in SUBSET (0 .. n)
    BY DEF WindowDated, WindowType
  <2> QED
    BY <2>1, <2>2, FS_Subset
<1>2. Cardinality(w.seen) \in Nat
  BY <1>1, FS_CardinalityType
<1>3. \A a \in Nat : a * d >= d * a
  OBVIOUS
<1> QED
  BY <1>2, <1>3 DEF Firing

\* While a rule that asks for all fires and its trouble lasts, a tick records a
\* breach or nothing.
LEMMA TroubleLasts ==
  ASSUME AlertTypes, Dated, AllBreached,
         NEW now, NEW input, NEW ok, TickOf(now, input, ok), NEW k \in Keys,
         states[k].firing, AsksAll(k), k \notin cleared, ~TroubleOver(k, input[k[2]])
  PROVE  /\ Observation(k, input[k[2]], now) \in {None, "breach"}
         /\ CfgOf(k).kind = "offline" => GraceOver(k, OfflineSince(k, input[k[2]], now), now)
<1> DEFINE in == input[k[2]]
           c == CfgOf(k)
<1>0. /\ now \in Nat /\ now > clock /\ clock \in Nat
      /\ in \in Inputs
      /\ in.online \in BOOLEAN /\ in.value \in {None, "normal", "high"}
      /\ c.threshold \in Nat /\ c.kind \in {"metric", "offline", "task"}
  <2>1. in \in Inputs
    BY KeyTypes DEF TickOf
  <2> QED
    BY <2>1, InputTypes, KeyTypes DEF TickOf, AlertTypes
<1>1. CASE c.kind = "metric"
  <2>1. ~(in.online /\ in.value = "normal")
    BY <1>1 DEF TroubleOver
  <2>2. Observation(k, in, now) = IF ~in.online \/ in.value = None THEN None
                                  ELSE IF in.value = "high" THEN "breach" ELSE "clear"
    BY <1>1 DEF Observation
  <2>3. Observation(k, in, now) \in {None, "breach"}
    BY <1>0, <2>1, <2>2
  <2> QED
    BY <1>1, <2>3
<1>2. CASE c.kind = "offline"
  <2>1. ~in.online
    BY <1>2 DEF TroubleOver
  <2>2. GraceOver(k, OfflineSince(k, in, now), now)
    <3>1. CASE Stale(k) \/ offlineSince[k] = {}
      <4>1. OfflineSince(k, in, now) = {Seed(k, now)}
        BY <2>1, <3>1 DEF OfflineSince
      <4>2. now - Seed(k, now) >= c.threshold
        <5>1. states[k].since \in Nat
          BY DEF AlertTypes, StateType
        <5>2. Seed(k, now) = IF states[k].since > 0 /\ states[k].since <= now
                             THEN states[k].since - c.threshold ELSE now - c.threshold
          BY DEF Seed
        <5> QED
          BY <1>0, <5>1, <5>2
      <4> QED
        BY <4>1, <4>2 DEF GraceOver
    <3>2. CASE ~(Stale(k) \/ offlineSince[k] = {})
      <4>1. OfflineSince(k, in, now) = offlineSince[k]
        BY <2>1, <3>2 DEF OfflineSince
      <4>2. GraceOver(k, offlineSince[k], clock)
        BY <1>2, <3>2 DEF AllBreached
      <4>3. PICK t \in offlineSince[k] : clock - t >= c.threshold
        BY <4>2 DEF GraceOver
      <4>4. t \in Int
        BY <4>3 DEF AlertTypes
      <4>5. now - t >= c.threshold
        BY <1>0, <4>3, <4>4
      <4> QED
        BY <4>1, <4>3, <4>5 DEF GraceOver
    <3> QED
      BY <3>1, <3>2
  <2>3. Observation(k, in, now) = "breach"
    BY <1>2, <2>1, <2>2 DEF Observation, GraceOver
  <2> QED
    BY <2>2, <2>3
<1>3. CASE c.kind = "task"
  <2>1. Exit(k[2], in) \in {None, "fail"}
    <3>1. Exit(k[2], in) # "ok"
      BY <1>3 DEF TroubleOver
    <3>2. lastExit[k[2]] \in {None, "ok", "fail"} /\ in.ran \in {None, "ok", "fail"}
      BY <1>0, KeyTypes, InputTypes DEF AlertTypes
    <3> QED
      BY <3>1, <3>2 DEF Exit
  <2>2. Exit(k[2], in) = "fail" => Failures(k, in) >= c.consecutive
    <3>1. failures[k] \in Nat
      BY DEF AlertTypes
    <3>2. c.consecutive = 1
      BY <1>3 DEF AsksAll
    <3> QED
      BY <3>1, <3>2 DEF Failures
  <2>3. Observation(k, in, now) = IF Exit(k[2], in) = None THEN None
                                  ELSE IF Failures(k, in) >= c.consecutive THEN "breach" ELSE "clear"
    BY <1>3 DEF Observation
  <2>4. Observation(k, in, now) \in {None, "breach"}
    BY <2>1, <2>2, <2>3
  <2> QED
    BY <1>3, <2>4
<1> QED
  BY <1>0, <1>1, <1>2, <1>3

\* What a tick does of a key that fires, in fact, for good reason: no recovery.
LEMMA NoFlipBack ==
  ASSUME AlertTypes, Dated, AllBreached,
         NEW now, NEW input, NEW ok, TickOf(now, input, ok), NEW k \in Keys,
         states[k].firing, AsksAll(k), k \notin cleared, ~TroubleOver(k, input[k[2]])
  PROVE  /\ ~Flips(k, input[k[2]], now)
         /\ windows'[k].seen = windows'[k].hit
<1> DEFINE in == input[k[2]]
           obs == Observation(k, in, now)
           c == CfgOf(k)
           base == IF Stale(k) THEN EmptyWindow ELSE windows[k]
           v == Window(k, in, now)
<1>1. obs \in {None, "breach"}
  BY TroubleLasts
<1>2. windows'[k] = v
  BY DEF TickOf
<1>3. base.seen = base.hit
  BY DEF AllBreached, EmptyWindow
<1>4. /\ v = IF ~enabled[k[1]] THEN EmptyWindow
             ELSE IF obs = None THEN base
             ELSE Record(base, now, c.duration, obs = "breach")
      /\ EmptyWindow.seen = EmptyWindow.hit
  BY DEF Window, EmptyWindow
<1>5. CASE obs = None \/ ~enabled[k[1]]
  <2>1. v.seen = v.hit
    BY <1>3, <1>4, <1>5
  <2>2. ~Flips(k, in, now)
    BY <1>5 DEF Flips
  <2> QED
    BY <1>2, <2>1, <2>2
<1>6. CASE obs # None /\ enabled[k[1]]
  <2>0. obs = "breach"
    BY <1>1, <1>6
  <2>1. v = Record(base, now, c.duration, TRUE)
    <3>1. (obs = "breach") = TRUE
      BY <2>0
    <3>2. v = Record(base, now, c.duration, obs = "breach")
      BY <1>4, <1>6
    <3> HIDE DEF v, base, obs
    <3> QED
      BY <3>1, <3>2
  <2>2. v.seen = v.hit /\ v.seen # {}
    <3> DEFINE b == IF Broken(base, now) THEN EmptyWindow ELSE base
               recent == {t \in b.seen : t >= now - c.duration} \ {now}
    <3>1. b.seen = b.hit
      BY <1>3, <1>4
    <3>2. v = [started |-> IF b.seen = {} THEN now ELSE b.started,
               seen |-> recent \cup {now}, hit |-> (b.hit \cap recent) \cup {now}]
      BY <2>1 DEF Record
    <3>3. recent \subseteq b.seen
      OBVIOUS
    <3> HIDE DEF b, recent, v
    <3>4. v.seen = recent \cup {now} /\ v.hit = (b.hit \cap recent) \cup {now}
      BY <3>2
    <3> QED
      BY <3>1, <3>3, <3>4
  <2>3. v \in WindowType /\ WindowDated(v, now)
    BY TickWindow
  <2>4. now \in Nat /\ c.den \in Nat \ {0} /\ c.num = c.den
    BY KeyTypes DEF TickOf, AsksAll
  <2>5. Firing(v, c.den, c.den)
    <3> HIDE DEF v, c
    <3> QED
      BY <2>2, <2>3, <2>4, FullFires
  <2>6. Firing(v, c.num, c.den)
    <3> HIDE DEF v
    <3> QED
      BY <2>4, <2>5
  <2>7. ~Flips(k, in, now)
    <3>1. (Firing(v, c.num, c.den) # states[k].firing) = FALSE
      <4>1. Firing(v, c.num, c.den) = TRUE
        BY <2>6 DEF Firing
      <4>2. states[k].firing = TRUE
        BY DEF AlertTypes, StateType
      <4> HIDE DEF v, c
      <4> QED
        BY <4>1, <4>2
    <3> QED
      BY <3>1 DEF Flips
  <2> QED
    BY <1>2, <2>2, <2>7
<1> QED
  BY <1>5, <1>6

\* A rule that asks for all begins to fire on a window full of breaches.
LEMMA FlipOnAll ==
  ASSUME AlertTypes, Dated,
         NEW now, NEW input, NEW ok, TickOf(now, input, ok), NEW k \in Keys,
         ~states[k].firing, AsksAll(k), Flips(k, input[k[2]], now)
  PROVE  /\ windows'[k].seen = windows'[k].hit
         /\ Observation(k, input[k[2]], now) = "breach"
<1> DEFINE in == input[k[2]]
           obs == Observation(k, in, now)
           c == CfgOf(k)
           base == IF Stale(k) THEN EmptyWindow ELSE windows[k]
           v == Window(k, in, now)
<1>1. windows'[k] = v
  BY DEF TickOf
<1>2. v \in WindowType /\ WindowDated(v, now)
  BY TickWindow
<1>3. enabled[k[1]] /\ obs # None /\ Firing(v, c.num, c.den)
  <2>1. enabled[k[1]] /\ obs # None /\ Firing(v, c.num, c.den) # states[k].firing
    BY DEF Flips
  <2>2. states[k].firing = FALSE
    BY DEF AlertTypes, StateType
  <2>3. Firing(v, c.num, c.den) \in BOOLEAN
    BY DEF Firing
  <2> HIDE DEF v, c, obs
  <2> QED
    BY <2>1, <2>2, <2>3
<1>4. now \in Nat /\ c.den \in Nat \ {0} /\ c.num = c.den
  BY KeyTypes DEF TickOf, AsksAll
<1>5. v.hit = v.seen
  <2>1. Firing(v, c.den, c.den)
    <3> HIDE DEF v
    <3> QED
      BY <1>3, <1>4
  <2> HIDE DEF v, c
  <2> QED
    BY <1>2, <1>4, <2>1, FullRatio
<1>6. v = Record(base, now, c.duration, obs = "breach")
  BY <1>3 DEF Window
<1>7. obs = "breach"
  <2> SUFFICES ASSUME obs # "breach" PROVE FALSE
    OBVIOUS
  <2> DEFINE b == IF Broken(base, now) THEN EmptyWindow ELSE base
             recent == {t \in b.seen : t >= now - c.duration} \ {now}
  <2>1. v = [started |-> IF b.seen = {} THEN now ELSE b.started,
             seen |-> recent \cup {now}, hit |-> (b.hit \cap recent) \cup {}]
    BY <1>6 DEF Record
  <2>2. now \notin recent
    OBVIOUS
  <2> HIDE DEF b, recent, v
  <2>3. now \in v.seen /\ now \notin v.hit
    BY <2>1, <2>2
  <2> QED
    BY <1>5, <2>3
<1> QED
  BY <1>1, <1>5, <1>7

\* A tick keeps the windows of such rules full of breaches.
LEMMA BreachedTick ==
  ASSUME AlertTypes, Dated, AllBreached, NEW now, NEW input, NEW ok, TickOf(now, input, ok)
  PROVE  AllBreached'
<1> SUFFICES ASSUME NEW k \in Keys, states'[k].firing, AsksAll(k)', k \notin cleared'
             PROVE  /\ windows'[k].seen = windows'[k].hit
                    /\ CfgOf(k)'.kind = "offline" =>
                         \/ offlineSince'[k] = {}
                         \/ \E t \in offlineSince'[k] : clock' - t >= CfgOf(k)'.threshold
  BY DEF AllBreached, GraceOver
<1> DEFINE in == input[k[2]]
<1>0. /\ now \in Nat /\ clock' = now /\ CfgOf(k)' = CfgOf(k)
      /\ in \in Inputs /\ in.online \in BOOLEAN
  <2>1. in \in Inputs
    BY KeyTypes DEF TickOf
  <2> QED
    BY <2>1, InputTypes DEF TickOf, CfgOf
<1>1. AsksAll(k)
  BY <1>0 DEF AsksAll
<1>2. states'[k] = IF k \in Flipped(now, input) THEN NextState(k, now) ELSE states[k]
  BY DEF TickOf
<1>3. cleared' = (cleared \cup {j \in Keys : TroubleOver(j, input[j[2]])})
                     \ {j \in Flipped(now, input) : ~states[j].firing}
  BY DEF TickOf
<1>4. k \in Flipped(now, input) <=> Flips(k, in, now)
  BY DEF Flipped
<1>5. offlineSince'[k] = IF enabled[k[1]] /\ CfgOf(k).kind = "offline"
                         THEN OfflineSince(k, in, now)
                         ELSE IF Stale(k) THEN {} ELSE offlineSince[k]
  BY DEF TickOf
<1>6. ~enabled[k[1]] => Stale(k)
  BY DEF Stale
<1>7. /\ windows'[k].seen = windows'[k].hit
      /\ CfgOf(k).kind = "offline" /\ enabled[k[1]] => GraceOver(k, OfflineSince(k, in, now), now)
  <2>1. CASE ~states[k].firing
    <3>1. Flips(k, in, now)
      BY <1>2, <1>4, <2>1
    <3>2. windows'[k].seen = windows'[k].hit /\ Observation(k, in, now) = "breach"
      BY <1>1, <2>1, <3>1, FlipOnAll
    <3>3. CfgOf(k).kind = "offline" => GraceOver(k, OfflineSince(k, in, now), now)
      BY <3>2 DEF Observation, GraceOver
    <3> QED
      BY <3>2, <3>3
  <2>2. CASE states[k].firing
    <3>1. k \notin cleared /\ ~TroubleOver(k, in)
      BY <1>3, <2>2
    <3> QED
      BY <1>1, <2>2, <3>1, NoFlipBack, TroubleLasts
  <2> QED
    BY <2>1, <2>2
<1>8. CfgOf(k).kind = "offline" =>
        offlineSince'[k] = {} \/ GraceOver(k, offlineSince'[k], now)
  BY <1>5, <1>6, <1>7
<1> QED
  BY <1>0, <1>7, <1>8 DEF GraceOver

\* A restart empties the windows; an edit counts as the end of the trouble.
LEMMA BreachedKept ==
  ASSUME AlertTypes, AllBreached,
         \/ \E p \in outbox : Delivered(p) \/ GivenUp(p)
         \/ Restart
         \/ \E r \in Rules, c \in Configs, on \in BOOLEAN : EditRule(r, c, on)
         \/ UNCHANGED vars
  PROVE  AllBreached'
<1>1. CASE (\E p \in outbox : Delivered(p) \/ GivenUp(p)) \/ UNCHANGED vars
  <2>1. UNCHANGED <<clock, cfg, states, cleared, windows, offlineSince>>
    BY <1>1 DEF Delivered, GivenUp, vars, evalVars, histVars
  <2> QED
    BY <2>1 DEF AllBreached, AsksAll, GraceOver, CfgOf
<1>2. CASE Restart
  <2>1. windows' = [k \in Keys |-> EmptyWindow] /\ offlineSince' = [k \in Keys |-> {}]
    BY <1>2 DEF Restart, PerKey
  <2>2. EmptyWindow.seen = EmptyWindow.hit
    BY DEF EmptyWindow
  <2> QED
    BY <2>1, <2>2 DEF AllBreached
<1>3. CASE \E r \in Rules, c \in Configs, on \in BOOLEAN : EditRule(r, c, on)
  <2>1. PICK r \in Rules, c \in Configs, on \in BOOLEAN : EditRule(r, c, on)
    BY <1>3
  <2>2. /\ UNCHANGED <<clock, states, windows, offlineSince>>
        /\ cfg' = [cfg EXCEPT ![r] = c]
        /\ cleared' = cleared \cup {k \in Keys : k[1] = r}
    BY <2>1 DEF EditRule, evalVars
  <2>3. \A k \in Keys : k \notin cleared' => k \notin cleared /\ CfgOf(k)' = CfgOf(k)
    BY <2>2, KeyTypes DEF CfgOf, AlertTypes, Keys
  <2> QED
    BY <2>2, <2>3 DEF AllBreached, AsksAll, GraceOver
<1> QED
  BY <1>1, <1>2, <1>3

\* What NoFalseRecovery says of one step, and NoRepeatedFiringPage.
NoFalseStep ==
    \A k \in Keys :
        (/\ paged'[k] # paged[k] /\ paged'[k].kind = "recovered"
         /\ CfgOf(k).num = CfgOf(k).den
         /\ CfgOf(k).kind = "task" => CfgOf(k).consecutive = 1) => k \in cleared'

NoRepeatStep ==
    \A k \in Keys :
        (paged'[k] # paged[k] /\ paged'[k].kind = "firing" /\ paged[k].kind = "firing")
            => k \in unsaved

\* No page of a tick is a false recovery or a repetition.
LEMMA TickPages ==
  ASSUME AlertTypes, Dated, AllBreached, StatesPaged,
         NEW now, NEW input, NEW ok, TickOf(now, input, ok)
  PROVE  NoFalseStep /\ NoRepeatStep
<1>0. \A k \in Keys :
        /\ paged'[k] = IF k \in Notified(now, input) THEN Page(k, now) ELSE paged[k]
        /\ k \in Notified(now, input) => Flips(k, input[k[2]], now)
  BY DEF TickOf, Notified, Flipped
<1>1. \A k \in Keys : Page(k, now).kind = IF states[k].firing THEN "recovered" ELSE "firing"
  BY DEF Page
<1>2. ASSUME NEW k \in Keys, paged'[k] # paged[k], paged'[k].kind = "recovered", AsksAll(k)
      PROVE  k \in cleared'
  <2>1. states[k].firing /\ Flips(k, input[k[2]], now)
    BY <1>0, <1>1, <1>2
  <2>2. k \in cleared \/ TroubleOver(k, input[k[2]])
    BY <1>2, <2>1, NoFlipBack
  <2> QED
    BY <2>1, <2>2 DEF TickOf
<1>3. ASSUME NEW k \in Keys, paged'[k] # paged[k], paged'[k].kind = "firing",
             paged[k].kind = "firing", k \notin unsaved
      PROVE  FALSE
  <2>1. ~states[k].firing
    BY <1>0, <1>1, <1>3
  <2> QED
    BY <1>3, <2>1 DEF StatesPaged
<1> QED
  BY <1>2, <1>3 DEF NoFalseStep, NoRepeatStep, AsksAll

-----------------------------------------------------------------------------
(* Windows and logs along the steps                                        *)

\* A window that has recorded stands for the log, with the duration of the signature
\* it was made for.
Logged ==
    \A k \in Keys :
        /\ IsLog(log[k])
        /\ log[k] = {} <=> windows[k].seen = {}
        /\ \A sg \in signatures[k[1]] : log[k] # {} =>
               \E n : Stands(windows[k], log[k], n, sg.duration)

\* A tick appends the same sample to window and log, or makes both anew.
LEMMA LoggedTick ==
  ASSUME AlertTypes, Dated, Logged, NEW now, NEW input, NEW ok, TickOf(now, input, ok)
  PROVE  Logged'
<1> SUFFICES ASSUME NEW k \in Keys
             PROVE  /\ IsLog(log'[k])
                    /\ log'[k] = {} <=> windows'[k].seen = {}
                    /\ \A sg \in signatures'[k[1]] : log'[k] # {} =>
                          \E n : Stands(windows'[k], log'[k], n, sg.duration)
  BY DEF Logged
<1> DEFINE in == input[k[2]]
           obs == Observation(k, in, now)
           c == CfgOf(k)
           base == IF Stale(k) THEN EmptyWindow ELSE windows[k]
           old == IF Stale(k) THEN {} ELSE log[k]
           z == Sample(k, in, now)
           v == Window(k, in, now)
<1>0. /\ now \in Nat /\ now > clock /\ clock \in Nat /\ MaxGap \in Nat
      /\ c.duration \in Nat /\ k[1] \in Rules /\ (obs = "breach") \in BOOLEAN
  BY KeyTypes, AlertAssumption DEF TickOf, AlertTypes
<1>1. /\ windows'[k] = v
      /\ log'[k] = old \cup (IF enabled[k[1]] /\ obs # None THEN {z} ELSE {})
      /\ signatures'[k[1]] = IF enabled[k[1]] THEN {Signature(c)} ELSE {}
  BY <1>0 DEF TickOf, CfgOf
<1>2. Signature(c).duration = c.duration
  BY DEF Signature
<1>3. /\ IsLog(old) /\ \A x \in old : x.ts \in Nat /\ x.ts < now
      /\ old = {} <=> base.seen = {}
      /\ base \in WindowType /\ WindowDated(base, clock)
  <2>1. /\ IsLog(log[k])
        /\ log[k] = {} <=> windows[k].seen = {}
        /\ \A x \in log[k] : x.ts <= clock
        /\ windows[k] \in WindowType /\ WindowDated(windows[k], clock)
    BY DEF Logged, Dated, AlertTypes, WindowDated
  <2>2. \A x \in log[k] : x.ts \in Nat /\ x.ts < now
    BY <1>0, <2>1 DEF IsLog, SampleType
  <2>3. IsLog({}) /\ EmptyWindow.seen = {} /\ EmptyWindow \in WindowType /\ WindowDated(EmptyWindow, clock)
    BY EmptyTypes, <1>0 DEF IsLog, EmptyWindow
  <2> QED
    BY <2>1, <2>2, <2>3
<1>4. old # {} => \E n : Stands(base, old, n, c.duration)
  <2> SUFFICES ASSUME ~Stale(k), log[k] # {} PROVE \E n : Stands(windows[k], log[k], n, c.duration)
    OBVIOUS
  <2>1. Signature(c) \in signatures[k[1]]
    BY DEF Stale
  <2> QED
    BY <1>2, <2>1 DEF Logged
<1>5. z = [ts |-> now, breached |-> obs = "breach"] /\ z \in SampleType /\ z.ts = now
  BY <1>0 DEF Sample, SampleType
<1>6. /\ ~enabled[k[1]] => v = EmptyWindow /\ old = {}
      /\ enabled[k[1]] /\ obs = None => v = base
      /\ enabled[k[1]] /\ obs # None => v = Record(base, now, c.duration, obs = "breach")
  BY DEF Window, Stale
<1>7. CASE ~enabled[k[1]]
  <2>1. log'[k] = {} /\ signatures'[k[1]] = {} /\ windows'[k] = EmptyWindow
    BY <1>1, <1>6, <1>7
  <2> QED
    BY <2>1 DEF IsLog, EmptyWindow
<1>8. CASE enabled[k[1]] /\ obs = None
  <2>1. log'[k] = old /\ windows'[k] = base /\ signatures'[k[1]] = {Signature(c)}
    BY <1>1, <1>6, <1>8
  <2> HIDE DEF old, base, c
  <2> QED
    BY <1>2, <1>3, <1>4, <2>1
<1>9. CASE enabled[k[1]] /\ obs # None
  <2>1. /\ log'[k] = old \cup {z} /\ signatures'[k[1]] = {Signature(c)}
        /\ windows'[k] = Record(base, now, c.duration, obs = "breach")
    BY <1>1, <1>6, <1>9
  <2>2. IsLog(log'[k])
    <3> HIDE DEF old, z
    <3> QED
      BY <1>0, <1>3, <1>5, <2>1 DEF IsLog
  <2>3. now \in windows'[k].seen
    <3> DEFINE b == IF Broken(base, now) THEN EmptyWindow ELSE base
    <3>1. windows'[k].seen = ({t \in b.seen : t >= now - c.duration} \ {now}) \cup {now}
      BY <2>1 DEF Record
    <3> QED
      BY <3>1
  <2>4. log'[k] # {}
    BY <2>1
  <2>5. \E n : Stands(windows'[k], log'[k], n, c.duration)
    <3>1. CASE old = {}
      <4>1. base.seen = {} /\ base.hit = {}
        BY <1>3, <3>1 DEF WindowDated
      <4>2. Stands(Record(base, now, c.duration, obs = "breach"),
                   {[ts |-> now, breached |-> obs = "breach"]}, now, c.duration)
        <5> HIDE DEF base, c, obs
        <5> QED
          BY <1>0, <4>1, FirstStands
      <4>3. log'[k] = {[ts |-> now, breached |-> obs = "breach"]}
        BY <1>5, <2>1, <3>1
      <4> HIDE DEF base, c, obs, z, old
      <4> QED
        BY <2>1, <4>2, <4>3
    <3>2. CASE old # {}
      <4>1. PICK n : Stands(base, old, n, c.duration)
        BY <1>4, <3>2
      <4>2. n \in Nat /\ now > n
        BY <1>3, <4>1 DEF Stands, Times
      <4>3. Stands(Record(base, now, c.duration, obs = "breach"),
                   old \cup {[ts |-> now, breached |-> obs = "breach"]}, now, c.duration)
        <5> HIDE DEF base, c, obs, old
        <5> QED
          BY <1>0, <1>3, <4>1, <4>2, RecordStands
      <4>4. log'[k] = old \cup {[ts |-> now, breached |-> obs = "breach"]}
        BY <1>5, <2>1
      <4> HIDE DEF base, c, obs, z, old
      <4> QED
        BY <2>1, <4>3, <4>4
    <3> QED
      BY <3>1, <3>2
  <2>6. \A sg \in signatures'[k[1]] : sg.duration = c.duration
    BY <1>2, <2>1
  <2>7. windows'[k].seen # {}
    BY <2>3
  <2> HIDE DEF c
  <2> QED
    BY <2>2, <2>4, <2>5, <2>6, <2>7
<1> QED
  BY <1>7, <1>8, <1>9

\* A restart makes both anew; nothing else touches them.
LEMMA LoggedKept ==
  ASSUME Logged,
         \/ \E p \in outbox : Delivered(p) \/ GivenUp(p)
         \/ Restart
         \/ \E r \in Rules, c \in Configs, on \in BOOLEAN : EditRule(r, c, on)
         \/ UNCHANGED vars
  PROVE  Logged'
<1>1. CASE Restart
  <2>1. windows' = [k \in Keys |-> EmptyWindow] /\ log' = [k \in Keys |-> {}]
    BY <1>1 DEF Restart, PerKey
  <2>2. EmptyWindow.seen = {} /\ IsLog({})
    BY DEF EmptyWindow, IsLog
  <2> QED
    BY <2>1, <2>2 DEF Logged
<1>2. CASE UNCHANGED <<windows, log, signatures>>
  BY <1>2 DEF Logged
<1> QED
  BY <1>1, <1>2 DEF Delivered, GivenUp, EditRule, vars, evalVars, histVars

\* What the evaluator decides on is what its log says.
LEMMA LoggedMeets == AlertTypes /\ Logged => WindowMeetsReference
<1> SUFFICES ASSUME AlertTypes, Logged, NEW k \in Keys, windows[k].seen # {}, ~Stale(k)
             PROVE  LET w == windows[k]
                        c == CfgOf(k)
                        now == Latest(w.seen) IN
                    /\ Mature(w, now, c.duration) <=> RefMature(log[k], now, c.duration)
                    /\ Mature(w, now, c.duration) =>
                          (Firing(w, c.num, c.den)
                              <=> RefFiring(log[k], now, c.duration, c.num, c.den))
  BY DEF WindowMeetsReference
<1> DEFINE w == windows[k]
           c == CfgOf(k)
<1>1. Signature(c) \in signatures[k[1]] /\ Signature(c).duration = c.duration
  BY DEF Stale, Signature
<1>2. IsLog(log[k]) /\ log[k] # {} /\ w \in WindowType /\ c.duration \in Nat
  BY KeyTypes DEF Logged, AlertTypes
<1>3. PICK n : Stands(w, log[k], n, c.duration)
  BY <1>1, <1>2 DEF Logged
<1>4. n \in Nat
  BY <1>2, <1>3 DEF Stands, Times, IsLog, SampleType
<1>5. /\ n = Latest(w.seen)
      /\ Mature(w, n, c.duration) <=> RefMature(log[k], n, c.duration)
      /\ Firing(w, c.num, c.den) <=> RefFiring(log[k], n, c.duration, c.num, c.den)
  <2> HIDE DEF w, c
  <2> QED
    BY <1>2, <1>3, <1>4, StandsDecides
<1> QED
  BY <1>5

-----------------------------------------------------------------------------
(* The invariant and what follows from it                                  *)

AlertInv == /\ AlertTypes /\ Dated
            /\ StatesPaged /\ PagesArrive
            /\ AllBreached
            /\ Logged

\* The invariant holds at startup.
LEMMA AlertInitInv == Init => AlertInv
<1> SUFFICES ASSUME Init PROVE AlertInv
  OBVIOUS
<1>1. /\ Start \in Nat /\ MaxTime \in Nat /\ Start <= MaxTime /\ MaxEdits \in Nat
  BY AlertAssumption
<1>2. /\ EmptyWindow \in WindowType /\ EmptyWindow.seen = {} /\ EmptyWindow.hit = {}
  BY DEF EmptyWindow, WindowType
<1>3. /\ Quiet \in StateType /\ Quiet.firing = FALSE /\ Quiet.since = 0 /\ Quiet.lastNotify = 0
  BY DEF Quiet, StateType
<1>4. \A k \in Keys : /\ NoPage(k) \in Pages /\ NoPage(k).kind # "firing"
  BY <1>1 DEF NoPage, Pages, None
<1>5. /\ windows = [k \in Keys |-> EmptyWindow] /\ states = [k \in Keys |-> Quiet]
      /\ saved = [k \in Keys |-> Quiet] /\ offlineSince = [k \in Keys |-> {}]
      /\ failures = [k \in Keys |-> 0] /\ log = [k \in Keys |-> {}]
      /\ paged = [k \in Keys |-> NoPage(k)] /\ news = [k \in Keys |-> NoPage(k)]
      /\ clock = Start /\ edits = 0 /\ outbox = {} /\ cleared = {} /\ unsaved = {} /\ garbled = {}
      /\ cfg \in [Rules -> Configs] /\ enabled = [r \in Rules |-> TRUE]
      /\ lastExit = [a \in Agents |-> None]
  BY DEF Init, PerKey
<1>6. AlertTypes
  <2>1. /\ windows \in [Keys -> WindowType] /\ states \in [Keys -> StateType]
        /\ saved \in [Keys -> StateType] /\ offlineSince \in [Keys -> SUBSET Int]
        /\ failures \in [Keys -> Nat] /\ log \in [Keys -> SUBSET SampleType]
        /\ paged \in [Keys -> Pages] /\ news \in [Keys -> Pages]
    BY <1>2, <1>3, <1>4, <1>5
  <2> QED
    BY <1>1, <1>5, <2>1 DEF AlertTypes
<1>7. Dated
  <2>1. \A k \in Keys : StateDated(states[k], clock) /\ StateDated(saved[k], clock)
    BY <1>1, <1>3, <1>5 DEF StateDated
  <2> QED
    BY <1>1, <1>2, <1>5, <2>1 DEF Dated
<1>8. StatesPaged /\ PagesArrive
  BY <1>3, <1>4, <1>5 DEF StatesPaged, PagesArrive
<1>9. AllBreached
  BY <1>3, <1>5 DEF AllBreached
<1>10. Logged
  BY <1>2, <1>5 DEF Logged, IsLog
<1> QED
  BY <1>6, <1>7, <1>8, <1>9, <1>10 DEF AlertInv

\* Every step keeps it; one step of the proof per part.
LEMMA AlertStepInv == AlertInv /\ [Next]_vars => AlertInv'
<1> SUFFICES ASSUME AlertInv, [Next]_vars PROVE AlertInv'
  OBVIOUS
<1>1. CASE Tick
  <2>1. PICK now, input, ok : TickOf(now, input, ok)
    BY <1>1, TickIs DEF AlertInv
  <2>2. (AlertTypes /\ Dated)'
    BY <2>1, TickTypes DEF AlertInv
  <2>3. (StatesPaged /\ PagesArrive)'
    BY <2>1, PagesTick DEF AlertInv
  <2>4. AllBreached'
    BY <2>1, BreachedTick DEF AlertInv
  <2>5. Logged'
    BY <2>1, LoggedTick DEF AlertInv
  <2> QED
    BY <2>2, <2>3, <2>4, <2>5 DEF AlertInv
<1>2. CASE ~Tick
  <2>1. \/ \E p \in outbox : Delivered(p) \/ GivenUp(p)
        \/ Restart
        \/ \E r \in Rules, c \in Configs, on \in BOOLEAN : EditRule(r, c, on)
        \/ UNCHANGED vars
    BY <1>2 DEF Next
  <2>2. (AlertTypes /\ Dated)'
    BY <2>1, TypesKept DEF AlertInv
  <2>3. (StatesPaged /\ PagesArrive)'
    BY <2>1, PagesKept DEF AlertInv
  <2>4. AllBreached'
    BY <2>1, BreachedKept DEF AlertInv
  <2>5. Logged'
    BY <2>1, LoggedKept DEF AlertInv
  <2> QED
    BY <2>2, <2>3, <2>4, <2>5 DEF AlertInv
<1> QED
  BY <1>1, <1>2

\* The invariant holds always.
THEOREM AlertInvariant == Spec => []AlertInv
<1> QED
  BY AlertInitInv, AlertStepInv, PTL DEF Spec

\* The maps of the evaluator, the saved rows and the sends keep their types; a window
\* never keeps a breach without its sample.
THEOREM AlertTypeCorrect == Spec => []AlertTypeOK
<1>1. AlertInv => AlertTypeOK
  <2> SUFFICES ASSUME AlertInv PROVE AlertTypeOK
    OBVIOUS
  <2>1. /\ clock \in Nat /\ Start \in Nat /\ MaxTime \in Nat /\ Start <= clock /\ clock <= MaxTime
        /\ AlertTypes /\ Dated
    BY AlertAssumption DEF AlertInv, AlertTypes, Dated
  <2>2. clock \in Start .. MaxTime
    BY <2>1
  <2>3. \A k \in Keys : failures[k] <= MaxTime
    <3>1. \A k \in Keys : failures[k] \in Nat /\ failures[k] <= clock - Start
      BY <2>1 DEF AlertTypes, Dated
    <3> QED
      BY <2>1, <3>1
  <2>4. \A k \in Keys :
          /\ windows[k].hit \subseteq windows[k].seen
          /\ windows[k].seen \subseteq windows[k].started .. clock
          /\ \A t \in offlineSince[k] : t <= clock
          /\ states[k].since <= clock /\ (states[k].firing => states[k].since > 0)
    BY <2>1 DEF Dated, StateDated
  <2> QED
    BY <2>1, <2>2, <2>3, <2>4 DEF AlertTypeOK, AlertTypes, Dated
<1> QED
  BY <1>1, AlertInvariant, PTL

\* The operator knows what the evaluator knows, but for a firing in the cooldown, a page
\* under way or lost, and a transition that was not saved.
THEOREM OperatorKnowsAlways == Spec => []OperatorKnows
<1>1. AlertInv => OperatorKnows
  <2> SUFFICES ASSUME AlertInv, NEW k \in Keys \ (garbled \cup unsaved \cup {p.key : p \in outbox})
               PROVE  /\ states[k].firing => news[k].kind = "firing"
                                             \/ states[k].lastNotify < states[k].since
                      /\ ~states[k].firing => news[k].kind # "firing"
    BY DEF OperatorKnows
  <2>1. news[k] = paged[k]
    BY DEF AlertInv, PagesArrive
  <2> QED
    BY <2>1 DEF AlertInv, StatesPaged
<1> QED
  BY <1>1, AlertInvariant, PTL

\* The incremental window decides what the whole log says.
THEOREM WindowMeetsReferenceAlways == Spec => []WindowMeetsReference
<1>1. AlertInv => WindowMeetsReference
  BY LoggedMeets DEF AlertInv
<1> QED
  BY <1>1, AlertInvariant, PTL

-----------------------------------------------------------------------------
\* Pages are sent off by ticks only.
LEMMA PagesByTick == AlertInv /\ [Next]_vars => [NoFalseStep /\ NoRepeatStep]_vars
<1> SUFFICES ASSUME AlertInv, [Next]_vars PROVE NoFalseStep /\ NoRepeatStep
  OBVIOUS
<1>1. CASE Tick
  <2>1. PICK now, input, ok : TickOf(now, input, ok)
    BY <1>1, TickIs DEF AlertInv
  <2> QED
    BY <2>1, TickPages DEF AlertInv
<1>2. CASE UNCHANGED paged
  BY <1>2 DEF NoFalseStep, NoRepeatStep
<1> QED
  BY <1>1, <1>2 DEF Next, Delivered, GivenUp, Restart, EditRule, vars, histVars

\* A restart, a gap or a failed save never ends an alert whose trouble lasts.
THEOREM NoFalseRecoveryAlways == Spec => NoFalseRecovery
<1>1. AlertInv /\ [Next]_vars => [NoFalseStep]_vars
  BY PagesByTick
<1> QED
  BY <1>1, AlertInvariant, PTL DEF Spec, NoFalseRecovery, NoFalseStep

\* Nor does a restart page a firing alert again.
THEOREM NoRepeatedFiringPageAlways == Spec => NoRepeatedFiringPage
<1>1. AlertInv /\ [Next]_vars => [NoRepeatStep]_vars
  BY PagesByTick
<1> QED
  BY <1>1, AlertInvariant, PTL DEF Spec, NoRepeatedFiringPage, NoRepeatStep
=============================================================================
