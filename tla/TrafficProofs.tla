---------------------------- MODULE TrafficProofs ----------------------------
(***************************************************************************)
(* Proofs about Traffic, for a calendar of any months, any reset days and  *)
(* any numbers of bytes, reboots, sessions, frames, edits and restarts.    *)
(*                                                                         *)
(* The first part is about the calendar alone: FirstDay numbers the days   *)
(* month after month, so every day is in one month, and the start of the   *)
(* cycle is the latest day on which it turned.  Induction over the months  *)
(* is argued from the least element of a set of naturals (LeastNat).       *)
(*                                                                         *)
(* CountedExactly speaks of the counters in use.  These may come back from *)
(* the database, from the flush task or from an edit, and what is added to *)
(* them comes from a frame, so TrafficInv speaks of all of them at once:   *)
(* the readings that may still meet (the agent's next, those in sockets,   *)
(* those that went into counters that are in use, stored or copied) tell   *)
(* of one history of the agent (ReadingsAgree), and each of the counters   *)
(* has counted no more than that history allows (AllCounted).              *)
(*                                                                         *)
(* AckedCycleKept needs the order of the edits among the copies: none is   *)
(* ahead of the counters in use, and a row behind the last edit that has   *)
(* returned was put there by a flush (GensGrow).                           *)
(***************************************************************************)
EXTENDS Traffic, SequenceTheorems, WellFoundedInduction, TLAPS

-----------------------------------------------------------------------------
(* The calendar                                                            *)

\* A set of naturals that is not empty has a least element.
LEMMA LeastNat ==
  ASSUME NEW T \in SUBSET Nat, T # {}
  PROVE  \E x \in T : \A y \in T : x <= y
<1>1. PICK x \in T : \A y \in T : ~ (<<y, x>> \in OpToRel(<, Nat))
  BY WFMin, NatLessThanWellFounded, Zenon
<1>2. \A y \in T : ~ (y < x)
  BY <1>1 DEF OpToRel
<1> QED
  BY <1>2

\* ... so that what holds of 0, and of n + 1 if it does of n, holds of all.
LEMMA AllNat ==
  ASSUME NEW T \in SUBSET Nat, 0 \in T, \A n \in T : n + 1 \in T
  PROVE  T = Nat
<1> SUFFICES ASSUME Nat \ T # {} PROVE FALSE
  OBVIOUS
<1>1. PICK x \in Nat \ T : \A y \in Nat \ T : x <= y
  BY LeastNat
<1>2. x - 1 \in Nat /\ ~ (x <= x - 1)
  BY <1>1
<1>3. x - 1 \in T
  BY <1>1, <1>2
<1> QED
  BY <1>1, <1>3

\* The number of months, and the first day of the one after.
LEMMA MonthsAre ==
  /\ Len(MonthLengths) \in Nat /\ Len(MonthLengths) > 1
  /\ Months = 1 .. Len(MonthLengths)
  /\ \A m \in Months : MonthLengths[m] \in Nat \ {0}
<1>1. MonthLengths \in Seq(Nat \ {0}) /\ Len(MonthLengths) > 1
  BY TrafficAssumption
<1> QED
  BY <1>1, LenProperties, ElementOfSeq DEF Months

\* The days of the months up to the n-th can be numbered.
Numbers(f, n) ==
    /\ f \in [1 .. n -> Nat \ {0}]
    /\ f = [m \in 1 .. n |-> IF m = 1 THEN 1 ELSE f[m - 1] + MonthLengths[m - 1]]

\* However many months there are.
LEMMA Numbered ==
  ASSUME NEW n \in Nat, n <= Len(MonthLengths)
  PROVE  \E f : Numbers(f, n)
<1> DEFINE T == {k \in Nat : k <= Len(MonthLengths) => \E f : Numbers(f, k)}
<1>1. 0 \in T
  <2>1. Numbers([m \in 1 .. 0 |-> 1], 0)
    BY DEF Numbers
  <2> QED
    BY <2>1
<1>2. ASSUME NEW k \in T PROVE k + 1 \in T
  <2> SUFFICES ASSUME k + 1 <= Len(MonthLengths) PROVE \E f : Numbers(f, k + 1)
    OBVIOUS
  <2>0. Len(MonthLengths) \in Nat /\ k \in Nat
    BY MonthsAre
  <2>1. PICK f : Numbers(f, k)
    BY <2>0
  <2> DEFINE g == [m \in 1 .. k + 1 |->
                     IF m = 1 THEN 1 ELSE f[m - 1] + MonthLengths[m - 1]]
  <2>2. \A m \in 1 .. k + 1 : g[m] \in Nat \ {0}
    <3>1. \A m \in 1 .. k : f[m] \in Nat \ {0} /\ MonthLengths[m] \in Nat \ {0}
      <4>1. f \in [1 .. k -> Nat \ {0}]
        BY <2>1 DEF Numbers
      <4> QED
        BY <2>0, <4>1, MonthsAre
    <3>2. \A m \in 1 .. k + 1 : m # 1 => m - 1 \in 1 .. k
      BY <2>0
    <3> QED
      BY <3>1, <3>2
  <2>3. \A m \in 1 .. k : g[m] = f[m]
    BY <2>0, <2>1 DEF Numbers
  <2>4. g = [m \in 1 .. k + 1 |-> IF m = 1 THEN 1 ELSE g[m - 1] + MonthLengths[m - 1]]
    <3>1. \A m \in 1 .. k + 1 : m # 1 => m - 1 \in 1 .. k
      BY <2>0
    <3> QED
      BY <2>3, <3>1
  <2>5. Numbers(g, k + 1)
    BY <2>2, <2>4 DEF Numbers
  <2> QED
    BY <2>5
<1>3. T = Nat
  BY <1>1, <1>2, AllNat
<1> QED
  BY <1>3

\* FirstDay is what its definition says.
LEMMA FirstDays ==
  /\ FirstDay \in [Months -> Nat \ {0}]
  /\ FirstDay[1] = 1
  /\ \A m \in Months : m # 1 => FirstDay[m] = FirstDay[m - 1] + MonthLengths[m - 1]
<1> DEFINE n == Len(MonthLengths)
           P(f) == f = [m \in Months |-> IF m = 1 THEN 1 ELSE f[m - 1] + MonthLengths[m - 1]]
<1>1. PICK f : Numbers(f, n)
  BY MonthsAre, Numbered
<1>2. P(f)
  BY <1>1, MonthsAre DEF Numbers
<1>3. FirstDay = CHOOSE g : P(g)
  BY DEF FirstDay
<1>4. P(FirstDay)
  <2> HIDE DEF P
  <2> QED
    BY <1>2, <1>3, Zenon
<1>5. \A m \in Months : FirstDay[m] = IF m = 1 THEN 1 ELSE FirstDay[m - 1] + MonthLengths[m - 1]
  BY <1>4, Zenon
<1>6. DOMAIN FirstDay = Months
  BY <1>4, Zenon
<1>7. \A m \in Months : FirstDay[m] \in Nat \ {0}
  <2> DEFINE T == {k \in Nat : k \in Months => FirstDay[k] \in Nat \ {0}}
  <2>1. 0 \in T
    BY MonthsAre
  <2>2. ASSUME NEW k \in T PROVE k + 1 \in T
    <3> SUFFICES ASSUME k + 1 \in Months PROVE FirstDay[k + 1] \in Nat \ {0}
      OBVIOUS
    <3>1. CASE k = 0
      BY <1>5, <3>1
    <3>2. CASE k # 0
      <4>1. k \in Months /\ k + 1 # 1 /\ (k + 1) - 1 = k
        BY <3>2, MonthsAre
      <4>2. FirstDay[k] \in Nat \ {0} /\ MonthLengths[k] \in Nat \ {0}
        BY <4>1, MonthsAre
      <4>3. FirstDay[k + 1] = FirstDay[k] + MonthLengths[k]
        BY <1>5, <4>1
      <4> QED
        BY <4>2, <4>3
    <3> QED
      BY <3>1, <3>2
  <2>3. T = Nat
    BY <2>1, <2>2, AllNat
  <2> QED
    BY <2>3, MonthsAre
<1>8. FirstDay = [m \in Months |-> FirstDay[m]]
  BY <1>4, <1>5, Zenon
<1>9. FirstDay \in [Months -> Nat \ {0}]
  BY <1>7, <1>8
<1>10. 1 \in Months
  BY MonthsAre
<1> QED
  BY <1>5, <1>9, <1>10

\* A month ends before a later one begins.
LEMMA MonthsInOrder ==
  ASSUME NEW i \in Months, NEW j \in Months, i < j
  PROVE  FirstDay[i] + MonthLengths[i] <= FirstDay[j]
<1> DEFINE T == {k \in Nat : k \in Months /\ i < k => FirstDay[i] + MonthLengths[i] <= FirstDay[k]}
<1>0. i \in Nat /\ j \in Nat /\ i >= 1
  BY MonthsAre
<1>1. 0 \in T
  BY MonthsAre
<1>2. ASSUME NEW k \in T PROVE k + 1 \in T
  <2> SUFFICES ASSUME k + 1 \in Months, i < k + 1
               PROVE  FirstDay[i] + MonthLengths[i] <= FirstDay[k + 1]
    OBVIOUS
  <2>1. k \in Months /\ k + 1 # 1 /\ (k + 1) - 1 = k /\ i <= k
    BY <1>0, MonthsAre
  <2>2. FirstDay[k + 1] = FirstDay[k] + MonthLengths[k]
    BY <2>1, FirstDays
  <2>3. FirstDay[k] \in Nat /\ MonthLengths[k] \in Nat /\ FirstDay[i] \in Nat /\ MonthLengths[i] \in Nat
    BY <2>1, FirstDays, MonthsAre
  <2>4. CASE i = k
    BY <2>2, <2>3, <2>4
  <2>5. CASE i < k
    <3>1. FirstDay[i] + MonthLengths[i] <= FirstDay[k]
      BY <2>1, <2>5
    <3> QED
      BY <2>2, <2>3, <3>1
  <2> QED
    BY <1>0, <2>1, <2>4, <2>5
<1>3. T = Nat
  BY <1>1, <1>2, AllNat
<1> QED
  BY <1>0, <1>3

\* Day d is in month m.
InMonth(d, m) == FirstDay[m] <= d /\ d < FirstDay[m] + MonthLengths[m]

\* The calendar ends.
LEMMA LastDayIs == LastDay \in Nat
<1>1. /\ Len(MonthLengths) \in Months
      /\ FirstDay[Len(MonthLengths)] \in Nat \ {0} /\ MonthLengths[Len(MonthLengths)] \in Nat \ {0}
  BY MonthsAre, FirstDays
<1> QED
  BY <1>1 DEF LastDay

\* A day is in one month.
LEMMA OneMonth ==
  ASSUME NEW d \in Nat, NEW i \in Months, NEW j \in Months, InMonth(d, i), InMonth(d, j)
  PROVE  i = j
<1>1. /\ FirstDay[i] \in Nat /\ FirstDay[j] \in Nat
      /\ MonthLengths[i] \in Nat /\ MonthLengths[j] \in Nat /\ i \in Nat /\ j \in Nat
  <2>1. FirstDay[i] \in Nat /\ FirstDay[j] \in Nat
    BY FirstDays
  <2>2. i \in Nat /\ j \in Nat
    BY MonthsAre
  <2>3. MonthLengths[i] \in Nat /\ MonthLengths[j] \in Nat
    BY MonthsAre
  <2> QED
    BY <2>1, <2>2, <2>3
<1>2. ~ (i < j)
  BY <1>1, MonthsInOrder DEF InMonth
<1>3. ~ (j < i)
  BY <1>1, MonthsInOrder DEF InMonth
<1> QED
  BY <1>1, <1>2, <1>3

\* ... and every day of the calendar is in one, which MonthOf finds.
LEMMA MonthOfDay ==
  ASSUME NEW d \in 1 .. LastDay
  PROVE  MonthOf(d) \in Months /\ InMonth(d, MonthOf(d))
<1> DEFINE n == Len(MonthLengths)
           T == {m \in Months : d < FirstDay[m] + MonthLengths[m]}
<1>0. /\ n \in Nat /\ n > 1 /\ n \in Months /\ Months = 1 .. n
      /\ FirstDay[n] \in Nat \ {0} /\ MonthLengths[n] \in Nat \ {0} /\ FirstDay[1] = 1
  BY MonthsAre, FirstDays
<1>1. d \in Nat /\ d >= 1 /\ n \in T
  BY <1>0 DEF LastDay
<1>2. T \in SUBSET Nat
  BY MonthsAre
<1>3. PICK x \in T : \A y \in T : x <= y
  <2> HIDE DEF T
  <2> QED
    BY <1>1, <1>2, LeastNat
<1>4. FirstDay[x] <= d
  <2>1. CASE x = 1
    BY <1>0, <1>1, <2>1
  <2>2. CASE x # 1
    <3>1. x - 1 \in Months /\ x \in Months /\ ~ (x <= x - 1)
      BY <1>0, <2>2
    <3>2. x - 1 \notin T
      BY <1>3, <3>1
    <3>3. ~ (d < FirstDay[x - 1] + MonthLengths[x - 1])
      BY <3>1, <3>2
    <3>4. FirstDay[x] = FirstDay[x - 1] + MonthLengths[x - 1] /\ FirstDay[x] \in Nat
      BY <2>2, <3>1, FirstDays
    <3> QED
      BY <1>1, <3>3, <3>4
  <2> QED
    BY <2>1, <2>2
<1>5. \E m \in Months : FirstDay[m] <= d /\ d < FirstDay[m] + MonthLengths[m]
  BY <1>3, <1>4
<1> QED
  BY <1>5, Zenon DEF MonthOf, InMonth

\* The lesser of two.
LEMMA MinOfTwo ==
  ASSUME NEW a \in Nat, NEW b \in Nat
  PROVE  Min({a, b}) = IF a <= b THEN a ELSE b
<1> DEFINE P(x) == x \in {a, b} /\ \A y \in {a, b} : x =< y
<1>1. P(IF a <= b THEN a ELSE b)
  OBVIOUS
<1>2. Min({a, b}) = CHOOSE x \in {a, b} : \A y \in {a, b} : x =< y
  BY DEF Min
<1>3. Min({a, b}) \in {a, b} /\ \A y \in {a, b} : Min({a, b}) =< y
  BY <1>1, <1>2, Zenon
<1> QED
  BY <1>3

\* An element that no other exceeds is the greatest.
LEMMA MaxIs ==
  ASSUME NEW T \in SUBSET Nat, NEW x \in T, \A y \in T : y <= x
  PROVE  Max(T) = x
<1>1. \E z \in T : \A y \in T : z >= y
  <2>1. \A y \in T : x >= y
    OBVIOUS
  <2> QED
    BY <2>1
<1>2. Max(T) = CHOOSE z \in T : \A y \in T : z >= y
  BY DEF Max
<1>3. Max(T) \in T /\ \A y \in T : Max(T) >= y
  <2> DEFINE P(z) == \A y \in T : z >= y
  <2>1. (\E z \in T : P(z)) /\ Max(T) = CHOOSE z \in T : P(z)
    BY <1>1, <1>2
  <2> HIDE DEF P
  <2>2. Max(T) \in T /\ P(Max(T))
    BY <2>1, Zenon
  <2> QED
    BY <2>2 DEF P
<1> DEFINE m == Max(T)
<1>4. m \in Nat /\ x \in Nat /\ m >= x /\ m <= x
  BY <1>3
<1> HIDE DEF m
<1>5. m = x
  BY <1>4
<1> QED
  BY <1>5 DEF m

\* The reset day of a month is in the month, and is where the cycle turns in it.
LEMMA ResetIsIn ==
  ASSUME NEW rd \in Nat \ {0}, NEW m \in Months
  PROVE  /\ ResetIn(rd, m) \in Nat \ {0}
         /\ InMonth(ResetIn(rd, m), m)
         /\ ResetIn(rd, m) <= FirstDay[m] + rd - 1
<1>1. FirstDay[m] \in Nat \ {0} /\ MonthLengths[m] \in Nat \ {0}
  BY FirstDays, MonthsAre
<1>2. Min({rd, MonthLengths[m]}) = IF rd <= MonthLengths[m] THEN rd ELSE MonthLengths[m]
  BY <1>1, MinOfTwo
<1> QED
  BY <1>1, <1>2 DEF ResetIn, InMonth

\* The cycle turns on the reset days and on no other.
LEMMA TurnsAtReset ==
  ASSUME NEW rd \in Nat \ {0}, NEW t \in 1 .. LastDay
  PROVE  Turns(rd, t) <=> t = ResetIn(rd, MonthOf(t))
<1> DEFINE m == MonthOf(t)
<1>0. m \in Months /\ InMonth(t, m)
  BY MonthOfDay
<1>1. FirstDay[m] \in Nat \ {0} /\ MonthLengths[m] \in Nat \ {0}
  BY <1>0, FirstDays, MonthsAre
<1>2. Min({rd, MonthLengths[m]}) = IF rd <= MonthLengths[m] THEN rd ELSE MonthLengths[m]
  BY <1>1, MinOfTwo
<1> HIDE DEF m
<1>3. t \in Nat
  OBVIOUS
<1>4. ResetIn(rd, m) = FirstDay[m] + Min({rd, MonthLengths[m]}) - 1
  BY DEF ResetIn
<1>5. Turns(rd, t) <=> \/ t - FirstDay[m] + 1 = rd
                       \/ t - FirstDay[m] + 1 < rd /\ t - FirstDay[m] + 1 = MonthLengths[m]
  BY DEF Turns, m
<1>6. t = ResetIn(rd, m) <=> \/ t - FirstDay[m] + 1 = rd
                             \/ t - FirstDay[m] + 1 < rd /\ t - FirstDay[m] + 1 = MonthLengths[m]
  BY <1>0, <1>1, <1>2, <1>3, <1>4 DEF InMonth
<1> QED
  BY <1>5, <1>6 DEF m

\* The start of the cycle is the latest day on which it turned, from the second
\* month of the calendar on.
LEMMA LatestTurn ==
  ASSUME NEW rd \in Nat \ {0}, NEW d \in 1 .. LastDay, d >= FirstDay[2]
  PROVE  /\ CycleStart(rd, d) \in Nat \ {0}
         /\ CycleStart(rd, d) = Max({t \in 1 .. d : Turns(rd, t)})
<1> DEFINE m == MonthOf(d)
           T == {t \in 1 .. d : Turns(rd, t)}
           c == CycleStart(rd, d)
<1>1. m \in Months /\ InMonth(d, m) /\ d \in Nat
  BY MonthOfDay
<1>2. m - 1 \in Months /\ m \in Nat /\ m - 1 < m /\ m # 1
  <2>1. 1 \in Months /\ 2 \in Months /\ FirstDay[2] = FirstDay[1] + MonthLengths[1]
    BY MonthsAre, FirstDays
  <2>2. FirstDay[1] \in Nat /\ MonthLengths[1] \in Nat
    BY <2>1, FirstDays, MonthsAre
  <2>3. m # 1
    BY <1>1, <2>1, <2>2 DEF InMonth
  <2> HIDE DEF m
  <2> QED
    BY <1>1, <2>3, MonthsAre
<1>3. /\ ResetIn(rd, m) \in Nat \ {0} /\ InMonth(ResetIn(rd, m), m)
      /\ ResetIn(rd, m - 1) \in Nat \ {0} /\ InMonth(ResetIn(rd, m - 1), m - 1)
  BY <1>1, <1>2, ResetIsIn
<1>4. c = IF ResetIn(rd, m) <= d THEN ResetIn(rd, m) ELSE ResetIn(rd, m - 1)
  BY DEF CycleStart
<1>5. /\ FirstDay[m] = FirstDay[m - 1] + MonthLengths[m - 1]
      /\ FirstDay[m] \in Nat /\ FirstDay[m - 1] \in Nat /\ MonthLengths[m - 1] \in Nat
      /\ MonthLengths[m] \in Nat
  BY <1>1, <1>2, FirstDays, MonthsAre
<1>6. ResetIn(rd, m - 1) < FirstDay[m] /\ ResetIn(rd, m - 1) < d
  <2> HIDE DEF m
  <2> QED
    BY <1>1, <1>3, <1>5 DEF InMonth
<1>7. c \in Nat \ {0} /\ c <= d /\ c \in 1 .. LastDay
  <2> HIDE DEF m
  <2>1. LastDay \in Nat
    BY MonthsAre, FirstDays DEF LastDay
  <2> HIDE DEF c
  <2> QED
    BY <1>1, <1>3, <1>4, <1>6, <2>1
<1>8. c \in T
  <2>1. \E k \in Months : c = ResetIn(rd, k) /\ InMonth(c, k)
    BY <1>1, <1>2, <1>3, <1>4
  <2>2. c = ResetIn(rd, MonthOf(c))
    <3> HIDE DEF c
    <3> QED
      BY <1>7, <2>1, MonthOfDay, OneMonth
  <2> HIDE DEF c
  <2>3. Turns(rd, c)
    BY <1>7, <2>2, TurnsAtReset
  <2> QED
    BY <1>1, <1>7, <2>3
<1>9. ASSUME NEW t \in T PROVE t <= c
  <2> DEFINE k == MonthOf(t)
  <2>0. LastDay \in Nat
    BY LastDayIs
  <2>1. t \in 1 .. LastDay /\ t <= d /\ t \in Nat
    BY <1>1, <2>0
  <2>2. k \in Months /\ InMonth(t, k) /\ t = ResetIn(rd, k)
    BY <2>1, MonthOfDay, TurnsAtReset
  <2>3. FirstDay[k] \in Nat /\ MonthLengths[k] \in Nat /\ k \in Nat
    BY <2>2, FirstDays, MonthsAre
  <2> HIDE DEF k, m, T, c
  <2>4. ~ (m < k)
    <3> SUFFICES ASSUME m < k PROVE FALSE
      OBVIOUS
    <3>1. FirstDay[m] + MonthLengths[m] <= FirstDay[k]
      BY <1>1, <2>2, MonthsInOrder
    <3> QED
      BY <1>1, <1>5, <2>1, <2>2, <2>3, <3>1 DEF InMonth
  <2>5. CASE k = m
    BY <1>4, <2>1, <2>2, <2>5
  <2>6. CASE k = m - 1
    BY <1>3, <1>4, <1>5, <1>6, <2>1, <2>2, <2>6 DEF InMonth
  <2>7. CASE k < m - 1
    <3>1. FirstDay[k] + MonthLengths[k] <= FirstDay[m - 1]
      BY <1>2, <2>2, <2>7, MonthsInOrder
    <3>2. t < FirstDay[m - 1]
      BY <1>5, <2>1, <2>2, <2>3, <3>1 DEF InMonth
    <3> QED
      BY <1>3, <1>4, <1>5, <2>1, <3>2 DEF InMonth
  <2> QED
    BY <1>2, <2>3, <2>4, <2>5, <2>6, <2>7
<1>10. T \in SUBSET Nat
  BY <1>1
<1>11. Max(T) = c
  <2> HIDE DEF T, c
  <2> QED
    BY <1>8, <1>9, <1>10, MaxIs
<1> QED
  BY <1>7, <1>11

-----------------------------------------------------------------------------
(* The invariant                                                           *)

\* A Metrics frame, or what it would hold if it were sent now.
FrameType == [net : Nat, boot : Nat, moved : Nat]

\* A process between two steps holds counters and a day the operator may choose.
HeldTypes ==
    /\ wire \in [1 .. MaxSessions -> Seq(FrameType)]
    /\ edits \in Nat /\ acked \in Nat /\ rolledBack \in BOOLEAN
    /\ edit.day \in ResetDays \cup {None}
    /\ edit.at = "applied" => edit.copy \in UsageType
    /\ clock >= FirstDay[2]

\* The counters that exist: in use, stored, and held by the flush and an edit.
Counters == {traffic, row} \cup (IF snap = None THEN {} ELSE {snap})
                           \cup (IF edit.at = "applied" THEN {edit.copy} ELSE {})

\* The last reading that went into t, if its frames came in order.
Reading(t) == [net |-> t.last, boot |-> t.boot, moved |-> t.upTo]
\* t has a baseline, and no frame that went into it was late.
InOrder(t) == t.last # None /\ t.ordered
\* The frames that are in sockets.
Sent == UNION {Range(wire[s]) : s \in 1 .. MaxSessions}

\* The readings that may still meet, the agent's next one among them.
Readings == {agent} \cup Sent \cup {Reading(t) : t \in {t \in Counters : InOrder(t)}}

\* What g says after f: within one boot, the bytes moved grow with the counter;
\* a later boot's counter starts from what had been moved before.
Follows(f, g) ==
    /\ f.boot = g.boot => f.moved + g.net = g.moved + f.net
    /\ f.boot < g.boot => f.moved + g.net <= g.moved

\* The readings tell of one history of the agent ...
ReadingsAgree == \A f, g \in Readings : Follows(f, g)

\* ... and the agent is where it ends.
AgentLatest == \A f \in Readings : f.boot <= agent.boot /\ f.moved <= agent.moved

\* What has been counted in t, and of which bytes.
CountedOK(t) ==
    /\ t.last = None => t.rx = 0 /\ t.upTo = 0 /\ t.base = 0
    /\ t.ordered => t.rx + t.base <= t.upTo
    /\ (t.ordered /\ t.clean /\ t.last # None) => t.rx + t.base = t.upTo

\* All counters are right, wherever they are kept.
AllCounted == \A t \in Counters : CountedOK(t)

\* Counters of a later edit are not replaced by those of an earlier one, except
\* by a flush; and then that is remembered.
GensGrow ==
    /\ traffic.gen <= edits /\ acked <= edits
    /\ \A t \in Counters : t.gen <= traffic.gen
    /\ traffic.gen < acked => rolledBack
    /\ row.gen < acked => rolledBack

\* The inductive invariant.
TrafficInv == /\ TrafficTypeOK /\ HeldTypes
              /\ ReadingsAgree /\ AgentLatest
              /\ AllCounted
              /\ GensGrow

-----------------------------------------------------------------------------
(* Sockets and counters                                                    *)

\* A frame that is sent is added to what the socket holds ...
LEMMA RangeAppend ==
  ASSUME NEW q \in Seq(FrameType), NEW f \in FrameType
  PROVE  Range(Append(q, f)) = Range(q) \cup {f}
<1>1. /\ Append(q, f) \in Seq(FrameType) /\ Len(Append(q, f)) = Len(q) + 1
      /\ \A i \in 1 .. Len(q) : Append(q, f)[i] = q[i]
      /\ Append(q, f)[Len(q) + 1] = f
  BY AppendProperties
<1>2. /\ DOMAIN q = 1 .. Len(q) /\ Len(q) \in Nat
      /\ DOMAIN Append(q, f) = 1 .. Len(Append(q, f))
  BY <1>1, LenProperties
<1>3. \A i : i \in 1 .. Len(q) + 1 <=> i \in 1 .. Len(q) \/ i = Len(q) + 1
  BY <1>2
<1>4. ASSUME NEW x \in Range(q) PROVE x \in Range(Append(q, f))
  <2>1. PICK i \in 1 .. Len(q) : x = q[i]
    BY <1>2 DEF Range
  <2>2. i \in DOMAIN Append(q, f) /\ Append(q, f)[i] = x
    BY <1>1, <1>2, <1>3, <2>1
  <2> QED
    BY <2>2 DEF Range
<1>5. f \in Range(Append(q, f))
  <2>1. Len(q) + 1 \in DOMAIN Append(q, f)
    BY <1>1, <1>2, <1>3
  <2> QED
    BY <1>1, <2>1 DEF Range
<1>6. ASSUME NEW x \in Range(Append(q, f)) PROVE x \in Range(q) \cup {f}
  <2>1. PICK i \in 1 .. Len(q) + 1 : x = Append(q, f)[i]
    BY <1>1, <1>2 DEF Range
  <2>2. CASE i \in 1 .. Len(q)
    BY <1>1, <1>2, <2>1, <2>2 DEF Range
  <2>3. CASE i = Len(q) + 1
    BY <1>1, <2>1, <2>3
  <2> QED
    BY <1>3, <2>2, <2>3
<1> QED
  BY <1>4, <1>5, <1>6

\* ... and one that is read was there.
LEMMA RangeTail ==
  ASSUME NEW q \in Seq(FrameType), q # <<>>
  PROVE  /\ Range(Tail(q)) \subseteq Range(q)
         /\ Head(q) \in Range(q)
<1>1. /\ Tail(q) \in Seq(FrameType) /\ Len(Tail(q)) = Len(q) - 1
      /\ \A i \in 1 .. Len(Tail(q)) : Tail(q)[i] = q[i + 1]
  BY HeadTailProperties
<1>2. /\ Len(q) \in Nat \ {0} /\ DOMAIN q = 1 .. Len(q)
      /\ DOMAIN Tail(q) = 1 .. Len(Tail(q))
  BY <1>1, EmptySeq, LenProperties
<1>3. ASSUME NEW x \in Range(Tail(q)) PROVE x \in Range(q)
  <2>1. PICK i \in 1 .. Len(Tail(q)) : x = Tail(q)[i]
    BY <1>2 DEF Range
  <2>2. i + 1 \in 1 .. Len(q) /\ x = q[i + 1]
    BY <1>1, <1>2, <2>1
  <2> QED
    BY <1>2, <2>2 DEF Range
<1>4. 1 \in DOMAIN q /\ Head(q) = q[1]
  BY <1>2
<1> QED
  BY <1>3, <1>4 DEF Range

\* What is in the sockets has been sent by the agent.
LEMMA SentTypes ==
  ASSUME HeldTypes
  PROVE  Sent \subseteq FrameType
<1> SUFFICES ASSUME NEW s \in 1 .. MaxSessions, NEW f \in Range(wire[s]) PROVE f \in FrameType
  BY DEF Sent
<1>1. wire[s] \in Seq(FrameType)
  BY DEF HeldTypes
<1>2. DOMAIN wire[s] = 1 .. Len(wire[s])
  BY <1>1, LenProperties
<1>3. PICK i \in 1 .. Len(wire[s]) : f = wire[s][i]
  BY <1>2 DEF Range
<1> QED
  BY <1>1, <1>3, ElementOfSeq

\* The counters and the readings that exist have their types.
LEMMA CounterTypes ==
  ASSUME TrafficTypeOK, HeldTypes
  PROVE  /\ Counters \subseteq UsageType
         /\ Readings \subseteq FrameType
         /\ agent \in FrameType
<1>1. snap # None => snap \in UsageType
  BY DEF TrafficTypeOK
<1>2. Counters \subseteq UsageType
  BY <1>1 DEF Counters, TrafficTypeOK, HeldTypes
<1>3. agent \in FrameType
  BY DEF TrafficTypeOK, FrameType
<1>4. \A t \in Counters : InOrder(t) => Reading(t) \in FrameType
  BY <1>2 DEF InOrder, Reading, FrameType, UsageType
<1> QED
  BY <1>2, <1>3, <1>4, SentTypes DEF Readings

\* The greater of two.
LEMMA MaxOfTwo ==
  ASSUME NEW a \in Nat, NEW b \in Nat
  PROVE  Max({a, b}) = IF a <= b THEN b ELSE a
<1>1. CASE a <= b
  <2>1. Max({a, b}) = b
    BY <1>1, MaxIs
  <2> QED
    BY <1>1, <2>1
<1>2. CASE ~ (a <= b)
  <2>1. Max({a, b}) = a
    BY <1>2, MaxIs
  <2> QED
    BY <1>2, <2>1
<1> QED
  BY <1>1, <1>2

\* Reading a frame, field by field.
LEMMA ReadFields ==
  ASSUME NEW t \in UsageType, NEW f \in FrameType
  PROVE  /\ Read(t, f) \in UsageType
         /\ Read(t, f).cycle = t.cycle /\ Read(t, f).gen = t.gen
         /\ Read(t, f).last = f.net /\ Read(t, f).boot = f.boot
         /\ Read(t, f).rx = Counted(t, f)
         /\ Read(t, f).base = IF t.last = None THEN f.moved ELSE t.base
         /\ Read(t, f).upTo = IF t.upTo <= f.moved THEN f.moved ELSE t.upTo
         /\ Read(t, f).clean = (t.clean /\ (t.last = None \/ f.boot = t.boot))
         /\ Read(t, f).ordered = (t.ordered /\ InTime(t, f))
<1>1. /\ f.net \in Nat /\ f.boot \in Nat /\ f.moved \in Nat /\ t.upTo \in Nat /\ t.rx \in Nat
      /\ t.base \in Nat /\ t.clean \in BOOLEAN /\ t.ordered \in BOOLEAN
      /\ t.last # None => t.last \in Nat
  BY DEF UsageType, FrameType
<1>2. Counted(t, f) \in Nat
  BY <1>1 DEF Counted
<1>3. Max({t.upTo, f.moved}) = IF t.upTo <= f.moved THEN f.moved ELSE t.upTo
  BY <1>1, MaxOfTwo
<1> DEFINE m == Max({t.upTo, f.moved})
           c == Counted(t, f)
<1>4. m \in Nat /\ m = IF t.upTo <= f.moved THEN f.moved ELSE t.upTo
  BY <1>1, <1>3
<1>5. Read(t, f) = [t EXCEPT !.rx = c, !.last = f.net, !.boot = f.boot,
                             !.base = IF t.last = None THEN f.moved ELSE @,
                             !.upTo = m,
                             !.clean = @ /\ (t.last = None \/ f.boot = t.boot),
                             !.ordered = @ /\ InTime(t, f)]
  BY DEF Read
<1> HIDE DEF m, c
<1>6. c \in Nat
  BY <1>2 DEF c
<1>7. c = Counted(t, f)
  BY DEF c
<1>8. InTime(t, f) \in BOOLEAN /\ t.ordered \in BOOLEAN
  BY <1>1 DEF InTime, UsageType
<1> QED
  BY <1>1, <1>4, <1>5, <1>6, <1>7, <1>8 DEF UsageType

\* A frame that was sent after what t has read adds what was moved in between.
LEMMA ReadCounted ==
  ASSUME NEW t \in UsageType, NEW f \in FrameType, CountedOK(t),
         InOrder(t) => Follows(Reading(t), f) /\ Follows(f, Reading(t))
  PROVE  /\ CountedOK(Read(t, f))
         /\ InOrder(Read(t, f)) => Reading(Read(t, f)) = f
<1> DEFINE r == Read(t, f)
<1>1. /\ r \in UsageType
      /\ r.last = f.net /\ r.boot = f.boot /\ r.rx = Counted(t, f)
      /\ r.base = IF t.last = None THEN f.moved ELSE t.base
      /\ r.upTo = IF t.upTo <= f.moved THEN f.moved ELSE t.upTo
      /\ r.clean = (t.clean /\ (t.last = None \/ f.boot = t.boot))
      /\ r.ordered = (t.ordered /\ InTime(t, f))
  BY ReadFields
<1> HIDE DEF r
<1>2. /\ f.net \in Nat /\ f.boot \in Nat /\ f.moved \in Nat
      /\ t.upTo \in Nat /\ t.rx \in Nat /\ t.base \in Nat /\ t.boot \in Nat
      /\ t.clean \in BOOLEAN /\ t.ordered \in BOOLEAN
      /\ t.last # None => t.last \in Nat
  BY DEF UsageType, FrameType
<1>3. r.last # None
  BY <1>1, <1>2, TrafficAssumption
<1>4. ASSUME r.ordered
      PROVE  /\ t.ordered /\ t.upTo <= f.moved /\ r.upTo = f.moved
             /\ t.last # None => f.boot >= t.boot
  <2>1. t.ordered /\ InTime(t, f)
    BY <1>1, <1>4
  <2> QED
    BY <1>1, <1>2, <2>1 DEF InTime
<1>5. ASSUME r.ordered, t.last = None
      PROVE  r.rx = 0 /\ r.base = f.moved
  BY <1>1, <1>2, <1>5 DEF Counted, CountedOK
<1>6. ASSUME r.ordered, t.last # None
      PROVE  /\ r.rx + r.base <= f.moved
             /\ r.clean => r.rx + r.base = f.moved
  <2>1. /\ t.ordered /\ t.upTo <= f.moved /\ t.last \in Nat /\ f.boot >= t.boot
        /\ r.base = t.base
        /\ r.rx = IF f.net >= t.last THEN t.rx + (f.net - t.last) ELSE t.rx
        /\ t.rx + t.base <= t.upTo
        /\ t.clean => t.rx + t.base = t.upTo
    BY <1>1, <1>2, <1>4, <1>6 DEF Counted, CountedOK
  <2>2. /\ t.boot = f.boot => t.upTo + f.net = f.moved + t.last
        /\ t.boot < f.boot => t.upTo + f.net <= f.moved
    BY <2>1, <1>6 DEF InOrder, Follows, Reading
  <2>3. r.clean => t.clean /\ t.boot = f.boot
    BY <1>1, <1>2, <1>6
  <2>4. CASE t.boot = f.boot
    BY <1>2, <2>1, <2>2, <2>3, <2>4
  <2>5. CASE t.boot < f.boot
    BY <1>2, <2>1, <2>2, <2>3, <2>5
  <2> QED
    BY <1>2, <2>1, <2>4, <2>5
<1>7. CountedOK(r)
  <2>1. r.ordered => r.rx + r.base <= r.upTo
    BY <1>2, <1>4, <1>5, <1>6
  <2>2. (r.ordered /\ r.clean) => r.rx + r.base = r.upTo
    BY <1>2, <1>4, <1>5, <1>6
  <2> QED
    BY <1>3, <2>1, <2>2 DEF CountedOK
<1>8. InOrder(r) => Reading(r) = f
  BY <1>1, <1>4 DEF InOrder, Reading, FrameType
<1> QED
  BY <1>7, <1>8 DEF r

\* A fresh cycle.
LEMMA UsageFresh ==
  ASSUME NEW c \in Nat, NEW g \in Nat
  PROVE  /\ Usage(c, g) \in UsageType /\ Usage(c, g).gen = g
         /\ Usage(c, g).last = None
         /\ CountedOK(Usage(c, g)) /\ ~InOrder(Usage(c, g))
  BY DEF Usage, UsageType, CountedOK, InOrder

\* A day on which the cycle may start.
LEMMA CycleTypes ==
  ASSUME TrafficTypeOK, HeldTypes, NEW rd \in ResetDays
  PROVE  CycleStart(rd, clock) \in Nat
<1>1. rd \in Nat \ {0} /\ clock \in 1 .. LastDay /\ clock >= FirstDay[2]
  BY TrafficAssumption DEF TrafficTypeOK, HeldTypes
<1> QED
  BY <1>1, LatestTurn

\* What a frame from a socket makes of the counters.
LEMMA ApplyCounted ==
  ASSUME TrafficInv, NEW f \in Sent, NEW idle \in BOOLEAN
  PROVE  LET t == ApplyMetrics(traffic, resetDay, f, clock, idle)
         IN  /\ t \in UsageType /\ t.gen = traffic.gen
             /\ CountedOK(t)
             /\ InOrder(t) => Reading(t) \in Readings
<1> DEFINE turned == IF resetDay # None /\ traffic.cycle < CycleStart(resetDay, clock)
                     THEN Usage(CycleStart(resetDay, clock), traffic.gen) ELSE traffic
<1>1. f \in FrameType /\ f \in Readings /\ traffic \in Counters /\ traffic \in UsageType
  BY SentTypes DEF TrafficInv, Readings, Counters, TrafficTypeOK
<1>2. /\ turned \in UsageType /\ turned.gen = traffic.gen
      /\ CountedOK(turned)
      /\ InOrder(turned) => Reading(turned) \in Readings
  <2>1. CASE turned = traffic
    BY <1>1, <2>1 DEF TrafficInv, AllCounted, Readings
  <2>2. CASE turned # traffic
    <3>1. resetDay \in ResetDays /\ turned = Usage(CycleStart(resetDay, clock), traffic.gen)
      BY <2>2 DEF TrafficInv, TrafficTypeOK
    <3>2. CycleStart(resetDay, clock) \in Nat /\ traffic.gen \in Nat
      BY <1>1, <3>1, CycleTypes DEF TrafficInv, UsageType
    <3> HIDE DEF turned
    <3> QED
      BY <3>1, <3>2, UsageFresh
  <2> QED
    BY <2>1, <2>2
<1>3. ApplyMetrics(traffic, resetDay, f, clock, idle)
        = IF f.net = 0 /\ idle THEN turned ELSE Read(turned, f)
  BY DEF ApplyMetrics
<1> HIDE DEF turned
<1>4. CASE f.net = 0 /\ idle
  BY <1>2, <1>3, <1>4
<1>5. CASE ~(f.net = 0 /\ idle)
  <2>1. InOrder(turned) => Follows(Reading(turned), f) /\ Follows(f, Reading(turned))
    BY <1>1, <1>2 DEF TrafficInv, ReadingsAgree
  <2>2. /\ CountedOK(Read(turned, f))
        /\ InOrder(Read(turned, f)) => Reading(Read(turned, f)) = f
    BY <1>1, <1>2, <2>1, ReadCounted
  <2>3. Read(turned, f) \in UsageType /\ Read(turned, f).gen = turned.gen
    BY <1>1, <1>2, ReadFields
  <2> QED
    BY <1>1, <1>2, <1>3, <1>5, <2>2, <2>3
<1> QED
  BY <1>4, <1>5

\* The counters stay right where nothing is read that was not sent.
LEMMA CountersKept ==
  ASSUME TrafficInv, agent' = agent, Sent' \subseteq Sent \cup {agent},
         \A t \in Counters' : \/ t \in Counters
                              \/ CountedOK(t) /\ (InOrder(t) => Reading(t) \in Readings)
  PROVE  ReadingsAgree' /\ AgentLatest' /\ AllCounted'
<1>1. \A t \in Counters' : InOrder(t) => Reading(t) \in Readings
  BY DEF Readings
<1>2. Readings' \subseteq Readings
  BY <1>1 DEF Readings
<1>3. AllCounted'
  BY DEF AllCounted, TrafficInv
<1> QED
  BY <1>2, <1>3 DEF TrafficInv, ReadingsAgree, AgentLatest

-----------------------------------------------------------------------------
(* The steps                                                               *)

\* A step that leaves the sockets, or empties them, sends nothing.
LEMMA SentShrinks ==
  ASSUME \A s \in 1 .. MaxSessions : Range(wire'[s]) \subseteq Range(wire[s])
  PROVE  Sent' \subseteq Sent
  BY DEF Sent

\* A step that leaves the agent, the counters and the sockets keeps what they say.
LEMMA CountersQuiet ==
  ASSUME TrafficInv, UNCHANGED <<agent, wire>>, Counters' \subseteq Counters
  PROVE  ReadingsAgree' /\ AgentLatest' /\ AllCounted'
<1>1. Sent' = Sent
  BY DEF Sent
<1> QED
  BY <1>1, CountersKept

\* The agent moves a byte: what it says next still follows on what it said.
LEMMA MoveStep ==
  ASSUME TrafficInv, Move
  PROVE  ReadingsAgree' /\ AgentLatest' /\ AllCounted'
<1>1. /\ agent' = [agent EXCEPT !.net = @ + 1, !.moved = @ + 1]
      /\ UNCHANGED <<wire, traffic, row, snap, edit>>
  BY DEF Move
<1>2. Counters' = Counters /\ Sent' = Sent
  BY <1>1 DEF Counters, Sent
<1>3. \A f \in Readings' : f = agent' \/ f \in Readings
  BY <1>2 DEF Readings
<1>4. /\ agent \in FrameType /\ agent \in Readings /\ Readings \subseteq FrameType
      /\ agent'.net = agent.net + 1 /\ agent'.boot = agent.boot /\ agent'.moved = agent.moved + 1
  BY <1>1, CounterTypes DEF TrafficInv, FrameType, Readings
<1>5. ASSUME NEW f \in Readings
      PROVE  /\ Follows(f, agent') /\ Follows(agent', f)
             /\ f.boot <= agent'.boot /\ f.moved <= agent'.moved
  <2>1. /\ f.net \in Nat /\ f.boot \in Nat /\ f.moved \in Nat
        /\ agent.net \in Nat /\ agent.boot \in Nat /\ agent.moved \in Nat
    BY <1>4, <1>5 DEF FrameType
  <2>2. /\ Follows(f, agent) /\ Follows(agent, f)
        /\ f.boot <= agent.boot /\ f.moved <= agent.moved
    BY <1>4 DEF TrafficInv, ReadingsAgree, AgentLatest
  <2> QED
    BY <1>4, <2>1, <2>2 DEF Follows
<1>6. /\ Follows(agent', agent')
      /\ agent'.boot <= agent'.boot /\ agent'.moved <= agent'.moved
  BY <1>4 DEF Follows, FrameType
<1>7. AgentLatest'
  BY <1>3, <1>5, <1>6 DEF AgentLatest
<1>8. ReadingsAgree'
  <2> SUFFICES ASSUME NEW f \in Readings', NEW g \in Readings' PROVE Follows(f, g)
    BY DEF ReadingsAgree, Follows
  <2> QED
    BY <1>3, <1>5, <1>6 DEF TrafficInv, ReadingsAgree
<1>9. AllCounted'
  BY <1>2 DEF AllCounted, TrafficInv
<1> QED
  BY <1>7, <1>8, <1>9

\* A reboot starts the counter again, after all that was moved.
LEMMA ReconnectStep ==
  ASSUME TrafficInv, Reconnect
  PROVE  ReadingsAgree' /\ AgentLatest' /\ AllCounted'
<1>1. UNCHANGED <<wire, traffic, row, snap, edit>>
  BY DEF Reconnect
<1>2. Counters' = Counters /\ Sent' = Sent
  BY <1>1 DEF Counters, Sent
<1>3. CASE UNCHANGED agent
  BY <1>1, <1>2, <1>3, CountersQuiet
<1>4. CASE agent' = [agent EXCEPT !.net = 0, !.boot = @ + 1]
  <2>1. \A f \in Readings' : f = agent' \/ f \in Readings
    BY <1>2 DEF Readings
  <2>2. /\ agent \in FrameType /\ agent \in Readings /\ Readings \subseteq FrameType
        /\ agent'.net = 0 /\ agent'.boot = agent.boot + 1 /\ agent'.moved = agent.moved
    BY <1>4, CounterTypes DEF TrafficInv, FrameType, Readings
  <2>3. ASSUME NEW f \in Readings
        PROVE  /\ Follows(f, agent') /\ Follows(agent', f)
             /\ f.boot <= agent'.boot /\ f.moved <= agent'.moved
    <3>1. /\ f.net \in Nat /\ f.boot \in Nat /\ f.moved \in Nat
          /\ agent.net \in Nat /\ agent.boot \in Nat /\ agent.moved \in Nat
      BY <2>2, <2>3 DEF FrameType
    <3>2. f.boot <= agent.boot /\ f.moved <= agent.moved
      BY DEF TrafficInv, AgentLatest
    <3> QED
      BY <2>2, <3>1, <3>2 DEF Follows
  <2>4. /\ Follows(agent', agent')
        /\ agent'.boot <= agent'.boot /\ agent'.moved <= agent'.moved
    BY <2>2 DEF Follows, FrameType
  <2>5. AgentLatest'
    BY <2>1, <2>3, <2>4 DEF AgentLatest
  <2>6. ReadingsAgree'
    <3> SUFFICES ASSUME NEW f \in Readings', NEW g \in Readings' PROVE Follows(f, g)
      BY DEF ReadingsAgree, Follows
    <3> QED
      BY <2>1, <2>3, <2>4 DEF TrafficInv, ReadingsAgree
  <2>7. AllCounted'
    BY <1>2 DEF AllCounted, TrafficInv
  <2> QED
    BY <2>5, <2>6, <2>7
<1> QED
  BY <1>3, <1>4 DEF Reconnect

\* Every step keeps what the counters say.
LEMMA CountersStep ==
  ASSUME TrafficInv, [Next]_vars
  PROVE  ReadingsAgree' /\ AgentLatest' /\ AllCounted'
<1>0. wire \in [1 .. MaxSessions -> Seq(FrameType)] /\ DOMAIN wire = 1 .. MaxSessions
      /\ session \in 1 .. MaxSessions
  BY DEF TrafficInv, TrafficTypeOK, HeldTypes
<1>1. CASE Midnight \/ UNCHANGED vars
  <2>1. UNCHANGED <<agent, wire, traffic, row, snap, edit>>
    BY <1>1 DEF Midnight, vars
  <2> QED
    BY <2>1, CountersQuiet DEF Counters
<1>2. CASE Move
  BY <1>2, MoveStep
<1>3. CASE Sample
  <2>1. /\ UNCHANGED <<agent, traffic, row, snap, edit>>
        /\ wire' = [wire EXCEPT ![session] = Append(@, Frame)]
    BY <1>3 DEF Sample
  <2>2. Frame = agent /\ agent \in FrameType
    BY CounterTypes DEF Frame, TrafficInv, FrameType
  <2>3. \A s \in 1 .. MaxSessions : Range(wire'[s]) \subseteq Range(wire[s]) \cup {agent}
    BY <1>0, <2>1, <2>2, RangeAppend
  <2>4. Sent' \subseteq Sent \cup {agent}
    BY <2>3 DEF Sent
  <2>5. Counters' = Counters
    BY <2>1 DEF Counters
  <2> QED
    BY <2>1, <2>4, <2>5, CountersKept
<1>4. CASE Reconnect
  BY <1>4, ReconnectStep
<1>5. ASSUME NEW s \in DOMAIN wire, Lose(s) PROVE ReadingsAgree' /\ AgentLatest' /\ AllCounted'
  <2>1. /\ UNCHANGED <<agent, traffic, row, snap, edit>>
        /\ wire' = [wire EXCEPT ![s] = <<>>]
    BY <1>5 DEF Lose
  <2>2. Range(<<>>) = {}
    BY DEF Range
  <2>3. \A u \in 1 .. MaxSessions : Range(wire'[u]) \subseteq Range(wire[u])
    BY <1>0, <2>1, <2>2
  <2>4. Sent' \subseteq Sent /\ Counters' = Counters
    BY <2>1, <2>3, SentShrinks DEF Counters
  <2> QED
    BY <2>1, <2>4, CountersKept
<1>6. ASSUME NEW s \in DOMAIN wire, NEW idle \in BOOLEAN, Metrics(s, idle)
      PROVE  ReadingsAgree' /\ AgentLatest' /\ AllCounted'
  <2>1. /\ UNCHANGED <<agent, row, snap, edit>>
        /\ wire' = [wire EXCEPT ![s] = Tail(@)] /\ wire[s] # <<>>
        /\ traffic' = ApplyMetrics(traffic, resetDay, Head(wire[s]), clock, idle)
    BY <1>6 DEF Metrics
  <2>2. Head(wire[s]) \in Range(wire[s]) /\ Range(Tail(wire[s])) \subseteq Range(wire[s])
    BY <1>0, <2>1, RangeTail
  <2>3. \A u \in 1 .. MaxSessions : Range(wire'[u]) \subseteq Range(wire[u])
    BY <1>0, <2>1, <2>2
  <2>4. Sent' \subseteq Sent
    BY <2>3, SentShrinks
  <2>5. Head(wire[s]) \in Sent
    BY <1>0, <2>2 DEF Sent
  <2>6. CountedOK(traffic') /\ (InOrder(traffic') => Reading(traffic') \in Readings)
    BY <2>1, <2>5, ApplyCounted
  <2>7. \A t \in Counters' : t \in Counters \/ t = traffic'
    BY <2>1 DEF Counters
  <2> QED
    BY <2>1, <2>4, <2>6, <2>7, CountersKept
<1>7. CASE \/ FlushRead \/ FlushWrite
           \/ \E rd \in ResetDays \cup {None} : BillingSave(rd)
           \/ \E stored \in BOOLEAN : BillingStore(stored)
  <2>1. UNCHANGED <<agent, wire>>
    <3>1. ASSUME NEW stored \in BOOLEAN, BillingStore(stored) PROVE UNCHANGED <<agent, wire>>
      BY <3>1 DEF BillingStore
    <3> QED
      BY <1>7, <3>1 DEF FlushRead, FlushWrite, BillingSave
  <2>2. Counters' \subseteq Counters
    <3>1. FlushRead \/ FlushWrite => Counters' \subseteq Counters
      BY DEF FlushRead, FlushWrite, Counters
    <3>2. ASSUME NEW rd, BillingSave(rd) PROVE Counters' \subseteq Counters
      <4>1. UNCHANGED <<traffic, row, snap>> /\ edit'.at = "saved"
        BY <3>2 DEF BillingSave, Idle
      <4> QED
        BY <4>1 DEF Counters
    <3>3. ASSUME NEW stored \in BOOLEAN, BillingStore(stored) PROVE Counters' \subseteq Counters
      <4>1. UNCHANGED <<traffic, snap>> /\ edit.at = "applied" /\ row' \in {row, edit.copy}
            /\ edit'.at = "idle"
        BY <3>3 DEF BillingStore, Idle
      <4> QED
        BY <4>1 DEF Counters
    <3> QED
      BY <1>7, <3>1, <3>2, <3>3
  <2> QED
    BY <2>1, <2>2, CountersQuiet
<1>8. CASE BillingApply
  <2>1. /\ UNCHANGED <<agent, wire, row, snap>>
        /\ edit'.copy = traffic'
        /\ \/ traffic' = traffic
           \/ edit.day # None /\ traffic' = Usage(CycleStart(edit.day, clock), edits)
    BY <1>8 DEF BillingApply, TrafficInv, TrafficTypeOK
  <2>2. traffic' = traffic \/ (CountedOK(traffic') /\ ~InOrder(traffic'))
    <3>1. CASE edit.day # None /\ traffic' = Usage(CycleStart(edit.day, clock), edits)
      <4>1. CycleStart(edit.day, clock) \in Nat /\ edits \in Nat
        BY <3>1, CycleTypes DEF TrafficInv, HeldTypes
      <4> QED
        BY <3>1, <4>1, UsageFresh
    <3> QED
      BY <2>1, <3>1
  <2>3. \A t \in Counters' : t \in Counters \/ t = traffic'
    BY <2>1 DEF Counters
  <2>4. Sent' = Sent
    BY <2>1 DEF Sent
  <2>5. traffic \in Counters
    BY DEF Counters
  <2> QED
    BY <2>1, <2>2, <2>3, <2>4, <2>5, CountersKept
<1>9. CASE Restart
  <2>1. /\ agent' = agent /\ row' = row /\ traffic' = row /\ snap' = None /\ edit'.at = "idle"
        /\ wire' = [s \in DOMAIN wire |-> <<>>]
    BY <1>9 DEF Restart, Reload, Idle
  <2>2. Counters' \subseteq Counters
    BY <2>1 DEF Counters
  <2>3. Range(<<>>) = {}
    BY DEF Range
  <2>4. \A u \in 1 .. MaxSessions : Range(wire'[u]) \subseteq Range(wire[u])
    BY <1>0, <2>1, <2>3
  <2>5. Sent' \subseteq Sent
    BY <2>4, SentShrinks
  <2> QED
    BY <2>1, <2>2, <2>5, CountersKept
<1> QED
  BY <1>1, <1>2, <1>3, <1>4, <1>5, <1>6, <1>7, <1>8, <1>9 DEF Next

\* An edit's fresh cycle is the latest, and only a flush stores an older one.
LEMMA GensStep ==
  ASSUME TrafficInv, [Next]_vars
  PROVE  GensGrow'
<1>0. /\ traffic.gen <= edits /\ acked <= edits
      /\ \A t \in Counters : t.gen <= traffic.gen
      /\ traffic.gen < acked => rolledBack
      /\ row.gen < acked => rolledBack
      /\ edits \in Nat /\ acked \in Nat
  BY DEF TrafficInv, GensGrow, HeldTypes
<1>1. /\ traffic \in Counters /\ row \in Counters
      /\ snap # None => snap \in Counters
      /\ edit.at = "applied" => edit.copy \in Counters
  BY DEF Counters
<1>2. \A t \in Counters : t.gen \in Nat
  BY CounterTypes DEF TrafficInv, UsageType
<1>3. CASE UNCHANGED <<traffic, edits, acked, row, rolledBack>> /\ Counters' \subseteq Counters
  BY <1>0, <1>3 DEF GensGrow
<1>4. CASE Midnight \/ Move \/ Sample \/ Reconnect \/ UNCHANGED vars
  <2>1. UNCHANGED <<traffic, edits, acked, row, rolledBack, snap, edit>>
    BY <1>4 DEF Midnight, Move, Sample, Reconnect, vars
  <2> QED
    BY <1>3, <2>1 DEF Counters
<1>5. ASSUME NEW s \in DOMAIN wire, Lose(s) PROVE GensGrow'
  <2>1. UNCHANGED <<traffic, edits, acked, row, rolledBack, snap, edit>>
    BY <1>5 DEF Lose
  <2> QED
    BY <1>3, <2>1 DEF Counters
<1>6. ASSUME NEW s \in DOMAIN wire, NEW idle \in BOOLEAN, Metrics(s, idle) PROVE GensGrow'
  <2>1. /\ UNCHANGED <<edits, acked, row, rolledBack, snap, edit>>
        /\ traffic' = ApplyMetrics(traffic, resetDay, Head(wire[s]), clock, idle)
        /\ wire[s] # <<>>
    BY <1>6 DEF Metrics
  <2>2. wire[s] \in Seq(FrameType) /\ s \in 1 .. MaxSessions
    BY DEF TrafficInv, HeldTypes, TrafficTypeOK
  <2>3. Head(wire[s]) \in Sent
    BY <2>1, <2>2, RangeTail DEF Sent
  <2>4. traffic'.gen = traffic.gen
    BY <2>1, <2>3, ApplyCounted
  <2>5. \A t \in Counters' : t \in Counters \/ t = traffic'
    BY <2>1 DEF Counters
  <2>6. \A t \in Counters' : t.gen <= traffic'.gen
    BY <1>0, <1>1, <1>2, <2>4, <2>5
  <2> QED
    BY <1>0, <2>1, <2>4, <2>6 DEF GensGrow
<1>7. CASE FlushRead
  <2>1. UNCHANGED <<traffic, edits, acked, row, rolledBack, edit>> /\ snap' = traffic
    BY <1>7 DEF FlushRead
  <2>2. Counters' \subseteq Counters
    BY <2>1 DEF Counters
  <2> QED
    BY <1>3, <2>1, <2>2
<1>8. CASE FlushWrite
  <2>1. /\ UNCHANGED <<traffic, edits, acked, edit>> /\ snap # None
        /\ row' = snap /\ snap' = None /\ rolledBack' = (snap.gen < acked)
    BY <1>8 DEF FlushWrite
  <2>2. Counters' \subseteq Counters
    BY <2>1 DEF Counters
  <2>3. snap.gen <= traffic.gen /\ snap.gen \in Nat /\ traffic.gen \in Nat
    BY <1>0, <1>1, <1>2, <2>1
  <2>4. traffic.gen < acked => rolledBack'
    <3>1. traffic.gen < acked => snap.gen < acked
      BY <1>0, <2>3
    <3> QED
      BY <2>1, <3>1
  <2> QED
    BY <1>0, <2>1, <2>2, <2>4 DEF GensGrow
<1>9. ASSUME NEW rd, BillingSave(rd) PROVE GensGrow'
  <2>1. /\ UNCHANGED <<traffic, row, acked, rolledBack, snap>>
        /\ edits' = edits + 1 /\ edit'.at = "saved"
    BY <1>9 DEF BillingSave, Idle
  <2>2. Counters' \subseteq Counters
    BY <2>1 DEF Counters
  <2>3. traffic.gen <= edits' /\ acked <= edits'
    BY <1>0, <1>1, <1>2, <2>1
  <2> QED
    BY <1>0, <2>1, <2>2, <2>3 DEF GensGrow
<1>10. CASE BillingApply
  <2>1. /\ UNCHANGED <<row, edits, acked, rolledBack, snap>>
        /\ edit'.copy = traffic'
        /\ traffic' = traffic \/ traffic' = Usage(CycleStart(edit.day, clock), edits)
    BY <1>10 DEF BillingApply, TrafficInv, TrafficTypeOK
  <2>2. traffic'.gen = traffic.gen \/ traffic'.gen = edits
    BY <2>1 DEF Usage
  <2>3. \A t \in Counters' : t \in Counters \/ t = traffic'
    BY <2>1 DEF Counters
  <2>4. /\ traffic.gen <= traffic'.gen /\ traffic'.gen <= edits
        /\ traffic.gen \in Nat /\ traffic'.gen \in Nat
    BY <1>0, <1>1, <1>2, <2>2
  <2>5. \A t \in Counters' : t.gen <= traffic'.gen
    <3> SUFFICES ASSUME NEW t \in Counters' PROVE t.gen <= traffic'.gen
      OBVIOUS
    <3>1. CASE t \in Counters
      BY <1>0, <1>2, <2>4, <3>1
    <3> QED
      BY <2>3, <2>4, <3>1
  <2>6. traffic'.gen < acked => rolledBack
    BY <1>0, <2>4
  <2> QED
    BY <1>0, <2>1, <2>4, <2>5, <2>6 DEF GensGrow
<1>11. ASSUME NEW stored \in BOOLEAN, BillingStore(stored) PROVE GensGrow'
  <2>1. /\ UNCHANGED <<traffic, edits, snap>> /\ edit.at = "applied"
        /\ row' \in {row, edit.copy} /\ acked' = edit.copy.gen /\ edit'.at = "idle"
        /\ row'.gen < edit.copy.gen => rolledBack'
    BY <1>11 DEF BillingStore, Idle
  <2>2. Counters' \subseteq Counters
    BY <2>1 DEF Counters
  <2>3. /\ edit.copy.gen <= traffic.gen /\ edit.copy.gen \in Nat /\ traffic.gen \in Nat
    BY <1>0, <1>1, <1>2, <2>1
  <2>4. acked' <= edits' /\ ~ (traffic'.gen < acked') /\ (row'.gen < acked' => rolledBack')
    BY <1>0, <2>1, <2>3
  <2> QED
    BY <1>0, <2>1, <2>2, <2>4 DEF GensGrow
<1>12. CASE Restart
  <2>1. /\ UNCHANGED <<row, edits, acked, rolledBack>>
        /\ traffic' = row /\ snap' = None /\ edit'.at = "idle"
    BY <1>12 DEF Restart, Reload, Idle
  <2>2. Counters' = {row}
    BY <2>1 DEF Counters
  <2>3. row.gen <= traffic.gen /\ row.gen \in Nat /\ traffic.gen \in Nat
    BY <1>0, <1>1, <1>2
  <2>4. row.gen <= row.gen /\ row.gen <= edits
    BY <1>0, <2>3
  <2> QED
    BY <1>0, <2>1, <2>2, <2>4 DEF GensGrow
<1> QED
  BY <1>4, <1>5, <1>6, <1>7, <1>8, <1>9, <1>10, <1>11, <1>12 DEF Next

\* Every step keeps the types.
LEMMA TypesStep ==
  ASSUME TrafficInv, [Next]_vars
  PROVE  (TrafficTypeOK /\ HeldTypes)'
<1>0. /\ TrafficTypeOK /\ HeldTypes
      /\ \A t \in Counters : t \in UsageType
      /\ LastDay \in Nat /\ FirstDay[2] \in Nat /\ clock \in Nat
  <2>1. FirstDay[2] \in Nat
    BY MonthsAre, FirstDays
  <2>2. LastDay \in Nat
    BY LastDayIs
  <2> QED
    BY <2>1, <2>2, CounterTypes DEF TrafficInv, TrafficTypeOK
<1>1. traffic'.last = None => traffic'.rx = 0
  <2>1. AllCounted' /\ traffic' \in Counters'
    BY CountersStep DEF Counters
  <2> QED
    BY <2>1 DEF AllCounted, CountedOK
<1>2. CASE UNCHANGED vars
  BY <1>0, <1>2 DEF vars, TrafficTypeOK, HeldTypes
<1>3. CASE Midnight
  <2>1. /\ UNCHANGED <<agent, session, wire, traffic, resetDay, row, storedDay, snap,
                   edit, edits, acked, rolledBack>>
        /\ clock' = clock + 1 /\ clock < LastDay
    BY <1>3 DEF Midnight
  <2>2. clock' \in 1 .. LastDay /\ clock' >= FirstDay[2]
    BY <1>0, <2>1 DEF TrafficTypeOK, HeldTypes
  <2> QED
    BY <1>0, <2>1, <2>2 DEF TrafficTypeOK, HeldTypes
<1>4. CASE Move
  <2>1. /\ UNCHANGED <<clock, session, wire, traffic, resetDay, row, storedDay, snap,
                   edit, edits, acked, rolledBack>>
        /\ agent' = [agent EXCEPT !.net = @ + 1, !.moved = @ + 1]
    BY <1>4 DEF Move
  <2>2. agent' \in [net : Nat, boot : Nat, moved : Nat]
    <3>1. agent \in [net : Nat, boot : Nat, moved : Nat]
      BY <1>0 DEF TrafficTypeOK
    <3>2. agent' = [net |-> agent.net + 1, boot |-> agent.boot, moved |-> agent.moved + 1]
      BY <2>1, <3>1
    <3> QED
      BY <3>1, <3>2
  <2> QED
    BY <1>0, <2>1, <2>2 DEF TrafficTypeOK, HeldTypes
<1>5. CASE Sample
  <2>1. /\ UNCHANGED <<clock, agent, session, traffic, resetDay, row, storedDay, snap,
                   edit, edits, acked, rolledBack>>
        /\ wire' = [wire EXCEPT ![session] = Append(@, Frame)]
    BY <1>5 DEF Sample
  <2>2. Frame \in FrameType /\ session \in 1 .. MaxSessions /\ wire \in [1 .. MaxSessions -> Seq(FrameType)]
    BY <1>0 DEF TrafficTypeOK, HeldTypes, Frame, FrameType
  <2>3. Append(wire[session], Frame) \in Seq(FrameType)
    BY <2>2, AppendProperties
  <2>4. wire' \in [1 .. MaxSessions -> Seq(FrameType)]
    BY <2>1, <2>2, <2>3
  <2> QED
    BY <1>0, <2>1, <2>4 DEF TrafficTypeOK, HeldTypes
<1>6. CASE Reconnect
  <2>1. /\ UNCHANGED <<clock, wire, traffic, resetDay, row, storedDay, snap, edit, edits,
                   acked, rolledBack>>
        /\ session < MaxSessions /\ session' = session + 1
        /\ agent' = agent \/ agent' = [agent EXCEPT !.net = 0, !.boot = @ + 1]
    BY <1>6 DEF Reconnect
  <2>2. agent' \in [net : Nat, boot : Nat, moved : Nat]
    <3>1. agent \in [net : Nat, boot : Nat, moved : Nat]
      BY <1>0 DEF TrafficTypeOK
    <3>2. CASE agent' = [agent EXCEPT !.net = 0, !.boot = @ + 1]
      <4>1. agent' = [net |-> 0, boot |-> agent.boot + 1, moved |-> agent.moved]
        BY <3>1, <3>2
      <4> QED
        BY <3>1, <4>1
    <3> QED
      BY <2>1, <3>1, <3>2
  <2>3. session' \in 1 .. MaxSessions
    BY <1>0, <2>1, TrafficAssumption DEF TrafficTypeOK
  <2> QED
    BY <1>0, <2>1, <2>2, <2>3 DEF TrafficTypeOK, HeldTypes
<1>7. ASSUME NEW s \in DOMAIN wire, Lose(s) PROVE (TrafficTypeOK /\ HeldTypes)'
  <2>1. /\ UNCHANGED <<clock, agent, session, traffic, resetDay, row, storedDay, snap, edit,
                   edits, acked, rolledBack>>
        /\ wire' = [wire EXCEPT ![s] = <<>>]
    BY <1>7 DEF Lose
  <2>2. <<>> \in Seq(FrameType)
    OBVIOUS
  <2>3. wire' \in [1 .. MaxSessions -> Seq(FrameType)]
    BY <1>0, <2>1, <2>2 DEF HeldTypes
  <2> QED
    BY <1>0, <2>1, <2>3 DEF TrafficTypeOK, HeldTypes
<1>8. ASSUME NEW s \in DOMAIN wire, NEW idle \in BOOLEAN, Metrics(s, idle) PROVE (TrafficTypeOK /\ HeldTypes)'
  <2>1. /\ UNCHANGED <<clock, agent, session, resetDay, row, storedDay, snap, edit,
                   edits, acked, rolledBack>>
        /\ traffic' = ApplyMetrics(traffic, resetDay, Head(wire[s]), clock, idle)
        /\ wire' = [wire EXCEPT ![s] = Tail(@)] /\ wire[s] # <<>>
    BY <1>8 DEF Metrics
  <2>2. wire[s] \in Seq(FrameType) /\ s \in 1 .. MaxSessions
    BY <1>0 DEF HeldTypes, TrafficTypeOK
  <2>3. Head(wire[s]) \in Sent
    BY <2>1, <2>2, RangeTail DEF Sent
  <2>4. traffic' \in UsageType
    BY <2>1, <2>3, ApplyCounted
  <2>5. Tail(wire[s]) \in Seq(FrameType)
    BY <2>1, <2>2, HeadTailProperties
  <2>6. wire' \in [1 .. MaxSessions -> Seq(FrameType)]
    BY <1>0, <2>1, <2>5 DEF HeldTypes
  <2> QED
    BY <1>0, <1>1, <2>1, <2>4, <2>6 DEF TrafficTypeOK, HeldTypes
<1>9. CASE FlushRead
  <2>1. /\ UNCHANGED <<clock, agent, session, wire, traffic, resetDay, row, storedDay,
                   edit, edits, acked, rolledBack>>
        /\ snap' = traffic
    BY <1>9 DEF FlushRead
  <2> QED
    BY <1>0, <2>1 DEF TrafficTypeOK, HeldTypes
<1>10. CASE FlushWrite
  <2>1. /\ UNCHANGED <<clock, agent, session, wire, traffic, resetDay, storedDay,
                   edit, edits, acked>>
        /\ snap # None /\ row' = snap /\ snap' = None /\ rolledBack' = (snap.gen < acked)
    BY <1>10 DEF FlushWrite
  <2>2. rolledBack' \in BOOLEAN
    BY <2>1
  <2> QED
    BY <1>0, <2>1, <2>2 DEF TrafficTypeOK, HeldTypes
<1>11. ASSUME NEW rd \in ResetDays \cup {None}, BillingSave(rd) PROVE (TrafficTypeOK /\ HeldTypes)'
  <2>1. /\ UNCHANGED <<clock, agent, session, wire, traffic, resetDay, row, snap,
                   acked, rolledBack>>
        /\ edits' = edits + 1 /\ storedDay' = rd
        /\ edit' = [Idle EXCEPT !.at = "saved", !.day = rd]
    BY <1>11 DEF BillingSave
  <2>2. edit'.at = "saved" /\ edit'.day = rd
    BY <2>1 DEF Idle
  <2>3. edits' \in Nat
    BY <1>0, <2>1 DEF HeldTypes
  <2> QED
    BY <1>0, <2>1, <2>2, <2>3 DEF TrafficTypeOK, HeldTypes
<1>12. CASE BillingApply
  <2>1. /\ UNCHANGED <<clock, agent, session, wire, row, storedDay, snap, edits, acked, rolledBack>>
        /\ edit' = [edit EXCEPT !.at = "applied", !.copy = traffic']
        /\ resetDay' = edit.day
        /\ \/ traffic' = traffic
           \/ edit.day # None /\ traffic' = Usage(CycleStart(edit.day, clock), edits)
    BY <1>12 DEF BillingApply
  <2>2. traffic' \in UsageType
    <3>1. CASE edit.day # None /\ traffic' = Usage(CycleStart(edit.day, clock), edits)
      <4>1. CycleStart(edit.day, clock) \in Nat /\ edits \in Nat
        BY <1>0, <3>1, CycleTypes DEF HeldTypes
      <4> QED
        BY <3>1, <4>1, UsageFresh
    <3> QED
      BY <1>0, <2>1, <3>1 DEF TrafficTypeOK
  <2>3. edit'.day \in ResetDays \cup {None} /\ edit'.at \in {"idle", "saved", "applied"}
        /\ (edit'.at = "applied" => edit'.copy \in UsageType)
    BY <1>0, <2>1, <2>2 DEF HeldTypes
  <2> QED
    BY <1>0, <1>1, <2>1, <2>2, <2>3 DEF TrafficTypeOK, HeldTypes
<1>13. ASSUME NEW stored \in BOOLEAN, BillingStore(stored) PROVE (TrafficTypeOK /\ HeldTypes)'
  <2>1. /\ UNCHANGED <<clock, agent, session, wire, traffic, resetDay, storedDay, snap,
                   edits>>
        /\ edit.at = "applied" /\ row' \in {row, edit.copy} /\ acked' = edit.copy.gen
        /\ rolledBack' \in BOOLEAN /\ edit' = Idle
    BY <1>13 DEF BillingStore
  <2>2. edit.copy \in UsageType /\ acked' \in Nat
    BY <1>0, <2>1 DEF HeldTypes, UsageType
  <2>3. edit'.at = "idle" /\ edit'.day = None
    BY <2>1 DEF Idle
  <2> QED
    BY <1>0, <2>1, <2>2, <2>3 DEF TrafficTypeOK, HeldTypes
<1>14. CASE Restart
  <2>1. /\ UNCHANGED <<clock, agent, session, row, storedDay, edits, acked, rolledBack>>
        /\ traffic' = row /\ resetDay' = storedDay /\ snap' = None /\ edit' = Idle
        /\ wire' = [s \in DOMAIN wire |-> <<>>]
    BY <1>14 DEF Restart, Reload
  <2>2. edit'.at = "idle" /\ edit'.day = None
    BY <2>1 DEF Idle
  <2>3. wire' \in [1 .. MaxSessions -> Seq(FrameType)]
    <3>1. <<>> \in Seq(FrameType)
      OBVIOUS
    <3> QED
      BY <1>0, <2>1, <3>1 DEF TrafficTypeOK
  <2> QED
    BY <1>0, <1>1, <2>1, <2>2, <2>3 DEF TrafficTypeOK, HeldTypes
<1> QED
  BY <1>2, <1>3, <1>4, <1>5, <1>6, <1>7, <1>8, <1>9, <1>10, <1>11, <1>12, <1>13, <1>14 DEF Next

\* The server starts with nothing counted, on the first day of the second month.
LEMMA TrafficInvInit ==
  ASSUME Init
  PROVE  TrafficInv
<1>0. /\ clock = FirstDay[2] /\ agent = [net |-> 0, boot |-> 0, moved |-> 0] /\ session = 1
      /\ wire = [s \in 1 .. MaxSessions |-> <<>>]
      /\ resetDay \in ResetDays \cup {None} /\ storedDay = resetDay
      /\ traffic = Usage(0, 0) /\ row = Usage(0, 0) /\ snap = None /\ edit = Idle
      /\ edits = 0 /\ acked = 0 /\ rolledBack = FALSE
  BY DEF Init
<1>1. Usage(0, 0) \in UsageType /\ Usage(0, 0).gen = 0
      /\ CountedOK(Usage(0, 0)) /\ ~InOrder(Usage(0, 0))
  BY UsageFresh
<1>2. edit.at = "idle" /\ edit.day = None
  BY <1>0 DEF Idle
<1>3. Counters = {Usage(0, 0)}
  BY <1>0, <1>2 DEF Counters
<1>4. Sent = {}
  <2>1. Range(<<>>) = {}
    BY DEF Range
  <2> QED
    BY <1>0, <2>1 DEF Sent
<1>5. Readings = {agent}
  BY <1>1, <1>3, <1>4 DEF Readings
<1>6. clock \in 1 .. LastDay /\ clock >= FirstDay[2]
  <2> DEFINE n == Len(MonthLengths)
  <2>1. /\ 2 \in Months /\ n \in Months /\ n \in Nat /\ n > 1
        /\ FirstDay[2] \in Nat \ {0} /\ FirstDay[n] \in Nat \ {0} /\ MonthLengths[n] \in Nat \ {0}
    BY MonthsAre, FirstDays
  <2>2. n > 2 => FirstDay[2] + MonthLengths[2] <= FirstDay[n]
    BY <2>1, MonthsInOrder
  <2>3. MonthLengths[2] \in Nat
    BY <2>1, MonthsAre
  <2>4. LastDay = FirstDay[n] + MonthLengths[n] - 1
    BY DEF LastDay
  <2> HIDE DEF n
  <2>5. FirstDay[2] <= FirstDay[n]
    BY <2>1, <2>2, <2>3
  <2> QED
    BY <1>0, <2>1, <2>4, <2>5
<1>7. TrafficTypeOK
  <2>1. DOMAIN wire = 1 .. MaxSessions
    BY <1>0
  <2>2. session \in 1 .. MaxSessions
    BY <1>0, TrafficAssumption
  <2>3. agent \in [net : Nat, boot : Nat, moved : Nat]
    BY <1>0
  <2>4. Usage(0, 0).rx = 0
    BY DEF Usage
  <2> QED
    BY <1>0, <1>1, <1>2, <1>6, <2>1, <2>2, <2>3, <2>4 DEF TrafficTypeOK
<1>8. HeldTypes
  <2>1. <<>> \in Seq(FrameType)
    OBVIOUS
  <2>2. wire \in [1 .. MaxSessions -> Seq(FrameType)]
    BY <1>0, <2>1
  <2> QED
    BY <1>0, <1>2, <1>6, <2>2 DEF HeldTypes
<1>9. ReadingsAgree /\ AgentLatest
  BY <1>0, <1>5 DEF ReadingsAgree, AgentLatest, Follows
<1>10. AllCounted
  BY <1>1, <1>3 DEF AllCounted
<1>11. GensGrow
  BY <1>0, <1>1, <1>3 DEF GensGrow
<1> QED
  BY <1>7, <1>8, <1>9, <1>10, <1>11 DEF TrafficInv

-----------------------------------------------------------------------------
(* The theorems                                                            *)

\* What holds of all the counters, of what is still to be read and of the copies.
THEOREM TrafficInvariant == Spec => []TrafficInv
<1>1. Init => TrafficInv
  BY TrafficInvInit
<1>2. TrafficInv /\ [Next]_vars => TrafficInv'
  <2> SUFFICES ASSUME TrafficInv, [Next]_vars PROVE TrafficInv'
    OBVIOUS
  <2> QED
    BY TypesStep, CountersStep, GensStep DEF TrafficInv
<1> QED
  BY <1>1, <1>2, PTL DEF Spec

\* Every variable keeps its type.
THEOREM TrafficTypeCorrect == Spec => []TrafficTypeOK
<1>1. TrafficInv => TrafficTypeOK
  BY DEF TrafficInv
<1> QED
  BY <1>1, TrafficInvariant, PTL

\* What is counted in a cycle is what the agent moved between its first and its
\* last reading, through restarts of the server, flushes, edits and reconnects
\* (billing.rs:82-95, main.rs:207-221).
THEOREM CountedExactlyAlways == Spec => []CountedExactly
<1>1. TrafficInv => CountedExactly
  <2> SUFFICES ASSUME TrafficInv, traffic.last # None, traffic.clean, traffic.ordered
               PROVE  traffic.rx = traffic.upTo - traffic.base
    BY DEF CountedExactly
  <2>1. CountedOK(traffic) /\ traffic \in UsageType
    BY DEF TrafficInv, AllCounted, Counters, TrafficTypeOK
  <2>2. traffic.rx \in Nat /\ traffic.upTo \in Nat /\ traffic.base \in Nat
    BY <2>1 DEF UsageType
  <2> QED
    BY <2>1, <2>2 DEF CountedOK
<1> QED
  BY <1>1, TrafficInvariant, PTL

\* A reboot of the agent counts nothing twice, if its frames come in order
\* (billing.rs:83-87).
THEOREM CountedOnceInOrderAlways == Spec => []CountedOnceInOrder
<1>1. TrafficInv => CountedOnceInOrder
  <2> SUFFICES ASSUME TrafficInv, traffic.ordered
               PROVE  traffic.rx <= traffic.upTo - traffic.base
    BY DEF CountedOnceInOrder
  <2>1. CountedOK(traffic) /\ traffic \in UsageType
    BY DEF TrafficInv, AllCounted, Counters, TrafficTypeOK
  <2>2. traffic.rx \in Nat /\ traffic.upTo \in Nat /\ traffic.base \in Nat
    BY <2>1 DEF UsageType
  <2> QED
    BY <2>1, <2>2 DEF CountedOK
<1> QED
  BY <1>1, TrafficInvariant, PTL

\* The counters in use are never behind the last edit the operator was told of,
\* unless a flush stored a copy it had taken before (main.rs:263-290,
\* admin.rs:1795-1826).
THEOREM AckedCycleKeptAlways == Spec => []AckedCycleKept
<1>1. TrafficInv => AckedCycleKept
  BY DEF TrafficInv, GensGrow, AckedCycleKept
<1> QED
  BY <1>1, TrafficInvariant, PTL

\* cycle_start_for gives the most recent turn of the cycle, whatever the lengths
\* of the months (billing.rs:34-59).
THEOREM CycleStartIsLatestTurnAlways == Spec => []CycleStartIsLatestTurn
<1>1. TrafficInv => CycleStartIsLatestTurn
  <2> SUFFICES ASSUME TrafficInv, NEW rd \in ResetDays
               PROVE  CycleStart(rd, clock) = Max({t \in 1 .. clock : Turns(rd, t)})
    BY DEF CycleStartIsLatestTurn
  <2>1. rd \in Nat \ {0} /\ clock \in 1 .. LastDay /\ clock >= FirstDay[2]
    BY TrafficAssumption DEF TrafficInv, TrafficTypeOK, HeldTypes
  <2> QED
    BY <2>1, LatestTurn
<1> QED
  BY <1>1, TrafficInvariant, PTL

=============================================================================
