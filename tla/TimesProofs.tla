----------------------------- MODULE TimesProofs -----------------------------
(***************************************************************************)
(* Proofs about the services that do a thing at its time: the messages     *)
(* that are scheduled, the reminders of meetings, the poller's pace, the   *)
(* hours in which a campaign sends, and what follows a campaign's message. *)
(***************************************************************************)
EXTENDS MCServices, WellFoundedInduction, NaturalsInduction, FiniteSetTheorems,
        SequenceTheorems, TLAPS

-----------------------------------------------------------------------------
(* Numbers *)

\* A set of numbers has a least one.
LEMMA Least ==
    ASSUME NEW T, T \subseteq Nat, T # {}
    PROVE  \E x \in T : \A y \in T : x <= y
  <1>1. \E R : IsWellFoundedOn(R, Nat) /\ \A x, y \in Nat : y < x => <<y, x>> \in R
    <2>1. IsWellFoundedOn(OpToRel(<, Nat), Nat)
      BY NatLessThanWellFounded
    <2>2. \A x, y \in Nat : y < x => <<y, x>> \in OpToRel(<, Nat)
      BY DEF OpToRel
    <2>. WITNESS OpToRel(<, Nat)
    <2>. QED BY <2>1, <2>2
  <1>2. PICK R : IsWellFoundedOn(R, Nat) /\ \A x, y \in Nat : y < x => <<y, x>> \in R
    BY <1>1
  <1>3. PICK x \in T : \A y \in T : ~ (<<y, x>> \in R)
    BY <1>2, WFMin
  <1>4. x \in Nat /\ \A y \in T : y \in Nat /\ ~ (y < x)
    BY <1>2, <1>3
  <1>. QED BY <1>4

-----------------------------------------------------------------------------
(* The sending window *)

LEMMA ProductGrows ==
    ASSUME NEW a \in Nat, NEW b \in Nat, NEW c \in Nat, a <= b
    PROVE  a * c \in Nat /\ b * c \in Nat /\ a * c <= b * c
  <1>1. PICK k \in Nat : b = a + k
    <2>. WITNESS b - a \in Nat
    <2>. QED OBVIOUS
  <1>2. b * c = a * c + k * c
    BY <1>1
  <1>3. a * c \in Nat /\ k * c \in Nat
    BY <1>1
  <1>. QED BY <1>2, <1>3

LEMMA Divided ==
    ASSUME NEW t \in Nat, NEW d \in Nat \ {0}
    PROVE  t \div d \in Nat /\ t % d \in 0..(d - 1) /\ t = (t \div d) * d + (t % d)
  OBVIOUS

\* A time is the start of its day and a time of the day, in one way.
LEMMA DividedOnce ==
    ASSUME NEW d \in Nat \ {0}, NEW q \in Nat, NEW r \in 0..(d - 1), NEW t \in Nat, t = q * d + r
    PROVE  t \div d = q /\ t % d = r
  <1>. DEFINE p == t \div d
              s == t % d
  <1>1. p \in Nat /\ s \in 0..(d - 1) /\ t = p * d + s
    BY Divided
  <1>. HIDE DEF p, s
  <1>2. ASSUME NEW a \in Nat, NEW b \in Nat, NEW m \in 0..(d - 1), NEW n \in 0..(d - 1),
               a * d + m = b * d + n
        PROVE  ~(a < b)
    <2>. SUFFICES ASSUME a + 1 <= b PROVE FALSE
      OBVIOUS
    <2>1. (a + 1) * d <= b * d
      BY ProductGrows
    <2>2. (a + 1) * d = a * d + d /\ a * d \in Nat /\ b * d \in Nat
      OBVIOUS
    <2>. QED BY <1>2, <2>1, <2>2
  <1>3. p = q
    BY <1>1, <1>2
  <1>4. p * d = q * d /\ p * d \in Nat
    BY <1>1, <1>3
  <1>5. s = r
    BY <1>1, <1>4
  <1>. QED BY <1>3, <1>5 DEF p, s

Day(t) == t \div DayTicks
TimeOf(t) == t % DayTicks
DayOff(s, d) == ~s.weekends /\ d % 7 >= 5
Opening(s) == IF HasWindow(s) THEN s.start * HourTicks ELSE 0
Closing(s) == s.end * HourTicks

\* The hours on Monday morning that a rest at the weekend hides.
Hidden(s) == Overnight(s) /\ ~s.weekends
PassedOver(s, t) ==
    IF ~Hidden(s) \/ Day(t) # 0 THEN 0
    ELSE IF TimeOf(t) < Closing(s) THEN TimeOf(t) ELSE Closing(s)

LEMMA TickUnits ==
    /\ DayTicks \in Nat \ {0} /\ HourTicks \in Nat \ {0} /\ Hours \in Nat \ {0}
    /\ HourTicks <= DayTicks /\ Week = 7 * DayTicks
    /\ WaitUnit \in Nat \ {0} /\ MinWait \in Nat \ {0} /\ MinWait <= HourTicks
  <1>1. /\ HourTicks \in Nat \ {0} /\ Hours \in Nat \ {0} /\ WaitUnit \in Nat \ {0}
        /\ MinWait \in Nat \ {0} /\ MinWait <= HourTicks
    BY TimesAssumption
  <1>2. 1 * HourTicks <= Hours * HourTicks /\ Hours * HourTicks \in Nat
    BY <1>1, ProductGrows
  <1>. QED BY <1>1, <1>2 DEF DayTicks, Week

\* The times of a window, in ticks: it is at least an hour long, and ends with
\* the day at the latest.
LEMMA WindowTimes ==
    ASSUME NEW s \in SettingType
    PROVE  /\ s.weekends \in BOOLEAN
           /\ Opening(s) \in Nat /\ Opening(s) + HourTicks <= DayTicks
           /\ Closing(s) \in Nat
           /\ Overnight(s) => HasWindow(s) /\ Closing(s) + HourTicks <= Opening(s)
           /\ HasWindow(s) /\ ~Overnight(s) => Opening(s) + HourTicks <= Closing(s)
  <1>1. s.start \in 0..Hours /\ s.end \in 0..Hours /\ s.weekends \in BOOLEAN
    BY DEF SettingType
  <1>2. /\ HourTicks \in Nat \ {0} /\ Hours \in Nat \ {0} /\ DayTicks = Hours * HourTicks
        /\ HourTicks <= DayTicks /\ DayTicks \in Nat
    BY TickUnits DEF DayTicks
  <1>3. ASSUME NEW a \in 0..Hours, NEW b \in 0..Hours, a < b
        PROVE  a * HourTicks \in Nat /\ b * HourTicks \in Nat /\ a * HourTicks + HourTicks <= b * HourTicks
    <2>1. (a + 1) * HourTicks <= b * HourTicks
      BY <1>2, <1>3, ProductGrows
    <2>2. (a + 1) * HourTicks = a * HourTicks + HourTicks
      BY <1>2
    <2>3. a * HourTicks \in Nat /\ b * HourTicks \in Nat
      BY <1>2
    <2>. QED BY <2>1, <2>2, <2>3
  <1>4. s.start * HourTicks \in Nat /\ s.end * HourTicks \in Nat
    BY <1>1, <1>2
  <1>5. HasWindow(s) => s.start < Hours /\ s.end < Hours /\ s.start # s.end
    BY <1>1, <1>2 DEF HasWindow, Unset
  <1>6. HasWindow(s) => s.start * HourTicks + HourTicks <= DayTicks
    BY <1>1, <1>2, <1>3, <1>5
  <1>7. s.end < s.start => s.end * HourTicks + HourTicks <= s.start * HourTicks
    BY <1>1, <1>3
  <1>8. s.start < s.end => s.start * HourTicks + HourTicks <= s.end * HourTicks
    BY <1>1, <1>3
  <1>. QED BY <1>1, <1>2, <1>4, <1>5, <1>6, <1>7, <1>8 DEF Opening, Closing, Overnight

\* When a window is open, said of the day and the time of the day.
LEMMA OpenIs ==
    ASSUME NEW s \in SettingType, NEW t \in 0..(Week - 1)
    PROVE  /\ Day(t) \in 0..6 /\ TimeOf(t) \in 0..(DayTicks - 1) /\ t = Day(t) * DayTicks + TimeOf(t)
           /\ DayAllowed(s, t) <=> ~DayOff(s, Day(t))
           /\ WindowOpen(s, t) <=>
                /\ ~DayOff(s, Day(t))
                /\ Overnight(s) => TimeOf(t) >= Opening(s) \/ TimeOf(t) < Closing(s)
                /\ HasWindow(s) /\ ~Overnight(s) => Opening(s) <= TimeOf(t) /\ TimeOf(t) < Closing(s)
  <1>u. DayTicks \in Nat \ {0} /\ Week = 7 * DayTicks /\ HourTicks \in Nat \ {0}
    BY TickUnits
  <1>1. t \in Nat /\ t < 7 * DayTicks
    BY <1>u
  <1>2. Day(t) \in Nat /\ TimeOf(t) \in 0..(DayTicks - 1) /\ t = Day(t) * DayTicks + TimeOf(t)
    BY <1>u, <1>1, Divided DEF Day, TimeOf
  <1>3. Day(t) \in 0..6
    <2>. SUFFICES ASSUME 7 <= Day(t) PROVE FALSE
      BY <1>2
    <2>1. 7 * DayTicks <= Day(t) * DayTicks /\ Day(t) * DayTicks \in Nat
      BY <1>u, <1>2, ProductGrows
    <2>. QED BY <2>1, <1>1, <1>2, <1>u
  <1>4. DayAllowed(s, t) <=> ~DayOff(s, Day(t))
    BY <1>3, WindowTimes DEF DayAllowed, DayOff, Day
  <1>w. /\ Opening(s) \in Nat /\ Closing(s) \in Nat
        /\ Overnight(s) => HasWindow(s) /\ Closing(s) + HourTicks <= Opening(s)
        /\ HasWindow(s) /\ ~Overnight(s) => Opening(s) + HourTicks <= Closing(s)
    BY WindowTimes
  <1>5. ASSUME HasWindow(s)
        PROVE  Inside(s, t) <=> IF Overnight(s) THEN TimeOf(t) >= Opening(s) \/ TimeOf(t) < Closing(s)
                                ELSE Opening(s) <= TimeOf(t) /\ TimeOf(t) < Closing(s)
    <2>1. s.start * HourTicks = Opening(s) /\ s.end * HourTicks = Closing(s) /\ t % DayTicks = TimeOf(t)
      BY <1>5 DEF Opening, Closing, TimeOf
    <2>2. Opening(s) < Closing(s) <=> ~Overnight(s)
      BY <1>5, <1>w, <1>u
    <2>. QED BY <2>1, <2>2 DEF Inside
  <1>6. WindowOpen(s, t) <=> ~DayOff(s, Day(t)) /\ (HasWindow(s) => Inside(s, t))
    BY <1>4 DEF WindowOpen
  <1>. QED BY <1>2, <1>3, <1>4, <1>5, <1>6, <1>w

\* The start that the gate defers to: k days from today, where the days before
\* are off, and today is or its start has gone by.
Waited(s, t, k) ==
    /\ k \in 0..8
    /\ TimeOf(t) < k * DayTicks + Opening(s)
    /\ ~DayOff(s, Day(t) + k)
    /\ \A j \in 1..(k - 1) : DayOff(s, Day(t) + j)
    /\ DayOff(s, Day(t)) \/ k = 0 \/ Opening(s) <= TimeOf(t)

LEMMA NextIs ==
    ASSUME NEW s \in SettingType, NEW t \in 0..(Week - 1)
    PROVE  \E k \in 0..8 : Waited(s, t, k) /\ NextWindow(s, t) = (Day(t) + k) * DayTicks + Opening(s)
  <1>u. DayTicks \in Nat \ {0} /\ HourTicks \in Nat \ {0} /\ Week \in Nat
    BY TickUnits
  <1>w. Opening(s) \in 0..(DayTicks - 1) /\ s.weekends \in BOOLEAN
    BY <1>u, WindowTimes
  <1>t. t \in Nat /\ Day(t) \in 0..6 /\ TimeOf(t) \in 0..(DayTicks - 1) /\ t = Day(t) * DayTicks + TimeOf(t)
    BY <1>u, OpenIs
  <1>. DEFINE StartAfter(d) == (Day(t) + d) * DayTicks + Opening(s)
              starts == {StartAfter(d) : d \in 0..8}
              later == {u \in starts : DayAllowed(s, u) /\ u > t}
  <1>1. \A d \in 0..8 : StartAfter(d) \in Nat /\ StartAfter(d) = Day(t) * DayTicks + d * DayTicks + Opening(s)
                        /\ d * DayTicks \in Nat /\ Day(t) * DayTicks \in Nat
    <2>. TAKE d \in 0..8
    <2>1. d * DayTicks \in Nat /\ Day(t) * DayTicks \in Nat
      BY <1>u, <1>t
    <2>2. (Day(t) + d) * DayTicks = Day(t) * DayTicks + d * DayTicks
      BY <1>u, <1>t
    <2>. QED BY <2>1, <2>2, <1>w
  <1>2. \A d \in 0..8 : DayAllowed(s, StartAfter(d)) <=> ~DayOff(s, Day(t) + d)
    <2>. TAKE d \in 0..8
    <2>1. Day(t) + d \in Nat /\ StartAfter(d) \in Nat
      BY <1>1, <1>t
    <2>2. StartAfter(d) \div DayTicks = Day(t) + d
      BY <2>1, <1>u, <1>w, DividedOnce
    <2>. QED BY <2>2, <2>1, <1>w DEF DayAllowed, DayOff
  <1>3. \A d \in 1..8 : StartAfter(d) > t
    <2>. TAKE d \in 1..8
    <2>1. 1 * DayTicks <= d * DayTicks
      BY <1>u, ProductGrows
    <2>. QED BY <2>1, <1>1, <1>t, <1>u, <1>w
  <1>4. \A c, d \in 0..8 : c < d => StartAfter(c) < StartAfter(d)
    <2>. TAKE c, d \in 0..8
    <2>. HAVE c < d
    <2>1. (c + 1) * DayTicks <= d * DayTicks
      BY <1>u, ProductGrows
    <2>2. (c + 1) * DayTicks = c * DayTicks + DayTicks
      BY <1>u
    <2>. QED BY <2>1, <2>2, <1>1, <1>u, <1>w
  <1>5. \E d \in 1..8 : ~DayOff(s, Day(t) + d)
    <2>1. ~DayOff(s, Day(t) + 1) \/ ~DayOff(s, Day(t) + 2) \/ ~DayOff(s, Day(t) + 3)
      BY <1>t DEF DayOff
    <2>. QED BY <2>1
  <1>. HIDE DEF StartAfter
  <1>6. later \subseteq Nat /\ later # {}
    BY <1>1, <1>2, <1>3, <1>5
  <1>7. PICK u \in later : \A o \in later : u <= o
    BY <1>6, Least
  <1>8. NextWindow(s, t) = CHOOSE v \in later : \A o \in later : v <= o
    BY DEF NextWindow, StartAfter, Opening, Day
  <1>9. /\ NextWindow(s, t) \in later /\ \A o \in later : NextWindow(s, t) <= o
    BY <1>7, <1>8
  <1>10. PICK k \in 0..8 : NextWindow(s, t) = StartAfter(k)
    BY <1>9
  <1>11. StartAfter(k) > t /\ ~DayOff(s, Day(t) + k) /\ \A o \in later : StartAfter(k) <= o
    BY <1>2, <1>9, <1>10
  <1>12. TimeOf(t) < k * DayTicks + Opening(s)
    BY <1>1, <1>11, <1>t, <1>w, <1>u
  <1>13. \A j \in 0..(k - 1) : StartAfter(j) \notin later
    <2>. TAKE j \in 0..(k - 1)
    <2>1. j \in 0..8 /\ j < k
      OBVIOUS
    <2>2. StartAfter(j) < StartAfter(k) /\ StartAfter(j) \in Nat /\ StartAfter(k) \in Nat
      BY <2>1, <1>4, <1>1
    <2>. QED BY <2>2, <1>11
  <1>14. \A j \in 1..(k - 1) : DayOff(s, Day(t) + j)
    <2>. TAKE j \in 1..(k - 1)
    <2>1. j \in 0..8 /\ j \in 1..8 /\ j \in 0..(k - 1)
      OBVIOUS
    <2>. QED BY <2>1, <1>13, <1>2, <1>3
  <1>15. DayOff(s, Day(t)) \/ k = 0 \/ Opening(s) <= TimeOf(t)
    <2>. SUFFICES ASSUME ~DayOff(s, Day(t)), k # 0 PROVE Opening(s) <= TimeOf(t)
      OBVIOUS
    <2>1. 0 \in 0..8 /\ 0 \in 0..(k - 1) /\ Day(t) + 0 = Day(t)
      BY <1>t
    <2>2. StartAfter(0) \notin later /\ DayAllowed(s, StartAfter(0))
      BY <2>1, <1>13, <1>2
    <2>3. ~(StartAfter(0) > t) /\ StartAfter(0) \in starts
      BY <2>1, <2>2
    <2>4. StartAfter(0) = Day(t) * DayTicks + Opening(s)
      BY <2>1 DEF StartAfter
    <2>. QED BY <2>3, <2>4, <1>1, <1>t, <1>w, <1>u
  <1>. QED BY <1>10, <1>11, <1>12, <1>14, <1>15 DEF Waited, StartAfter

\* The wait is no longer than to the next start, or the shortest.
LEMMA WaitIs ==
    ASSUME NEW u \in Nat, NEW t \in Nat, t < u
    PROVE  /\ WaitUntil(u, t) \in Nat /\ WaitUntil(u, t) >= 1
           /\ WaitUntil(u, t) <= (u - t) + MinWait - 1
  <1>u. WaitUnit \in Nat \ {0} /\ MinWait \in Nat \ {0}
    BY TickUnits
  <1>. DEFINE gap == u - t
              cut == (gap \div WaitUnit) * WaitUnit
  <1>1. gap \in Nat /\ gap >= 1
    OBVIOUS
  <1>. HIDE DEF gap
  <1>2. gap \div WaitUnit \in Nat /\ gap % WaitUnit \in 0..(WaitUnit - 1) /\ gap = cut + (gap % WaitUnit)
    BY <1>u, <1>1, Divided
  <1>3. cut \in Nat
    BY <1>2, <1>u
  <1>4. cut <= gap
    BY <1>2, <1>3
  <1>5. WaitUntil(u, t) = IF cut < MinWait THEN MinWait ELSE cut
    BY DEF WaitUntil, gap
  <1>. HIDE DEF cut
  <1>6. /\ WaitUntil(u, t) \in Nat /\ WaitUntil(u, t) >= 1 /\ WaitUntil(u, t) <= gap + MinWait - 1
    BY <1>1, <1>3, <1>4, <1>5, <1>u
  <1>. QED BY <1>6 DEF gap

LEMMA DayIs ==
    ASSUME NEW q \in Nat, NEW r \in 0..(DayTicks - 1), NEW n \in Nat, n = q * DayTicks + r
    PROVE  Day(n) = q /\ TimeOf(n) = r
  BY TickUnits, DividedOnce DEF Day, TimeOf

\* The next tick, and the day it begins.
LEMMA TickIs ==
    ASSUME NEW t \in 0..(Week - 1), NEW n, n = (t + 1) % Week
    PROVE  /\ n \in 0..(Week - 1)
           /\ TimeOf(t) + 1 < DayTicks => Day(n) = Day(t) /\ TimeOf(n) = TimeOf(t) + 1
           /\ TimeOf(t) + 1 >= DayTicks =>
                /\ TimeOf(t) + 1 = DayTicks /\ TimeOf(n) = 0
                /\ Day(n) = IF Day(t) = 6 THEN 0 ELSE Day(t) + 1
  <1>u. DayTicks \in Nat \ {0} /\ HourTicks \in Nat \ {0} /\ Week = 7 * DayTicks /\ Week \in Nat \ {0}
    BY TickUnits
  <1>t. t \in Nat /\ Day(t) \in 0..6 /\ TimeOf(t) \in 0..(DayTicks - 1) /\ t = Day(t) * DayTicks + TimeOf(t)
    <2>. DEFINE s == [start |-> 0, end |-> 0, weekends |-> TRUE]
    <2>1. s \in SettingType
      BY TickUnits DEF SettingType
    <2>. QED BY <2>1, <1>u, OpenIs
  <1>1. n \in 0..(Week - 1)
    BY <1>t, <1>u, Divided
  <1>2. CASE TimeOf(t) + 1 < DayTicks
    <2>1. Day(t) * DayTicks <= 6 * DayTicks /\ Day(t) * DayTicks \in Nat
      BY <1>t, <1>u, ProductGrows
    <2>2. t + 1 \in 0..(Week - 1) /\ t + 1 = 0 * Week + (t + 1)
      BY <2>1, <1>2, <1>t, <1>u
    <2>3. n = t + 1
      BY <2>2, <1>u, DividedOnce
    <2>4. n = Day(t) * DayTicks + (TimeOf(t) + 1) /\ TimeOf(t) + 1 \in 0..(DayTicks - 1) /\ n \in Nat
      BY <2>3, <2>1, <1>2, <1>t, <1>u
    <2>. DEFINE q == Day(t)
                r == TimeOf(t) + 1
    <2>5. n \in Nat /\ q \in Nat /\ r \in 0..(DayTicks - 1) /\ n = q * DayTicks + r
      BY <2>4, <1>t
    <2>. HIDE DEF q, r
    <2>7. Day(n) = q /\ TimeOf(n) = r
      BY <2>5, DayIs
    <2>. QED BY <2>7, <1>1, <1>2, <1>t, <1>u DEF q, r
  <1>3. CASE TimeOf(t) + 1 >= DayTicks
    <2>1. TimeOf(t) + 1 = DayTicks
      BY <1>3, <1>t, <1>u
    <2>2. (Day(t) + 1) * DayTicks = Day(t) * DayTicks + DayTicks /\ Day(t) * DayTicks \in Nat
      BY <1>t, <1>u
    <2>3. t + 1 = (Day(t) + 1) * DayTicks /\ t + 1 \in Nat
      BY <2>1, <2>2, <1>t, <1>u
    <2>4. CASE Day(t) = 6
      <3>1. t + 1 = 1 * Week + 0 /\ 0 \in 0..(Week - 1)
        BY <2>3, <2>4, <1>u
      <3>2. n = 0
        BY <3>1, <2>3, <1>u, DividedOnce
      <3>3. n = 0 * DayTicks + 0 /\ 0 \in 0..(DayTicks - 1)
        BY <3>2, <1>u
      <3>4. n \div DayTicks = 0 /\ n % DayTicks = 0
        BY <3>2, <3>3, <1>u, DividedOnce
      <3>5. Day(n) = 0 /\ TimeOf(n) = 0
        BY <3>4 DEF Day, TimeOf
      <3>. QED BY <3>5, <2>1, <2>4, <1>1, <1>3, <1>u
    <2>5. CASE Day(t) # 6
      <3>1. (Day(t) + 1) * DayTicks <= 6 * DayTicks
        BY <2>5, <1>t, <1>u, ProductGrows
      <3>2. t + 1 \in 0..(Week - 1) /\ t + 1 = 0 * Week + (t + 1)
        BY <3>1, <2>3, <1>t, <1>u
      <3>3. n = t + 1
        BY <3>2, <1>u, DividedOnce
      <3>4. n = (Day(t) + 1) * DayTicks + 0 /\ 0 \in 0..(DayTicks - 1) /\ n \in Nat /\ Day(t) + 1 \in Nat
        BY <3>3, <2>3, <1>t, <1>u
      <3>. DEFINE q == Day(t) + 1
      <3>5. q \in Nat /\ n \in Nat /\ n = q * DayTicks + 0
        BY <3>4
      <3>. HIDE DEF q
      <3>6. 0 \in 0..(DayTicks - 1)
        BY <1>u
      <3>7. Day(n) = q /\ TimeOf(n) = 0
        BY <3>5, <3>6, DayIs
      <3>. QED BY <3>7, <2>1, <2>5, <1>1, <1>3, <1>t, <1>u DEF q
    <2>. QED BY <2>4, <2>5
  <1>. QED BY <1>2, <1>3, <1>t, <1>u

\* Until the start that was waited for: the message comes at most the shortest
\* wait after it, no window is open, and only the hidden hours go by.
Before(k) ==
    /\ Waited(wset, wnow, k)
    /\ wmsg.left + TimeOf(wnow) <= k * DayTicks + Opening(wset) + MinWait - 1
    /\ \/ ~WindowOpen(wset, wnow)
       \/ Hidden(wset) /\ Day(wnow) = 0 /\ TimeOf(wnow) < Closing(wset)
    /\ wmissed <= PassedOver(wset, wnow)

\* From the start on, for less than the shortest wait.
After ==
    /\ ~DayOff(wset, Day(wnow)) /\ Opening(wset) <= TimeOf(wnow)
    /\ wmsg.left + TimeOf(wnow) <= Opening(wset) + MinWait - 1
    /\ wmissed + Opening(wset) <= TimeOf(wnow) + (IF Hidden(wset) THEN Closing(wset) ELSE 0)

WindowShape ==
    /\ wnow \in 0..(Week - 1) /\ wset \in SettingType /\ wmissed \in Nat
    /\ wmsg \in [at : {"none", "due", "waits", "sent"}, left : Nat, edited : BOOLEAN]
DeferredInv ==
    /\ wmsg.at = "waits" => wmsg.left >= 1
    /\ wmsg.edited => wmissed = 0
    /\ wmsg.at = "waits" /\ ~wmsg.edited => After \/ \E k \in 0..8 : Before(k)
    /\ wmsg.at = "due" /\ ~wmsg.edited => wmissed = 0 \/ After \/ \E k \in 0..8 : Before(k)
WindowInv == WindowShape /\ DeferredInv /\ WindowUsed

LEMMA WindowInit == WInit => WindowInv
  <1>. SUFFICES ASSUME WInit PROVE WindowInv
    OBVIOUS
  <1>u. MinWait \in Nat \ {0} /\ DayTicks \in Nat \ {0} /\ Week = 7 * DayTicks
    BY TickUnits
  <1>1. wnow = 0 /\ wset \in SettingType /\ wmissed = 0 /\ wmsg = [at |-> "none", left |-> 0, edited |-> FALSE]
    BY DEF WInit, NoMessage
  <1>2. WindowShape /\ DeferredInv
    BY <1>1, <1>u DEF WindowShape, DeferredInv
  <1>3. Closing(wset) \in Nat
    BY <1>1, WindowTimes
  <1>4. WindowUsed
    BY <1>1, <1>3, <1>u DEF WindowUsed, Closing
  <1>. QED BY <1>2, <1>4 DEF WindowInv

\* What is known of the times, at once.
LEMMA TimesKnown ==
    ASSUME NEW s \in SettingType, NEW t \in 0..(Week - 1)
    PROVE  /\ DayTicks \in Nat \ {0} /\ HourTicks \in Nat \ {0} /\ HourTicks <= DayTicks
           /\ MinWait \in Nat \ {0} /\ MinWait <= HourTicks
           /\ Opening(s) \in Nat /\ Opening(s) + HourTicks <= DayTicks /\ Closing(s) \in Nat
           /\ Overnight(s) => HasWindow(s) /\ Closing(s) + HourTicks <= Opening(s)
           /\ HasWindow(s) /\ ~Overnight(s) => Opening(s) + HourTicks <= Closing(s)
           /\ ~HasWindow(s) => Opening(s) = 0
           /\ Hidden(s) <=> Overnight(s) /\ ~s.weekends
           /\ Day(t) \in 0..6 /\ TimeOf(t) \in 0..(DayTicks - 1)
           /\ WindowOpen(s, t) <=>
                /\ ~DayOff(s, Day(t))
                /\ Overnight(s) => TimeOf(t) >= Opening(s) \/ TimeOf(t) < Closing(s)
                /\ HasWindow(s) /\ ~Overnight(s) =>
                     Opening(s) <= TimeOf(t) /\ TimeOf(t) < Closing(s)
  <1>2. ~HasWindow(s) => Opening(s) = 0
    BY DEF Opening
  <1>3. Hidden(s) <=> Overnight(s) /\ ~s.weekends
    BY DEF Hidden
  <1>. QED BY <1>2, <1>3, TickUnits, WindowTimes, OpenIs

LEMMA PassedOverIs ==
    ASSUME NEW s \in SettingType, NEW t \in 0..(Week - 1)
    PROVE  /\ PassedOver(s, t) \in Nat
           /\ PassedOver(s, t) <= (IF Hidden(s) THEN Closing(s) ELSE 0)
           /\ Hidden(s) /\ Day(t) = 0 =>
                PassedOver(s, t) = IF TimeOf(t) < Closing(s) THEN TimeOf(t) ELSE Closing(s)
           /\ ~Hidden(s) \/ Day(t) # 0 => PassedOver(s, t) = 0
  BY TimesKnown DEF PassedOver

\* After the start the gate is open.
LEMMA AfterOpen ==
    ASSUME WindowShape, After
    PROVE  WindowOpen(wset, wnow)
  <1>l. wmsg.left \in Nat
    BY DEF WindowShape
  <1>t. wset \in SettingType /\ wnow \in 0..(Week - 1)
    BY DEF WindowShape
  <1>. QED BY <1>l, <1>t, TimesKnown DEF After

\* A tick before the start: it is still to come, or is there.
LEMMA BeforeTick ==
    ASSUME WindowShape, wmsg.left >= 1, NEW k \in 0..8, Before(k), WindowShape',
           wnow' = (wnow + 1) % Week, wset' = wset, wmsg'.left = wmsg.left - 1,
           wmissed' = IF WindowOpen(wset, wnow) THEN wmissed + 1 ELSE wmissed
    PROVE  After' \/ \E j \in 0..8 : Before(j)'
  <1>. DEFINE s == wset
              o == Opening(s)
              c == Closing(s)
              d == Day(wnow)
              t == TimeOf(wnow)
              n == wnow'
  <1>t. /\ s \in SettingType /\ wnow \in 0..(Week - 1) /\ n \in 0..(Week - 1) /\ n = (wnow + 1) % Week
        /\ wmissed \in Nat /\ wmissed' \in Nat /\ wmsg.left \in Nat /\ wmsg'.left \in Nat
    BY DEF WindowShape
  <1>k. /\ DayTicks \in Nat \ {0} /\ HourTicks \in Nat \ {0} /\ HourTicks <= DayTicks
        /\ MinWait \in Nat \ {0} /\ MinWait <= HourTicks
        /\ o \in Nat /\ o + HourTicks <= DayTicks /\ c \in Nat
        /\ Overnight(s) => HasWindow(s) /\ c + HourTicks <= o
        /\ HasWindow(s) /\ ~Overnight(s) => o + HourTicks <= c
        /\ ~HasWindow(s) => o = 0
        /\ Hidden(s) <=> Overnight(s) /\ ~s.weekends
        /\ d \in 0..6 /\ t \in 0..(DayTicks - 1)
        /\ WindowOpen(s, wnow) <=>
             /\ ~DayOff(s, d)
             /\ Overnight(s) => t >= o \/ t < c
             /\ HasWindow(s) /\ ~Overnight(s) => o <= t /\ t < c
    BY <1>t, TimesKnown
  <1>n. /\ Day(n) \in 0..6 /\ TimeOf(n) \in 0..(DayTicks - 1)
        /\ WindowOpen(s, n) <=>
             /\ ~DayOff(s, Day(n))
             /\ Overnight(s) => TimeOf(n) >= o \/ TimeOf(n) < c
             /\ HasWindow(s) /\ ~Overnight(s) => o <= TimeOf(n) /\ TimeOf(n) < c
    BY <1>t, TimesKnown
  <1>m. /\ t + 1 < DayTicks => Day(n) = d /\ TimeOf(n) = t + 1
        /\ t + 1 >= DayTicks => /\ t + 1 = DayTicks /\ TimeOf(n) = 0
                                /\ Day(n) = IF d = 6 THEN 0 ELSE d + 1
    BY <1>t, TickIs
  <1>p. /\ PassedOver(s, wnow) \in Nat /\ PassedOver(s, n) \in Nat
        /\ PassedOver(s, n) <= (IF Hidden(s) THEN c ELSE 0)
        /\ Hidden(s) /\ d = 0 => PassedOver(s, wnow) = IF t < c THEN t ELSE c
        /\ ~Hidden(s) \/ d # 0 => PassedOver(s, wnow) = 0
        /\ Hidden(s) /\ Day(n) = 0 => PassedOver(s, n) = IF TimeOf(n) < c THEN TimeOf(n) ELSE c
        /\ ~Hidden(s) \/ Day(n) # 0 => PassedOver(s, n) = 0
    BY <1>t, PassedOverIs
  <1>b. /\ t < k * DayTicks + o /\ ~DayOff(s, d + k)
        /\ \A j \in 1..(k - 1) : DayOff(s, d + j)
        /\ DayOff(s, d) \/ k = 0 \/ o <= t
        /\ wmsg.left + t <= k * DayTicks + o + MinWait - 1
        /\ ~WindowOpen(s, wnow) \/ (Hidden(s) /\ d = 0 /\ t < c)
        /\ wmissed <= PassedOver(s, wnow)
    BY DEF Before, Waited
  <1>z. k * DayTicks \in Nat /\ (k = 0 => k * DayTicks = 0) /\ (k >= 1 => k * DayTicks >= DayTicks)
    <2>1. k * DayTicks \in Nat /\ (k >= 1 => 1 * DayTicks <= k * DayTicks)
      BY <1>k, ProductGrows
    <2>. QED BY <2>1, <1>k
  <1>a. After' <=> /\ ~DayOff(s, Day(n)) /\ o <= TimeOf(n)
                   /\ wmsg'.left + TimeOf(n) <= o + MinWait - 1
                   /\ wmissed' + o <= TimeOf(n) + (IF Hidden(s) THEN c ELSE 0)
    BY DEF After
  <1>e. \A j : Before(j)' <=>
          /\ Waited(s, n, j)
          /\ wmsg'.left + TimeOf(n) <= j * DayTicks + o + MinWait - 1
          /\ ~WindowOpen(s, n) \/ (Hidden(s) /\ Day(n) = 0 /\ TimeOf(n) < c)
          /\ wmissed' <= PassedOver(s, n)
    BY DEF Before
  <1>w. \A j \in 0..8 : Waited(s, n, j) <=>
          /\ TimeOf(n) < j * DayTicks + o
          /\ ~DayOff(s, Day(n) + j)
          /\ \A i \in 1..(j - 1) : DayOff(s, Day(n) + i)
          /\ DayOff(s, Day(n)) \/ j = 0 \/ o <= TimeOf(n)
    BY DEF Waited
  <1>. HIDE DEF s, o, c, d, t, n
  \* What is missed is so in the hidden hours.
  <1>1. wmissed' <= wmissed + 1 /\ (wmissed' # wmissed => Hidden(s) /\ d = 0 /\ t < c)
    BY <1>b, <1>t DEF s
  <1>2. CASE t + 1 < DayTicks
    <2>1. Day(n) = d /\ TimeOf(n) = t + 1
      BY <1>2, <1>m
    <2>2. wmissed' <= PassedOver(s, n)
      BY <2>1, <1>1, <1>b, <1>p, <1>t, <1>k
    <2>3. CASE k = 0 /\ t + 1 = o
      <3>1. After'
        BY <2>1, <2>2, <2>3, <1>a, <1>b, <1>p, <1>t, <1>k, <1>z
      <3>. QED BY <3>1
    <2>4. CASE ~(k = 0 /\ t + 1 = o)
      <3>1. t + 1 < k * DayTicks + o
        BY <2>4, <1>2, <1>b, <1>k, <1>z
      <3>2. Waited(s, n, k)
        BY <3>1, <2>1, <1>b, <1>k, <1>w
      <3>3. ~WindowOpen(s, n) \/ (Hidden(s) /\ Day(n) = 0 /\ TimeOf(n) < c)
        BY <2>1, <3>1, <1>b, <1>k, <1>n, <1>z
      <3>4. wmsg'.left + TimeOf(n) <= k * DayTicks + o + MinWait - 1
        BY <2>1, <1>b, <1>t, <1>k, <1>z
      <3>. QED BY <3>2, <3>3, <3>4, <2>2, <1>e
    <2>. QED BY <2>3, <2>4
  <1>3. CASE t + 1 >= DayTicks
    <2>1. TimeOf(n) = 0 /\ Day(n) = (IF d = 6 THEN 0 ELSE d + 1) /\ t + 1 = DayTicks
      BY <1>3, <1>m
    <2>2. k >= 1
      BY <2>1, <1>b, <1>k, <1>z
    <2>. DEFINE j == k - 1
    <2>3. j \in 0..8 /\ k = j + 1 /\ j * DayTicks \in Nat /\ k * DayTicks = j * DayTicks + DayTicks
      <3>1. j \in Nat /\ j \in 0..8 /\ k = j + 1
        BY <2>2
      <3>2. (j + 1) * DayTicks = j * DayTicks + DayTicks /\ j * DayTicks \in Nat
        BY <3>1, <1>k
      <3>. QED BY <3>1, <3>2
    <2>. HIDE DEF j
    <2>4. \A i \in Nat : DayOff(s, Day(n) + i) <=> DayOff(s, d + (i + 1))
      BY <2>1, <1>k DEF DayOff
    <2>5. DayOff(s, d) \/ ~Overnight(s)
      BY <2>1, <2>2, <1>b, <1>k
    <2>6. wmissed' = wmissed /\ wmissed = 0 /\ wmissed' <= PassedOver(s, n)
      <3>1. ~Hidden(s) \/ d # 0
        BY <2>5, <1>k DEF DayOff
      <3>. QED BY <3>1, <1>1, <1>b, <1>p, <1>t
    <2>7. ~DayOff(s, Day(n) + j)
      BY <2>3, <2>4, <1>b
    <2>8. CASE j = 0 /\ o = 0
      <3>1. ~DayOff(s, Day(n))
        BY <2>7, <2>8, <1>n
      <3>2. After'
        BY <3>1, <2>1, <2>3, <2>6, <2>8, <1>a, <1>b, <1>t, <1>k
      <3>. QED BY <3>2
    <2>9. CASE ~(j = 0 /\ o = 0)
      <3>1. 0 < j * DayTicks + o
        <4>1. j >= 1 => 1 * DayTicks <= j * DayTicks
          BY <2>3, <1>k, ProductGrows
        <4>. QED BY <4>1, <2>3, <2>9, <1>k
      <3>2. \A i \in 1..(j - 1) : DayOff(s, Day(n) + i)
        <4>. TAKE i \in 1..(j - 1)
        <4>1. i + 1 \in 1..(k - 1) /\ i \in Nat
          BY <2>3
        <4>. QED BY <4>1, <2>4, <1>b
      <3>3. j # 0 => DayOff(s, Day(n))
        <4>. SUFFICES ASSUME j # 0 PROVE DayOff(s, Day(n))
          OBVIOUS
        <4>1. 1 \in 1..(k - 1) /\ 0 \in Nat /\ Day(n) + 0 = Day(n) /\ 0 + 1 = 1
          BY <2>3, <1>n
        <4>2. DayOff(s, d + (0 + 1))
          BY <4>1, <1>b
        <4>. QED BY <4>1, <4>2, <2>4
      <3>4. Waited(s, n, j)
        BY <3>1, <3>2, <3>3, <2>1, <2>3, <2>7, <1>w
      <3>5. ~WindowOpen(s, n) \/ (Hidden(s) /\ Day(n) = 0 /\ TimeOf(n) < c)
        <4>1. CASE DayOff(s, Day(n))
          BY <4>1, <1>n
        <4>2. CASE ~DayOff(s, Day(n))
          <5>1. j = 0 /\ o > 0 /\ TimeOf(n) < o /\ (~Overnight(s) \/ (~s.weekends /\ Day(n) = 0))
            BY <4>2, <3>3, <2>1, <2>5, <2>9, <1>k DEF DayOff
          <5>. QED BY <5>1, <1>n, <1>k
        <4>. QED BY <4>1, <4>2
      <3>6. wmsg'.left + TimeOf(n) <= j * DayTicks + o + MinWait - 1
        BY <2>1, <2>3, <1>b, <1>t, <1>k
      <3>. QED BY <2>3, <2>6, <3>4, <3>5, <3>6, <1>e
    <2>. QED BY <2>8, <2>9
  <1>. QED BY <1>2, <1>3, <1>k

\* A tick after the start is in the hour that begins with it.
LEMMA AfterTick ==
    ASSUME WindowShape, wmsg.left >= 1, After, WindowShape',
           wnow' = (wnow + 1) % Week, wset' = wset, wmsg'.left = wmsg.left - 1,
           wmissed' = IF WindowOpen(wset, wnow) THEN wmissed + 1 ELSE wmissed
    PROVE  After'
  <1>t. /\ wset \in SettingType /\ wnow \in 0..(Week - 1)
        /\ wmissed \in Nat /\ wmissed' \in Nat /\ wmsg.left \in Nat /\ wmsg'.left \in Nat
    BY DEF WindowShape
  <1>k. /\ DayTicks \in Nat /\ HourTicks \in Nat /\ MinWait \in Nat /\ MinWait <= HourTicks
        /\ Opening(wset) \in Nat /\ Opening(wset) + HourTicks <= DayTicks /\ Closing(wset) \in Nat
        /\ TimeOf(wnow) \in Nat
    BY <1>t, TimesKnown
  <1>1. /\ ~DayOff(wset, Day(wnow)) /\ Opening(wset) <= TimeOf(wnow)
        /\ wmsg.left + TimeOf(wnow) <= Opening(wset) + MinWait - 1
        /\ wmissed + Opening(wset) <= TimeOf(wnow) + (IF Hidden(wset) THEN Closing(wset) ELSE 0)
    BY DEF After
  <1>2. TimeOf(wnow) + 1 < DayTicks
    BY <1>1, <1>t, <1>k
  <1>3. Day(wnow') = Day(wnow) /\ TimeOf(wnow') = TimeOf(wnow) + 1
    BY <1>2, <1>t, TickIs
  <1>4. /\ ~DayOff(wset, Day(wnow')) /\ Opening(wset) <= TimeOf(wnow')
        /\ wmsg'.left + TimeOf(wnow') <= Opening(wset) + MinWait - 1
        /\ wmissed' + Opening(wset) <= TimeOf(wnow') + (IF Hidden(wset) THEN Closing(wset) ELSE 0)
    BY <1>1, <1>3, <1>t, <1>k
  <1>. QED BY <1>4 DEF After

\* What the two say of the ticks missed.
LEMMA MissedFew ==
    ASSUME NEW s \in SettingType, NEW t \in 0..(Week - 1), NEW m \in Nat,
           \/ m <= PassedOver(s, t)
           \/ /\ TimeOf(t) <= Opening(s) + MinWait - 1
              /\ m + Opening(s) <= TimeOf(t) + (IF Hidden(s) THEN Closing(s) ELSE 0)
    PROVE  m < MinWait + (IF Overnight(s) /\ ~s.weekends THEN s.end * HourTicks ELSE 0)
  <1>k. MinWait \in Nat \ {0} /\ Opening(s) \in Nat /\ Closing(s) \in Nat /\ TimeOf(t) \in Nat
    BY TimesKnown
  <1>p. /\ PassedOver(s, t) \in Nat
        /\ PassedOver(s, t) <= (IF Hidden(s) THEN Closing(s) ELSE 0)
    BY PassedOverIs
  <1>1. m < MinWait + (IF Hidden(s) THEN Closing(s) ELSE 0)
    BY <1>k, <1>p
  <1>. QED BY <1>1 DEF Hidden, Closing

LEMMA WindowKept == WindowInv /\ [WNext]_wvars => WindowInv'
  <1>. SUFFICES ASSUME WindowInv, [WNext]_wvars PROVE WindowInv'
    OBVIOUS
  <1>t. /\ wset \in SettingType /\ wnow \in 0..(Week - 1) /\ wmissed \in Nat
        /\ wmsg \in [at : {"none", "due", "waits", "sent"}, left : Nat, edited : BOOLEAN]
    BY DEF WindowInv, WindowShape
  <1>l. /\ wmsg.at \in {"none", "due", "waits", "sent"} /\ wmsg.left \in Nat /\ wmsg.edited \in BOOLEAN
        /\ wmsg = [at |-> wmsg.at, left |-> wmsg.left, edited |-> wmsg.edited]
    BY <1>t
  <1>d. WindowShape /\ DeferredInv /\ WindowUsed
    BY DEF WindowInv
  <1>u. DayTicks \in Nat \ {0} /\ MinWait \in Nat \ {0} /\ Week \in Nat \ {0}
    BY TickUnits
  <1>z. \A x \in SettingType : 0 < MinWait + (IF Overnight(x) /\ ~x.weekends THEN x.end * HourTicks ELSE 0)
    <2>1. \A x \in SettingType : Closing(x) \in Nat
      BY WindowTimes
    <2>. QED BY <2>1, <1>u DEF Closing
  <1>1. CASE Made
    <2>1. /\ wmsg' = [at |-> "due", left |-> 0, edited |-> FALSE] /\ wmissed' = 0
          /\ UNCHANGED <<wnow, wset>>
      BY <1>1 DEF Made, NoMessage
    <2>2. WindowShape' /\ DeferredInv'
      BY <2>1, <1>t DEF WindowShape, DeferredInv
    <2>3. WindowUsed'
      BY <2>1, <1>t, <1>z DEF WindowUsed
    <2>. QED BY <2>2, <2>3 DEF WindowInv
  <1>2. CASE AsksGate
    <2>1. wmsg.at = "due" /\ UNCHANGED <<wnow, wset, wmissed>>
      BY <1>2 DEF AsksGate
    <2>2. WindowUsed'
      BY <2>1, <1>d DEF WindowUsed
    <2>3. CASE WindowOpen(wset, wnow)
      <3>1. wmsg' = [at |-> "sent", left |-> 0, edited |-> wmsg.edited]
        BY <2>3, <1>2, <1>l DEF AsksGate
      <3>2. WindowShape' /\ DeferredInv'
        BY <3>1, <2>1, <1>t, <1>l, <1>d DEF WindowShape, DeferredInv
      <3>. QED BY <2>2, <3>2 DEF WindowInv
    <2>4. CASE ~WindowOpen(wset, wnow)
      <3>. DEFINE u == NextWindow(wset, wnow)
                  w == WaitUntil(u, wnow)
      <3>1. wmsg' = [at |-> "waits", left |-> w, edited |-> wmsg.edited]
        BY <2>4, <1>2, <1>l DEF AsksGate
      <3>2. PICK k \in 0..8 : Waited(wset, wnow, k) /\ u = (Day(wnow) + k) * DayTicks + Opening(wset)
        BY <1>t, NextIs
      <3>. HIDE DEF u
      <3>3. /\ Day(wnow) \in 0..6 /\ TimeOf(wnow) \in 0..(DayTicks - 1)
            /\ wnow = Day(wnow) * DayTicks + TimeOf(wnow) /\ Opening(wset) \in Nat
        BY <1>t, OpenIs, TimesKnown
      <3>4. /\ (Day(wnow) + k) * DayTicks = Day(wnow) * DayTicks + k * DayTicks
            /\ k * DayTicks \in Nat /\ Day(wnow) * DayTicks \in Nat
        BY <3>3, <1>u
      <3>5. TimeOf(wnow) < k * DayTicks + Opening(wset)
        BY <3>2 DEF Waited
      <3>6. u \in Nat /\ wnow \in Nat /\ wnow < u /\ u - wnow = k * DayTicks + Opening(wset) - TimeOf(wnow)
        BY <3>2, <3>3, <3>4, <3>5, <1>t, <1>u
      <3>7. w \in Nat /\ w >= 1 /\ w <= (u - wnow) + MinWait - 1
        BY <3>6, WaitIs
      <3>. HIDE DEF w
      <3>8. WindowShape'
        BY <3>1, <3>7, <2>1, <1>t, <1>l DEF WindowShape
      <3>9. ASSUME ~wmsg.edited PROVE Before(k)'
        <4>1. wmissed <= PassedOver(wset, wnow)
          <5>1. PassedOver(wset, wnow) \in Nat
            BY <1>t, PassedOverIs
          <5>2. wmissed = 0 \/ \E j \in 0..8 : Before(j)
            BY <3>9, <2>1, <2>4, <1>d, AfterOpen DEF DeferredInv
          <5>. QED BY <5>1, <5>2 DEF Before
        <4>2. w + TimeOf(wnow) <= k * DayTicks + Opening(wset) + MinWait - 1
          BY <3>3, <3>4, <3>6, <3>7, <1>u
        <4>. QED BY <4>1, <4>2, <3>1, <3>2, <2>1, <2>4 DEF Before
      <3>10. DeferredInv'
        BY <3>1, <3>7, <3>9, <2>1, <1>d, <1>l DEF DeferredInv
      <3>. QED BY <2>2, <3>8, <3>10 DEF WindowInv
    <2>. QED BY <2>3, <2>4
  <1>3. CASE EditWindow
    <2>1. /\ wmsg.at = "waits" /\ wset' \in SettingType /\ wmissed' = 0 /\ wnow' = wnow
          /\ wmsg' = [at |-> "waits", left |-> wmsg.left, edited |-> TRUE]
      BY <1>3, <1>l DEF EditWindow
    <2>2. WindowShape' /\ DeferredInv'
      BY <2>1, <1>t, <1>l, <1>d DEF WindowShape, DeferredInv
    <2>3. WindowUsed'
      BY <2>1, <1>z DEF WindowUsed
    <2>. QED BY <2>2, <2>3 DEF WindowInv
  <1>4. CASE Tick
    <2>1. /\ wmsg.at # "due" /\ wnow' = (wnow + 1) % Week /\ wset' = wset
          /\ wmissed' = IF wmsg.at = "waits" /\ ~wmsg.edited /\ WindowOpen(wset, wnow)
                        THEN wmissed + 1 ELSE wmissed
      BY <1>4 DEF Tick
    <2>2. wnow' \in 0..(Week - 1)
      BY <2>1, <1>t, TickIs
    <2>3. CASE wmsg.at # "waits"
      <3>1. wmsg' = wmsg /\ wmissed' = wmissed
        BY <2>1, <2>3, <1>4 DEF Tick
      <3>2. WindowShape' /\ WindowUsed'
        BY <3>1, <2>1, <2>2, <1>d DEF WindowShape, WindowUsed
      <3>3. DeferredInv'
        BY <3>1, <2>1, <2>3, <1>d DEF DeferredInv
      <3>. QED BY <3>2, <3>3 DEF WindowInv
    <2>4. CASE wmsg.at = "waits"
      <3>1. wmsg.left >= 1
        BY <2>4, <1>d DEF DeferredInv
      <3>2. /\ wmsg' = [at |-> IF wmsg.left > 1 THEN "waits" ELSE "due", left |-> wmsg.left - 1,
                        edited |-> wmsg.edited]
        <4>1. CASE wmsg.left > 1
          BY <4>1, <2>4, <1>4, <1>l DEF Tick
        <4>2. CASE ~(wmsg.left > 1)
          <5>1. wmsg.left = 1
            BY <4>2, <3>1, <1>l
          <5>2. wmsg' = [wmsg EXCEPT !.at = "due", !.left = 0]
            BY <4>2, <2>4, <1>4, <1>l DEF Tick
          <5>3. wmsg' = [at |-> "due", left |-> 0, edited |-> wmsg.edited]
            BY <5>2, <1>l
          <5>. QED BY <5>1, <5>3, <4>2
        <4>. QED BY <4>1, <4>2
      <3>3. /\ wmsg'.at \in {"waits", "due"} /\ (wmsg'.at = "waits" => wmsg'.left >= 1)
            /\ wmsg'.left = wmsg.left - 1 /\ wmsg'.left \in Nat /\ wmsg'.edited = wmsg.edited
        BY <3>1, <3>2, <1>l
      <3>4. WindowShape'
        <4>1. wmissed' \in Nat
          BY <2>1, <1>t
        <4>. QED BY <4>1, <3>1, <3>2, <2>1, <2>2, <1>t, <1>l DEF WindowShape
      <3>5. CASE wmsg.edited
        <4>1. wmissed' = 0
          BY <3>5, <2>1, <1>d DEF DeferredInv
        <4>2. WindowUsed'
          BY <4>1, <2>1, <1>t, <1>z DEF WindowUsed
        <4>3. DeferredInv'
          BY <4>1, <3>3, <3>5 DEF DeferredInv
        <4>. QED BY <4>2, <4>3, <3>4 DEF WindowInv
      <3>6. CASE ~wmsg.edited
        <4>1. wmissed' = IF WindowOpen(wset, wnow) THEN wmissed + 1 ELSE wmissed
          BY <2>1, <2>4, <3>6
        <4>2. After \/ \E k \in 0..8 : Before(k)
          BY <2>4, <3>6, <1>d DEF DeferredInv
        <4>3. After' \/ \E k \in 0..8 : Before(k)'
          BY <4>1, <4>2, <3>1, <3>3, <3>4, <2>1, <1>d, AfterTick, BeforeTick
        <4>4. DeferredInv'
          BY <4>3, <3>3, <3>6 DEF DeferredInv
        <4>5. WindowUsed'
          <5>1. CASE After'
            <6>1. /\ wmsg'.left + TimeOf(wnow') <= Opening(wset) + MinWait - 1
                  /\ wmissed' + Opening(wset) <= TimeOf(wnow') + (IF Hidden(wset) THEN Closing(wset) ELSE 0)
              BY <5>1, <2>1 DEF After
            <6>2. TimeOf(wnow') \in Nat /\ Opening(wset) \in Nat
              BY <2>2, <1>t, TimesKnown
            <6>3. TimeOf(wnow') <= Opening(wset) + MinWait - 1
              BY <6>1, <6>2, <3>3, <1>u
            <6>. QED BY <6>1, <6>3, <2>1, <2>2, <3>4, <1>t, MissedFew DEF WindowUsed, WindowShape
          <5>2. ASSUME NEW k \in 0..8, Before(k)' PROVE WindowUsed'
            <6>1. wmissed' <= PassedOver(wset, wnow')
              BY <5>2, <2>1 DEF Before
            <6>. QED BY <6>1, <2>1, <2>2, <3>4, <1>t, MissedFew DEF WindowUsed, WindowShape
          <5>. QED BY <4>3, <5>1, <5>2
        <4>. QED BY <4>4, <4>5, <3>4 DEF WindowInv
      <3>. QED BY <3>5, <3>6, <1>l
    <2>. QED BY <2>3, <2>4
  <1>5. CASE UNCHANGED wvars
    BY <1>5, <1>d DEF wvars, WindowInv, WindowShape, DeferredInv, WindowUsed, After, Before
  <1>. QED BY <1>1, <1>2, <1>3, <1>4, <1>5 DEF WNext

LEMMA WindowStep == [Next]_vars => [WNext]_wvars
  BY DEF Next, vars, In, ovars

-----------------------------------------------------------------------------
(* The scheduled messages *)

\* What a pass is about to do it has not done, and one that is over has nothing.
PollsFit ==
    /\ \A p \in Pollers, i \in Items :
         /\ i \in spoll[p].todo => spoll[p].set[i] = "none" /\ i \notin spoll[p].key
         /\ i \in spoll[p].key => spoll[p].set[i] # "none"
         /\ spoll[p].pc = "idle" => i \notin spoll[p].todo /\ spoll[p].set[i] = "none"
    /\ sreq # Scheduled!NoRequest => sreq.set # "none"
    /\ ~RetryEmails /\ sreq.set = "pending" => sreq.item \notin Emails

\* An email that has gone has its key in the table, or in the pass that sent it.
EmailInv ==
    sdied = 0 /\ ~slost =>
      \A i \in Emails :
        /\ sgone[i] <= 1
        /\ sgone[i] # 0 =>
             \/ i \in skey
             \/ \E p \in Pollers : /\ spoll[p].pc = "open" /\ i \in spoll[p].key
                                   /\ spoll[p].set[i] = "sent"

\* As long as nothing overlaps, a text that has gone is noted as sent, in its
\* row or in the pass, and nobody asks for it to be pending again.
TextInv ==
    sdied = 0 /\ ~stwo =>
      /\ \A p, q \in Pollers : spoll[p].pc # "idle" /\ spoll[q].pc # "idle" => p = q
      /\ \A p \in Pollers : spoll[p].pc # "idle" =>
           /\ spoll[p].pc = "open" /\ sreq = Scheduled!NoRequest
           /\ \A i \in Items : i \in spoll[p].todo \/ spoll[p].set[i] # "none" => sitem[i] = "pending"
      /\ \A i \in skey : sitem[i] # "pending"
      /\ sreq # Scheduled!NoRequest => sitem[sreq.item] # "sent"
      /\ \A i \in Items \ Emails :
           /\ sgone[i] <= 1
           /\ sgone[i] # 0 => \/ sitem[i] = "sent"
                              \/ \E p \in Pollers : spoll[p].pc = "open" /\ spoll[p].set[i] = "sent"

ItemsInv == Scheduled!STypeOK /\ PollsFit /\ EmailInv /\ (~RetryEmails => TextInv)

LEMMA RequestTypes == Scheduled!NoRequest \in Scheduled!RequestType /\ Scheduled!IdlePoller \in Scheduled!PollerType
  <1>1. (CHOOSE i \in Items : TRUE) \in Items
    BY ItemsAssumption
  <1>. QED BY <1>1 DEF Scheduled!NoRequest, Scheduled!RequestType, Scheduled!IdlePoller,
     Scheduled!PollerType

LEMMA ItemsInit ==
    ASSUME Scheduled!SInit
    PROVE  ItemsInv
  <1>1. Scheduled!STypeOK
    <2>1. sdied \in 0..MaxDied /\ sgone \in [Items -> 0..2] /\ spoll \in [Pollers -> Scheduled!PollerType]
      BY RequestTypes, ItemsAssumption DEF Scheduled!SInit
    <2>. QED BY <2>1, RequestTypes DEF Scheduled!SInit, Scheduled!STypeOK, Scheduled!ItemStatus
  <1>2. PollsFit
    BY DEF Scheduled!SInit, PollsFit, Scheduled!IdlePoller, Scheduled!NoRequest
  <1>3. EmailInv /\ TextInv
    BY ItemsAssumption DEF Scheduled!SInit, EmailInv, TextInv, Scheduled!IdlePoller
  <1>. QED BY <1>1, <1>2, <1>3 DEF ItemsInv

LEMMA PassRecord ==
    /\ \A a \in {"idle", "open", "broken"}, b \in SUBSET Items,
          c \in [Items -> {"none", "sent", "failed"}], d \in SUBSET Emails :
         [pc |-> a, todo |-> b, set |-> c, key |-> d] \in Scheduled!PollerType
    /\ \A w \in Scheduled!PollerType :
         /\ w.pc \in {"idle", "open", "broken"} /\ w.todo \in SUBSET Items
         /\ w.set \in [Items -> {"none", "sent", "failed"}] /\ w.key \in SUBSET Emails
         /\ \A a, b : [w EXCEPT !.pc = a] = [pc |-> a, todo |-> w.todo, set |-> w.set, key |-> w.key]
                     /\ [w EXCEPT !.pc = a, !.todo = b] = [pc |-> a, todo |-> b, set |-> w.set, key |-> w.key]
  <1>1. \A a \in {"idle", "open", "broken"}, b \in SUBSET Items,
          c \in [Items -> {"none", "sent", "failed"}], d \in SUBSET Emails :
         [pc |-> a, todo |-> b, set |-> c, key |-> d] \in Scheduled!PollerType
    BY DEF Scheduled!PollerType
  <1>2. \A w \in Scheduled!PollerType :
         /\ w.pc \in {"idle", "open", "broken"} /\ w.todo \in SUBSET Items
         /\ w.set \in [Items -> {"none", "sent", "failed"}] /\ w.key \in SUBSET Emails
    BY DEF Scheduled!PollerType
  <1>3. ASSUME NEW w \in Scheduled!PollerType, NEW a, NEW b
        PROVE  /\ [w EXCEPT !.pc = a] = [pc |-> a, todo |-> w.todo, set |-> w.set, key |-> w.key]
               /\ [w EXCEPT !.pc = a, !.todo = b] = [pc |-> a, todo |-> b, set |-> w.set, key |-> w.key]
    <2>1. DOMAIN w = {"pc", "todo", "set", "key"} /\ w = [x \in DOMAIN w |-> w[x]]
      BY DEF Scheduled!PollerType
    <2>2. [w EXCEPT !.pc = a] = [pc |-> a, todo |-> w.todo, set |-> w.set, key |-> w.key]
      BY <2>1
    <2>3. [w EXCEPT !.pc = a, !.todo = b] = [pc |-> a, todo |-> b, set |-> w.set, key |-> w.key]
      <3>. DEFINE v == [w EXCEPT !.pc = a]
                  u == [v EXCEPT !.todo = b]
      <3>1. DOMAIN v = {"pc", "todo", "set", "key"} /\ v = [x \in DOMAIN v |-> v[x]]
        BY <2>1
      <3>2. v.pc = a /\ v.set = w.set /\ v.key = w.key
        BY <2>1
      <3>. HIDE DEF v
      <3>3. u = [pc |-> a, todo |-> b, set |-> w.set, key |-> w.key]
        BY <3>1, <3>2
      <3>. QED BY <3>3 DEF v
    <2>. QED BY <2>2, <2>3
  <1>. QED BY <1>1, <1>2, <1>3

LEMMA TurnHas ==
    ASSUME Scheduled!STypeOK, NEW p \in Pollers, NEW i \in Items, Scheduled!Turn(p, i)
    PROVE  i \in spoll[p].todo /\ spoll[p].pc = "open"
  <1>1. spoll[p].todo \subseteq Nat /\ spoll[p].todo # {}
    BY ItemsAssumption DEF Scheduled!STypeOK, Scheduled!Turn, Scheduled!PollerType
  <1>2. \E j \in spoll[p].todo : \A k \in spoll[p].todo : j <= k
    BY <1>1, Least
  <1>. QED BY <1>2 DEF Scheduled!Turn, Scheduled!Earliest

LEMMA ItemsKept ==
    ASSUME ItemsInv, [Scheduled!SNext]_svars
    PROVE  ItemsInv'
  <1>. USE DEF ItemsInv
  <1>. USE ItemsAssumption
  <1>t. /\ sitem \in [Items -> Scheduled!ItemStatus] /\ skey \subseteq Emails
        /\ spoll \in [Pollers -> Scheduled!PollerType] /\ sgone \in [Items -> 0..2] /\ sdied \in 0..MaxDied
        /\ sreq \in Scheduled!RequestType /\ stwo \in BOOLEAN /\ slost \in BOOLEAN
    BY DEF Scheduled!STypeOK
  <1>u. \A p \in Pollers : /\ spoll[p].pc \in {"idle", "open", "broken"} /\ spoll[p].todo \subseteq Items
                           /\ spoll[p].set \in [Items -> {"none", "sent", "failed"}]
                           /\ spoll[p].key \subseteq Emails
    BY <1>t DEF Scheduled!PollerType
  <1>i. /\ Scheduled!IdlePoller \in Scheduled!PollerType /\ Scheduled!IdlePoller.pc = "idle" /\ Scheduled!IdlePoller.todo = {} /\ Scheduled!IdlePoller.key = {}
        /\ \A i \in Items : Scheduled!IdlePoller.set[i] = "none"
    BY RequestTypes DEF Scheduled!IdlePoller
  <1>1. ASSUME NEW p \in Pollers, Scheduled!Open(p) PROVE ItemsInv'
    <2>1. PICK S \in SUBSET Scheduled!Due : spoll' = [spoll EXCEPT ![p].pc = "open", ![p].todo = S]
      BY <1>1 DEF Scheduled!Open
    <2>2. /\ spoll[p].pc = "idle" /\ stwo' = (stwo \/ sreq # Scheduled!NoRequest \/ \E q \in Pollers : spoll[q].pc # "idle")
          /\ UNCHANGED <<sitem, skey, sgone, sdied, sreq, slost>>
      BY <1>1 DEF Scheduled!Open
    <2>3. S \subseteq Items /\ \A i \in S : sitem[i] = "pending"
      BY DEF Scheduled!Due
    <2>4. /\ spoll'[p] = [pc |-> "open", todo |-> S, set |-> spoll[p].set, key |-> spoll[p].key]
          /\ \A q \in Pollers : q # p => spoll'[q] = spoll[q]
          /\ spoll' \in [Pollers -> Scheduled!PollerType]
      <3>1. S \in SUBSET Items /\ spoll[p].pc \in {"idle", "open", "broken"} /\ spoll[p] \in Scheduled!PollerType
        BY <2>3, <1>t, <1>u
      <3>2. [spoll[p] EXCEPT !.pc = "open", !.todo = S] =
              [pc |-> "open", todo |-> S, set |-> spoll[p].set, key |-> spoll[p].key]
        BY <3>1, PassRecord
      <3>3. [pc |-> "open", todo |-> S, set |-> spoll[p].set, key |-> spoll[p].key] \in Scheduled!PollerType
        BY <3>1, <1>u, PassRecord
      <3>4. spoll' = [spoll EXCEPT ![p] = [spoll[p] EXCEPT !.pc = "open", !.todo = S]]
        BY <2>1
      <3>. QED BY <3>2, <3>3, <3>4, <1>t
    <2>5. Scheduled!STypeOK'
      BY <2>2, <2>4, <1>t DEF Scheduled!STypeOK
    <2>6. spoll[p].key = {} /\ \A i \in Items : spoll[p].set[i] = "none"
      BY <2>2, <1>u DEF PollsFit
    <2>7. PollsFit'
      BY <2>2, <2>3, <2>4, <2>6 DEF PollsFit
    <2>8. EmailInv'
      BY <2>2, <2>4, <2>6 DEF EmailInv
    <2>9. TextInv => TextInv'
      <3>. SUFFICES ASSUME TextInv, sdied = 0, ~stwo' PROVE TextInv'
        BY <2>2 DEF TextInv
      <3>1. ~stwo /\ sreq = Scheduled!NoRequest /\ \A q \in Pollers : spoll[q].pc = "idle"
        BY <2>2
      <3>2. \A q \in Pollers : spoll'[q].pc # "idle" => q = p
        BY <3>1, <2>4
      <3>3. \A i \in Items \ Emails : sgone[i] <= 1 /\ (sgone[i] # 0 => sitem[i] = "sent")
        BY <3>1 DEF TextInv
      <3>4. \A i \in skey : sitem[i] # "pending"
        BY <3>1 DEF TextInv
      <3>5. spoll'[p].pc = "open" /\ \A i \in Items :
              i \in spoll'[p].todo \/ spoll'[p].set[i] # "none" => sitem[i] = "pending"
        BY <2>3, <2>4, <2>6
      <3>. QED BY <3>1, <3>2, <3>3, <3>4, <3>5, <2>2 DEF TextInv
    <2>. QED BY <2>5, <2>7, <2>8, <2>9
  <1>2. ASSUME NEW p \in Pollers, NEW i \in Items, NEW st \in {"sent", "failed"}, NEW keyed \in SUBSET Emails,
               NEW w, w = [Scheduled!Settled(p, i, st) EXCEPT !.key = keyed], Scheduled!Turn(p, i), spoll' = [spoll EXCEPT ![p] = w],
               UNCHANGED <<sitem, skey, sdied, sreq, stwo, slost>>,
               \/ st = "failed" /\ keyed = spoll[p].key /\ sgone' = sgone
               \/ /\ Scheduled!Inserts(p, i) /\ keyed = spoll[p].key \union ({i} \intersect Emails)
                  /\ sgone' = IF st = "sent" THEN [sgone EXCEPT ![i] = IF @ = 2 THEN 2 ELSE @ + 1] ELSE sgone
        PROVE  ItemsInv'
    <2>1. /\ w \in Scheduled!PollerType /\ w.pc = "open" /\ w.todo = spoll[p].todo \ {i} /\ w.key = keyed
          /\ w.set = [spoll[p].set EXCEPT ![i] = st]
          /\ i \in spoll[p].todo /\ spoll[p].pc = "open"
      <3>1. spoll[p] \in Scheduled!PollerType /\ i \in spoll[p].todo /\ spoll[p].pc = "open"
        BY <1>2, <1>t, TurnHas
      <3>2. w = [pc |-> "open", todo |-> spoll[p].todo \ {i},
                 set |-> [spoll[p].set EXCEPT ![i] = st], key |-> keyed]
        BY <3>1, <1>2 DEF Scheduled!Settled, Scheduled!PollerType
      <3>3. /\ spoll[p].todo \ {i} \in SUBSET Items
            /\ [spoll[p].set EXCEPT ![i] = st] \in [Items -> {"none", "sent", "failed"}]
        BY <1>u
      <3>4. w \in Scheduled!PollerType
        BY <3>2, <3>3, PassRecord
      <3>. QED BY <3>1, <3>2, <3>4
    <2>2. /\ spoll'[p] = w /\ \A q \in Pollers : q # p => spoll'[q] = spoll[q]
          /\ spoll' \in [Pollers -> Scheduled!PollerType]
      BY <1>2, <2>1, <1>t
    <2>3. sgone' \in [Items -> 0..2]
      BY <1>2, <1>t
    <2>4. Scheduled!STypeOK'
      BY <1>2, <2>2, <2>3, <1>t DEF Scheduled!STypeOK
    <2>5. /\ w.set[i] = st /\ \A j \in Items : j # i => w.set[j] = spoll[p].set[j]
          /\ \A j \in Items : j # i => (j \in keyed <=> j \in spoll[p].key)
          /\ spoll[p].set[i] = "none" /\ i \notin spoll[p].key
      BY <1>2, <2>1, <1>u DEF PollsFit
    <2>6. PollsFit'
      BY <1>2, <2>1, <2>2, <2>5 DEF PollsFit
    <2>7. \A j \in Items : j # i => sgone'[j] = sgone[j]
      BY <1>2, <1>t
    <2>8. sgone'[i] # sgone[i] =>
            /\ st = "sent" /\ Scheduled!Inserts(p, i) /\ keyed = spoll[p].key \union ({i} \intersect Emails)
            /\ sgone[i] = 0 => sgone'[i] = 1
      BY <1>2, <1>t
    <2>11. \A j \in Items, q \in Pollers :
             /\ spoll[q].pc = "open" => spoll'[q].pc = "open"
             /\ spoll[q].set[j] = "sent" => spoll'[q].set[j] = "sent"
             /\ j \in spoll[q].key => j \in spoll'[q].key
      BY <1>2, <2>1, <2>2, <2>5
    <2>9. ASSUME EmailInv PROVE EmailInv'
      <3>. SUFFICES ASSUME sdied = 0, ~slost, NEW j \in Emails
                    PROVE  /\ sgone'[j] <= 1
                           /\ sgone'[j] # 0 =>
                                \/ j \in skey
                                \/ \E q \in Pollers : /\ spoll'[q].pc = "open" /\ j \in spoll'[q].key
                                                      /\ spoll'[q].set[j] = "sent"
        BY <1>2 DEF EmailInv
      <3>1. /\ sgone[j] <= 1
            /\ sgone[j] # 0 =>
                 \/ j \in skey
                 \/ \E q \in Pollers : /\ spoll[q].pc = "open" /\ j \in spoll[q].key
                                       /\ spoll[q].set[j] = "sent"
        BY <2>9 DEF EmailInv
      <3>2. CASE j # i
        <4>1. j \in Items /\ sgone'[j] = sgone[j]
          BY <3>2, <2>7
        <4>2. CASE sgone[j] # 0 /\ j \notin skey
          <5>1. PICK q \in Pollers : spoll[q].pc = "open" /\ j \in spoll[q].key /\ spoll[q].set[j] = "sent"
            BY <3>1, <4>2
          <5>2. spoll'[q].pc = "open" /\ j \in spoll'[q].key /\ spoll'[q].set[j] = "sent"
            BY <5>1, <4>1, <2>11
          <5>. QED BY <5>2, <4>1, <3>1
        <4>. QED BY <4>1, <4>2, <3>1
      <3>3. CASE j = i /\ sgone'[i] = sgone[i]
        <4>2. CASE sgone[j] # 0 /\ j \notin skey
          <5>1. PICK q \in Pollers : spoll[q].pc = "open" /\ j \in spoll[q].key /\ spoll[q].set[j] = "sent"
            BY <3>1, <4>2
          <5>2. spoll'[q].pc = "open" /\ j \in spoll'[q].key /\ spoll'[q].set[j] = "sent"
            BY <5>1, <3>3, <2>11
          <5>. QED BY <5>2, <3>3, <3>1
        <4>. QED BY <3>3, <4>2, <3>1
      <3>4. CASE j = i /\ sgone'[i] # sgone[i]
        <4>1. sgone[i] = 0
          <5>1. Scheduled!Inserts(p, i) /\ i \in Emails
            BY <3>4, <2>8
          <5>2. i \notin skey /\ \A q \in Pollers \ {p} : i \notin spoll[q].key
            BY <5>1 DEF Scheduled!Inserts
          <5>3. \A q \in Pollers : i \notin spoll[q].key
            BY <5>2, <2>5
          <5>. QED BY <5>2, <5>3, <3>1, <3>4
        <4>2. i \in keyed /\ w.set[i] = "sent" /\ sgone'[i] = 1
          BY <4>1, <3>4, <2>5, <2>8
        <4>3. spoll'[p].pc = "open" /\ i \in spoll'[p].key /\ spoll'[p].set[i] = "sent"
          BY <4>2, <2>1, <2>2
        <4>. QED BY <4>2, <4>3, <3>4
      <3>. QED BY <3>2, <3>3, <3>4
    <2>10. ASSUME TextInv PROVE TextInv'
      <3>. SUFFICES ASSUME sdied = 0, ~stwo PROVE TextInv'
        BY <1>2 DEF TextInv
      <3>1. /\ \A q, o \in Pollers : spoll[q].pc # "idle" /\ spoll[o].pc # "idle" => q = o
            /\ \A q \in Pollers : spoll[q].pc # "idle" =>
                 /\ spoll[q].pc = "open" /\ sreq = Scheduled!NoRequest
                 /\ \A j \in Items : j \in spoll[q].todo \/ spoll[q].set[j] # "none" => sitem[j] = "pending"
            /\ \A j \in skey : sitem[j] # "pending"
            /\ \A j \in Items \ Emails :
                 /\ sgone[j] <= 1
                 /\ sgone[j] # 0 => \/ sitem[j] = "sent"
                                    \/ \E q \in Pollers : spoll[q].pc = "open" /\ spoll[q].set[j] = "sent"
        BY <2>10 DEF TextInv
      <3>2. \A j \in Items \ Emails :
                 /\ sgone'[j] <= 1
                 /\ sgone'[j] # 0 => \/ sitem[j] = "sent"
                                     \/ \E q \in Pollers : spoll'[q].pc = "open" /\ spoll'[q].set[j] = "sent"
        <4>. TAKE j \in Items \ Emails
        <4>1. CASE j # i
          <5>1. j \in Items /\ sgone'[j] = sgone[j] /\ sgone[j] <= 1
            BY <4>1, <3>1, <2>7
          <5>2. CASE sgone[j] # 0 /\ sitem[j] # "sent"
            <6>1. PICK q \in Pollers : spoll[q].pc = "open" /\ spoll[q].set[j] = "sent"
              BY <3>1, <5>2
            <6>. QED BY <6>1, <5>1, <2>11
          <5>. QED BY <5>1, <5>2
        <4>2. CASE j = i
          <5>1. sgone[i] = 0
            BY <4>2, <3>1, <2>1, <2>5
          <5>2. sgone'[i] # 0 => sgone'[i] = 1 /\ w.set[i] = "sent"
            BY <5>1, <2>5, <2>8
          <5>3. sgone'[i] # 0 => spoll'[p].pc = "open" /\ spoll'[p].set[i] = "sent"
            BY <5>2, <2>1, <2>2
          <5>4. sgone'[i] <= 1
            BY <5>2, <2>3
          <5>. QED BY <4>2, <5>3, <5>4
        <4>. QED BY <4>1, <4>2
      <3>3. \A q \in Pollers : spoll'[q].pc # "idle" => q = p
        BY <3>1, <2>1, <2>2
      <3>4. \A j \in Items : j \in spoll'[p].todo \/ spoll'[p].set[j] # "none" => sitem[j] = "pending"
        <4>1. \A j \in Items : j \in spoll[p].todo \/ spoll[p].set[j] # "none" => sitem[j] = "pending"
          BY <3>1, <2>1
        <4>2. sitem[i] = "pending"
          BY <4>1, <2>1
        <4>. QED BY <4>1, <4>2, <2>1, <2>2, <2>5
      <3>5. spoll'[p].pc = "open" /\ sreq = Scheduled!NoRequest
        BY <3>1, <2>1, <2>2
      <3>. QED BY <1>2, <3>1, <3>2, <3>3, <3>4, <3>5 DEF TextInv
    <2>. QED BY <2>4, <2>6, <2>9, <2>10
  <1>3. ASSUME NEW p \in Pollers, NEW i \in Items, Scheduled!Refuse(p, i) PROVE ItemsInv'
    <2>. DEFINE w == [Scheduled!Settled(p, i, "failed") EXCEPT !.key = spoll[p].key]
    <2>1. w = Scheduled!Settled(p, i, "failed")
      BY <1>t, <1>u DEF Scheduled!Settled, Scheduled!PollerType
    <2>2. spoll' = [spoll EXCEPT ![p] = w] /\ sgone' = sgone /\ Scheduled!Turn(p, i)
          /\ UNCHANGED <<sitem, skey, sdied, sreq, stwo, slost>> /\ spoll[p].key \in SUBSET Emails
      BY <2>1, <1>3, <1>u DEF Scheduled!Refuse
    <2>. QED BY <2>2, <1>2
  <1>4. ASSUME NEW p \in Pollers, NEW i \in Items, NEW st \in {"sent", "failed"}, Scheduled!SendItem(p, i, st)
        PROVE  ItemsInv'
    <2>. DEFINE keyed == spoll[p].key \union ({i} \intersect Emails)
                w == [Scheduled!Settled(p, i, st) EXCEPT !.key = keyed]
    <2>1. w = [Scheduled!Settled(p, i, st) EXCEPT !.key = @ \union ({i} \intersect Emails)]
      BY <1>t, <1>u DEF Scheduled!Settled, Scheduled!PollerType
    <2>2. spoll' = [spoll EXCEPT ![p] = w] /\ Scheduled!Inserts(p, i) /\ Scheduled!Turn(p, i)
          /\ sgone' = (IF st = "sent" THEN [sgone EXCEPT ![i] = IF @ = 2 THEN 2 ELSE @ + 1] ELSE sgone)
          /\ UNCHANGED <<sitem, skey, sdied, sreq, stwo, slost>> /\ keyed \in SUBSET Emails
      BY <2>1, <1>4, <1>u DEF Scheduled!SendItem, Scheduled!Inserts
    <2>. QED BY <2>2, <1>2
  <1>5. ASSUME NEW p \in Pollers, NEW i \in Items, Scheduled!KeyRefused(p, i) PROVE ItemsInv'
    <2>1. /\ Scheduled!Turn(p, i) /\ i \in skey /\ spoll' = [spoll EXCEPT ![p].pc = "broken"]
          /\ slost' = (slost \/ \E j \in Emails : spoll[p].set[j] = "sent")
          /\ UNCHANGED <<sitem, skey, sgone, sdied, sreq, stwo>> /\ spoll[p].pc = "open"
      BY <1>5 DEF Scheduled!KeyRefused, Scheduled!Turn
    <2>2. /\ spoll'[p] = [pc |-> "broken", todo |-> spoll[p].todo, set |-> spoll[p].set, key |-> spoll[p].key]
          /\ \A q \in Pollers : q # p => spoll'[q] = spoll[q]
          /\ spoll' \in [Pollers -> Scheduled!PollerType]
      BY <2>1, <1>t DEF Scheduled!PollerType
    <2>3. Scheduled!STypeOK'
      BY <2>1, <2>2, <1>t DEF Scheduled!STypeOK
    <2>4. PollsFit'
      BY <2>1, <2>2 DEF PollsFit
    <2>5. EmailInv'
      <3>. SUFFICES ASSUME EmailInv, sdied = 0, ~slost' PROVE EmailInv'
        BY <2>1 DEF EmailInv
      <3>1. ~slost /\ \A j \in Emails : spoll[p].set[j] # "sent"
        BY <2>1
      <3>2. \A j \in Emails, q \in Pollers : /\ spoll[q].pc = "open" /\ spoll[q].set[j] = "sent"
                                             => spoll'[q] = spoll[q]
        BY <3>1, <2>2
      <3>. QED BY <3>1, <3>2, <2>1 DEF EmailInv
    <2>6. TextInv => TextInv'
      <3>1. i \in spoll[p].todo
        BY <2>1, TurnHas
      <3>2. TextInv => sdied # 0 \/ stwo
        BY <3>1, <2>1 DEF TextInv
      <3>. QED BY <3>2, <2>1 DEF TextInv
    <2>. QED BY <2>3, <2>4, <2>5, <2>6
  <1>6. ASSUME NEW p \in Pollers, Scheduled!CommitPass(p) PROVE ItemsInv'
    <2>1. /\ spoll[p].pc = "open" /\ spoll[p].todo = {}
          /\ sitem' = [i \in Items |-> IF spoll[p].set[i] # "none" THEN spoll[p].set[i] ELSE sitem[i]]
          /\ skey' = skey \union spoll[p].key /\ spoll' = [spoll EXCEPT ![p] = Scheduled!IdlePoller]
          /\ UNCHANGED <<sgone, sdied, sreq, stwo, slost>>
      BY <1>6 DEF Scheduled!CommitPass
    <2>2. /\ spoll'[p] = Scheduled!IdlePoller /\ \A q \in Pollers : q # p => spoll'[q] = spoll[q]
          /\ spoll' \in [Pollers -> Scheduled!PollerType]
      BY <2>1, <1>t, <1>i
    <2>3. Scheduled!STypeOK'
      <3>1. sitem' \in [Items -> Scheduled!ItemStatus] /\ skey' \subseteq Emails
        BY <2>1, <1>t, <1>u DEF Scheduled!ItemStatus
      <3>. QED BY <3>1, <2>1, <2>2, <1>t DEF Scheduled!STypeOK
    <2>4. PollsFit'
      BY <2>1, <2>2, <1>i DEF PollsFit
    <2>5. EmailInv'
      BY <2>1, <2>2 DEF EmailInv
    <2>6. TextInv => TextInv'
      <3>. SUFFICES ASSUME TextInv, sdied = 0, ~stwo PROVE TextInv'
        BY <2>1 DEF TextInv
      <3>1. \A q \in Pollers : q # p => spoll[q].pc = "idle"
        BY <2>1 DEF TextInv
      <3>2. \A q \in Pollers : spoll'[q].pc = "idle"
        BY <3>1, <2>2, <1>i
      <3>3. \A i \in Items : sitem'[i] = IF spoll[p].set[i] # "none" THEN spoll[p].set[i] ELSE sitem[i]
        BY <2>1
      <3>4. sreq = Scheduled!NoRequest
        BY <2>1 DEF TextInv
      <3>5. \A i \in skey' : sitem'[i] # "pending"
        <4>1. \A i \in skey : i \in Items /\ sitem[i] # "pending"
          BY <1>t DEF TextInv
        <4>2. \A i \in spoll[p].key : i \in Items /\ spoll[p].set[i] # "none"
          BY <1>u DEF PollsFit
        <4>3. \A i \in Items : spoll[p].set[i] \in {"none", "sent", "failed"}
          BY <1>u
        <4>. QED BY <4>1, <4>2, <4>3, <3>3, <2>1
      <3>6. \A i \in Items \ Emails : sgone[i] <= 1 /\ (sgone[i] # 0 => sitem'[i] = "sent")
        <4>. TAKE i \in Items \ Emails
        <4>1. sgone[i] <= 1 /\ (sgone[i] # 0 => sitem[i] = "sent" \/ spoll[p].set[i] = "sent")
          BY <3>1 DEF TextInv
        <4>3. spoll[p].set[i] # "none" => sitem[i] = "pending"
          BY <2>1 DEF TextInv
        <4>. QED BY <4>1, <4>3, <3>3, <1>u
      <3>. QED BY <3>2, <3>4, <3>5, <3>6, <2>1 DEF TextInv
    <2>. QED BY <2>3, <2>4, <2>5, <2>6
  <1>7. ASSUME NEW p \in Pollers, Scheduled!BrokenEnds(p) \/ Scheduled!Die(p) PROVE ItemsInv'
    <2>1. /\ spoll' = [spoll EXCEPT ![p] = Scheduled!IdlePoller] /\ sdied' \in 0..MaxDied
          /\ UNCHANGED <<sitem, skey, sgone, sreq, stwo, slost>>
          /\ sdied' # 0 \/ (sdied' = sdied /\ spoll[p].pc = "broken")
      BY <1>7, <1>t DEF Scheduled!BrokenEnds, Scheduled!Die
    <2>2. /\ spoll'[p] = Scheduled!IdlePoller /\ \A q \in Pollers : q # p => spoll'[q] = spoll[q]
          /\ spoll' \in [Pollers -> Scheduled!PollerType]
      BY <2>1, <1>t, <1>i
    <2>3. Scheduled!STypeOK'
      BY <2>1, <2>2, <1>t DEF Scheduled!STypeOK
    <2>4. PollsFit'
      BY <2>1, <2>2, <1>i DEF PollsFit
    <2>5. EmailInv'
      BY <2>1, <2>2 DEF EmailInv
    <2>6. TextInv => TextInv'
      BY <2>1, <2>2 DEF TextInv
    <2>. QED BY <2>3, <2>4, <2>5, <2>6
  <1>8. ASSUME NEW i \in Items, Scheduled!CancelItem(i) \/ Scheduled!RetryItem(i) PROVE ItemsInv'
    <2>1. PICK st \in {"cancelled", "pending"} :
            /\ sreq = Scheduled!NoRequest /\ sreq' = [set |-> st, item |-> i]
            /\ stwo' = (stwo \/ \E p \in Pollers : spoll[p].pc # "idle")
            /\ UNCHANGED <<sitem, skey, spoll, sgone, sdied, slost>>
            /\ sitem[i] # "sent" /\ (st = "pending" /\ ~RetryEmails => i \notin Emails)
      BY <1>8 DEF Scheduled!CancelItem, Scheduled!RetryItem, Scheduled!Reads
    <2>2. Scheduled!STypeOK'
      BY <2>1, <1>t DEF Scheduled!STypeOK, Scheduled!RequestType
    <2>3. PollsFit'
      BY <2>1 DEF PollsFit
    <2>4. EmailInv'
      BY <2>1 DEF EmailInv
    <2>5. TextInv => TextInv'
      BY <2>1 DEF TextInv
    <2>. QED BY <2>2, <2>3, <2>4, <2>5
  <1>9. CASE Scheduled!RequestEnds
    <2>1. /\ sreq # Scheduled!NoRequest /\ sitem' = [sitem EXCEPT ![sreq.item] = sreq.set] /\ sreq' = Scheduled!NoRequest
          /\ UNCHANGED <<skey, spoll, sgone, sdied, stwo, slost>>
      BY <1>9 DEF Scheduled!RequestEnds
    <2>2. sreq.item \in Items /\ sreq.set \in {"cancelled", "pending"}
      BY <2>1, <1>t DEF Scheduled!RequestType, PollsFit
    <2>3. Scheduled!STypeOK'
      BY <2>1, <2>2, <1>t, RequestTypes DEF Scheduled!STypeOK, Scheduled!ItemStatus
    <2>4. PollsFit'
      BY <2>1 DEF PollsFit, Scheduled!NoRequest
    <2>5. EmailInv'
      BY <2>1 DEF EmailInv
    <2>6. ~RetryEmails /\ TextInv => TextInv'
      <3>. SUFFICES ASSUME ~RetryEmails, TextInv, sdied = 0, ~stwo PROVE TextInv'
        BY <2>1 DEF TextInv
      <3>1. \A p \in Pollers : spoll[p].pc = "idle"
        BY <2>1 DEF TextInv
      <3>2. \A i \in Items : sitem'[i] = IF i = sreq.item THEN sreq.set ELSE sitem[i]
        BY <2>1, <1>t
      <3>3. \A i \in skey : sitem'[i] # "pending"
        BY <3>2, <2>2, <1>t DEF PollsFit, TextInv
      <3>4. sitem[sreq.item] # "sent"
        BY <2>1 DEF TextInv
      <3>5. \A i \in Items \ Emails : sgone[i] <= 1 /\ (sgone[i] # 0 => sitem'[i] = "sent")
        BY <3>1, <3>2, <3>4 DEF TextInv
      <3>. QED BY <2>1, <3>1, <3>3, <3>5 DEF TextInv
    <2>. QED BY <2>3, <2>4, <2>5, <2>6
  <1>10. CASE UNCHANGED svars
    BY <1>10 DEF svars, Scheduled!STypeOK, PollsFit, EmailInv, TextInv
  <1>. QED BY <1>1, <1>3, <1>4, <1>5, <1>6, <1>7, <1>8, <1>9, <1>10 DEF Scheduled!SNext,
     Scheduled!PassStep

LEMMA ItemsFollow == ItemsInv /\ ~RetryEmails => Scheduled!ItemsOnce
  <1>. SUFFICES ASSUME ItemsInv, ~RetryEmails PROVE Scheduled!EmailOnce /\ Scheduled!SmsOnce
    BY DEF ItemsInv, Scheduled!ItemsOnce
  <1>. QED BY DEF ItemsInv, EmailInv, TextInv, Scheduled!EmailOnce, Scheduled!SmsOnce

LEMMA ScheduledStep == [Next]_vars => [Scheduled!SNext]_svars
  BY DEF Next, vars, In, svars

-----------------------------------------------------------------------------
(* The meetings' reminders *)

\* A form that is open may still be saved, and a pass that is over has nothing.
VisitsFit ==
    /\ mform.pc = "open" => mmoved < MaxMoved
    /\ mpass.pc = "idle" => mpass.todo = {} /\ mpass.new = {} /\ mpass.left = Guests
    /\ mpass.left # Guests => mpass.todo # {}

\* As long as no form is open during a pass each has loaded what is there, and
\* what a pass has new was sent for the present start.
LoadedInv ==
    ~mraced =>
      /\ mform.pc = "open" => mpass.pc = "idle" /\ mform.done = mdone
      /\ mpass.pc = "open" =>
           /\ mpass.moved = mmoved /\ mpass.old = mdone
           /\ \A w \in Meeting!Window : w \in mpass.todo => w \notin mdone /\ w \notin mpass.new
           /\ mpass.new \subseteq mtold
      /\ mdone \subseteq mtold

\* The guests of the window whose turn it is that are not left have theirs.
Reminded(w, g) ==
    \/ w \in mdone
    \/ mpass.pc = "open" /\ w \in mpass.new
    \/ mpass.pc = "open" /\ w \in mpass.todo /\ (\A v \in mpass.todo : w <= v) /\ g \notin mpass.left
RemindedInv ==
    mfailed = 0 /\ ~mraced =>
      \A w \in Meeting!Window, g \in Guests : mgone[w][g] <= 1 /\ (mgone[w][g] # 0 => Reminded(w, g))

MeetingInv == Meeting!MTypeOK /\ VisitsFit /\ LoadedInv /\ (~Same => RemindedInv)

LEMMA PassTyped ==
    ASSUME NEW p \in Meeting!PassType
    PROVE  /\ p.pc \in {"idle", "open"} /\ p.moved \in 0..MaxMoved /\ p.old \in SUBSET Meeting!Window
           /\ p.todo \in SUBSET Meeting!Window /\ p.left \in SUBSET Guests /\ p.new \in SUBSET Meeting!Window
           /\ p = [pc |-> p.pc, moved |-> p.moved, old |-> p.old, todo |-> p.todo,
                   left |-> p.left, new |-> p.new]
  BY DEF Meeting!PassType

LEMMA MeetingInit ==
    ASSUME Meeting!MInit
    PROVE  MeetingInv
  <1>1. Meeting!MTypeOK
    <2>1. Meeting!IdlePass \in Meeting!PassType
      BY MeetingAssumption DEF Meeting!IdlePass, Meeting!PassType
    <2>2. /\ mtime \in 0..(W + 1) /\ mmoved \in 0..MaxMoved /\ mfailed \in 0..MaxFailed
          /\ mgone \in [Meeting!Window -> [Guests -> Nat]]
      BY MeetingAssumption DEF Meeting!MInit
    <2>. QED BY <2>1, <2>2 DEF Meeting!MInit, Meeting!MTypeOK, Meeting!NoForm
  <1>2. VisitsFit /\ LoadedInv /\ RemindedInv
    BY DEF Meeting!MInit, VisitsFit, LoadedInv, RemindedInv, Meeting!IdlePass, Meeting!NoForm,
       Meeting!Window
  <1>. QED BY <1>1, <1>2 DEF MeetingInv

LEMMA MeetingKept ==
    ASSUME MeetingInv, [Meeting!MNext]_mvars
    PROVE  MeetingInv'
  <1>. USE MeetingAssumption
  <1>t. /\ mstate \in {"active", "closed"} /\ mtime \in 0..(W + 1) /\ mmoved \in 0..MaxMoved
        /\ mdone \subseteq Meeting!Window /\ mtold \subseteq Meeting!Window /\ mpass \in Meeting!PassType
        /\ mform \in [pc : {"idle", "open"}, done : SUBSET Meeting!Window]
        /\ mgone \in [Meeting!Window -> [Guests -> Nat]] /\ mfailed \in 0..MaxFailed /\ mraced \in BOOLEAN
        /\ mform.pc \in {"idle", "open"}
    BY DEF MeetingInv, Meeting!MTypeOK
  <1>p. /\ mpass.pc \in {"idle", "open"} /\ mpass.moved \in 0..MaxMoved /\ mpass.old \in SUBSET Meeting!Window
        /\ mpass.todo \in SUBSET Meeting!Window /\ mpass.left \in SUBSET Guests /\ mpass.new \in SUBSET Meeting!Window
        /\ mpass = [pc |-> mpass.pc, moved |-> mpass.moved, old |-> mpass.old, todo |-> mpass.todo,
                    left |-> mpass.left, new |-> mpass.new]
    BY <1>t, PassTyped
  <1>w. \A w \in Meeting!Window : w \in Nat
    BY DEF Meeting!Window
  <1>v. VisitsFit /\ LoadedInv /\ (~Same => RemindedInv)
    BY DEF MeetingInv
  <1>i. Meeting!IdlePass \in Meeting!PassType
    BY DEF Meeting!IdlePass, Meeting!PassType
  <1>1. CASE Meeting!SelectMeeting
    <2>1. /\ mpass.pc = "idle" /\ mpass' = [pc |-> "open", moved |-> mmoved, old |-> mdone, todo |-> Meeting!Todo,
                                           left |-> Guests, new |-> {}]
          /\ mraced' = (mraced \/ mform.pc # "idle")
          /\ UNCHANGED <<mstate, mtime, mmoved, mdone, mform, mgone, mtold, mfailed>>
      BY <1>1 DEF Meeting!SelectMeeting, Meeting!IdlePass
    <2>2. Meeting!Todo \in SUBSET Meeting!Window /\ \A w \in Meeting!Todo : w \notin mdone
      BY DEF Meeting!Todo
    <2>3. Meeting!MTypeOK'
      BY <2>1, <2>2, <1>t DEF Meeting!MTypeOK, Meeting!PassType
    <2>4. VisitsFit'
      BY <2>1, <1>v DEF VisitsFit
    <2>5. LoadedInv'
      BY <2>1, <2>2, <1>v, <1>t DEF LoadedInv
    <2>6. RemindedInv => RemindedInv'
      BY <2>1 DEF RemindedInv, Reminded
    <2>. QED BY <2>3, <2>4, <2>5, <2>6, <1>v DEF MeetingInv
  <1>2. ASSUME NEW w \in Meeting!Window, NEW g \in Guests, Meeting!RemindGuest(w, g) PROVE MeetingInv'
    <2>1. /\ Meeting!Turn(w) /\ g \in mpass.left
          /\ mpass' = [pc |-> mpass.pc, moved |-> mpass.moved, old |-> mpass.old, todo |-> mpass.todo,
                       left |-> mpass.left \ {g}, new |-> mpass.new]
          /\ UNCHANGED <<mstate, mtime, mmoved, mdone, mform, mtold, mfailed, mraced>>
          /\ mgone' = mgone \/ mgone' = [mgone EXCEPT ![w][g] = @ + 1]
      BY <1>2, <1>p DEF Meeting!RemindGuest
    <2>2. mpass.pc = "open" /\ w \in mpass.todo /\ \A v \in mpass.todo : w <= v
      BY <2>1 DEF Meeting!Turn
    <2>3. mgone' \in [Meeting!Window -> [Guests -> Nat]] /\ mpass' \in Meeting!PassType
      <3>1. mgone' \in [Meeting!Window -> [Guests -> Nat]]
        BY <2>1, <1>t
      <3>2. mpass.left \ {g} \in SUBSET Guests
        BY <1>p
      <3>. QED BY <3>1, <3>2, <2>1, <1>p DEF Meeting!PassType
    <2>4. Meeting!MTypeOK'
      BY <2>1, <2>3, <1>t DEF Meeting!MTypeOK
    <2>5. VisitsFit'
      BY <2>1, <2>2, <1>v DEF VisitsFit
    <2>6. LoadedInv'
      BY <2>1, <1>v DEF LoadedInv
    <2>7. RemindedInv => RemindedInv'
      <3>. SUFFICES ASSUME RemindedInv, mfailed = 0, ~mraced, NEW v \in Meeting!Window, NEW h \in Guests
                    PROVE  mgone'[v][h] <= 1 /\ (mgone'[v][h] # 0 => Reminded(v, h)')
        BY <2>1 DEF RemindedInv
      <3>1. mgone[v][h] <= 1 /\ (mgone[v][h] # 0 => Reminded(v, h))
        BY DEF RemindedInv
      <3>2. Reminded(v, h) => Reminded(v, h)'
        BY <2>1 DEF Reminded
      <3>3. CASE v = w /\ h = g
        <4>1. Reminded(w, g)'
          BY <2>1, <2>2 DEF Reminded
        <4>2. ~Reminded(w, g)
          BY <2>1, <2>2, <1>v DEF Reminded, LoadedInv
        <4>3. mgone[w][g] = 0
          BY <4>2, <3>1, <3>3
        <4>4. mgone'[w][g] \in {0, 1}
          BY <4>3, <2>1, <1>t
        <4>. QED BY <4>1, <4>4, <3>3
      <3>4. CASE ~(v = w /\ h = g)
        <4>1. mgone'[v][h] = mgone[v][h]
          BY <3>4, <2>1, <1>t
        <4>. QED BY <4>1, <3>1, <3>2
      <3>. QED BY <3>3, <3>4
    <2>. QED BY <2>4, <2>5, <2>6, <2>7, <1>v DEF MeetingInv
  <1>3. ASSUME NEW w \in Meeting!Window, Meeting!ReminderEnds(w) PROVE MeetingInv'
    <2>1. /\ Meeting!Turn(w) /\ mpass.left = {}
          /\ mpass' = [pc |-> mpass.pc, moved |-> mpass.moved, old |-> mpass.old, todo |-> mpass.todo \ {w},
                       left |-> Guests, new |-> mpass.new \union {w}]
          /\ mtold' = IF mpass.moved = mmoved THEN mtold \union {w} ELSE mtold
          /\ UNCHANGED <<mstate, mtime, mmoved, mdone, mform, mgone, mfailed, mraced>>
      BY <1>3, <1>p DEF Meeting!ReminderEnds
    <2>2. mpass.pc = "open" /\ w \in mpass.todo /\ \A v \in mpass.todo : w <= v
      BY <2>1 DEF Meeting!Turn
    <2>3. mpass' \in Meeting!PassType
      <3>1. mpass.todo \ {w} \in SUBSET Meeting!Window /\ mpass.new \union {w} \in SUBSET Meeting!Window
        BY <1>p
      <3>. QED BY <3>1, <2>1, <1>p DEF Meeting!PassType
    <2>4. Meeting!MTypeOK'
      BY <2>1, <2>3, <1>t DEF Meeting!MTypeOK
    <2>5. VisitsFit'
      BY <2>1, <2>2, <1>v DEF VisitsFit
    <2>6. LoadedInv'
      BY <2>1, <2>2, <1>v DEF LoadedInv
    <2>7. RemindedInv => RemindedInv'
      <3>1. \A v \in Meeting!Window, g \in Guests : Reminded(v, g) => Reminded(v, g)'
        <4>. SUFFICES ASSUME NEW v \in Meeting!Window, NEW g \in Guests, Reminded(v, g) PROVE Reminded(v, g)'
          OBVIOUS
        <4>1. CASE v \in mpass.todo /\ \A u \in mpass.todo : v <= u
          <5>1. v = w
            BY <4>1, <2>2, <1>w
          <5>. QED BY <5>1, <2>1, <2>2 DEF Reminded
        <4>2. CASE v \in mdone \/ v \in mpass.new
          BY <4>2, <2>1, <2>2 DEF Reminded
        <4>. QED BY <4>1, <4>2 DEF Reminded
      <3>. QED BY <3>1, <2>1 DEF RemindedInv
    <2>. QED BY <2>4, <2>5, <2>6, <2>7, <1>v DEF MeetingInv
  <1>4. ASSUME NEW w \in Meeting!Window, Meeting!ReminderRaises(w) PROVE MeetingInv'
    <2>1. /\ Meeting!Turn(w) /\ mfailed < MaxFailed /\ mfailed' = mfailed + 1
          /\ mpass' = [pc |-> mpass.pc, moved |-> mpass.moved, old |-> mpass.old, todo |-> mpass.todo \ {w},
                       left |-> Guests, new |-> mpass.new]
          /\ UNCHANGED <<mstate, mtime, mmoved, mdone, mform, mgone, mtold, mraced>>
      BY <1>4, <1>p DEF Meeting!ReminderRaises
    <2>2. mpass' \in Meeting!PassType
      <3>1. mpass.todo \ {w} \in SUBSET Meeting!Window
        BY <1>p
      <3>. QED BY <3>1, <2>1, <1>p DEF Meeting!PassType
    <2>3. Meeting!MTypeOK' /\ mfailed' # 0
      BY <2>1, <2>2, <1>t DEF Meeting!MTypeOK
    <2>4. VisitsFit' /\ LoadedInv' /\ RemindedInv'
      BY <2>1, <2>3, <1>v DEF VisitsFit, LoadedInv, RemindedInv, Meeting!Turn
    <2>. QED BY <2>3, <2>4 DEF MeetingInv
  <1>5. CASE Meeting!CommitPass
    <2>1. /\ mpass.pc = "open" /\ mpass.todo = {} /\ mpass' = Meeting!IdlePass
          /\ mdone' = IF mpass.new = {} THEN mdone ELSE mpass.old \union mpass.new
          /\ UNCHANGED <<mstate, mtime, mmoved, mform, mgone, mtold, mfailed, mraced>>
      BY <1>5 DEF Meeting!CommitPass
    <2>2. Meeting!MTypeOK'
      BY <2>1, <1>t, <1>p, <1>i DEF Meeting!MTypeOK
    <2>3. VisitsFit'
      BY <2>1, <1>v DEF VisitsFit, Meeting!IdlePass
    <2>4. ~mraced => mdone' = mdone \union mpass.new /\ mform.pc = "idle"
      BY <2>1, <1>v, <1>t DEF LoadedInv
    <2>5. LoadedInv'
      BY <2>1, <2>4, <1>v DEF LoadedInv, Meeting!IdlePass
    <2>6. RemindedInv => RemindedInv'
      BY <2>1, <2>4 DEF RemindedInv, Reminded
    <2>. QED BY <2>2, <2>3, <2>5, <2>6, <1>v DEF MeetingInv
  <1>6. CASE Meeting!LosePass
    <2>1. /\ mfailed < MaxFailed /\ mfailed' = mfailed + 1 /\ mpass' = Meeting!IdlePass
          /\ UNCHANGED <<mstate, mtime, mmoved, mdone, mform, mgone, mtold, mraced>>
      BY <1>6 DEF Meeting!LosePass
    <2>2. Meeting!MTypeOK' /\ mfailed' # 0
      BY <2>1, <1>t, <1>i DEF Meeting!MTypeOK
    <2>3. VisitsFit' /\ LoadedInv' /\ RemindedInv'
      BY <2>1, <2>2, <1>v DEF VisitsFit, LoadedInv, RemindedInv, Meeting!IdlePass
    <2>. QED BY <2>2, <2>3 DEF MeetingInv
  <1>7. CASE Meeting!LoadForm
    <2>1. /\ mmoved < MaxMoved /\ mform' = [pc |-> "open", done |-> mdone]
          /\ mraced' = (mraced \/ mpass.pc # "idle")
          /\ UNCHANGED <<mstate, mtime, mmoved, mdone, mpass, mgone, mtold, mfailed>>
      BY <1>7 DEF Meeting!LoadForm
    <2>2. Meeting!MTypeOK'
      BY <2>1, <1>t DEF Meeting!MTypeOK
    <2>3. VisitsFit' /\ LoadedInv' /\ (RemindedInv => RemindedInv')
      BY <2>1, <1>v, <1>p DEF VisitsFit, LoadedInv, RemindedInv, Reminded
    <2>. QED BY <2>2, <2>3, <1>v DEF MeetingInv
  <1>8. ASSUME NEW t \in 0..W, Meeting!SaveForm(t) PROVE MeetingInv'
    <2>. DEFINE zero == [w \in Meeting!Window |-> [g \in Guests |-> 0]]
    <2>1. /\ mform.pc = "open" /\ (Same \/ t # mtime) /\ mmoved' = mmoved + 1 /\ mtime' = t
          /\ mgone' = IF t = mtime THEN mgone ELSE zero
          /\ mtold' = IF t = mtime THEN mtold ELSE {}
          /\ mform' = Meeting!NoForm /\ UNCHANGED <<mstate, mpass, mfailed, mraced>>
          /\ mdone' = IF mform.done = {} THEN mdone ELSE {}
      BY <1>8 DEF Meeting!SaveForm, Meeting!Moved
    <2>2. mgone' \in [Meeting!Window -> [Guests -> Nat]] /\ mtold' \subseteq Meeting!Window /\ mdone' \subseteq Meeting!Window
      BY <2>1, <1>t
    <2>3. mmoved' \in 0..MaxMoved
      BY <2>1, <1>t, <1>v DEF VisitsFit
    <2>4. Meeting!MTypeOK'
      <3>1. t \in 0..(W + 1) /\ Meeting!NoForm \in [pc : {"idle", "open"}, done : SUBSET Meeting!Window]
        BY DEF Meeting!NoForm
      <3>. QED BY <3>1, <2>1, <2>2, <2>3, <1>t DEF Meeting!MTypeOK
    <2>5. VisitsFit'
      BY <2>1, <1>v DEF VisitsFit, Meeting!NoForm
    <2>6. LoadedInv'
      BY <2>1, <1>v DEF LoadedInv, Meeting!NoForm
    <2>7. ~Same => RemindedInv'
      <3>1. ~Same => \A w \in Meeting!Window, g \in Guests : mgone'[w][g] = 0
        BY <2>1
      <3>. QED BY <3>1 DEF RemindedInv
    <2>. QED BY <2>4, <2>5, <2>6, <2>7 DEF MeetingInv
  <1>9. CASE Meeting!Tick \/ (\E st \in {"active", "closed"} : Meeting!SetStatus(st)) \/ UNCHANGED mvars
    <2>1. /\ mstate' \in {"active", "closed"} /\ mtime' \in 0..(W + 1)
          /\ UNCHANGED <<mmoved, mdone, mpass, mform, mgone, mtold, mfailed, mraced>>
      BY <1>9, <1>t DEF Meeting!Tick, Meeting!SetStatus, mvars
    <2>2. Meeting!MTypeOK'
      BY <2>1, <1>t DEF Meeting!MTypeOK
    <2>3. VisitsFit' /\ LoadedInv' /\ (RemindedInv => RemindedInv')
      BY <2>1, <1>v DEF VisitsFit, LoadedInv, RemindedInv, Reminded
    <2>. QED BY <2>2, <2>3, <1>v DEF MeetingInv
  <1>. QED BY <1>1, <1>2, <1>3, <1>4, <1>5, <1>6, <1>7, <1>8, <1>9 DEF Meeting!MNext,
     Meeting!PassStep

LEMMA MeetingFollow ==
    ASSUME MeetingInv, ~Same
    PROVE  Meeting!RemindersOnce
  BY DEF MeetingInv, Meeting!RemindersOnce, Meeting!RemindedOnce, Meeting!RecordIsOfStart,
     RemindedInv, LoadedInv

LEMMA MeetingStep == [Next]_vars => [Meeting!MNext]_mvars
  BY DEF Next, vars, In, mvars

-----------------------------------------------------------------------------
(* The pace of the poller *)

LoopType == [at : {"asleep", "passing", "looking", "looked"}, left : Nat, busy : 0..MaxPass,
             did : BOOLEAN, pending : BOOLEAN, due : Nat, ok : BOOLEAN]
PacingShape ==
    /\ ploop \in LoopType /\ pwake \in BOOLEAN /\ psince \in 0..ActiveWindow /\ plast \in {0, 1}
    /\ pjob \in [Pacing!PollJobs -> 0..Pacing!None] /\ pdb \in BOOLEAN /\ pseen \subseteq Pacing!PollJobs
    /\ pwait \in [Pacing!PollJobs -> Nat] /\ pasked \in 0..Pacing!Nobody

\* A request that waits came since the last pass began, and the loop sleeps no
\* longer than the interval, or has been woken.
AskedInv ==
    pasked # Pacing!Nobody =>
      /\ psince <= pasked
      /\ plast = 0 => pasked = 0
      /\ pasked <= Interval + MaxPass
      /\ ploop.at = "asleep" => pwake \/ pasked + ploop.left <= Interval + MaxPass
      /\ ploop.at # "asleep" => pasked <= ploop.busy

\* What a look has found is there, and is done soon.
FoundInv ==
    /\ ploop.at # "looked" => ploop.ok
    /\ ~pdb => pseen = {} /\ \A j \in Pacing!PollJobs : pwait[j] = 0
    /\ \A j \in pseen : Pacing!Open(j)
    /\ ploop.at = "looked" /\ ~ploop.ok => pseen = {}
    /\ ploop.at = "looked" /\ ploop.ok => \A j \in pseen : ploop.pending \/ ploop.due <= pjob[j]
    /\ \A j \in Pacing!PollJobs : pwait[j] # 0 => pjob[j] = 0

\* How long a job has waited, and may still wait.
WaitInv ==
    \A j \in Pacing!PollJobs \ Stuck :
      /\ plast = 0 /\ ploop.at # "passing" => pwait[j] = 0
      /\ ploop.at \in {"looking", "looked"} => pwait[j] = 0
      /\ ploop.at = "asleep" =>
           /\ pwait[j] + ploop.left <= IdleInterval
           /\ j \in pseen => pwait[j] + ploop.left <= pjob[j] + Interval
      /\ ploop.at = "passing" =>
           /\ pwait[j] <= IdleInterval + ploop.busy
           /\ j \in pseen => pwait[j] <= Interval + ploop.busy

PacingInv == PacingShape /\ AskedInv /\ FoundInv /\ WaitInv

LEMMA LeastIs ==
    ASSUME NEW S, S \subseteq Nat, S # {}
    PROVE  Pacing!Least(S) \in S /\ \A u \in S : Pacing!Least(S) <= u
  <1>1. \E t \in S : \A u \in S : t <= u
    BY Least
  <1>. QED BY <1>1 DEF Pacing!Least

LEMMA LoopTyped ==
    ASSUME NEW l \in LoopType
    PROVE  /\ l.at \in {"asleep", "passing", "looking", "looked"} /\ l.left \in Nat /\ l.busy \in 0..MaxPass
           /\ l.did \in BOOLEAN /\ l.pending \in BOOLEAN /\ l.due \in Nat /\ l.ok \in BOOLEAN
           /\ l = [at |-> l.at, left |-> l.left, busy |-> l.busy, did |-> l.did,
                   pending |-> l.pending, due |-> l.due, ok |-> l.ok]
  BY DEF LoopType

LEMMA RestingTyped ==
    ASSUME NEW d \in Nat
    PROVE  Pacing!Resting(d) \in LoopType /\ Pacing!Resting(d).at = "asleep" /\ Pacing!Resting(d).left = d /\ Pacing!Resting(d).ok
  BY PacingAssumption DEF Pacing!Resting, LoopType, Pacing!None

\* The delay is the interval when somebody is about, and never above the idle
\* interval or the time of what is known of.
LEMMA DelayIs ==
    ASSUME NEW l \in LoopType, NEW s \in Nat
    PROVE  /\ Pacing!NextDelay(l, s) \in Nat /\ Pacing!NextDelay(l, s) <= IdleInterval
           /\ l.ok /\ s < ActiveWindow => Pacing!NextDelay(l, s) = Interval
           /\ l.ok /\ l.pending => Pacing!NextDelay(l, s) = Interval
           /\ l.ok => Pacing!NextDelay(l, s) = Interval \/ Pacing!NextDelay(l, s) <= l.due
  <1>1. l.due \in Nat /\ l.ok \in BOOLEAN /\ l.pending \in BOOLEAN /\ l.did \in BOOLEAN
    BY LoopTyped
  <1>2. /\ Pacing!Least({IdleInterval, l.due}) \in Nat
        /\ Pacing!Least({IdleInterval, l.due}) <= IdleInterval
        /\ Pacing!Least({IdleInterval, l.due}) <= l.due
    BY <1>1, LeastIs, PacingAssumption
  <1>. QED BY <1>1, <1>2, PacingAssumption DEF Pacing!NextDelay

LEMMA PacingInit ==
    ASSUME Pacing!PInit
    PROVE  PacingInv
  <1>a. /\ Interval \in Nat /\ IdleInterval \in Nat /\ ActiveWindow \in Nat /\ MaxPass \in Nat
        /\ Interval <= IdleInterval
        /\ Pacing!None = IdleInterval + 2 /\ Pacing!Nobody = IdleInterval + MaxPass + 1
    BY PacingAssumption DEF Pacing!None, Pacing!Nobody
  <1>1. ploop \in LoopType /\ ploop.at = "asleep" /\ ploop.left = Interval /\ ploop.ok
    BY <1>a, RestingTyped DEF Pacing!PInit
  <1>t. /\ pwake = FALSE /\ psince = ActiveWindow /\ plast = 1 /\ pdb = TRUE /\ pseen = {} /\ pasked = Pacing!Nobody
        /\ pjob = [j \in Pacing!PollJobs |-> Pacing!None] /\ pwait = [j \in Pacing!PollJobs |-> 0]
    BY DEF Pacing!PInit
  <1>2. PacingShape
    <2>1. Pacing!None \in 0..Pacing!None /\ 0 \in Nat /\ Pacing!Nobody \in 0..Pacing!Nobody /\ ActiveWindow \in 0..ActiveWindow
      BY <1>a
    <2>2. pjob \in [Pacing!PollJobs -> 0..Pacing!None] /\ pwait \in [Pacing!PollJobs -> Nat]
      BY <2>1, <1>t
    <2>. QED BY <2>1, <2>2, <1>1, <1>t DEF PacingShape
  <1>w. \A j \in Pacing!PollJobs : pwait[j] = 0
    BY <1>t
  <1>3. AskedInv /\ FoundInv
    BY <1>1, <1>t, <1>w DEF AskedInv, FoundInv
  <1>4. WaitInv
    BY <1>1, <1>t, <1>w, <1>a DEF WaitInv
  <1>. QED BY <1>2, <1>3, <1>4 DEF PacingInv

LEMMA PacingKept ==
    ASSUME ~KeepsAsked, PacingInv, [Pacing!PNext]_pvars
    PROVE  PacingInv'
  <1>. USE DEF PacingInv
  <1>a. /\ Interval \in Nat /\ IdleInterval \in Nat /\ ActiveWindow \in Nat /\ MaxPass \in Nat
        /\ Interval <= IdleInterval /\ MaxPass < ActiveWindow /\ Delays \subseteq 0..(IdleInterval + 1)
        /\ Pacing!None = IdleInterval + 2 /\ Pacing!Nobody = IdleInterval + MaxPass + 1
    BY PacingAssumption DEF Pacing!None, Pacing!Nobody
  <1>t. /\ ploop \in LoopType /\ pwake \in BOOLEAN /\ psince \in 0..ActiveWindow /\ plast \in {0, 1}
        /\ pjob \in [Pacing!PollJobs -> 0..Pacing!None] /\ pdb \in BOOLEAN /\ pseen \subseteq Pacing!PollJobs
        /\ pwait \in [Pacing!PollJobs -> Nat] /\ pasked \in 0..Pacing!Nobody
    BY DEF PacingShape
  <1>l. /\ ploop.at \in {"asleep", "passing", "looking", "looked"} /\ ploop.left \in Nat
        /\ ploop.busy \in 0..MaxPass
        /\ ploop.did \in BOOLEAN /\ ploop.pending \in BOOLEAN /\ ploop.due \in Nat /\ ploop.ok \in BOOLEAN
        /\ ploop = [at |-> ploop.at, left |-> ploop.left, busy |-> ploop.busy, did |-> ploop.did,
                    pending |-> ploop.pending, due |-> ploop.due, ok |-> ploop.ok]
    BY <1>t, LoopTyped
  <1>1. CASE Pacing!Begin
    <2>1. /\ ploop.at = "asleep" /\ (ploop.left = 0 \/ pwake)
          /\ ploop' = [Pacing!Resting(0) EXCEPT !.at = IF pdb /\ plast = 0 THEN "looking" ELSE "passing"]
          /\ plast' = IF pdb THEN 0 ELSE plast
          /\ pasked' = IF pdb /\ plast = 0 THEN pasked ELSE Pacing!Nobody
          /\ UNCHANGED <<pwake, psince, pjob, pdb, pseen, pwait>>
      BY <1>1 DEF Pacing!Begin
    <2>2. /\ ploop'.at = (IF pdb /\ plast = 0 THEN "looking" ELSE "passing") /\ ploop'.busy = 0
          /\ ploop'.ok /\ ploop' \in LoopType
      <3>1. ploop' = [at |-> IF pdb /\ plast = 0 THEN "looking" ELSE "passing", left |-> 0, busy |-> 0,
                      did |-> FALSE, pending |-> FALSE, due |-> Pacing!None, ok |-> TRUE]
        BY <2>1 DEF Pacing!Resting
      <3>2. Pacing!None \in Nat /\ 0 \in 0..MaxPass /\ 0 \in Nat
        BY <1>a
      <3>. QED BY <3>1, <3>2 DEF LoopType
    <2>3. PacingShape'
      BY <2>1, <2>2, <1>t, <1>a DEF PacingShape
    <2>4. AskedInv'
      BY <2>1, <2>2, <1>t, <1>a DEF AskedInv
    <2>5. FoundInv'
      BY <2>1, <2>2 DEF FoundInv, Pacing!Open
    <2>6. WaitInv'
      <3>. SUFFICES ASSUME NEW j \in Pacing!PollJobs \ Stuck
                    PROVE  /\ plast' = 0 /\ ploop'.at # "passing" => pwait[j] = 0
                           /\ ploop'.at \in {"looking", "looked"} => pwait[j] = 0
                           /\ ploop'.at = "passing" => pwait[j] <= IdleInterval /\ (j \in pseen => pwait[j] <= Interval)
        BY <2>1, <2>2, <1>t, <1>a DEF WaitInv
      <3>1. /\ plast = 0 => pwait[j] = 0
            /\ pwait[j] + ploop.left <= IdleInterval
            /\ j \in pseen => pwait[j] + ploop.left <= pjob[j] + Interval
        BY <2>1 DEF WaitInv
      <3>2. pwait[j] # 0 => pjob[j] = 0
        BY DEF FoundInv
      <3>3. pwait[j] \in Nat /\ pjob[j] \in Nat
        BY <1>t, <1>a
      <3>4. j \in pseen => pwait[j] <= Interval
        BY <3>1, <3>2, <3>3, <1>l, <1>a
      <3>. QED BY <3>1, <3>3, <3>4, <2>2, <1>l, <1>a
    <2>. QED BY <2>3, <2>4, <2>5, <2>6
  <1>2. CASE Pacing!Serve
    <2>1. /\ ploop.at = "passing" /\ pdb
          /\ pjob' = [j \in Pacing!PollJobs |-> IF j \in Pacing!Due \ Stuck THEN Pacing!None ELSE pjob[j]]
          /\ pwait' = [j \in Pacing!PollJobs |-> IF j \in Pacing!Due \ Stuck THEN 0 ELSE pwait[j]]
          /\ pseen' = pseen \ (Pacing!Due \ Stuck)
          /\ UNCHANGED <<pwake, psince, plast, pdb, pasked>>
      BY <1>2 DEF Pacing!Serve
    <2>2. PICK did \in {FALSE, Pacing!Due \ Stuck # {}} : ploop' = [ploop EXCEPT !.at = "looking", !.did = did]
      BY <1>2 DEF Pacing!Serve
    <2>3. ploop' = [at |-> "looking", left |-> ploop.left, busy |-> ploop.busy, did |-> did,
                    pending |-> ploop.pending, due |-> ploop.due, ok |-> ploop.ok]
      BY <2>2, <1>l
    <2>4. ploop' \in LoopType
      BY <2>3, <1>l DEF LoopType
    <2>5. PacingShape'
      BY <2>1, <2>4, <1>t, <1>a DEF PacingShape
    <2>6. AskedInv'
      BY <2>1, <2>3 DEF AskedInv
    <2>7. FoundInv'
      BY <2>1, <2>3, <1>t, <1>a DEF FoundInv, Pacing!Open
    <2>8. \A j \in Pacing!PollJobs \ Stuck : pwait'[j] = 0
      BY <2>1 DEF FoundInv, Pacing!Due
    <2>9. WaitInv'
      BY <2>3, <2>8 DEF WaitInv
    <2>. QED BY <2>5, <2>6, <2>7, <2>9
  <1>3. CASE Pacing!Fails
    <2>1. /\ ploop.at = "passing" /\ ~pdb
          /\ \/ ploop' = [ploop EXCEPT !.at = "looked", !.ok = FALSE]
             \/ ploop' = [ploop EXCEPT !.at = "looking"]
          /\ UNCHANGED <<pwake, psince, plast, pjob, pdb, pseen, pwait, pasked>>
      BY <1>3 DEF Pacing!Fails
    <2>2. /\ ploop'.at \in {"looking", "looked"} /\ ploop'.busy = ploop.busy
          /\ ploop'.at = "looked" => ~ploop'.ok
          /\ ploop'.at = "looking" => ploop'.ok
          /\ ploop' \in LoopType
      <3>1. ploop.ok
        BY <2>1 DEF FoundInv
      <3>2. \/ ploop' = [at |-> "looked", left |-> ploop.left, busy |-> ploop.busy, did |-> ploop.did,
                         pending |-> ploop.pending, due |-> ploop.due, ok |-> FALSE]
            \/ ploop' = [at |-> "looking", left |-> ploop.left, busy |-> ploop.busy, did |-> ploop.did,
                         pending |-> ploop.pending, due |-> ploop.due, ok |-> ploop.ok]
        BY <2>1, <1>l
      <3>3. CASE ploop' = [at |-> "looked", left |-> ploop.left, busy |-> ploop.busy, did |-> ploop.did,
                           pending |-> ploop.pending, due |-> ploop.due, ok |-> FALSE]
        BY <3>3, <1>l DEF LoopType
      <3>4. CASE ploop' = [at |-> "looking", left |-> ploop.left, busy |-> ploop.busy, did |-> ploop.did,
                           pending |-> ploop.pending, due |-> ploop.due, ok |-> ploop.ok]
        BY <3>1, <3>4, <1>l DEF LoopType
      <3>. QED BY <3>2, <3>3, <3>4
    <2>3. PacingShape'
      BY <2>1, <2>2, <1>t DEF PacingShape
    <2>4. AskedInv'
      BY <2>1, <2>2 DEF AskedInv
    <2>5. FoundInv'
      BY <2>1, <2>2 DEF FoundInv
    <2>6. WaitInv'
      BY <2>1, <2>2 DEF WaitInv, FoundInv
    <2>. QED BY <2>3, <2>4, <2>5, <2>6
  <1>4. CASE Pacing!Look
    <2>. DEFINE now == Pacing!Due \intersect Countable
                next == {j \in Timed \union Countable : Pacing!Open(j)} \ now
                times == {pjob[j] : j \in next} \union {Pacing!None}
    <2>1. /\ ploop.at = "looking"
          /\ pdb => /\ ploop' = [ploop EXCEPT !.at = "looked", !.pending = now # {}, !.due = Pacing!Least(times)]
                    /\ pseen' = now \union next
          /\ ~pdb => ploop' = [ploop EXCEPT !.at = "looked", !.ok = FALSE] /\ pseen' = pseen
          /\ UNCHANGED <<pwake, psince, plast, pjob, pdb, pwait, pasked>>
      BY <1>4 DEF Pacing!Look
    <2>2. next \subseteq Pacing!PollJobs /\ times \subseteq Nat /\ Pacing!None \in times
      BY <1>t, <1>a DEF Pacing!PollJobs
    <2>3. Pacing!Least(times) \in Nat /\ \A j \in next : Pacing!Least(times) <= pjob[j]
      BY <2>2, LeastIs
    <2>4. pdb => ploop' = [at |-> "looked", left |-> ploop.left, busy |-> ploop.busy, did |-> ploop.did,
                           pending |-> now # {}, due |-> Pacing!Least(times), ok |-> ploop.ok]
      BY <2>1, <1>l
    <2>5. ~pdb => ploop' = [at |-> "looked", left |-> ploop.left, busy |-> ploop.busy, did |-> ploop.did,
                            pending |-> ploop.pending, due |-> ploop.due, ok |-> FALSE]
      BY <2>1, <1>l
    <2>. HIDE DEF times, next
    <2>6. ploop' \in LoopType /\ ploop'.at = "looked" /\ ploop'.busy = ploop.busy
      <3>1. CASE pdb
        <4>1. PICK some \in BOOLEAN : some <=> now # {}
          OBVIOUS
        <4>2. PICK least \in Nat : least = Pacing!Least(times)
          BY <2>3
        <4>3. ploop' = [at |-> "looked", left |-> ploop.left, busy |-> ploop.busy, did |-> ploop.did,
                        pending |-> some, due |-> least, ok |-> ploop.ok]
          BY <3>1, <2>4, <4>1, <4>2
        <4>. QED BY <4>3, <1>l DEF LoopType
      <3>2. CASE ~pdb
        <4>1. ploop' = [at |-> "looked", left |-> ploop.left, busy |-> ploop.busy, did |-> ploop.did,
                        pending |-> ploop.pending, due |-> ploop.due, ok |-> FALSE]
          BY <3>2, <2>5
        <4>. QED BY <4>1, <1>l DEF LoopType
      <3>. QED BY <3>1, <3>2, <1>t
    <2>7. now \union next \subseteq Pacing!PollJobs
      BY <2>2 DEF Pacing!Due
    <2>8. PacingShape'
      BY <2>1, <2>6, <2>7, <1>t DEF PacingShape
    <2>9. AskedInv'
      BY <2>1, <2>6 DEF AskedInv
    <2>10. FoundInv'
      <3>1. CASE pdb
        <4>1. \A j \in now : ploop'.pending
          <5>1. (now # {}) \in BOOLEAN
            OBVIOUS
          <5>2. ploop'.pending = (now # {})
            BY <5>1, <3>1, <2>4
          <5>. QED BY <5>2
        <4>2. \A j \in next : ploop'.due <= pjob[j]
          BY <3>1, <2>3, <2>4
        <4>3. \A j \in now \union next : Pacing!Open(j)
          BY <1>a DEF Pacing!Due, Pacing!Open, next
        <4>4. ploop'.ok = ploop.ok
          BY <3>1, <2>4
        <4>5. ploop.ok
          BY <2>1 DEF FoundInv
        <4>. QED BY <4>1, <4>2, <4>3, <4>4, <4>5, <3>1, <2>1 DEF FoundInv, Pacing!Open
      <3>2. CASE ~pdb
        BY <3>2, <2>1, <2>5 DEF FoundInv
      <3>. QED BY <3>1, <3>2, <1>t
    <2>11. WaitInv'
      BY <2>1, <2>6 DEF WaitInv
    <2>. QED BY <2>8, <2>9, <2>10, <2>11
  <1>5. CASE Pacing!FallsAsleep
    <2>. DEFINE d == Pacing!NextDelay(ploop, psince)
    <2>1. /\ ploop.at = "looked" /\ ploop' = Pacing!Resting(d) /\ pwake' = FALSE
          /\ pasked' = IF ploop.ok THEN pasked ELSE Pacing!Nobody
          /\ UNCHANGED <<psince, plast, pjob, pdb, pseen, pwait>>
      BY <1>5 DEF Pacing!FallsAsleep
    <2>2. /\ d \in Nat /\ d <= IdleInterval
          /\ ploop.ok /\ psince < ActiveWindow => d = Interval
          /\ ploop.ok /\ ploop.pending => d = Interval
          /\ ploop.ok => d = Interval \/ d <= ploop.due
      BY <1>t, <1>a, DelayIs
    <2>. HIDE DEF d
    <2>3. ploop' \in LoopType /\ ploop'.at = "asleep" /\ ploop'.left = d /\ ploop'.ok
      BY <2>1, <2>2, RestingTyped DEF Pacing!Resting
    <2>4. PacingShape'
      <3>1. pasked' \in 0..Pacing!Nobody
        BY <2>1, <1>t, <1>a
      <3>. QED BY <3>1, <2>1, <2>3, <1>t DEF PacingShape
    <2>5. AskedInv'
      <3>. SUFFICES ASSUME pasked' # Pacing!Nobody PROVE AskedInv'
        BY DEF AskedInv
      <3>1. ploop.ok /\ pasked' = pasked /\ pasked # Pacing!Nobody /\ pasked \in Nat /\ psince \in Nat
        BY <2>1, <1>t
      <3>2. psince <= pasked /\ pasked <= ploop.busy /\ ploop.busy <= MaxPass /\ ploop.busy \in Nat
        BY <3>1, <2>1, <1>l, <1>a DEF AskedInv
      <3>3. d = Interval
        BY <3>1, <3>2, <2>2, <1>a
      <3>4. pasked + d <= Interval + MaxPass
        BY <3>1, <3>2, <3>3, <1>a
      <3>. QED BY <3>1, <3>2, <3>4, <2>1, <2>3, <1>a DEF AskedInv
    <2>6. FoundInv'
      BY <2>1, <2>3 DEF FoundInv, Pacing!Open
    <2>7. WaitInv'
      <3>. SUFFICES ASSUME NEW j \in Pacing!PollJobs \ Stuck
                    PROVE  pwait[j] = 0 /\ (j \in pseen => d <= pjob[j] + Interval)
        BY <2>1, <2>2, <2>3, <1>t, <1>a DEF WaitInv
      <3>1. pwait[j] = 0
        BY <2>1 DEF WaitInv
      <3>2. pjob[j] \in Nat
        BY <1>t, <1>a
      <3>3. j \in pseen => ploop.ok /\ (ploop.pending \/ ploop.due <= pjob[j])
        BY <2>1, <1>l DEF FoundInv
      <3>. QED BY <3>1, <3>2, <3>3, <2>2, <1>a, <1>l
    <2>. QED BY <2>4, <2>5, <2>6, <2>7
  <1>6. CASE Pacing!Request
    <2>1. /\ pwake' = TRUE /\ psince' = 0 /\ pasked' = IF pasked = Pacing!Nobody THEN 0 ELSE pasked
          /\ UNCHANGED <<ploop, plast, pjob, pdb, pseen, pwait>>
      BY <1>6 DEF Pacing!Request
    <2>2. PacingShape'
      BY <2>1, <1>t, <1>a DEF PacingShape
    <2>3. AskedInv'
      BY <2>1, <1>t, <1>a, <1>l DEF AskedInv
    <2>4. FoundInv' /\ WaitInv'
      BY <2>1 DEF FoundInv, WaitInv, Pacing!Open
    <2>. QED BY <2>2, <2>3, <2>4
  <1>7. CASE Pacing!Appears
    <2>1. PICK k \in Pacing!PollJobs, t \in Delays : ~Pacing!Open(k) /\ pjob' = [pjob EXCEPT ![k] = t]
      BY <1>7 DEF Pacing!Appears
    <2>2. UNCHANGED <<ploop, pwake, psince, plast, pdb, pseen, pwait, pasked>>
      BY <1>7 DEF Pacing!Appears
    <2>3. t \in 0..Pacing!None /\ t # Pacing!None
      BY <1>a
    <2>4. PacingShape'
      BY <2>1, <2>2, <2>3, <1>t DEF PacingShape
    <2>5. AskedInv'
      BY <2>2 DEF AskedInv
    <2>6. pwait[k] = 0 /\ k \notin pseen
      BY <2>1, <1>a DEF FoundInv, Pacing!Open
    <2>7. \A j \in Pacing!PollJobs : j # k => pjob'[j] = pjob[j]
      BY <2>1, <1>t
    <2>8. FoundInv'
      BY <2>2, <2>3, <2>6, <2>7, <1>t DEF FoundInv, Pacing!Open
    <2>9. WaitInv'
      BY <2>2, <2>6, <2>7 DEF WaitInv
    <2>. QED BY <2>4, <2>5, <2>8, <2>9
  <1>8. CASE Pacing!Outage
    <2>1. /\ pdb' = ~pdb /\ pseen' = {} /\ pwait' = [j \in Pacing!PollJobs |-> 0]
          /\ UNCHANGED <<ploop, pwake, psince, plast, pjob, pasked>>
      BY <1>8 DEF Pacing!Outage
    <2>2. PacingShape' /\ AskedInv' /\ FoundInv'
      BY <2>1, <1>t DEF PacingShape, AskedInv, FoundInv
    <2>3. WaitInv'
      <3>. SUFFICES ASSUME NEW j \in Pacing!PollJobs \ Stuck
                    PROVE  /\ ploop.at = "asleep" => 0 + ploop.left <= IdleInterval
                           /\ ploop.at = "passing" => 0 <= IdleInterval + ploop.busy
        BY <2>1 DEF WaitInv
      <3>. QED BY <1>t, <1>l, <1>a DEF WaitInv
    <2>. QED BY <2>2, <2>3
  <1>9. CASE Pacing!Clock
    <2>1. /\ psince' = Pacing!Up1(psince, ActiveWindow) /\ plast' = Pacing!Up1(plast, 1)
          /\ pjob' = [j \in Pacing!PollJobs |-> IF Pacing!Open(j) THEN Pacing!Down1(pjob[j]) ELSE Pacing!None]
          /\ pwait' = [j \in Pacing!PollJobs |-> IF j \in Pacing!Due /\ pdb THEN Pacing!Up1(pwait[j], Pacing!Nobody) ELSE pwait[j]]
          /\ pasked' = IF pasked = Pacing!Nobody THEN Pacing!Nobody ELSE Pacing!Up1(pasked, Pacing!Nobody - 1)
          /\ UNCHANGED <<pwake, pdb, pseen>>
          /\ \/ /\ ploop.at = "asleep" /\ ploop.left > 0 /\ ~pwake
                /\ ploop' = [ploop EXCEPT !.left = @ - 1]
             \/ /\ ploop.at = "passing" /\ ploop.busy < MaxPass
                /\ ploop' = [ploop EXCEPT !.busy = @ + 1]
      BY <1>9 DEF Pacing!Clock
    <2>2. /\ ploop' \in LoopType /\ ploop'.at = ploop.at /\ ploop'.ok = ploop.ok
          /\ \/ /\ ploop.at = "asleep" /\ ploop.left > 0 /\ ~pwake /\ ploop'.left = ploop.left - 1
                /\ ploop'.busy = ploop.busy
             \/ /\ ploop.at = "passing" /\ ploop'.busy = ploop.busy + 1
      BY <2>1, <1>l, <1>a DEF LoopType
    <2>3. /\ plast' = 1 /\ psince' \in 0..ActiveWindow /\ psince' <= psince + 1 /\ pasked' \in 0..Pacing!Nobody
          /\ pasked' # Pacing!Nobody => pasked # Pacing!Nobody /\ (pasked' = pasked + 1 \/ (pasked = Pacing!Nobody - 1 /\ pasked' = pasked))
      BY <2>1, <1>t, <1>a DEF Pacing!Up1
    <2>4. \A j \in Pacing!PollJobs :
            /\ pjob'[j] \in 0..Pacing!None /\ pwait'[j] \in Nat
            /\ pwait'[j] = pwait[j] \/ (pdb /\ pjob[j] = 0 /\ pwait'[j] <= pwait[j] + 1)
            /\ pjob[j] # Pacing!None => pjob'[j] # Pacing!None /\ pjob'[j] >= pjob[j] - 1
            /\ pjob[j] = 0 => pjob'[j] = 0
      <3>. TAKE j \in Pacing!PollJobs
      <3>1. pjob[j] \in 0..Pacing!None /\ pwait[j] \in Nat
        BY <1>t
      <3>2. pjob'[j] = (IF Pacing!Open(j) THEN Pacing!Down1(pjob[j]) ELSE Pacing!None)
            /\ pwait'[j] = (IF j \in Pacing!Due /\ pdb THEN Pacing!Up1(pwait[j], Pacing!Nobody) ELSE pwait[j])
        BY <2>1
      <3>3. j \in Pacing!Due <=> pjob[j] = 0
        BY DEF Pacing!Due
      <3>4. pwait'[j] \in Nat /\ (pwait'[j] = pwait[j] \/ (pdb /\ pjob[j] = 0 /\ pwait'[j] <= pwait[j] + 1))
        BY <3>1, <3>2, <3>3, <1>a DEF Pacing!Up1
      <3>5. /\ pjob'[j] \in 0..Pacing!None /\ (pjob[j] = 0 => pjob'[j] = 0)
            /\ pjob[j] # Pacing!None => pjob'[j] # Pacing!None /\ pjob'[j] >= pjob[j] - 1
        BY <3>1, <3>2, <1>a DEF Pacing!Down1, Pacing!Open
      <3>. QED BY <3>4, <3>5
    <2>5. PacingShape'
      <3>1. pjob' \in [Pacing!PollJobs -> 0..Pacing!None] /\ pwait' \in [Pacing!PollJobs -> Nat]
        BY <2>1, <2>4
      <3>. QED BY <3>1, <2>1, <2>2, <2>3, <1>t DEF PacingShape
    <2>6. AskedInv'
      <3>. SUFFICES ASSUME pasked' # Pacing!Nobody PROVE AskedInv'
        BY DEF AskedInv
      <3>1. /\ psince <= pasked /\ pasked <= Interval + MaxPass /\ pasked \in Nat /\ psince \in Nat
            /\ ploop.at = "asleep" => pwake \/ pasked + ploop.left <= Interval + MaxPass
            /\ ploop.at # "asleep" => pasked <= ploop.busy
        BY <2>3, <1>t DEF AskedInv
      <3>2. ploop'.busy \in 0..MaxPass /\ psince' \in Nat /\ pasked' \in Nat
        BY <2>2, <2>3, LoopTyped
      <3>0. pasked < Pacing!Nobody - 1
        <4>1. CASE ploop.at = "asleep"
          BY <4>1, <3>1, <2>2, <1>l, <1>a
        <4>2. CASE ploop.at = "passing"
          BY <4>2, <3>1, <2>2, <3>2, <1>l, <1>a
        <4>. QED BY <4>1, <4>2, <2>2
      <3>3. psince' <= pasked'
        BY <3>0, <3>1, <3>2, <2>3, <1>a
      <3>. QED BY <3>1, <3>2, <3>3, <2>1, <2>2, <2>3, <1>l, <1>a DEF AskedInv
    <2>7. FoundInv'
      <3>1. ~pdb => \A j \in Pacing!PollJobs : pwait'[j] = 0
        BY <2>4 DEF FoundInv
      <3>2. \A j \in pseen : Pacing!Open(j)'
        BY <2>1, <2>4, <1>t DEF FoundInv, Pacing!Open
      <3>3. \A j \in Pacing!PollJobs : pwait'[j] # 0 => pjob'[j] = 0
        BY <2>4, <1>t DEF FoundInv
      <3>4. ploop'.at # "looked"
        BY <2>2
      <3>. QED BY <3>1, <3>2, <3>3, <3>4, <2>1, <2>2 DEF FoundInv
    <2>8. WaitInv'
      <3>. SUFFICES ASSUME NEW j \in Pacing!PollJobs \ Stuck
                    PROVE  /\ ploop.at = "asleep" =>
                                /\ pwait'[j] + ploop'.left <= IdleInterval
                                /\ j \in pseen => pwait'[j] + ploop'.left <= pjob'[j] + Interval
                           /\ ploop.at = "passing" =>
                                /\ pwait'[j] <= IdleInterval + ploop'.busy
                                /\ j \in pseen => pwait'[j] <= Interval + ploop'.busy
        BY <2>1, <2>2, <2>3 DEF WaitInv
      <3>1. /\ pjob[j] \in Nat /\ pjob'[j] \in Nat /\ pwait[j] \in Nat /\ pwait'[j] \in Nat
            /\ pwait'[j] = pwait[j] \/ (pjob[j] = 0 /\ pjob'[j] = 0 /\ pwait'[j] <= pwait[j] + 1)
        BY <2>4, <1>t, <1>a
      <3>2. j \in pseen => pjob'[j] >= pjob[j] - 1
        BY <2>4 DEF FoundInv, Pacing!Open
      <3>3. /\ ploop.at = "asleep" =>
                 /\ pwait[j] + ploop.left <= IdleInterval
                 /\ j \in pseen => pwait[j] + ploop.left <= pjob[j] + Interval
            /\ ploop.at = "passing" =>
                 /\ pwait[j] <= IdleInterval + ploop.busy
                 /\ j \in pseen => pwait[j] <= Interval + ploop.busy
        BY DEF WaitInv
      <3>. QED BY <3>1, <3>2, <3>3, <2>2, <1>l, <1>a
    <2>. QED BY <2>5, <2>6, <2>7, <2>8
  <1>10. CASE UNCHANGED pvars
    BY <1>10 DEF pvars, PacingShape, AskedInv, FoundInv, WaitInv, Pacing!Open
  <1>. QED BY <1>1, <1>2, <1>3, <1>4, <1>5, <1>6, <1>7, <1>8, <1>9, <1>10 DEF Pacing!PNext,
     Pacing!LoopStep

LEMMA PacingFollow ==
    ASSUME PacingInv
    PROVE  Pacing!PassesInTime
  <1>1. pasked # Pacing!Nobody => pasked <= Interval + MaxPass
    BY DEF PacingInv, AskedInv
  <1>2. ASSUME NEW j \in Pacing!PollJobs \ Stuck
        PROVE  pwait[j] <= MaxPass + (IF j \in pseen THEN Interval ELSE IdleInterval)
    <2>1. /\ ploop.at \in {"asleep", "passing", "looking", "looked"} /\ ploop.left \in Nat
          /\ ploop.busy \in 0..MaxPass /\ pwait[j] \in Nat /\ pjob[j] \in Nat
      BY LoopTyped, PacingAssumption DEF PacingInv, PacingShape, Pacing!None
    <2>2. pwait[j] # 0 => pjob[j] = 0
      BY DEF PacingInv, FoundInv
    <2>. QED BY <2>1, <2>2, PacingAssumption DEF PacingInv, WaitInv
  <1>. QED BY <1>1, <1>2 DEF Pacing!PassesInTime

LEMMA PacingStep == [Next]_vars => [Pacing!PNext]_pvars
  BY DEF Next, vars, In, hvars, pvars

-----------------------------------------------------------------------------
(* The reminders of a campaign *)

\* A reminder that is logged has been sent or waits for the commit, and what
\* comes before it in the chain has gone: whatever sweeps overlap.
OrderInv ==
    /\ Reminders!ChainInOrder
    /\ \A k \in Reminders!Keys : rlog[k] = "sent" => rgone[k] > 0
    /\ \A s \in Sweepers, r \in Reminders!Rules, c \in People :
         /\ rsw[s].log[<<r, c>>] = "sent" =>
              /\ rsw[s].msg[c] # "none"
              /\ rsw[s].msg[c] = "sent" => rgone[<<r, c>>] > 0
              /\ r > 1 => rgone[<<r - 1, c>>] > 0
         /\ rsw[s].pc = "contacts" /\ c \in rsw[s].todo /\ rsw[s].rule = r /\ r > 1 =>
              rgone[<<r - 1, c>>] > 0 \/ rsw[s].msg[c] # "none"

\* With one sweep at a time: its rows are of contacts the rule has not handled,
\* the rules that have reminded a contact are the first ones, and each has a row
\* for every reminder that has gone.
ChainInv ==
    \A s \in Sweepers :
      /\ \A k \in Reminders!Keys : rsw[s].log[k] # "none" => rlog[k] \notin Reminders!Final
      /\ \A k \in rsw[s].new : rlog[k] = "none"
      /\ \A q, r \in Reminders!Rules, c \in People : q <= r =>
           /\ rlog[<<r, c>>] = "sent" => rlog[<<q, c>>] = "sent"
           /\ Reminders!Log(s, <<r, c>>) = "sent" => Reminders!Log(s, <<q, c>>) = "sent"
      /\ \A c \in rsw[s].todo : rsw[s].pc = "contacts" =>
           /\ Reminders!Log(s, <<rsw[s].rule, c>>) \notin Reminders!Final
           /\ rsw[s].rule > 1 => Reminders!Log(s, <<rsw[s].rule - 1, c>>) = "sent"
      /\ rlost = 0 => \A k \in Reminders!Keys :
           /\ rgone[k] <= 1
           /\ rgone[k] > 0 => Reminders!Log(s, k) = "sent"
           /\ rgone[k] > 0 /\ rsw[s].log[k] = "sent" => rsw[s].msg[k[2]] = "sent"

LEMMA IdleTyped == Reminders!IdleSweep \in Reminders!SweepType
  BY RulesAssumption DEF Reminders!IdleSweep, Reminders!SweepType, Reminders!Rules,
     Reminders!Nothing, Reminders!LogStatus

LEMMA RulesInit ==
    ASSUME Reminders!RInit
    PROVE  Reminders!RTypeOK /\ OrderInv /\ ChainInv
  <1>1. Reminders!RTypeOK
    BY IdleTyped, RulesAssumption DEF Reminders!RInit, Reminders!RTypeOK, Reminders!Nothing,
       Reminders!LogStatus, Reminders!Alive
  <1>2. \A r \in Reminders!Rules : r \in Nat /\ (r > 1 => r - 1 \in Reminders!Rules)
    BY RulesAssumption DEF Reminders!Rules
  <1>3. OrderInv
    BY <1>2 DEF Reminders!RInit, OrderInv, Reminders!ChainInOrder, Reminders!IdleSweep,
       Reminders!Nothing, Reminders!Keys
  <1>4. ChainInv
    BY DEF Reminders!RInit, ChainInv, Reminders!IdleSweep, Reminders!Nothing, Reminders!Keys,
       Reminders!Log, Reminders!Final
  <1>. QED BY <1>1, <1>3, <1>4

\* What logging leaves of the sweep, field by field.
LEMMA LoggedIs ==
    ASSUME Reminders!RTypeOK, NEW s \in Sweepers, NEW c \in People, Reminders!Turn(s, c),
           NEW status \in Reminders!LogStatus \ {"none"}
    PROVE  /\ Reminders!Logged(s, c, status) \in Reminders!SweepType
           /\ <<rsw[s].rule, c>> \in Reminders!Keys
           /\ Reminders!Logged(s, c, status).pc = "contacts"
           /\ Reminders!Logged(s, c, status).rule = rsw[s].rule
           /\ Reminders!Logged(s, c, status).todo = rsw[s].todo \ {c}
           /\ Reminders!Logged(s, c, status).msg = rsw[s].msg
           /\ Reminders!Logged(s, c, status).log = [rsw[s].log EXCEPT ![<<rsw[s].rule, c>>] = status]
           /\ Reminders!Logged(s, c, status).new = IF rlog[<<rsw[s].rule, c>>] = "none"
                                         THEN rsw[s].new \union {<<rsw[s].rule, c>>} ELSE rsw[s].new
  <1>. DEFINE k == <<rsw[s].rule, c>>
  <1>1. rsw[s] \in Reminders!SweepType /\ k \in Reminders!Keys
    BY DEF Reminders!RTypeOK, Reminders!SweepType, Reminders!Keys
  <1>2. rsw[s].pc = "contacts" /\ rsw[s].done \in 0..RuleLimit /\ rsw[s].done + 1 \in 0..RuleLimit
    BY <1>1, RulesAssumption DEF Reminders!Turn, Reminders!SweepType
  <1>3. Reminders!Logged(s, c, status) =
          [rsw[s] EXCEPT !.todo = rsw[s].todo \ {c},
                         !.log = [rsw[s].log EXCEPT ![k] = status],
                         !.new = IF rlog[k] = "none" THEN rsw[s].new \union {k} ELSE rsw[s].new,
                         !.done = IF status = "paused" THEN rsw[s].done ELSE rsw[s].done + 1]
    BY <1>1 DEF Reminders!Logged, Reminders!SweepType
  <1>4. [rsw[s].log EXCEPT ![k] = status] \in [Reminders!Keys -> Reminders!LogStatus]
    BY <1>1 DEF Reminders!SweepType
  <1>. HIDE DEF Reminders!Turn
  <1>5. Reminders!Logged(s, c, status) \in Reminders!SweepType
    <2>1. /\ rsw[s].todo \ {c} \in SUBSET People
          /\ (IF rlog[k] = "none" THEN rsw[s].new \union {k} ELSE rsw[s].new) \in SUBSET Reminders!Keys
          /\ (IF status = "paused" THEN rsw[s].done ELSE rsw[s].done + 1) \in 0..RuleLimit
      BY <1>1, <1>2 DEF Reminders!SweepType
    <2>. QED BY <1>1, <1>3, <1>4, <2>1 DEF Reminders!SweepType
  <1>. QED BY <1>1, <1>2, <1>3, <1>5 DEF Reminders!SweepType

LEMMA RulesTyped ==
    ASSUME Reminders!RTypeOK, [Reminders!RNext]_rvars
    PROVE  Reminders!RTypeOK'
  <1>. USE RulesAssumption DEF Reminders!RTypeOK
  <1>a. ASSUME NEW s \in Sweepers, NEW new \in Reminders!SweepType, rsw' = [rsw EXCEPT ![s] = new],
               UNCHANGED <<rcamp, rmsg, rdue, rout, rclosed, rlog, rgone, rlost>>
        PROVE  Reminders!RTypeOK'
    BY <1>a
  <1>1. ASSUME NEW s \in Sweepers, Reminders!SweepBegins(s)
        PROVE  Reminders!RTypeOK'
    <2>1. rsw' = [rsw EXCEPT ![s] = [rsw[s] EXCEPT !.pc = "rule", !.rest = Reminders!Rules]]
      BY <1>1 DEF Reminders!SweepBegins
    <2>2. [rsw[s] EXCEPT !.pc = "rule", !.rest = Reminders!Rules] \in Reminders!SweepType
      BY DEF Reminders!SweepType
    <2>. QED BY <1>1, <1>a, <2>1, <2>2 DEF Reminders!SweepBegins
  <1>2. ASSUME NEW s \in Sweepers, NEW rules \in {{r} : r \in Reminders!Rules} \union {Reminders!Rules}, Reminders!RunPressed(s, rules)
        PROVE  Reminders!RTypeOK'
    <2>1. rsw' = [rsw EXCEPT ![s] = [rsw[s] EXCEPT !.pc = "rule", !.rest = rules, !.inOrder = FALSE]]
      BY <1>2 DEF Reminders!RunPressed
    <2>2. rsw[s] \in Reminders!SweepType /\ rules \in SUBSET Reminders!Rules
      BY DEF Reminders!RTypeOK
    <2>3. [rsw[s] EXCEPT !.pc = "rule", !.rest = rules, !.inOrder = FALSE] \in Reminders!SweepType
      BY <2>2 DEF Reminders!SweepType
    <2>. QED BY <1>2, <1>a, <2>1, <2>3 DEF Reminders!RunPressed
  <1>3. ASSUME NEW s \in Sweepers, NEW r \in Reminders!Rules, Reminders!OpenRule(s, r)
        PROVE  Reminders!RTypeOK'
    <2>1. (Reminders!Eligible(s, r) \ Reminders!Handled(s, r)) \ rout \in SUBSET People
      BY DEF Reminders!Eligible
    <2>2. 1 \in Reminders!Rules
      BY DEF Reminders!Rules
    <2>. DEFINE on == rcamp \in Reminders!Alive
                new == [rsw[s] EXCEPT !.rest = @ \ {r}, !.rule = IF on THEN r ELSE 1,
                                      !.pc = IF on THEN "contacts" ELSE "rule",
                                      !.todo = IF on THEN (Reminders!Eligible(s, r) \ Reminders!Handled(s, r)) \ rout ELSE {}]
    <2>3. rsw' = [rsw EXCEPT ![s] = new]
      BY <1>3 DEF Reminders!OpenRule
    <2>4. new \in Reminders!SweepType
      <3>. HIDE DEF on
      <3>1. /\ rsw[s] \in Reminders!SweepType
            /\ rsw[s].rest \ {r} \in SUBSET Reminders!Rules
            /\ (IF on THEN (Reminders!Eligible(s, r) \ Reminders!Handled(s, r)) \ rout ELSE {}) \in SUBSET People
        BY <2>1 DEF Reminders!SweepType
      <3>. QED BY <3>1, <2>2 DEF Reminders!SweepType
    <2>. QED BY <1>3, <1>a, <2>3, <2>4 DEF Reminders!OpenRule
  <1>4. ASSUME NEW s \in Sweepers, NEW c \in People, Reminders!Decide(s, c)
        PROVE  Reminders!RTypeOK'
    <2>1. CASE Reminders!Wait(s, c)
      <3>1. rsw' = [rsw EXCEPT ![s] = [rsw[s] EXCEPT !.todo = @ \ {c}]]
        BY <2>1 DEF Reminders!Wait
      <3>2. [rsw[s] EXCEPT !.todo = @ \ {c}] \in Reminders!SweepType
        BY DEF Reminders!SweepType
      <3>. QED BY <2>1, <1>a, <3>1, <3>2 DEF Reminders!Wait
    <2>2. ASSUME NEW status \in {"paused", "stopped"}, Reminders!Turn(s, c),
                 rsw' = [rsw EXCEPT ![s] = Reminders!Logged(s, c, status)],
                 UNCHANGED <<rcamp, rmsg, rdue, rout, rclosed, rlog, rgone, rlost>>
          PROVE  Reminders!RTypeOK'
      <3>1. Reminders!Logged(s, c, status) \in Reminders!SweepType
        BY <2>2, LoggedIs DEF Reminders!LogStatus
      <3>. QED BY <2>2, <3>1
    <2>3. ASSUME NEW st \in {"sent", "queued"}, Reminders!Remind(s, c, st)
          PROVE  Reminders!RTypeOK'
      <3>1. Reminders!Logged(s, c, "sent") \in Reminders!SweepType /\ <<rsw[s].rule, c>> \in Reminders!Keys
        <4>1. Reminders!Turn(s, c) /\ "sent" \in Reminders!LogStatus \ {"none"}
          BY <2>3 DEF Reminders!Remind, Reminders!LogStatus
        <4>. HIDE DEF Reminders!RTypeOK
        <4>. QED BY <4>1, LoggedIs
      <3>2. [Reminders!Logged(s, c, "sent") EXCEPT !.msg[c] = st] \in Reminders!SweepType
        BY <3>1 DEF Reminders!SweepType
      <3>3. rgone' \in [Reminders!Keys -> Nat]
        BY <2>3, <3>1 DEF Reminders!Remind
      <3>. QED BY <2>3, <3>2, <3>3 DEF Reminders!Remind
    <2>. QED BY <1>4, <2>1, <2>2, <2>3 DEF Reminders!Decide, Reminders!StopContact,
       Reminders!NotSent
  <1>5. ASSUME NEW s \in Sweepers, Reminders!CloseRule(s)
        PROVE  Reminders!RTypeOK'
    <2>1. 1 \in Reminders!Rules
      BY DEF Reminders!Rules
    <2>2. rsw' = [rsw EXCEPT ![s] = [rsw[s] EXCEPT !.pc = "rule", !.todo = {}, !.rule = 1, !.done = 0]]
      BY <1>5 DEF Reminders!CloseRule
    <2>3. [rsw[s] EXCEPT !.pc = "rule", !.todo = {}, !.rule = 1, !.done = 0] \in Reminders!SweepType
      <3>1. rsw[s] \in Reminders!SweepType /\ 0 \in 0..RuleLimit /\ {} \in SUBSET People
        OBVIOUS
      <3>. QED BY <2>1, <3>1 DEF Reminders!SweepType
    <2>. QED BY <1>5, <1>a, <2>2, <2>3 DEF Reminders!CloseRule
  <1>6. ASSUME NEW s \in Sweepers, Reminders!Commit(s)
        PROVE  Reminders!RTypeOK'
    <2>1. rlog' \in [Reminders!Keys -> Reminders!LogStatus]
      BY <1>6 DEF Reminders!Commit, Reminders!SweepType
    <2>2. rmsg' \in [People -> {"queued", "retrying", "sent", "failed"}]
      BY <1>6 DEF Reminders!Commit, Reminders!Last, Reminders!SweepType
    <2>3. rgone' \in [Reminders!Keys -> Nat]
      BY <1>6 DEF Reminders!Commit
    <2>. QED BY <1>6, <2>1, <2>2, <2>3, IdleTyped DEF Reminders!Commit
  <1>7. ASSUME NEW s \in Sweepers, Reminders!Lose(s)
        PROVE  Reminders!RTypeOK'
    BY <1>7, IdleTyped DEF Reminders!Lose
  <1>8. CASE Reminders!PauseResume
    BY <1>8 DEF Reminders!PauseResume, Reminders!Alive
  <1>9. ASSUME NEW c \in People, Reminders!MessageSettles(c) \/ Reminders!RowMoves(c) \/
               Reminders!OptOut(c) \/ Reminders!DelayPasses(c)
        PROVE  Reminders!RTypeOK'
    <2>1. CASE Reminders!MessageSettles(c)
      <3>1. rout' \subseteq People /\ rmsg' \in [People -> {"queued", "retrying", "sent", "failed"}]
        BY <2>1 DEF Reminders!MessageSettles
      <3>. QED BY <2>1, <3>1 DEF Reminders!MessageSettles
    <2>2. CASE Reminders!RowMoves(c)
      BY <2>2 DEF Reminders!RowMoves
    <2>. QED BY <1>9, <2>1, <2>2 DEF Reminders!OptOut, Reminders!DelayPasses
  <1>10. CASE UNCHANGED rvars
    BY <1>10 DEF rvars
  <1>. QED BY <1>1, <1>2, <1>3, <1>4, <1>5, <1>6, <1>7, <1>8, <1>9, <1>10 DEF Reminders!RNext,
     Reminders!SweepStep

\* What logging a contact does to what the sweep sees
LEMMA LoggedSeen ==
    ASSUME Reminders!RTypeOK, NEW s \in Sweepers, NEW c \in People, Reminders!Turn(s, c),
           NEW status \in Reminders!LogStatus \ {"none"},
           rsw' = [rsw EXCEPT ![s] = Reminders!Logged(s, c, status)] \/
             \E st \in {"sent", "queued"} :
               rsw' = [rsw EXCEPT ![s] = [Reminders!Logged(s, c, status) EXCEPT !.msg[c] = st]]
    PROVE  /\ <<rsw[s].rule, c>> \in Reminders!Keys /\ rsw[s].rule \in Reminders!Rules
           /\ rsw[s].pc = "contacts" /\ rsw'[s].pc = "contacts"
           /\ rsw'[s].rule = rsw[s].rule
           /\ c \in rsw[s].todo /\ rsw'[s].todo = rsw[s].todo \ {c}
           /\ rsw'[s].log = [rsw[s].log EXCEPT ![<<rsw[s].rule, c>>] = status]
           /\ rsw'[s].new = IF rlog[<<rsw[s].rule, c>>] = "none" THEN rsw[s].new \union {<<rsw[s].rule, c>>}
                            ELSE rsw[s].new
           /\ \A t \in Sweepers \ {s} : rsw'[t] = rsw[t]
  <1>1. rsw[s] \in Reminders!SweepType /\ rsw \in [Sweepers -> Reminders!SweepType]
    BY DEF Reminders!RTypeOK
  <1>2. <<rsw[s].rule, c>> \in Reminders!Keys /\ rsw[s].rule \in Reminders!Rules /\ rsw[s].pc = "contacts" /\ c \in rsw[s].todo
    BY <1>1 DEF Reminders!SweepType, Reminders!Keys, Reminders!Turn
  <1>3. LET new == Reminders!Logged(s, c, status) IN
           new \in Reminders!SweepType /\ new.pc = "contacts" /\ new.rule = rsw[s].rule
           /\ new.todo = rsw[s].todo \ {c}
           /\ new.msg = rsw[s].msg
           /\ new.log = [rsw[s].log EXCEPT ![<<rsw[s].rule, c>>] = status]
           /\ new.new = IF rlog[<<rsw[s].rule, c>>] = "none" THEN rsw[s].new \union {<<rsw[s].rule, c>>} ELSE rsw[s].new
    BY LoggedIs, SMTT(60)
  <1>4. ASSUME rsw' = [rsw EXCEPT ![s] = Reminders!Logged(s, c, status)]
        PROVE  /\ rsw'[s].pc = "contacts" /\ rsw'[s].rule = rsw[s].rule
               /\ rsw'[s].todo = rsw[s].todo \ {c}
               /\ rsw'[s].log = [rsw[s].log EXCEPT ![<<rsw[s].rule, c>>] = status]
               /\ rsw'[s].new = IF rlog[<<rsw[s].rule, c>>] = "none"
                                THEN rsw[s].new \union {<<rsw[s].rule, c>>} ELSE rsw[s].new
               /\ rsw'[s].msg = rsw[s].msg
               /\ \A t \in Sweepers \ {s} : rsw'[t] = rsw[t]
    BY <1>1, <1>3, <1>4
  <1>5. ASSUME NEW st \in {"sent", "queued"},
               rsw' = [rsw EXCEPT ![s] = [Reminders!Logged(s, c, status) EXCEPT !.msg[c] = st]]
        PROVE  /\ rsw'[s].pc = "contacts" /\ rsw'[s].rule = rsw[s].rule
               /\ rsw'[s].todo = rsw[s].todo \ {c}
               /\ rsw'[s].log = [rsw[s].log EXCEPT ![<<rsw[s].rule, c>>] = status]
               /\ rsw'[s].new = IF rlog[<<rsw[s].rule, c>>] = "none"
                                THEN rsw[s].new \union {<<rsw[s].rule, c>>} ELSE rsw[s].new
               /\ rsw'[s].msg = [rsw[s].msg EXCEPT ![c] = st]
               /\ \A t \in Sweepers \ {s} : rsw'[t] = rsw[t]
    <2>1. rsw'[s] = [Reminders!Logged(s, c, status) EXCEPT !.msg[c] = st] /\ \A t \in Sweepers \ {s} : rsw'[t] = rsw[t]
      BY <1>1, <1>5
    <2>. HIDE DEF Reminders!Logged
    <2>. QED BY <1>3, <2>1 DEF Reminders!SweepType
  <1>. QED BY <1>2, <1>4, <1>5

LEMMA LoggedMessages ==
    ASSUME Reminders!RTypeOK, NEW s \in Sweepers, NEW c \in People, Reminders!Turn(s, c),
           NEW status \in Reminders!LogStatus \ {"none"}
    PROVE  /\ rsw' = [rsw EXCEPT ![s] = Reminders!Logged(s, c, status)] => rsw'[s].msg = rsw[s].msg
           /\ \A st \in {"sent", "queued"} :
                rsw' = [rsw EXCEPT ![s] = [Reminders!Logged(s, c, status) EXCEPT !.msg[c] = st]] =>
                  rsw'[s].msg = [rsw[s].msg EXCEPT ![c] = st]
  <1>1. Reminders!Logged(s, c, status) \in Reminders!SweepType /\ Reminders!Logged(s, c, status).msg = rsw[s].msg
    BY LoggedIs, ZenonT(60)
  <1>2. rsw \in [Sweepers -> Reminders!SweepType]
    BY DEF Reminders!RTypeOK
  <1>. HIDE DEF Reminders!Logged
  <1>3. ASSUME rsw' = [rsw EXCEPT ![s] = Reminders!Logged(s, c, status)]
        PROVE  rsw'[s].msg = rsw[s].msg
    BY <1>1, <1>2, <1>3
  <1>4. ASSUME NEW st \in {"sent", "queued"},
               rsw' = [rsw EXCEPT ![s] = [Reminders!Logged(s, c, status) EXCEPT !.msg[c] = st]]
        PROVE  rsw'[s].msg = [rsw[s].msg EXCEPT ![c] = st]
    <2>1. rsw'[s] = [Reminders!Logged(s, c, status) EXCEPT !.msg[c] = st]
      BY <1>2, <1>4
    <2>. QED BY <1>1, <2>1 DEF Reminders!SweepType
  <1>. QED BY <1>3, <1>4

LEMMA OrderKept ==
    ASSUME Reminders!RTypeOK, OrderInv, [Reminders!RNext]_rvars
    PROVE  OrderInv'
  <1>r. \A r \in Reminders!Rules : r \in Nat /\ (r > 1 => r - 1 \in Reminders!Rules)
    BY RulesAssumption DEF Reminders!Rules
  <1>k. \A k \in Reminders!Keys : \E r \in Reminders!Rules, c \in People : k = <<r, c>>
    BY DEF Reminders!Keys
  <1>p. \A r \in Reminders!Rules, c \in People : <<r, c>> \in Reminders!Keys
    BY DEF Reminders!Keys
  <1>t. rgone \in [Reminders!Keys -> Nat] /\ rsw \in [Sweepers -> Reminders!SweepType]
    BY DEF Reminders!RTypeOK
  <1>1. ASSUME NEW s \in Sweepers, NEW rules, Reminders!SweepBegins(s) \/ Reminders!RunPressed(s, rules)
        PROVE  OrderInv'
    <2>1. /\ rsw'[s].log = rsw[s].log /\ rsw'[s].msg = rsw[s].msg /\ rsw'[s].pc = "rule"
          /\ \A t \in Sweepers \ {s} : rsw'[t] = rsw[t]
          /\ rgone' = rgone /\ rlog' = rlog
      BY <1>1, <1>t DEF Reminders!SweepBegins, Reminders!RunPressed, Reminders!SweepType
    <2>. QED BY <2>1, <1>p DEF OrderInv, Reminders!ChainInOrder
  <1>2. ASSUME NEW s \in Sweepers, NEW r \in Reminders!Rules, Reminders!OpenRule(s, r)
        PROVE  OrderInv'
    <2>1. /\ rsw'[s].log = rsw[s].log /\ rsw'[s].msg = rsw[s].msg
          /\ \A t \in Sweepers \ {s} : rsw'[t] = rsw[t]
          /\ rgone' = rgone /\ rlog' = rlog
          /\ rsw'[s].pc = "contacts" => rsw'[s].rule = r /\ rsw'[s].todo \subseteq Reminders!Eligible(s, r)
      BY <1>2, <1>t DEF Reminders!OpenRule, Reminders!SweepType
    <2>2. ASSUME NEW c \in People, c \in Reminders!Eligible(s, r), r > 1
          PROVE  rgone[<<r - 1, c>>] > 0 \/ rsw[s].msg[c] # "none"
      <3>1. r \in Nat /\ r - 1 \in Reminders!Rules /\ <<r - 1, c>> \in Reminders!Keys
        BY <2>2, <1>r, <1>p
      <3>2. rsw[s].log[<<r - 1, c>>] = "sent" \/ rlog[<<r - 1, c>>] = "sent"
        BY <2>2, <3>1 DEF Reminders!Eligible, Reminders!Log
      <3>. QED BY <3>1, <3>2 DEF OrderInv
    <2>. QED BY <2>1, <2>2, <1>p DEF OrderInv, Reminders!ChainInOrder, Reminders!Eligible
  <1>3. ASSUME NEW s \in Sweepers, NEW c \in People, Reminders!Wait(s, c)
        PROVE  OrderInv'
    <2>1. /\ rsw'[s].log = rsw[s].log /\ rsw'[s].msg = rsw[s].msg /\ rsw'[s].pc = rsw[s].pc
          /\ rsw'[s].rule = rsw[s].rule /\ rsw'[s].todo \subseteq rsw[s].todo
          /\ \A t \in Sweepers \ {s} : rsw'[t] = rsw[t]
          /\ rgone' = rgone /\ rlog' = rlog
      BY <1>3, <1>t DEF Reminders!Wait, Reminders!SweepType
    <2>. QED BY <2>1, <1>p DEF OrderInv, Reminders!ChainInOrder
  <1>4. ASSUME NEW s \in Sweepers, NEW c \in People, NEW status \in {"paused", "stopped"}, Reminders!Turn(s, c),
               rsw' = [rsw EXCEPT ![s] = Reminders!Logged(s, c, status)], rgone' = rgone, rlog' = rlog
        PROVE  OrderInv'
    <2>1. /\ rsw'[s].msg = rsw[s].msg
          /\ rsw'[s].rule = rsw[s].rule /\ rsw'[s].todo \subseteq rsw[s].todo /\ rsw[s].pc = "contacts"
          /\ rsw'[s].log = [rsw[s].log EXCEPT ![<<rsw[s].rule, c>>] = status]
          /\ \A t \in Sweepers \ {s} : rsw'[t] = rsw[t]
      <3>1. status \in Reminders!LogStatus \ {"none"}
        BY DEF Reminders!LogStatus
      <3>2. rsw'[s].msg = rsw[s].msg
        BY <1>4, <3>1, LoggedMessages
      <3>. QED BY <1>4, <3>1, <3>2, LoggedSeen
    <2>2. \A k \in Reminders!Keys : rsw'[s].log[k] = "sent" => rsw[s].log[k] = "sent"
      BY <2>1, <1>t DEF Reminders!SweepType
    <2>. QED BY <1>4, <2>1, <2>2, <1>p DEF OrderInv, Reminders!ChainInOrder
  <1>5. ASSUME NEW s \in Sweepers, NEW c \in People, NEW st \in {"sent", "queued"}, Reminders!Remind(s, c, st)
        PROVE  OrderInv'
    <2>. DEFINE r == rsw[s].rule
    <2>1. /\ r \in Reminders!Rules /\ <<r, c>> \in Reminders!Keys
          /\ rsw'[s].rule = r /\ rsw'[s].todo \subseteq rsw[s].todo \ {c} /\ rsw[s].pc = "contacts"
          /\ rsw'[s].log = [rsw[s].log EXCEPT ![<<r, c>>] = "sent"]
          /\ \A t \in Sweepers \ {s} : rsw'[t] = rsw[t]
          /\ c \in rsw[s].todo
      <3>1. Reminders!Turn(s, c) /\ "sent" \in Reminders!LogStatus \ {"none"}
            /\ rsw' = [rsw EXCEPT ![s] = [Reminders!Logged(s, c, "sent") EXCEPT !.msg[c] = st]]
        BY <1>5 DEF Reminders!Remind, Reminders!LogStatus
      <3>. QED BY <3>1, LoggedSeen
    <2>2. rsw'[s].msg = [rsw[s].msg EXCEPT ![c] = st]
      <3>1. Reminders!Turn(s, c) /\ "sent" \in Reminders!LogStatus \ {"none"}
            /\ rsw' = [rsw EXCEPT ![s] = [Reminders!Logged(s, c, "sent") EXCEPT !.msg[c] = st]]
        BY <1>5 DEF Reminders!Remind, Reminders!LogStatus
      <3>. QED BY <3>1, LoggedMessages
    <2>3. rsw[s].msg[c] = "none"
      BY <1>5 DEF Reminders!Remind, Reminders!Due
    <2>4. r > 1 => rgone[<<r - 1, c>>] > 0
      BY <2>1, <2>3 DEF OrderInv
    <2>5. /\ \A k \in Reminders!Keys : rgone'[k] >= rgone[k] /\ (rgone'[k] # rgone[k] => k = <<r, c>>)
          /\ st = "sent" => rgone'[<<r, c>>] > 0
          /\ rgone' \in [Reminders!Keys -> Nat]
      BY <1>5, <1>t, <2>1 DEF Reminders!Remind
    <2>6. rlog' = rlog
      BY <1>5 DEF Reminders!Remind
    <2>. HIDE DEF r
    <2>7. Reminders!ChainInOrder'
      <3>. SUFFICES ASSUME NEW q \in Reminders!Rules, NEW d \in People, q > 1, rgone'[<<q, d>>] > 0
                    PROVE  rgone'[<<q - 1, d>>] > 0
        BY DEF Reminders!ChainInOrder
      <3>1. rgone[<<q - 1, d>>] > 0
        BY <2>4, <2>5, <1>p, <1>t DEF OrderInv, Reminders!ChainInOrder
      <3>. QED BY <3>1, <2>5, <1>p, <1>r, <1>t
    <2>8. ASSUME NEW q \in Reminders!Rules, NEW d \in People, rsw'[s].log[<<q, d>>] = "sent"
          PROVE  /\ rsw'[s].msg[d] # "none"
                 /\ rsw'[s].msg[d] = "sent" => rgone'[<<q, d>>] > 0
                 /\ q > 1 => rgone'[<<q - 1, d>>] > 0
      <3>1. CASE <<q, d>> = <<r, c>>
        BY <3>1, <2>1, <2>2, <2>4, <2>5, <1>p, <1>r, <1>t DEF Reminders!SweepType
      <3>2. CASE <<q, d>> # <<r, c>>
        <4>1. rsw[s].log[<<q, d>>] = "sent"
          BY <3>2, <2>8, <2>1, <1>p, <1>t DEF Reminders!SweepType
        <4>2. d # c
          BY <4>1, <2>3 DEF OrderInv
        <4>. QED BY <4>1, <4>2, <2>2, <2>5, <1>p, <1>r, <1>t DEF OrderInv, Reminders!SweepType
      <3>. QED BY <3>1, <3>2
    <2>9. ASSUME NEW d \in rsw'[s].todo, d \in People, r > 1
          PROVE  rgone'[<<r - 1, d>>] > 0 \/ rsw'[s].msg[d] # "none"
      <3>1. d \in rsw[s].todo /\ d # c
        BY <2>1, <2>9
      <3>2. rgone[<<r - 1, d>>] > 0 \/ rsw[s].msg[d] # "none"
        BY <3>1, <2>1, <2>9 DEF OrderInv, r
      <3>3. rsw'[s].msg[d] = rsw[s].msg[d]
        BY <3>1, <2>2, <2>9, <1>t DEF Reminders!SweepType
      <3>. QED BY <3>2, <3>3, <2>1, <2>5, <2>9, <1>p, <1>r, <1>t
    <2>10. ASSUME NEW t \in Sweepers \ {s}, NEW q \in Reminders!Rules, NEW d \in People
          PROVE  /\ rsw'[t].log[<<q, d>>] = "sent" =>
                      /\ rsw'[t].msg[d] # "none"
                      /\ rsw'[t].msg[d] = "sent" => rgone'[<<q, d>>] > 0
                      /\ q > 1 => rgone'[<<q - 1, d>>] > 0
                 /\ rsw'[t].pc = "contacts" /\ d \in rsw'[t].todo /\ rsw'[t].rule = q /\ q > 1 =>
                      rgone'[<<q - 1, d>>] > 0 \/ rsw'[t].msg[d] # "none"
      <3>1. rgone[<<q, d>>] > 0 => rgone'[<<q, d>>] > 0
        BY <2>5, <1>p, <1>t
      <3>2. q > 1 => (rgone[<<q - 1, d>>] > 0 => rgone'[<<q - 1, d>>] > 0)
        <4>. SUFFICES ASSUME q > 1 PROVE rgone[<<q - 1, d>>] > 0 => rgone'[<<q - 1, d>>] > 0
          OBVIOUS
        <4>1. q - 1 \in Reminders!Rules /\ <<q - 1, d>> \in Reminders!Keys
          BY <1>r, <1>p
        <4>. QED BY <4>1, <2>5, <1>t
      <3>3. rsw'[t] = rsw[t]
        BY <2>1
      <3>4. /\ rsw[t].log[<<q, d>>] = "sent" =>
                 /\ rsw[t].msg[d] # "none"
                 /\ rsw[t].msg[d] = "sent" => rgone[<<q, d>>] > 0
                 /\ q > 1 => rgone[<<q - 1, d>>] > 0
            /\ rsw[t].pc = "contacts" /\ d \in rsw[t].todo /\ rsw[t].rule = q /\ q > 1 =>
                 rgone[<<q - 1, d>>] > 0 \/ rsw[t].msg[d] # "none"
        BY DEF OrderInv
      <3>. QED BY <3>1, <3>2, <3>3, <3>4
    <2>11. \A k \in Reminders!Keys : rlog'[k] = "sent" => rgone'[k] > 0
      BY <2>5, <2>6, <1>t DEF OrderInv
    <2>12. \A q \in Reminders!Rules, d \in People :
             rsw'[s].pc = "contacts" /\ d \in rsw'[s].todo /\ rsw'[s].rule = q /\ q > 1 =>
               rgone'[<<q - 1, d>>] > 0 \/ rsw'[s].msg[d] # "none"
      BY <2>1, <2>9
    <2>. QED BY <2>7, <2>8, <2>10, <2>11, <2>12 DEF OrderInv
  <1>6. ASSUME NEW s \in Sweepers, Reminders!CloseRule(s)
        PROVE  OrderInv'
    <2>1. /\ rsw'[s].log = rsw[s].log /\ rsw'[s].msg = rsw[s].msg /\ rsw'[s].pc = "rule"
          /\ \A t \in Sweepers \ {s} : rsw'[t] = rsw[t]
          /\ rgone' = rgone /\ rlog' = rlog
      BY <1>6, <1>t DEF Reminders!CloseRule, Reminders!SweepType
    <2>. QED BY <2>1, <1>p DEF OrderInv, Reminders!ChainInOrder
  <1>7. ASSUME NEW s \in Sweepers, Reminders!Commit(s)
        PROVE  OrderInv'
    <2>1. /\ rsw'[s] = Reminders!IdleSweep /\ \A t \in Sweepers \ {s} : rsw'[t] = rsw[t]
          /\ \A k \in Reminders!Keys : rsw'[s].log[k] = "none"
          /\ rsw'[s].pc = "idle"
      BY <1>7, <1>t DEF Reminders!Commit, Reminders!IdleSweep, Reminders!Nothing
    <2>2. \A r \in Reminders!Rules, c \in People :
            /\ rlog'[<<r, c>>] = IF rsw[s].log[<<r, c>>] # "none" THEN rsw[s].log[<<r, c>>]
                                 ELSE rlog[<<r, c>>]
            /\ rgone'[<<r, c>>] = IF rsw[s].log[<<r, c>>] = "sent" /\ rsw[s].msg[c] = "queued"
                                  THEN rgone[<<r, c>>] + 1 ELSE rgone[<<r, c>>]
      BY <1>7, <1>p DEF Reminders!Commit, Reminders!Written
    <2>3. ASSUME NEW r \in Reminders!Rules, NEW c \in People
          PROVE  rgone'[<<r, c>>] \in Nat /\ rgone'[<<r, c>>] >= rgone[<<r, c>>]
      <3>1. rgone[<<r, c>>] \in Nat
        BY <1>p, <1>t
      <3>. QED BY <2>2, <3>1
    <2>4. \A c \in People : rsw[s].msg[c] \in {"none", "queued", "sent"}
      BY <1>t DEF Reminders!SweepType
    <2>5. ASSUME NEW r \in Reminders!Rules, NEW c \in People, rlog'[<<r, c>>] = "sent"
          PROVE  rgone'[<<r, c>>] > 0
      <3>1. rgone[<<r, c>>] \in Nat /\ (rlog[<<r, c>>] = "sent" => rgone[<<r, c>>] > 0)
        BY <1>p, <1>t DEF OrderInv
      <3>2. rsw[s].log[<<r, c>>] = "sent" => rsw[s].msg[c] # "none" /\ (rsw[s].msg[c] = "sent" => rgone[<<r, c>>] > 0)
        BY DEF OrderInv
      <3>. QED BY <2>2, <2>4, <2>5, <3>1, <3>2
    <2>6. Reminders!ChainInOrder'
      <3>. SUFFICES ASSUME NEW q \in Reminders!Rules, NEW d \in People, q > 1, rgone'[<<q, d>>] > 0
                    PROVE  rgone'[<<q - 1, d>>] > 0
        BY DEF Reminders!ChainInOrder
      <3>1. rgone[<<q - 1, d>>] > 0
        BY <2>2, <1>p, <1>t DEF OrderInv, Reminders!ChainInOrder
      <3>. QED BY <3>1, <2>3, <1>p, <1>r, <1>t
    <2>7. ASSUME NEW t \in Sweepers \ {s}, NEW q \in Reminders!Rules, NEW d \in People
          PROVE  /\ rsw'[t].log[<<q, d>>] = "sent" =>
                      /\ rsw'[t].msg[d] # "none"
                      /\ rsw'[t].msg[d] = "sent" => rgone'[<<q, d>>] > 0
                      /\ q > 1 => rgone'[<<q - 1, d>>] > 0
                 /\ rsw'[t].pc = "contacts" /\ d \in rsw'[t].todo /\ rsw'[t].rule = q /\ q > 1 =>
                      rgone'[<<q - 1, d>>] > 0 \/ rsw'[t].msg[d] # "none"
      <3>1. rgone[<<q, d>>] > 0 => rgone'[<<q, d>>] > 0
        BY <2>3, <1>p, <1>t
      <3>2. q > 1 => (rgone[<<q - 1, d>>] > 0 => rgone'[<<q - 1, d>>] > 0)
        <4>. SUFFICES ASSUME q > 1 PROVE rgone[<<q - 1, d>>] > 0 => rgone'[<<q - 1, d>>] > 0
          OBVIOUS
        <4>1. q - 1 \in Reminders!Rules /\ <<q - 1, d>> \in Reminders!Keys
          BY <1>r, <1>p
        <4>. QED BY <4>1, <2>3, <1>t
      <3>3. rsw'[t] = rsw[t]
        BY <2>1
      <3>4. /\ rsw[t].log[<<q, d>>] = "sent" =>
                 /\ rsw[t].msg[d] # "none"
                 /\ rsw[t].msg[d] = "sent" => rgone[<<q, d>>] > 0
                 /\ q > 1 => rgone[<<q - 1, d>>] > 0
            /\ rsw[t].pc = "contacts" /\ d \in rsw[t].todo /\ rsw[t].rule = q /\ q > 1 =>
                 rgone[<<q - 1, d>>] > 0 \/ rsw[t].msg[d] # "none"
        BY DEF OrderInv
      <3>. QED BY <3>1, <3>2, <3>3, <3>4
    <2>. QED BY <2>1, <2>5, <2>6, <2>7, <1>k, <1>p DEF OrderInv
  <1>8. ASSUME NEW s \in Sweepers, Reminders!Lose(s)
        PROVE  OrderInv'
    <2>1. /\ rsw'[s] = Reminders!IdleSweep /\ \A t \in Sweepers \ {s} : rsw'[t] = rsw[t]
          /\ \A k \in Reminders!Keys : rsw'[s].log[k] = "none"
          /\ rsw'[s].pc = "idle" /\ rgone' = rgone /\ rlog' = rlog
      BY <1>8, <1>t DEF Reminders!Lose, Reminders!IdleSweep, Reminders!Nothing
    <2>. QED BY <2>1, <1>p DEF OrderInv, Reminders!ChainInOrder
  <1>9. ASSUME rgone' = rgone /\ rlog' = rlog /\ rsw' = rsw
        PROVE  OrderInv'
    BY <1>9 DEF OrderInv, Reminders!ChainInOrder
  <1>. QED BY <1>1, <1>2, <1>3, <1>4, <1>5, <1>6, <1>7, <1>8, <1>9
       DEF Reminders!RNext, Reminders!SweepStep, Reminders!Decide, Reminders!StopContact,
          Reminders!NotSent, Reminders!PauseResume, Reminders!MessageSettles,
          Reminders!RowMoves, Reminders!OptOut, Reminders!DelayPasses, rvars

LEMMA ChainKept ==
    ASSUME Reminders!RTypeOK, OrderInv, ChainInv, [Reminders!RNext]_rvars,
           NEW s, Sweepers = {s}
    PROVE  ChainInv'
  <1>r. \A r \in Reminders!Rules : r \in Nat /\ r >= 1 /\ (r > 1 => r - 1 \in Reminders!Rules)
    BY RulesAssumption DEF Reminders!Rules
  <1>p. \A r \in Reminders!Rules, c \in People : <<r, c>> \in Reminders!Keys
    BY DEF Reminders!Keys
  <1>k. \A k \in Reminders!Keys : \E r \in Reminders!Rules, c \in People : k = <<r, c>> /\ k[2] = c
    BY DEF Reminders!Keys
  <1>t. /\ rgone \in [Reminders!Keys -> Nat] /\ rsw[s] \in Reminders!SweepType /\ rlog \in [Reminders!Keys -> Reminders!LogStatus]
        /\ DOMAIN rsw = {s} /\ rlost \in Nat
    BY RulesAssumption DEF Reminders!RTypeOK
  \* Nothing is written, and nobody selected.
  <1>a. ASSUME rgone' = rgone, rlog' = rlog, rlost' = rlost,
               rsw'[s].log = rsw[s].log, rsw'[s].new = rsw[s].new, rsw'[s].msg = rsw[s].msg,
               rsw'[s].pc = "contacts" =>
                 /\ rsw[s].pc = "contacts" /\ rsw'[s].rule = rsw[s].rule
                 /\ rsw'[s].todo \subseteq rsw[s].todo
        PROVE  ChainInv'
    <2>1. \A k : Reminders!Log(s, k)' = Reminders!Log(s, k)
      BY <1>a DEF Reminders!Log
    <2>. QED BY <1>a, <2>1 DEF ChainInv
  <1>1. ASSUME NEW rules, Reminders!SweepBegins(s) \/ Reminders!RunPressed(s, rules)
        PROVE  ChainInv'
    <2>1. /\ rsw'[s].log = rsw[s].log /\ rsw'[s].new = rsw[s].new /\ rsw'[s].msg = rsw[s].msg
          /\ rsw'[s].pc = "rule" /\ rgone' = rgone /\ rlog' = rlog /\ rlost' = rlost
      BY <1>1, <1>t DEF Reminders!SweepBegins, Reminders!RunPressed, Reminders!SweepType
    <2>. QED BY <1>a, <2>1
  <1>2. ASSUME NEW r \in Reminders!Rules, Reminders!OpenRule(s, r)
        PROVE  ChainInv'
    <2>1. /\ rsw'[s].log = rsw[s].log /\ rsw'[s].new = rsw[s].new /\ rsw'[s].msg = rsw[s].msg
          /\ rgone' = rgone /\ rlog' = rlog /\ rlost' = rlost
          /\ rsw'[s].pc = "contacts" => rsw'[s].rule = r /\ rsw'[s].todo \subseteq Reminders!Eligible(s, r) \ Reminders!Handled(s, r)
      BY <1>2, <1>t DEF Reminders!OpenRule, Reminders!SweepType
    <2>2. \A c \in Reminders!Eligible(s, r) \ Reminders!Handled(s, r) :
            Reminders!Log(s, <<r, c>>) \notin Reminders!Final /\ (r > 1 => Reminders!Log(s, <<r - 1, c>>) = "sent")
      BY <1>r DEF Reminders!Eligible, Reminders!Handled
    <2>3. \A k : Reminders!Log(s, k)' = Reminders!Log(s, k)
      BY <2>1 DEF Reminders!Log
    <2>. QED BY <2>1, <2>2, <2>3 DEF ChainInv
  <1>3. ASSUME NEW c \in People, Reminders!Wait(s, c)
        PROVE  ChainInv'
    <2>1. /\ rsw'[s].log = rsw[s].log /\ rsw'[s].new = rsw[s].new /\ rsw'[s].msg = rsw[s].msg
          /\ rgone' = rgone /\ rlog' = rlog /\ rlost' = rlost
          /\ rsw'[s].pc = rsw[s].pc /\ rsw'[s].rule = rsw[s].rule
          /\ rsw'[s].todo \subseteq rsw[s].todo
      BY <1>3, <1>t DEF Reminders!Wait, Reminders!SweepType
    <2>. QED BY <1>a, <2>1
  <1>4. ASSUME Reminders!CloseRule(s)
        PROVE  ChainInv'
    <2>1. /\ rsw'[s].log = rsw[s].log /\ rsw'[s].new = rsw[s].new /\ rsw'[s].msg = rsw[s].msg
          /\ rgone' = rgone /\ rlog' = rlog /\ rlost' = rlost
          /\ rsw'[s].pc = "rule"
      BY <1>4, <1>t DEF Reminders!CloseRule, Reminders!SweepType
    <2>. QED BY <1>a, <2>1
  \* The row that is written: of a contact the rule has not handled, whom the
  \* rules before it have reminded
  <1>w. ASSUME NEW c \in People, NEW status \in Reminders!LogStatus \ {"none"}, Reminders!Turn(s, c),
               rlog' = rlog, rlost' = rlost,
               rsw'[s].pc = "contacts", rsw'[s].rule = rsw[s].rule, rsw'[s].todo = rsw[s].todo \ {c},
               rsw'[s].log = [rsw[s].log EXCEPT ![<<rsw[s].rule, c>>] = status],
               rsw'[s].new = IF rlog[<<rsw[s].rule, c>>] = "none" THEN rsw[s].new \union {<<rsw[s].rule, c>>}
                            ELSE rsw[s].new
        PROVE  /\ <<rsw[s].rule, c>> \in Reminders!Keys
               /\ Reminders!Log(s, <<rsw[s].rule, c>>) \notin Reminders!Final
               /\ \A k \in Reminders!Keys : Reminders!Log(s, k)' = IF k = <<rsw[s].rule, c>> THEN status ELSE Reminders!Log(s, k)
               /\ \A k \in Reminders!Keys : rsw'[s].log[k] # "none" => rlog'[k] \notin Reminders!Final
               /\ \A k \in rsw'[s].new : rlog'[k] = "none"
               /\ \A q, r \in Reminders!Rules, d \in People : q <= r =>
                    /\ rlog'[<<r, d>>] = "sent" => rlog'[<<q, d>>] = "sent"
                    /\ Reminders!Log(s, <<r, d>>)' = "sent" => Reminders!Log(s, <<q, d>>)' = "sent"
               /\ \A d \in rsw'[s].todo :
                    /\ Reminders!Log(s, <<rsw[s].rule, d>>)' \notin Reminders!Final
                    /\ rsw'[s].rule > 1 => Reminders!Log(s, <<rsw[s].rule - 1, d>>)' = "sent"
    <2>0. PICK n \in Reminders!Rules : n = rsw[s].rule
      BY <1>t DEF Reminders!SweepType
    <2>1. <<n, c>> \in Reminders!Keys /\ c \in rsw[s].todo /\ rsw[s].pc = "contacts"
          /\ rsw[s].todo \subseteq People /\ n \in Nat /\ (n > 1 => n - 1 \in Reminders!Rules)
      BY <1>w, <1>t, <1>p, <1>r, <2>0 DEF Reminders!Turn, Reminders!SweepType
    <2>2. Reminders!Log(s, <<n, c>>) \notin Reminders!Final /\ (n > 1 => Reminders!Log(s, <<n - 1, c>>) = "sent")
      BY <2>0, <2>1 DEF ChainInv
    <2>3. ASSUME NEW k \in Reminders!Keys
          PROVE  /\ rsw'[s].log[k] = IF k = <<n, c>> THEN status ELSE rsw[s].log[k]
                 /\ Reminders!Log(s, k)' = IF k = <<n, c>> THEN status ELSE Reminders!Log(s, k)
      <3>1. rsw[s].log \in [Reminders!Keys -> Reminders!LogStatus]
        BY <1>t DEF Reminders!SweepType
      <3>. QED BY <1>w, <2>0, <3>1 DEF Reminders!Log
    <2>4. rlog[<<n, c>>] \notin Reminders!Final
      BY <2>1, <2>2 DEF Reminders!Log, ChainInv
    <2>5. \A k \in Reminders!Keys : rsw'[s].log[k] # "none" => rlog'[k] \notin Reminders!Final
      BY <1>w, <2>3, <2>4 DEF ChainInv
    <2>6. \A k \in rsw'[s].new : rlog'[k] = "none"
      BY <1>w DEF ChainInv
    <2>7. \A q, r \in Reminders!Rules, d \in People : q <= r => (rlog'[<<r, d>>] = "sent" => rlog'[<<q, d>>] = "sent")
      BY <1>w DEF ChainInv
    <2>8. ASSUME NEW q \in Reminders!Rules, NEW r \in Reminders!Rules, NEW d \in People, q <= r, Reminders!Log(s, <<r, d>>)' = "sent"
          PROVE  Reminders!Log(s, <<q, d>>)' = "sent"
      <3>1. q \in Nat /\ q >= 1 /\ r \in Nat /\ <<q, d>> \in Reminders!Keys /\ <<r, d>> \in Reminders!Keys
        BY <1>p, <1>r
      <3>2. CASE d # c
        BY <3>1, <3>2, <2>3, <2>8 DEF ChainInv
      <3>3. CASE d = c /\ r = n
        <4>1. CASE q = n
          BY <4>1, <3>3, <2>8
        <4>2. CASE q # n
          <5>1. n > 1 /\ q <= n - 1 /\ n - 1 \in Reminders!Rules
            BY <4>2, <3>1, <3>3, <2>8, <2>1
          <5>2. Reminders!Log(s, <<q, c>>) = "sent"
            BY <5>1, <2>2, <3>3 DEF ChainInv
          <5>. QED BY <5>2, <4>2, <3>1, <3>3, <2>3
        <4>. QED BY <4>1, <4>2
      <3>4. CASE d = c /\ r # n
        <4>1. Reminders!Log(s, <<r, c>>) = "sent"
          BY <3>1, <3>4, <2>3, <2>8
        <4>2. ~(n <= r)
          BY <4>1, <2>1, <2>2 DEF ChainInv, Reminders!Final
        <4>3. q # n
          BY <4>2, <2>8
        <4>4. Reminders!Log(s, <<q, c>>) = "sent"
          BY <4>1, <2>8 DEF ChainInv
        <4>. QED BY <4>3, <4>4, <3>1, <3>4, <2>3
      <3>. QED BY <3>2, <3>3, <3>4
    <2>9. ASSUME NEW d \in rsw'[s].todo
          PROVE  /\ Reminders!Log(s, <<rsw[s].rule, d>>)' \notin Reminders!Final
                 /\ rsw'[s].rule > 1 => Reminders!Log(s, <<rsw[s].rule - 1, d>>)' = "sent"
      <3>1. d \in rsw[s].todo /\ d # c /\ d \in People /\ rsw'[s].rule = n
        BY <1>w, <2>0, <2>1
      <3>2. <<n, d>> \in Reminders!Keys /\ (n > 1 => <<n - 1, d>> \in Reminders!Keys)
        BY <3>1, <2>1, <1>p
      <3>3. Reminders!Log(s, <<n, d>>) \notin Reminders!Final /\ (n > 1 => Reminders!Log(s, <<n - 1, d>>) = "sent")
        BY <3>1, <2>0, <2>1 DEF ChainInv
      <3>4. Reminders!Log(s, <<n, d>>)' \notin Reminders!Final
        BY <3>1, <3>2, <3>3, <2>3
      <3>5. n > 1 => Reminders!Log(s, <<n - 1, d>>)' = "sent"
        BY <3>1, <3>2, <3>3, <2>3
      <3>. QED BY <3>1, <3>4, <3>5
    <2>. QED BY <2>1, <2>2, <2>3, <2>5, <2>6, <2>7, <2>8, <2>9, <2>0
  <1>5. ASSUME NEW c \in People, NEW status \in {"paused", "stopped"}, Reminders!Turn(s, c),
               rsw' = [rsw EXCEPT ![s] = Reminders!Logged(s, c, status)],
               rgone' = rgone, rlog' = rlog, rlost' = rlost
        PROVE  ChainInv'
    <2>. DEFINE key == <<rsw[s].rule, c>>
    <2>1. status \in Reminders!LogStatus \ {"none"}
      BY DEF Reminders!LogStatus
    <2>2. /\ rsw'[s].pc = "contacts" /\ rsw'[s].rule = rsw[s].rule /\ rsw'[s].todo = rsw[s].todo \ {c}
          /\ rsw'[s].log = [rsw[s].log EXCEPT ![<<rsw[s].rule, c>>] = status]
          /\ rsw'[s].new = IF rlog[<<rsw[s].rule, c>>] = "none" THEN rsw[s].new \union {<<rsw[s].rule, c>>}
                          ELSE rsw[s].new
          /\ rsw'[s].msg = rsw[s].msg
      <3>1. rsw'[s].msg = rsw[s].msg
        BY <1>5, <2>1, LoggedMessages
      <3>. QED BY <1>5, <2>1, <3>1, LoggedSeen
    <2>. HIDE DEF key
    <2>3. rlost = 0 => \A k \in Reminders!Keys :
             /\ rgone[k] <= 1
             /\ rgone[k] > 0 => Reminders!Log(s, k)' = "sent"
             /\ rgone[k] > 0 /\ rsw'[s].log[k] = "sent" => rsw'[s].msg[k[2]] = "sent"
      <3>1. \A k \in Reminders!Keys : rsw'[s].log[k] = IF k = <<rsw[s].rule, c>> THEN status ELSE rsw[s].log[k]
        BY <2>2, <1>t DEF Reminders!SweepType
      <3>2. /\ Reminders!Log(s, <<rsw[s].rule, c>>) \notin Reminders!Final
            /\ \A k \in Reminders!Keys : Reminders!Log(s, k)' = IF k = <<rsw[s].rule, c>> THEN status ELSE Reminders!Log(s, k)
        BY <1>5, <1>w, <2>1, <2>2
      <3>. QED BY <3>1, <3>2, <2>2 DEF ChainInv, Reminders!Final
    <2>w. /\ \A k \in Reminders!Keys : rsw'[s].log[k] # "none" => rlog'[k] \notin Reminders!Final
          /\ \A k \in rsw'[s].new : rlog'[k] = "none"
          /\ \A q, r \in Reminders!Rules, d \in People : q <= r =>
               /\ rlog'[<<r, d>>] = "sent" => rlog'[<<q, d>>] = "sent"
               /\ Reminders!Log(s, <<r, d>>)' = "sent" => Reminders!Log(s, <<q, d>>)' = "sent"
          /\ \A d \in rsw'[s].todo :
               /\ Reminders!Log(s, <<rsw[s].rule, d>>)' \notin Reminders!Final
               /\ rsw'[s].rule > 1 => Reminders!Log(s, <<rsw[s].rule - 1, d>>)' = "sent"
      BY <1>5, <1>w, <2>1, <2>2
    <2>. QED BY <1>5, <2>w, <2>3 DEF ChainInv
  <1>6. ASSUME NEW c \in People, NEW st \in {"sent", "queued"}, Reminders!Remind(s, c, st)
        PROVE  ChainInv'
    <2>1. /\ "sent" \in Reminders!LogStatus \ {"none"} /\ Reminders!Turn(s, c)
          /\ rsw' = [rsw EXCEPT ![s] = [Reminders!Logged(s, c, "sent") EXCEPT !.msg[c] = st]]
          /\ rlog' = rlog /\ rlost' = rlost
          /\ rgone' = IF st = "sent" THEN [rgone EXCEPT ![<<rsw[s].rule, c>>] = @ + 1] ELSE rgone
      BY <1>6 DEF Reminders!Remind, Reminders!LogStatus
    <2>2. /\ rsw'[s].pc = "contacts" /\ rsw'[s].rule = rsw[s].rule /\ rsw'[s].todo = rsw[s].todo \ {c}
          /\ rsw'[s].log = [rsw[s].log EXCEPT ![<<rsw[s].rule, c>>] = "sent"]
          /\ rsw'[s].new = IF rlog[<<rsw[s].rule, c>>] = "none" THEN rsw[s].new \union {<<rsw[s].rule, c>>}
                          ELSE rsw[s].new
          /\ rsw'[s].msg = [rsw[s].msg EXCEPT ![c] = st]
      <3>1. rsw'[s].msg = [rsw[s].msg EXCEPT ![c] = st]
        BY <2>1, LoggedMessages
      <3>2. s \in Sweepers /\ Reminders!Turn(s, c) /\ "sent" \in Reminders!LogStatus \ {"none"}
            /\ rsw' = [rsw EXCEPT ![s] = [Reminders!Logged(s, c, "sent") EXCEPT !.msg[c] = st]]
        BY <2>1
      <3>3. /\ rsw'[s].pc = "contacts" /\ rsw'[s].rule = rsw[s].rule /\ rsw'[s].todo = rsw[s].todo \ {c}
            /\ rsw'[s].log = [rsw[s].log EXCEPT ![<<rsw[s].rule, c>>] = "sent"]
            /\ rsw'[s].new = IF rlog[<<rsw[s].rule, c>>] = "none" THEN rsw[s].new \union {<<rsw[s].rule, c>>}
                            ELSE rsw[s].new
        BY <3>2, LoggedSeen
      <3>. QED BY <3>1, <3>3
    <2>3. rsw[s].msg[c] = "none"
      BY <1>6 DEF Reminders!Remind, Reminders!Due
    <2>4. ASSUME rlost = 0, NEW k \in Reminders!Keys
          PROVE  /\ rgone'[k] <= 1
                 /\ rgone'[k] > 0 => Reminders!Log(s, k)' = "sent"
                 /\ rgone'[k] > 0 /\ rsw'[s].log[k] = "sent" => rsw'[s].msg[k[2]] = "sent"
      <3>1. rsw'[s].log[k] = IF k = <<rsw[s].rule, c>> THEN "sent" ELSE rsw[s].log[k]
        BY <2>2, <1>t DEF Reminders!SweepType
      <3>2. /\ Reminders!Log(s, <<rsw[s].rule, c>>) \notin Reminders!Final /\ <<rsw[s].rule, c>> \in Reminders!Keys
            /\ Reminders!Log(s, k)' = IF k = <<rsw[s].rule, c>> THEN "sent" ELSE Reminders!Log(s, k)
        BY <1>w, <2>1, <2>2
      <3>3. rgone[<<rsw[s].rule, c>>] = 0
        BY <2>4, <3>2, <1>t DEF ChainInv, Reminders!Final
      <3>4. CASE k = <<rsw[s].rule, c>>
        <4>1. rgone'[k] = IF st = "sent" THEN 1 ELSE 0
          BY <3>2, <3>3, <3>4, <2>1, <1>t
        <4>2. k[2] = c /\ rsw'[s].msg[c] = st
          BY <3>4, <2>2, <1>t DEF Reminders!SweepType
        <4>. QED BY <4>1, <4>2, <3>2, <3>4
      <3>5. CASE k # <<rsw[s].rule, c>>
        <4>1. rgone'[k] = rgone[k]
          BY <3>5, <2>1, <1>t
        <4>2. PICK r \in Reminders!Rules, d \in People : k = <<r, d>> /\ k[2] = d
          BY <1>k
        <4>3. rsw'[s].log[k] = "sent" => d # c
          BY <3>1, <3>5, <4>2, <2>3 DEF OrderInv
        <4>4. d # c => rsw'[s].msg[d] = rsw[s].msg[d]
          BY <2>2, <1>t DEF Reminders!SweepType
        <4>. QED BY <4>1, <4>2, <4>3, <4>4, <3>1, <3>2, <3>5, <2>4 DEF ChainInv
      <3>. QED BY <3>4, <3>5
    <2>w. /\ \A k \in Reminders!Keys : rsw'[s].log[k] # "none" => rlog'[k] \notin Reminders!Final
          /\ \A k \in rsw'[s].new : rlog'[k] = "none"
          /\ \A q, r \in Reminders!Rules, d \in People : q <= r =>
               /\ rlog'[<<r, d>>] = "sent" => rlog'[<<q, d>>] = "sent"
               /\ Reminders!Log(s, <<r, d>>)' = "sent" => Reminders!Log(s, <<q, d>>)' = "sent"
          /\ \A d \in rsw'[s].todo :
               /\ Reminders!Log(s, <<rsw[s].rule, d>>)' \notin Reminders!Final
               /\ rsw'[s].rule > 1 => Reminders!Log(s, <<rsw[s].rule - 1, d>>)' = "sent"
      BY <1>w, <2>1, <2>2
    <2>. QED BY <2>1, <2>w, <2>4 DEF ChainInv
  <1>7. CASE Reminders!Commit(s)
    <2>1. /\ rsw'[s] = Reminders!IdleSweep /\ rsw'[s].pc = "idle" /\ rsw'[s].new = {} /\ rlost' = rlost
          /\ \A k \in Reminders!Keys : rsw'[s].log[k] = "none"
      BY <1>7, <1>t DEF Reminders!Commit, Reminders!IdleSweep, Reminders!Nothing
    <2>2. \A k \in Reminders!Keys :
            /\ rlog'[k] = Reminders!Log(s, k)
            /\ rgone'[k] = IF rsw[s].log[k] = "sent" /\ rsw[s].msg[k[2]] = "queued"
                           THEN rgone[k] + 1 ELSE rgone[k]
      BY <1>7 DEF Reminders!Commit, Reminders!Written, Reminders!Log
    <2>3. \A k \in Reminders!Keys : Reminders!Log(s, k)' = Reminders!Log(s, k)
      BY <2>1, <2>2 DEF Reminders!Log
    <2>4. ASSUME rlost = 0, NEW k \in Reminders!Keys
          PROVE  rgone'[k] <= 1 /\ (rgone'[k] > 0 => Reminders!Log(s, k)' = "sent")
      <3>1. rgone[k] \in Nat /\ rgone[k] <= 1 /\ (rgone[k] > 0 => Reminders!Log(s, k) = "sent")
            /\ (rgone[k] > 0 /\ rsw[s].log[k] = "sent" => rsw[s].msg[k[2]] = "sent")
        BY <2>4, <1>t DEF ChainInv
      <3>2. rsw[s].log[k] = "sent" => Reminders!Log(s, k) = "sent"
        BY DEF Reminders!Log
      <3>. QED BY <3>1, <3>2, <2>2, <2>3
    <2>5. \A q, r \in Reminders!Rules, d \in People : q <= r =>
            /\ rlog'[<<r, d>>] = "sent" => rlog'[<<q, d>>] = "sent"
            /\ Reminders!Log(s, <<r, d>>)' = "sent" => Reminders!Log(s, <<q, d>>)' = "sent"
      BY <2>2, <2>3, <1>p DEF ChainInv
    <2>. QED BY <2>1, <2>4, <2>5 DEF ChainInv
  <1>8. CASE Reminders!Lose(s)
    <2>1. ~Reminders!Clash(s)
      BY DEF Reminders!Clash, ChainInv
    <2>2. /\ rsw'[s] = Reminders!IdleSweep /\ rsw'[s].pc = "idle" /\ rsw'[s].new = {} /\ rlost' = rlost + 1
          /\ \A k \in Reminders!Keys : rsw'[s].log[k] = "none"
          /\ rlog' = rlog
      BY <1>8, <1>t, <2>1 DEF Reminders!Lose, Reminders!IdleSweep, Reminders!Nothing
    <2>3. \A k \in Reminders!Keys : Reminders!Log(s, k)' = rlog[k]
      BY <2>2 DEF Reminders!Log
    <2>4. rlost' # 0
      BY <2>2, <1>t
    <2>5. \A q, r \in Reminders!Rules, d \in People : q <= r =>
            /\ rlog'[<<r, d>>] = "sent" => rlog'[<<q, d>>] = "sent"
            /\ Reminders!Log(s, <<r, d>>)' = "sent" => Reminders!Log(s, <<q, d>>)' = "sent"
      BY <2>2, <2>3, <1>p DEF ChainInv
    <2>. QED BY <2>2, <2>4, <2>5 DEF ChainInv
  <1>9. ASSUME UNCHANGED <<rlog, rsw, rgone, rlost>>
        PROVE  ChainInv'
    <2>1. \A k : Reminders!Log(s, k)' = Reminders!Log(s, k)
      BY <1>9 DEF Reminders!Log
    <2>. QED BY <1>9, <2>1 DEF ChainInv
  <1>. QED BY <1>1, <1>2, <1>3, <1>4, <1>5, <1>6, <1>7, <1>8, <1>9
       DEF Reminders!RNext, Reminders!SweepStep, Reminders!Decide, Reminders!StopContact,
          Reminders!NotSent, Reminders!PauseResume, Reminders!MessageSettles,
          Reminders!RowMoves, Reminders!OptOut, Reminders!DelayPasses, rvars

LEMMA RulesFollow ==
    ASSUME Reminders!RTypeOK, OrderInv, ChainInv, NEW s, Sweepers = {s}
    PROVE  Reminders!RemindersHold
  <1>1. Reminders!OncePerContact
    BY DEF ChainInv, Reminders!OncePerContact
  <1>2. Reminders!ChainEnds
    <2>. SUFFICES ASSUME NEW r \in Reminders!Rules, NEW c \in People, rlost = 0, rlog[<<r, c>>] = "stopped",
                         NEW q \in Reminders!Rules, q >= r
                  PROVE  rgone[<<q, c>>] = 0
      BY DEF Reminders!ChainEnds
    <2>1. <<r, c>> \in Reminders!Keys /\ <<q, c>> \in Reminders!Keys /\ rgone[<<q, c>>] \in Nat /\ r <= q
      BY DEF Reminders!Keys, Reminders!RTypeOK, Reminders!Rules
    <2>2. Reminders!Log(s, <<r, c>>) = "stopped"
      BY <2>1 DEF ChainInv, Reminders!Log, Reminders!Final
    <2>3. Reminders!Log(s, <<q, c>>) # "sent"
      BY <2>1, <2>2 DEF ChainInv
    <2>. QED BY <2>1, <2>3 DEF ChainInv
  <1>. QED BY <1>1, <1>2 DEF Reminders!RemindersHold, OrderInv

LEMMA RulesStep == [Next]_vars => [Reminders!RNext]_rvars
  BY DEF Next, vars, In, rvars

-----------------------------------------------------------------------------
(* The follow-up steps of an ads campaign *)

\* A message completes its task, once.
TaskInv == \A k \in Ads!Keys : fmsg[k] <= 1 /\ (fmsg[k] > 0 => ftask[k] = "completed")

\* A task that follows another had its message before.
OrderedInv ==
    \A c \in Leads, f, g \in Ads!Chain :
        f < g /\ ftask[<<f, c>>] # "none" /\ ftask[<<g, c>>] # "none" => fmsg[<<f, c>>] > 0

\* What a pass has written is of tasks that it selected, which had no message
\* then, and of one new task for a contact to whom it sends.
TaskFits(pass, k, status, msgs) ==
    /\ pass.loaded[k] # "none" => status # "none"
    /\ pass.loaded[k] \in Ads!Open => msgs = 0
    /\ k \in pass.todo => pass.loaded[k] \in Ads!Open /\ pass.set[k] = "none"
    /\ pass.set[k] \notin {"none", "pending"} => pass.loaded[k] \in Ads!Open
    /\ k \in pass.sent => pass.set[k] = "completed" /\ k \in Ads!Chain \X Leads
FollowsSent(pass) ==
    \A g \in Ads!Chain, c \in Leads : pass.set[<<g, c>>] = "pending" =>
        \E f \in Ads!Chain : f < g /\ <<f, c>> \in pass.sent
OneNext(pass) ==
    \A f, g \in Ads!Chain, c \in Leads :
        pass.set[<<f, c>>] = "pending" /\ pass.set[<<g, c>>] = "pending" => f = g
ChainOnly(pass) == \A k \in Ads!Keys : pass.set[k] = "pending" => k \in Ads!Chain \X Leads

PassFits(pass) == FollowsSent(pass) /\ OneNext(pass) /\ ChainOnly(pass)

TasksFit == \A p \in Passes, k \in Ads!Keys : TaskFits(fpass[p], k, ftask[k], fmsg[k])
PassesFit == \A p \in Passes : PassFits(fpass[p])
PassInv == TasksFit /\ PassesFit

StepsInv == Ads!FTypeOK /\ fdue \in Seq(Ads!Keys) /\ TaskInv /\ OrderedInv /\ PassInv

LEMMA FollowingIs ==
    ASSUME NEW f, flive \subseteq Ads!Chain, Ads!Following(f) # 0
    PROVE  Ads!Following(f) \in Ads!Chain /\ Ads!Following(f) > f
  <1>. DEFINE later == {g \in flive : g > f}
  <1>1. later # {}
    BY DEF Ads!Following
  <1>4. later \subseteq Nat /\ later \subseteq Ads!Chain
    <2>1. Ads!Chain \subseteq Nat
      BY StepsAssumption DEF Ads!Chain
    <2>. QED BY <2>1
  <1>2. \E g \in later : \A h \in later : g <= h
    BY <1>1, <1>4, Least
  <1>3. Ads!Following(f) \in later
    BY <1>1, <1>2 DEF Ads!Following
  <1>. QED BY <1>4, <1>3

LEMMA ChainKeys == \A f \in Ads!Chain, c \in Leads : <<f, c>> \in Ads!Keys
  BY DEF Ads!Keys

LEMMA IdleFits ==
    /\ Ads!IdlePass \in Ads!PassType
    /\ PassFits(Ads!IdlePass)
    /\ \A k \in Ads!Keys : \A st, n : TaskFits(Ads!IdlePass, k, st, n)
  <1>1. Ads!IdlePass \in Ads!PassType
    BY DEF Ads!IdlePass, Ads!PassType, Ads!NoTasks, Ads!TaskStatus
  <1>2. /\ Ads!IdlePass.todo = {} /\ Ads!IdlePass.sent = {}
        /\ \A k \in Ads!Keys : Ads!IdlePass.loaded[k] = "none" /\ Ads!IdlePass.set[k] = "none"
    BY DEF Ads!IdlePass, Ads!NoTasks
  <1>3. PassFits(Ads!IdlePass)
    BY <1>2, ChainKeys DEF PassFits, FollowsSent, OneNext, ChainOnly
  <1>4. \A k \in Ads!Keys : \A st, n : TaskFits(Ads!IdlePass, k, st, n)
    BY <1>2 DEF TaskFits, Ads!Open
  <1>. QED BY <1>1, <1>3, <1>4

LEMMA AdsCounts == \A S : Ads!Cardinality(S) = Cardinality(S)
  BY DEF Ads!Cardinality, Cardinality

LEMMA StepsInit ==
    ASSUME Ads!FInit
    PROVE  StepsInv
  <1>1. PICK n \in Nat : /\ fdue \in [1..n -> ByHand]
                         /\ \A i, j \in 1..n : i # j => fdue[i] # fdue[j]
    <2>1. Cardinality(ByHand) \in Nat
      BY FS_CardinalityType, StepsAssumption
    <2>. QED BY <2>1, AdsCounts DEF Ads!FInit, Ads!SetToSeqs
  <1>2. fdue \in Seq(Ads!Keys)
    BY <1>1, IsASeq DEF Ads!Keys
  <1>3. Ads!ToSet(fdue) \subseteq Ads!Keys /\ Ads!IsInjective(fdue)
    BY <1>1 DEF Ads!ToSet, Ads!IsInjective, Ads!Keys
  <1>4. \A k \in Ads!Keys : ftask[k] = IF k \in ByHand THEN "pending" ELSE "none"
    BY DEF Ads!FInit
  <1>5. Ads!FTypeOK
    <2>1. ftask \in [Ads!Keys -> Ads!TaskStatus]
      BY DEF Ads!FInit, Ads!TaskStatus, Ads!Open
    <2>2. fmsg \in [Ads!Keys -> Nat] /\ fpass \in [Passes -> Ads!PassType] /\ fdied \in 0..MaxDeaths
      BY IdleFits, StepsAssumption DEF Ads!FInit
    <2>. QED BY <1>3, <2>1, <2>2 DEF Ads!FInit, Ads!FTypeOK
  <1>6. \A f \in Ads!Chain, c \in Leads : ftask[<<f, c>>] = "none"
    BY <1>4, StepsAssumption DEF Ads!Chain, Ads!Keys
  <1>7. TaskInv /\ OrderedInv
    BY <1>6 DEF Ads!FInit, TaskInv, OrderedInv
  <1>8. PassInv
    <2>1. \A p \in Passes : fpass[p] = Ads!IdlePass
      BY DEF Ads!FInit
    <2>. QED BY <2>1, IdleFits DEF PassInv, TasksFit, PassesFit
  <1>. QED BY <1>2, <1>5, <1>7, <1>8 DEF StepsInv

\* Which tasks come when makes no difference to what is kept.
LEMMA DueKept ==
    ASSUME StepsInv, NEW k \in Ads!Keys, Ads!FallsDue(k)
    PROVE  StepsInv'
  <1>1. fdue \in Seq(Ads!Keys) /\ ~Ads!Contains(fdue, k) /\ fdue' = Append(fdue, k)
    BY DEF StepsInv, Ads!FallsDue
  <1>2. fdue' \in Seq(Ads!Keys) /\ Len(fdue') = Len(fdue) + 1 /\ Len(fdue) \in Nat
        /\ fdue'[Len(fdue) + 1] = k /\ \A i \in 1..Len(fdue) : fdue'[i] = fdue[i]
    BY <1>1
  <1>3. DOMAIN fdue' = 1..(Len(fdue) + 1) /\ DOMAIN fdue = 1..Len(fdue)
    BY <1>1, <1>2
  <1>4. Ads!ToSet(fdue') \subseteq Ads!Keys
    BY <1>2, <1>3 DEF Ads!ToSet
  <1>5. Ads!IsInjective(fdue')
    <2>1. Ads!IsInjective(fdue) /\ \A i \in 1..Len(fdue) : fdue[i] # k
      BY <1>1 DEF StepsInv, Ads!FTypeOK, Ads!Contains
    <2>. QED BY <1>2, <1>3, <2>1 DEF Ads!IsInjective
  <1>6. Ads!FTypeOK'
    BY <1>4, <1>5 DEF StepsInv, Ads!FallsDue, Ads!FTypeOK
  <1>7. PassInv' /\ TaskInv' /\ OrderedInv'
    <2>1. UNCHANGED <<ftask, fmsg, fpass>>
      BY DEF Ads!FallsDue
    <2>2. TaskInv' /\ OrderedInv'
      BY <2>1 DEF StepsInv, TaskInv, OrderedInv
    <2>. QED BY <2>1, <2>2 DEF StepsInv, PassInv, TasksFit, PassesFit
  <1>. QED BY <1>2, <1>6, <1>7 DEF StepsInv

\* A pass that goes on changes nothing that the others have, and no task.
LEMMA PassGoesOn ==
    ASSUME StepsInv, NEW p \in Passes, NEW new \in Ads!PassType,
           fpass' = [fpass EXCEPT ![p] = new],
           UNCHANGED <<ftask, fdue, fheld, fout, flive, fmsg, fdied>>,
           PassFits(new), \A k \in Ads!Keys : TaskFits(new, k, ftask[k], fmsg[k])
    PROVE  StepsInv'
  <1>1. Ads!FTypeOK'
    BY DEF StepsInv, Ads!FTypeOK
  <1>2. fpass'[p] = new /\ \A q \in Passes \ {p} : fpass'[q] = fpass[q]
    BY DEF StepsInv, Ads!FTypeOK
  <1>3. TasksFit'
    BY <1>2 DEF StepsInv, PassInv, TasksFit
  <1>4. PassesFit'
    BY <1>2 DEF StepsInv, PassInv, PassesFit
  <1>. QED BY <1>1, <1>3, <1>4 DEF StepsInv, TaskInv, OrderedInv, PassInv

\* A pass that looks at a task and writes it, or leaves it, but sends nothing.
LEMMA WrittenKept ==
    ASSUME StepsInv, NEW p \in Passes, NEW k \in Ads!Keys, k \in fpass[p].todo,
           NEW new \in Ads!PassType, fpass' = [fpass EXCEPT ![p] = new],
           UNCHANGED <<ftask, fdue, fheld, fout, flive, fmsg, fdied>>,
           new.todo \subseteq fpass[p].todo \ {k}, new.loaded = fpass[p].loaded,
           new.sent = fpass[p].sent,
           \/ new.set = fpass[p].set
           \/ \E st \in {"cancelled", "paused", "completed"} :
                new.set = [fpass[p].set EXCEPT ![k] = st]
    PROVE  StepsInv'
  <1>1. \A j \in Ads!Keys : TaskFits(fpass[p], j, ftask[j], fmsg[j])
    BY DEF StepsInv, PassInv, TasksFit
  <1>2. PassFits(fpass[p])
    BY DEF StepsInv, PassInv, PassesFit
  <1>3. fpass[p].loaded[k] \in Ads!Open /\ fpass[p].set[k] = "none" /\ k \notin fpass[p].sent
    BY <1>1 DEF TaskFits
  <1>4. \A j \in Ads!Keys :
          /\ new.set[j] = fpass[p].set[j] \/ (j = k /\ new.set[j] \in {"cancelled", "paused", "completed"})
          /\ j # k => new.set[j] = fpass[p].set[j]
    BY DEF StepsInv, Ads!FTypeOK, Ads!PassType
  <1>5. \A j \in Ads!Keys : new.set[j] = "pending" => fpass[p].set[j] = "pending"
    BY <1>4
  <1>6. PassFits(new)
    BY <1>2, <1>5, ChainKeys DEF PassFits, FollowsSent, OneNext, ChainOnly
  <1>7. \A j \in Ads!Keys : TaskFits(new, j, ftask[j], fmsg[j])
    <2>. SUFFICES ASSUME NEW j \in Ads!Keys PROVE TaskFits(new, j, ftask[j], fmsg[j])
      OBVIOUS
    <2>1. CASE j = k
      BY <2>1, <1>1, <1>3, <1>4 DEF TaskFits
    <2>2. CASE j # k
      BY <2>2, <1>1, <1>3, <1>4 DEF TaskFits
    <2>. QED BY <2>1, <2>2
  <1>. QED BY <1>6, <1>7, PassGoesOn

\* A pass that sends: the message, and the next step's task.
LEMMA SendKept ==
    ASSUME StepsInv, NEW p \in Passes, NEW k \in Ads!Keys, Ads!SendTask(p, k)
    PROVE  StepsInv'
  <1>. DEFINE old == fpass[p]
              base == [old EXCEPT !.set[k] = "completed", !.sent = @ \union {k}]
              queued == Ads!Queued(p, k, base)
              new == Ads!Done(p, k, queued)
              next == <<Ads!Following(k[1]), k[2]>>
  <1>1. old \in Ads!PassType /\ fpass' = [fpass EXCEPT ![p] = new] /\ k \in old.todo
        /\ k \in Ads!Chain \X Leads
        /\ UNCHANGED <<ftask, fdue, fheld, fout, flive, fmsg, fdied>>
    BY DEF Ads!SendTask, Ads!Put, Ads!Turn, Ads!Skips, StepsInv, Ads!FTypeOK, Ads!Keys
  <1>2. \A j \in Ads!Keys : TaskFits(old, j, ftask[j], fmsg[j])
    BY DEF StepsInv, PassInv, TasksFit
  <1>3. PassFits(old)
    BY DEF StepsInv, PassInv, PassesFit
  <1>4. old.loaded[k] \in Ads!Open /\ old.set[k] = "none" /\ k \notin old.sent
        /\ fmsg[k] = 0 /\ ftask[k] # "none"
    BY <1>1, <1>2 DEF TaskFits, Ads!Open
  <1>5. /\ base \in Ads!PassType /\ base.todo = old.todo /\ base.loaded = old.loaded
        /\ base.sent = old.sent \union {k}
        /\ base.set[k] = "completed" /\ \A j \in Ads!Keys \ {k} : base.set[j] = old.set[j]
    BY <1>1 DEF Ads!PassType, Ads!TaskStatus
  <1>6. CASE queued = base
    <2>1. new \in Ads!PassType /\ new.todo = old.todo \ {k} /\ new.loaded = old.loaded
          /\ new.sent = old.sent \union {k} /\ new.set = base.set
      BY <1>5, <1>6 DEF Ads!Done, Ads!PassType
    <2>2. \A j \in Ads!Keys : new.set[j] = "pending" => old.set[j] = "pending"
      BY <2>1, <1>5
    <2>3. PassFits(new)
      BY <1>3, <2>1, <2>2, ChainKeys DEF PassFits, FollowsSent, OneNext, ChainOnly
    <2>4. \A j \in Ads!Keys : TaskFits(new, j, ftask[j], fmsg[j])
      BY <1>1, <1>2, <1>4, <1>5, <2>1 DEF TaskFits
    <2>. QED BY <1>1, <2>1, <2>3, <2>4, PassGoesOn
  <1>7. CASE queued # base
    <2>1. /\ queued = [base EXCEPT !.set[next] = "pending"]
          /\ Ads!Following(k[1]) # 0 /\ ftask[next] = "none" /\ base.set[next] = "none"
      BY <1>7 DEF Ads!Queued
    <2>2. Ads!Following(k[1]) \in Ads!Chain /\ Ads!Following(k[1]) > k[1] /\ k[1] \in Ads!Chain /\ k[2] \in Leads
          /\ k = <<k[1], k[2]>>
      BY <1>1, <2>1, FollowingIs DEF StepsInv, Ads!FTypeOK
    <2>3. next \in Ads!Keys /\ next \in Ads!Chain \X Leads /\ next # k
      BY <2>2, <2>1, <1>4, ChainKeys
    <2>4. new \in Ads!PassType /\ new.todo = old.todo \ {k} /\ new.loaded = old.loaded
          /\ new.sent = old.sent \union {k} /\ new.set = [base.set EXCEPT ![next] = "pending"]
      <3>1. queued \in Ads!PassType /\ queued.todo = old.todo /\ queued.loaded = old.loaded
            /\ queued.sent = old.sent \union {k}
            /\ queued.set = [base.set EXCEPT ![next] = "pending"]
        <4>1. queued = [base EXCEPT !.set = [base.set EXCEPT ![next] = "pending"]]
          BY <2>1
        <4>2. [base.set EXCEPT ![next] = "pending"] \in [Ads!Keys -> Ads!TaskStatus]
          BY <1>5 DEF Ads!PassType, Ads!TaskStatus, Ads!Open
        <4>. HIDE DEF base, queued
        <4>. QED BY <1>5, <4>1, <4>2 DEF Ads!PassType
      <3>. HIDE DEF queued
      <3>. QED BY <3>1 DEF Ads!Done, Ads!PassType
    <2>5. new.set[next] = "pending" /\ \A j \in Ads!Keys \ {next} : new.set[j] = base.set[j]
      BY <2>3, <2>4, <1>5 DEF Ads!PassType
    <2>6. old.loaded[next] = "none" /\ next \notin old.todo /\ next \notin old.sent
          /\ old.set[next] = "none"
      BY <1>2, <1>5, <2>1, <2>3 DEF TaskFits, Ads!Open
    <2>7. \A j \in Ads!Keys : TaskFits(new, j, ftask[j], fmsg[j])
      <3>. SUFFICES ASSUME NEW j \in Ads!Keys PROVE TaskFits(new, j, ftask[j], fmsg[j])
        OBVIOUS
      <3>1. CASE j = k
        BY <3>1, <1>1, <1>2, <1>4, <1>5, <2>3, <2>4, <2>5 DEF TaskFits
      <3>2. CASE j = next
        BY <3>2, <2>3, <2>4, <2>5, <2>6 DEF TaskFits, Ads!Open
      <3>3. CASE j # k /\ j # next
        BY <3>3, <1>2, <1>5, <2>4, <2>5 DEF TaskFits
      <3>. QED BY <3>1, <3>2, <3>3
    \* A contact to whom it has sent has no other task without a message.
    <2>8. \A f \in Ads!Chain : old.set[<<f, k[2]>>] = "pending" => FALSE
      <3>. SUFFICES ASSUME NEW f \in Ads!Chain, old.set[<<f, k[2]>>] = "pending" PROVE FALSE
        OBVIOUS
      <3>1. PICK e \in Ads!Chain : e < f /\ <<e, k[2]>> \in old.sent
        BY <1>3, <2>2 DEF PassFits, FollowsSent
      <3>2. <<e, k[2]>> \in Ads!Keys /\ old.set[<<e, k[2]>>] = "completed"
            /\ old.loaded[<<e, k[2]>>] \in Ads!Open
        BY <3>1, <2>2, <1>2, ChainKeys DEF TaskFits
      <3>3. ftask[<<e, k[2]>>] # "none" /\ fmsg[<<e, k[2]>>] = 0
        BY <3>2, <1>2 DEF TaskFits, Ads!Open
      <3>4. e # k[1]
        BY <3>2, <1>4, <2>2
      <3>5. e < k[1] \/ k[1] < e
        BY <3>4, <2>2, StepsAssumption DEF Ads!Chain
      <3>. QED BY <3>3, <3>5, <1>4, <2>2 DEF StepsInv, OrderedInv
    <2>9. \A g \in Ads!Chain, c \in Leads : new.set[<<g, c>>] = "pending" =>
            <<g, c>> = next \/ old.set[<<g, c>>] = "pending"
      BY <2>5, <1>5, ChainKeys
    <2>10. FollowsSent(new)
      <3>. SUFFICES ASSUME NEW g \in Ads!Chain, NEW c \in Leads, new.set[<<g, c>>] = "pending"
                    PROVE  \E f \in Ads!Chain : f < g /\ <<f, c>> \in new.sent
        BY DEF FollowsSent
      <3>1. CASE <<g, c>> = next
        BY <3>1, <2>2, <2>4
      <3>2. CASE old.set[<<g, c>>] = "pending"
        BY <3>2, <2>4, <1>3 DEF PassFits, FollowsSent
      <3>. QED BY <3>1, <3>2, <2>9
    <2>11. OneNext(new)
      <3>. SUFFICES ASSUME NEW f \in Ads!Chain, NEW g \in Ads!Chain, NEW c \in Leads,
                           new.set[<<f, c>>] = "pending", new.set[<<g, c>>] = "pending"
                    PROVE  f = g
        BY DEF OneNext
      <3>1. CASE c = k[2]
        BY <3>1, <2>8, <2>9
      <3>2. CASE c # k[2]
        BY <3>2, <2>9, <1>3 DEF PassFits, OneNext
      <3>. QED BY <3>1, <3>2
    <2>12. ChainOnly(new)
      BY <2>3, <2>5, <1>3, <1>5 DEF PassFits, ChainOnly
    <2>. QED BY <1>1, <2>4, <2>7, <2>10, <2>11, <2>12, PassGoesOn DEF PassFits
  <1>. QED BY <1>6, <1>7

LEMMA OpensKept ==
    ASSUME StepsInv, NEW p \in Passes, NEW tasks \in SUBSET Ads!Keys, Ads!Opens(p, tasks),
           \A k \in tasks : ftask[k] \in Ads!Open
    PROVE  StepsInv'
  <1>. DEFINE new == [fpass[p] EXCEPT !.todo = tasks,
                         !.loaded = [k \in Ads!Keys |-> IF k \in tasks THEN ftask[k] ELSE "none"]]
  <1>1. fpass[p] = Ads!IdlePass /\ fpass[p] \in Ads!PassType /\ fpass' = [fpass EXCEPT ![p] = new]
        /\ UNCHANGED <<ftask, fdue, fheld, fout, flive, fmsg, fdied>>
    BY DEF Ads!Opens, Ads!Busy, StepsInv, Ads!FTypeOK
  <1>2. new \in Ads!PassType
    BY <1>1 DEF Ads!PassType, StepsInv, Ads!FTypeOK, Ads!TaskStatus
  <1>3. /\ new.todo = tasks /\ new.sent = {} /\ new.set = Ads!NoTasks
        /\ \A k \in Ads!Keys : new.loaded[k] = IF k \in tasks THEN ftask[k] ELSE "none"
    BY <1>1 DEF Ads!PassType, Ads!IdlePass
  <1>4. \A k \in Ads!Keys : new.set[k] = "none"
    BY <1>3 DEF Ads!NoTasks
  <1>5. PassFits(new)
    BY <1>3, <1>4, ChainKeys DEF PassFits, FollowsSent, OneNext, ChainOnly
  <1>6. \A k \in Ads!Keys : TaskFits(new, k, ftask[k], fmsg[k])
    <2>1. \A k \in Ads!Keys : ftask[k] \in Ads!Open => fmsg[k] = 0
      BY DEF StepsInv, TaskInv, Ads!FTypeOK, Ads!Open
    <2>. QED BY <1>3, <1>4, <2>1 DEF TaskFits, Ads!Open
  <1>. QED BY <1>1, <1>2, <1>5, <1>6, PassGoesOn

LEMMA CommitKept ==
    ASSUME StepsInv, NEW p \in Passes, Passes = {p}, Ads!CommitPass(p)
    PROVE  StepsInv'
  <1>. DEFINE old == fpass[p]
  <1>1. fpass[p] \in Ads!PassType /\ fpass' = [fpass EXCEPT ![p] = Ads!IdlePass]
    BY DEF Ads!CommitPass, StepsInv, Ads!FTypeOK
  <1>2. \A j \in Ads!Keys : TaskFits(old, j, ftask[j], fmsg[j])
    BY DEF StepsInv, PassInv, TasksFit
  <1>3. PassFits(old)
    BY DEF StepsInv, PassInv, PassesFit
  <1>4. \A j \in Ads!Keys :
          /\ ftask'[j] = IF old.set[j] \notin {"none", old.loaded[j]} THEN old.set[j] ELSE ftask[j]
          /\ fmsg'[j] = IF j \in old.sent THEN fmsg[j] + 1 ELSE fmsg[j]
    BY DEF Ads!CommitPass, Ads!Changed
  <1>5. \A j \in Ads!Keys : fmsg[j] \in Nat /\ ftask[j] \in Ads!TaskStatus /\ old.set[j] \in Ads!TaskStatus
    BY <1>1 DEF StepsInv, Ads!FTypeOK, Ads!PassType
  <1>6. Ads!FTypeOK'
    <2>1. ftask' \in [Ads!Keys -> Ads!TaskStatus]
      BY <1>1 DEF Ads!CommitPass, StepsInv, Ads!FTypeOK, Ads!PassType
    <2>2. fmsg' \in [Ads!Keys -> Nat]
      BY DEF Ads!CommitPass, StepsInv, Ads!FTypeOK
    <2>3. fpass' \in [Passes -> Ads!PassType]
      BY <1>1, IdleFits DEF StepsInv, Ads!FTypeOK
    <2>4. UNCHANGED <<fdue, fheld, fout, flive, fdied>>
      BY DEF Ads!CommitPass
    <2>. QED BY <2>1, <2>2, <2>3, <2>4 DEF StepsInv, Ads!FTypeOK
  <1>7. \A j \in Ads!Keys : j \in old.sent => old.loaded[j] \in Ads!Open /\ fmsg[j] = 0
                                          /\ old.set[j] = "completed" /\ ftask[j] # "none"
    BY <1>2 DEF TaskFits, Ads!Open
  <1>8. \A j \in Ads!Keys : ftask'[j] # "none" /\ ftask[j] = "none" => old.set[j] = "pending"
    BY <1>2, <1>4 DEF TaskFits, Ads!Open
  <1>10. TaskInv'
    <2>. SUFFICES ASSUME NEW j \in Ads!Keys
                  PROVE  (fmsg[j] <= 1 /\ (fmsg[j] > 0 => ftask[j] = "completed"))'
      BY DEF TaskInv
    <2>1. CASE j \in old.sent
      BY <2>1, <1>4, <1>7 DEF Ads!Open
    <2>2. CASE j \notin old.sent /\ fmsg[j] > 0
      <3>1. ftask[j] = "completed" /\ fmsg'[j] = fmsg[j] /\ fmsg[j] <= 1
        BY <2>2, <1>4 DEF StepsInv, TaskInv
      <3>2. old.set[j] \in {"none", "pending"}
        BY <2>2, <1>2, <1>5 DEF TaskFits
      <3>3. old.set[j] # "pending"
        BY <3>1 DEF Ads!CommitPass, Ads!Clash, Ads!Inserted
      <3>. QED BY <3>1, <3>2, <3>3, <1>4
    <2>3. CASE j \notin old.sent /\ fmsg[j] = 0
      BY <2>3, <1>4
    <2>. QED BY <2>1, <2>2, <2>3, <1>5
  <1>11. OrderedInv'
    <2>. SUFFICES ASSUME NEW c \in Leads, NEW f \in Ads!Chain, NEW g \in Ads!Chain, f < g,
                         ftask'[<<f, c>>] # "none", ftask'[<<g, c>>] # "none"
                  PROVE  fmsg'[<<f, c>>] > 0
      BY DEF OrderedInv
    <2>1. <<f, c>> \in Ads!Keys /\ <<g, c>> \in Ads!Keys /\ f \in Int /\ g \in Int
      BY ChainKeys, StepsAssumption DEF Ads!Chain
    <2>2. CASE ftask[<<f, c>>] # "none" /\ ftask[<<g, c>>] # "none"
      <3>1. fmsg[<<f, c>>] > 0
        BY <2>2 DEF StepsInv, OrderedInv
      <3>2. fmsg'[<<f, c>>] = fmsg[<<f, c>>] \/ fmsg'[<<f, c>>] = fmsg[<<f, c>>] + 1
        BY <2>1, <1>4
      <3>. QED BY <3>1, <3>2, <2>1, <1>5
    <2>3. CASE ftask[<<f, c>>] = "none" /\ ftask[<<g, c>>] # "none"
      <3>1. PICK e \in Ads!Chain : e < f /\ <<e, c>> \in old.sent
        BY <2>3, <2>1, <1>3, <1>8 DEF PassFits, FollowsSent
      <3>2. e < g /\ ftask[<<e, c>>] # "none" /\ fmsg[<<e, c>>] = 0
        BY <3>1, <2>1, <1>7, ChainKeys, StepsAssumption DEF Ads!Chain
      <3>. QED BY <3>2, <2>3 DEF StepsInv, OrderedInv
    <2>4. CASE ftask[<<f, c>>] # "none" /\ ftask[<<g, c>>] = "none"
      <3>1. PICK e \in Ads!Chain : e < g /\ <<e, c>> \in old.sent
        BY <2>4, <2>1, <1>3, <1>8 DEF PassFits, FollowsSent
      <3>2. ftask[<<e, c>>] # "none" /\ fmsg[<<e, c>>] = 0 /\ <<e, c>> \in Ads!Keys /\ e \in Int
        BY <3>1, <1>7, ChainKeys, StepsAssumption DEF Ads!Chain
      <3>3. CASE e = f
        BY <3>1, <3>2, <3>3, <1>4
      <3>4. CASE e < f
        BY <3>2, <3>4, <2>4 DEF StepsInv, OrderedInv
      <3>5. CASE f < e
        <4>1. fmsg[<<f, c>>] > 0
          BY <3>2, <3>5, <2>4 DEF StepsInv, OrderedInv
        <4>2. fmsg'[<<f, c>>] = fmsg[<<f, c>>] \/ fmsg'[<<f, c>>] = fmsg[<<f, c>>] + 1
          BY <2>1, <1>4
        <4>. QED BY <4>1, <4>2, <2>1, <1>5
      <3>. QED BY <2>1, <3>2, <3>3, <3>4, <3>5
    <2>5. CASE ftask[<<f, c>>] = "none" /\ ftask[<<g, c>>] = "none"
      BY <2>5, <2>1, <1>3, <1>8 DEF PassFits, OneNext
    <2>. QED BY <2>2, <2>3, <2>4, <2>5
  <1>12. PassInv'
    <2>1. \A q \in Passes : fpass'[q] = Ads!IdlePass
      BY <1>1 DEF StepsInv, Ads!FTypeOK
    <2>. QED BY <2>1, IdleFits DEF PassInv, TasksFit, PassesFit
  <1>13. fdue' = fdue
    BY DEF Ads!CommitPass
  <1>. QED BY <1>6, <1>10, <1>11, <1>12, <1>13 DEF StepsInv

LEMMA LoseKept ==
    ASSUME StepsInv, NEW p \in Passes, Ads!LosePass(p)
    PROVE  StepsInv'
  <1>1. fpass' = [fpass EXCEPT ![p] = Ads!IdlePass] /\ fdied' \in 0..MaxDeaths
        /\ UNCHANGED <<ftask, fdue, fheld, fout, flive, fmsg>>
    BY StepsAssumption DEF Ads!LosePass, StepsInv, Ads!FTypeOK
  <1>2. Ads!FTypeOK'
    BY <1>1, IdleFits DEF StepsInv, Ads!FTypeOK
  <1>3. fpass'[p] = Ads!IdlePass /\ \A q \in Passes \ {p} : fpass'[q] = fpass[q]
    BY <1>1 DEF StepsInv, Ads!FTypeOK
  <1>4. TasksFit'
    BY <1>1, <1>3, IdleFits DEF StepsInv, PassInv, TasksFit
  <1>5. PassesFit'
    BY <1>1, <1>3, IdleFits DEF StepsInv, PassInv, PassesFit
  <1>. QED BY <1>1, <1>2, <1>4, <1>5 DEF StepsInv, TaskInv, OrderedInv, PassInv

\* A step that closes open tasks.
LEMMA ClosedKept ==
    ASSUME StepsInv, UNCHANGED <<fdue, fpass, fmsg, fdied, fheld>>,
           fout' \subseteq Leads, flive' \subseteq Ads!Chain, ftask' \in [Ads!Keys -> Ads!TaskStatus],
           \A k \in Ads!Keys : ftask'[k] = ftask[k] \/ (ftask[k] \in Ads!Open /\ ftask'[k] # "none")
    PROVE  StepsInv'
  <1>1. Ads!FTypeOK'
    BY DEF StepsInv, Ads!FTypeOK
  <1>2. \A k \in Ads!Keys : (ftask'[k] # "none") = (ftask[k] # "none")
    BY DEF Ads!Open
  <1>3. TaskInv'
    BY DEF StepsInv, TaskInv, Ads!Open
  <1>4. OrderedInv'
    BY <1>2, ChainKeys DEF StepsInv, OrderedInv
  <1>5. TasksFit'
    BY <1>2 DEF StepsInv, PassInv, TasksFit, TaskFits
  <1>6. PassesFit'
    BY DEF StepsInv, PassInv, PassesFit
  <1>. QED BY <1>1, <1>3, <1>4, <1>5, <1>6 DEF StepsInv, PassInv

LEMMA FirstTaskKept ==
    ASSUME StepsInv, NEW c \in Leads, Ads!FirstQueued(c)
    PROVE  StepsInv'
  <1>. DEFINE first == <<Ads!Following(0), c>>
  <1>1. Ads!Following(0) \in Ads!Chain /\ first \in Ads!Keys
    BY FollowingIs, ChainKeys DEF Ads!FirstQueued, StepsInv, Ads!FTypeOK
  <1>2. ftask' = [ftask EXCEPT ![first] = "pending"]
        /\ (\A f \in Ads!Chain : ftask[<<f, c>>] = "none")
        /\ UNCHANGED <<fdue, fheld, fout, flive, fpass, fmsg, fdied>>
    BY DEF Ads!FirstQueued
  <1>3. ftask'[first] = "pending" /\ ftask[first] = "none"
        /\ \A k \in Ads!Keys \ {first} : ftask'[k] = ftask[k]
    BY <1>1, <1>2 DEF StepsInv, Ads!FTypeOK
  <1>4. Ads!FTypeOK'
    BY <1>2, <1>1 DEF StepsInv, Ads!FTypeOK, Ads!TaskStatus, Ads!Open
  <1>5. fmsg[first] = 0
    BY <1>1, <1>3 DEF StepsInv, TaskInv, Ads!FTypeOK
  <1>6. TaskInv'
    BY <1>2, <1>3, <1>5 DEF StepsInv, TaskInv
  <1>7. OrderedInv'
    <2>. SUFFICES ASSUME NEW d \in Leads, NEW f \in Ads!Chain, NEW g \in Ads!Chain, f < g,
                         ftask'[<<f, d>>] # "none", ftask'[<<g, d>>] # "none"
                  PROVE  fmsg'[<<f, d>>] > 0
      BY DEF OrderedInv
    <2>1. d # c
      <3>. SUFFICES ASSUME d = c PROVE FALSE
        OBVIOUS
      <3>1. f = Ads!Following(0) /\ g = Ads!Following(0)
        BY <1>2, <1>3, ChainKeys
      <3>2. f \in Int
        BY StepsAssumption DEF Ads!Chain
      <3>. QED BY <3>1, <3>2
    <2>. QED BY <2>1, <1>2, <1>3, ChainKeys DEF StepsInv, OrderedInv
  <1>8. TasksFit'
    BY <1>2, <1>3 DEF StepsInv, PassInv, TasksFit, TaskFits
  <1>9. PassesFit'
    BY <1>2 DEF StepsInv, PassInv, PassesFit
  <1>. QED BY <1>2, <1>4, <1>6, <1>7, <1>8, <1>9 DEF StepsInv, PassInv

LEMMA StepsNext ==
    ASSUME StepsInv, NEW p, Passes = {p}, [Ads!FNext]_fvars
    PROVE  StepsInv'
  <1>1. \A S : Ads!Cancelled(S) \in [Ads!Keys -> Ads!TaskStatus]
    BY DEF Ads!Cancelled, StepsInv, Ads!FTypeOK, Ads!TaskStatus
  <1>2. \A S : \A k \in Ads!Keys : Ads!Cancelled(S)[k] = ftask[k]
                            \/ (ftask[k] \in Ads!Open /\ Ads!Cancelled(S)[k] # "none")
    BY DEF Ads!Cancelled, Ads!Open
  <1>3. ASSUME NEW statuses \in {Ads!Open, {"pending"}}
        PROVE  Ads!Selected(statuses) \in SUBSET Ads!Keys
               /\ \A k \in Ads!Selected(statuses) : ftask[k] \in Ads!Open
    BY DEF Ads!Selected, StepsInv, Ads!FTypeOK, Ads!Open
  <1>4. CASE Ads!Sweep(p) \/ Ads!ProcessNow(p)
    BY <1>4, <1>3, OpensKept DEF Ads!Sweep, Ads!ProcessNow
  <1>5. ASSUME NEW k \in Ads!Keys, Ads!SendNow(p, k)
        PROVE  StepsInv'
    BY <1>5, OpensKept DEF Ads!SendNow
  <1>6. ASSUME NEW k \in Ads!Keys, Ads!LeaveTask(p, k) \/ Ads!PauseTask(p, k) \/ Ads!CancelTask(p, k)
                               \/ Ads!ActTask(p, k)
        PROVE  StepsInv'
    <2>1. fpass[p] \in Ads!PassType /\ k \in fpass[p].todo
      BY <1>6 DEF StepsInv, Ads!FTypeOK, Ads!LeaveTask, Ads!PauseTask, Ads!CancelTask, Ads!ActTask,
         Ads!Turn
    <2>2. CASE Ads!LeaveTask(p, k)
      <3>1. Ads!Done(p, k, fpass[p]) \in Ads!PassType
        BY <2>1 DEF Ads!Done, Ads!PassType
      <3>2. /\ Ads!Done(p, k, fpass[p]).todo = fpass[p].todo \ {k}
            /\ Ads!Done(p, k, fpass[p]).loaded = fpass[p].loaded
            /\ Ads!Done(p, k, fpass[p]).sent = fpass[p].sent
            /\ Ads!Done(p, k, fpass[p]).set = fpass[p].set
        BY <2>1 DEF Ads!Done, Ads!PassType
      <3>. QED BY <2>1, <2>2, <3>1, <3>2, WrittenKept DEF Ads!LeaveTask, Ads!Put
    <2>3. ASSUME NEW st \in {"cancelled", "paused", "completed"},
                 Ads!Put(p, k, [fpass[p] EXCEPT !.set[k] = st])
          PROVE  StepsInv'
      <3>. DEFINE base == [fpass[p] EXCEPT !.set[k] = st]
      <3>1. base \in Ads!PassType /\ base.todo = fpass[p].todo /\ base.loaded = fpass[p].loaded
            /\ base.sent = fpass[p].sent /\ base.set = [fpass[p].set EXCEPT ![k] = st]
        BY <2>1, <2>3 DEF Ads!PassType, Ads!TaskStatus, Ads!Open
      <3>2. Ads!Put(p, k, base)
        BY <2>3
      <3>. HIDE DEF base
      <3>3. /\ Ads!Done(p, k, base) \in Ads!PassType /\ Ads!Done(p, k, base).todo = fpass[p].todo \ {k}
            /\ Ads!Done(p, k, base).loaded = base.loaded /\ Ads!Done(p, k, base).sent = base.sent
            /\ Ads!Done(p, k, base).set = base.set
        BY <3>1 DEF Ads!Done, Ads!PassType
      <3>. QED BY <2>1, <3>1, <3>2, <3>3, WrittenKept DEF Ads!Put
    <2>. QED BY <1>6, <2>2, <2>3 DEF Ads!PauseTask, Ads!CancelTask, Ads!ActTask
  <1>7. ASSUME NEW k \in Ads!Keys, Ads!OperatorSets(k)
        PROVE  StepsInv'
    <2>1. ftask' \in [Ads!Keys -> Ads!TaskStatus] /\ UNCHANGED <<fdue, fheld, fout, flive, fpass, fmsg, fdied>>
      BY <1>7 DEF Ads!OperatorSets, StepsInv, Ads!FTypeOK, Ads!TaskStatus
    <2>2. \A j \in Ads!Keys : ftask'[j] = ftask[j] \/ (ftask[j] \in Ads!Open /\ ftask'[j] # "none")
      BY <1>7 DEF Ads!OperatorSets, StepsInv, Ads!FTypeOK
    <2>. QED BY <2>1, <2>2, ClosedKept DEF StepsInv, Ads!FTypeOK
  <1>8. CASE \E f \in Ads!Chain : Ads!DeleteStep(f)
    <2>1. PICK f \in Ads!Chain : Ads!DeleteStep(f)
      BY <1>8
    <2>2. ftask' = Ads!Cancelled({f} \X Leads) /\ flive' \subseteq Ads!Chain /\ fout' \subseteq Leads
          /\ UNCHANGED <<fdue, fpass, fmsg, fdied, fheld>>
      BY <2>1 DEF Ads!DeleteStep, StepsInv, Ads!FTypeOK
    <2>. QED BY <2>2, <1>1, <1>2, ClosedKept
  <1>9. CASE \E c \in Leads : Ads!OptOut(c)
    <2>1. PICK c \in Leads : Ads!OptOut(c)
      BY <1>9
    <2>2. ftask' = Ads!Cancelled(Ads!Chain \X {c}) /\ flive' \subseteq Ads!Chain /\ fout' \subseteq Leads
          /\ UNCHANGED <<fdue, fpass, fmsg, fdied, fheld>>
      BY <2>1 DEF Ads!OptOut, StepsInv, Ads!FTypeOK
    <2>. QED BY <2>2, <1>1, <1>2, ClosedKept
  <1>10. CASE Ads!HoldRelease \/ (\E f \in Ads!Chain : Ads!RestoreStep(f)) \/ UNCHANGED fvars
    <2>1. UNCHANGED <<ftask, fdue, fpass, fmsg, fdied, fout>> /\ fheld' \in BOOLEAN
          /\ flive' \subseteq Ads!Chain
      BY <1>10 DEF Ads!HoldRelease, Ads!RestoreStep, fvars, StepsInv, Ads!FTypeOK
    <2>2. Ads!FTypeOK'
      BY <2>1 DEF StepsInv, Ads!FTypeOK
    <2>. QED BY <2>1, <2>2 DEF StepsInv, TaskInv, OrderedInv, PassInv, TasksFit, PassesFit
  <1>. QED BY <1>4, <1>5, <1>6, <1>7, <1>8, <1>9, <1>10, SendKept, CommitKept, LoseKept,
              FirstTaskKept, DueKept
           DEF Ads!FNext, Ads!PassStep, Ads!Handle

LEMMA StepsFollow ==
    ASSUME StepsInv
    PROVE  Ads!StepsHold
  <1>1. Ads!StepOnce
    BY DEF StepsInv, TaskInv, Ads!StepOnce
  <1>2. Ads!OneOpen
    <2>. SUFFICES ASSUME NEW c \in Leads
                  PROVE  Cardinality({f \in Ads!Chain : ftask[<<f, c>>] \in Ads!Open}) <= 1
      BY AdsCounts DEF Ads!OneOpen, StepsInv, OrderedInv
    <2>. DEFINE open == {f \in Ads!Chain : ftask[<<f, c>>] \in Ads!Open}
    <2>1. \A f, g \in open : f = g
      <3>. SUFFICES ASSUME NEW f \in open, NEW g \in open, f < g PROVE FALSE
        BY StepsAssumption DEF Ads!Chain
      <3>1. <<f, c>> \in Ads!Keys /\ ftask[<<f, c>>] \in Ads!Open /\ ftask[<<g, c>>] \in Ads!Open
        BY ChainKeys
      <3>. QED BY <3>1 DEF StepsInv, TaskInv, OrderedInv, Ads!Open
    <2>2. open = {} \/ \E f : open = {f}
      BY <2>1
    <2>. HIDE DEF open
    <2>3. Cardinality(open) \in {0, 1}
      BY <2>2, FS_EmptySet, FS_Singleton
    <2>. QED BY <2>3 DEF open
  <1>. QED BY <1>1, <1>2 DEF StepsInv, Ads!StepsHold

LEMMA StepsStep == [Next]_vars => [Ads!FNext]_fvars
  BY DEF Next, vars, In, fvars

\* A reminder goes only after the one before it has, in any number of sweeps
\* that overlap, of any people, rules, limits and lost commits.
THEOREM ChainInOrderAlways == Spec => []Reminders!ChainInOrder
  <1>1. Init => Reminders!RTypeOK /\ OrderInv
    BY RulesInit DEF Init
  <1>2. Reminders!RTypeOK /\ OrderInv /\ [Next]_vars => Reminders!RTypeOK' /\ OrderInv'
    BY RulesStep, RulesTyped, OrderKept
  <1>3. OrderInv => Reminders!ChainInOrder
    BY DEF OrderInv
  <1>. QED BY <1>1, <1>2, <1>3, PTL DEF Spec

\* With one sweep and one pass at a time a contact gets each reminder and each
\* step once and one after another, whatever the operators change meanwhile,
\* for any people, rules, steps, limits, deaths and lost commits.
THEOREM ChainsHoldAlways ==
    ASSUME NEW s, Sweepers = {s}, NEW p, Passes = {p}
    PROVE  Spec => []ChainsHold
  <1>. DEFINE I == Reminders!RTypeOK /\ OrderInv /\ ChainInv /\ StepsInv
  <1>1. Init => I
    BY RulesInit, StepsInit DEF Init
  <1>2. I /\ [Next]_vars => I'
    <2>1. Reminders!RTypeOK /\ OrderInv /\ ChainInv /\ [Next]_vars
            => (Reminders!RTypeOK /\ OrderInv /\ ChainInv)'
      BY RulesStep, RulesTyped, OrderKept, ChainKept
    <2>2. StepsInv /\ [Next]_vars => StepsInv'
      BY StepsStep, StepsNext
    <2>. QED BY <2>1, <2>2
  <1>3. I => ChainsHold
    BY RulesFollow, StepsFollow DEF ChainsHold
  <1>. QED BY <1>1, <1>2, <1>3, PTL DEF Spec

-----------------------------------------------------------------------------
(* What has a time *)

\* A scheduled message goes out once and a reminder once for each time of its
\* meeting, the poller passes in time for what is asked of it, and a deferred
\* message misses no window: for any items, pollers, guests, moves, jobs, hours
\* and settings, if no email is retried, no meeting saved with the start it
\* had, and no request waited for across an outage of the database.
THEOREM TimesKeptAlways ==
    ASSUME ~RetryEmails, ~Same, ~KeepsAsked
    PROVE  Spec => []TimesKept
  <1>1. Init => Scheduled!SInit /\ Meeting!MInit /\ Pacing!PInit /\ WInit
    BY DEF Init
  <1>2. Init => ItemsInv /\ MeetingInv /\ PacingInv /\ WindowInv
    BY <1>1, ItemsInit, MeetingInit, PacingInit, WindowInit
  <1>3. ItemsInv /\ [Next]_vars => ItemsInv'
    BY ScheduledStep, ItemsKept
  <1>4. MeetingInv /\ [Next]_vars => MeetingInv'
    BY MeetingStep, MeetingKept
  <1>5. PacingInv /\ [Next]_vars => PacingInv'
    BY PacingStep, PacingKept
  <1>6. WindowInv /\ [Next]_vars => WindowInv'
    BY WindowStep, WindowKept
  <1>7. ItemsInv /\ MeetingInv /\ PacingInv /\ WindowInv => TimesKept
    BY ItemsFollow, MeetingFollow, PacingFollow DEF TimesKept, WindowInv
  <1>. QED BY <1>2, <1>3, <1>4, <1>5, <1>6, <1>7, PTL DEF Spec

=============================================================================
