-------------------------- MODULE RefreshWindowProofs --------------------------
(***************************************************************************)
(* Theorems about the 6 PM Eastern window, for every instant and every     *)
(* pair of DST transitions that CalendarAssumption admits.                 *)
(*                                                                         *)
(* Quotients and remainders are met once, in DivisionByDay; from there on  *)
(* a local time is a date and an hour of it, and what is left is linear.   *)
(***************************************************************************)
EXTENDS RefreshWindow, TLAPS

\* A count of hours is that of its date and the hour of it.
LEMMA DivisionByDay ==
    ASSUME NEW n \in Int
    PROVE  /\ n \div 24 \in Int /\ n % 24 \in 0..23
           /\ n = 24 * (n \div 24) + (n % 24)
<1>1. n \div 24 \in Int
  OBVIOUS
<1>2. n % 24 \in 0..23
  OBVIOUS
<1>3. n = 24 * (n \div 24) + (n % 24)
  OBVIOUS
<1> QED
  BY <1>1, <1>2, <1>3

LEMMA SplitOfDay ==
    ASSUME NEW d \in Int, NEW r \in 0..23
    PROVE  (24 * d + r) \div 24 = d /\ (24 * d + r) % 24 = r
<1> DEFINE n == 24 * d + r
           q == n \div 24
           m == n % 24
<1>1. n \in Int /\ q \in Int /\ m \in 0..23 /\ n = 24 * q + m
  BY DivisionByDay
<1>2. 24 * d + r = 24 * q + m
  BY <1>1
<1> HIDE DEF q, m
<1>3. q = d /\ m = r
  BY <1>1, <1>2
<1> QED
  BY <1>3 DEF q, m

\* An instant's local date and hour.
LEMMA LocalTime ==
    ASSUME NEW t \in Int
    PROVE  /\ Offset(t) \in Int /\ EasternNow(t) \in Int /\ EasternNow(t) = t + Offset(t)
           /\ DateOf(EasternNow(t)) \in Int /\ HourOf(EasternNow(t)) \in 0..23
           /\ EasternNow(t) = 24 * DateOf(EasternNow(t)) + HourOf(EasternNow(t))
<1>1. Offset(t) \in Int /\ EasternNow(t) \in Int /\ EasternNow(t) = t + Offset(t)
  BY DEF Offset, EasternNow
<1> QED
  BY <1>1, DivisionByDay DEF DateOf, HourOf

\* A boundary that is past on the local clock is past, and one ahead is ahead.
LEMMA BoundaryKeepsOrder ==
    ASSUME NEW t \in Int, NEW x \in Int
    PROVE  /\ Timestamp(x) \in {x + 4, x + 5}
           /\ x <= EasternNow(t) => Timestamp(x) <= t
           /\ EasternNow(t) < x => t < Timestamp(x)
<1>1. SpringForward \in Int /\ FallBack \in Int
  BY CalendarAssumption
<1> QED
  BY <1>1 DEF Timestamp, EasternNow, Offset

LEMMA EveryInstantIsBracketed ==
    ASSUME NEW t \in Int
    PROVE  BracketsNow(t)
<1> DEFINE w == TodaysWindow(t)
           now == EasternNow(t)
<1>1. /\ now \in Int /\ w \in Int /\ w - 24 \in Int /\ w + 24 \in Int
      /\ w - 24 <= now /\ now < w + 24
  <2> DEFINE d == DateOf(now)
             h == HourOf(now)
  <2>1. d \in Int /\ h \in 0..23 /\ now = 24 * d + h
    BY LocalTime
  <2>2. w = d * 24 + 18
    BY DEF TodaysWindow, RefreshHourEastern
  <2> HIDE DEF d, h, w, now
  <2> QED
    BY <2>1, <2>2
<1>2. /\ LastRefreshBoundary(t) = IF now < w THEN Timestamp(w - 24) ELSE Timestamp(w)
      /\ NextRefreshBoundary(t) = IF now >= w THEN Timestamp(w + 24) ELSE Timestamp(w)
  BY DEF LastRefreshBoundary, NextRefreshBoundary
<1>3. /\ Timestamp(w - 24) \in {w - 24 + 4, w - 24 + 5}
      /\ Timestamp(w) \in {w + 4, w + 5}
      /\ Timestamp(w + 24) \in {w + 24 + 4, w + 24 + 5}
  BY <1>1, BoundaryKeepsOrder
<1>4. CASE now < w
  <2>1. Timestamp(w - 24) <= t /\ t < Timestamp(w)
    BY <1>1, <1>4, BoundaryKeepsOrder
  <2>2. Timestamp(w) - Timestamp(w - 24) \in 23..25
    BY <1>1, <1>3
  <2>3. LastRefreshBoundary(t) = Timestamp(w - 24) /\ NextRefreshBoundary(t) = Timestamp(w)
    BY <1>1, <1>2, <1>4
  <2> QED
    BY <2>1, <2>2, <2>3 DEF BracketsNow
<1>5. CASE now >= w
  <2>1. Timestamp(w) <= t /\ t < Timestamp(w + 24)
    BY <1>1, <1>5, BoundaryKeepsOrder
  <2>2. Timestamp(w + 24) - Timestamp(w) \in 23..25
    BY <1>1, <1>3
  <2>3. LastRefreshBoundary(t) = Timestamp(w) /\ NextRefreshBoundary(t) = Timestamp(w + 24)
    BY <1>1, <1>2, <1>5
  <2> QED
    BY <2>1, <2>2, <2>3 DEF BracketsNow
<1> QED
  BY <1>1, <1>4, <1>5

-----------------------------------------------------------------------------
(* The local 18 o'clock hours.                                              *)

\* Transitions happen in the small hours.
LEMMA TransitionsAreAtNight ==
    /\ SpringForward \in Int /\ FallBack \in Int /\ SpringForward + 168 <= FallBack
    /\ \E a, b \in Int : SpringForward = 24 * a + 7 /\ FallBack = 24 * b + 6
<1> DEFINE a == (SpringForward - 5) \div 24
           b == (FallBack - 4) \div 24
<1>1. SpringForward \in Int /\ FallBack \in Int /\ SpringForward + 168 <= FallBack
  BY CalendarAssumption
<1>2. a \in Int /\ SpringForward - 5 = 24 * a + 2
  BY <1>1, CalendarAssumption, DivisionByDay
<1>3. b \in Int /\ FallBack - 4 = 24 * b + 2
  BY <1>1, CalendarAssumption, DivisionByDay
<1> HIDE DEF a, b
<1>4. SpringForward = 24 * a + 7 /\ FallBack = 24 * b + 6
  BY <1>1, <1>2, <1>3
<1> QED
  BY <1>1, <1>2, <1>3, <1>4

\* Every date has one 18 o'clock hour, at one of the scheduled hours.
LEMMA OneWindowADate ==
    ASSUME NEW d \in Int
    PROVE  LET x == 24 * d + 18
           IN  /\ Timestamp(x) \in Int /\ EasternNow(Timestamp(x)) = x
               /\ Timestamp(x) % 24 \in CronHours
               /\ \A t \in Int : EasternNow(t) = x => t = Timestamp(x)
<1> DEFINE x == 24 * d + 18
           u == Timestamp(x)
<1>1. SpringForward \in Int /\ FallBack \in Int /\ SpringForward + 168 <= FallBack
  BY TransitionsAreAtNight
<1>2. PICK a, b \in Int : SpringForward = 24 * a + 7 /\ FallBack = 24 * b + 6
  BY TransitionsAreAtNight
<1>3. x \in Int /\ u \in {24 * d + 22, 24 * d + 23}
  BY BoundaryKeepsOrder
<1>4. u \in Int /\ u % 24 \in CronHours
  BY <1>3, SplitOfDay DEF CronHours
<1>5. EasternNow(u) = x
  BY <1>1, <1>2 DEF EasternNow, Offset, Timestamp
<1>6. ASSUME NEW t \in Int, EasternNow(t) = x PROVE t = u
  BY <1>1, <1>2, <1>6 DEF EasternNow, Offset, Timestamp
<1> QED
  BY <1>3, <1>4, <1>5, <1>6

LEMMA WindowIsTheDates ==
    ASSUME NEW t \in Int, InWindow(t)
    PROVE  /\ EasternNow(t) = 24 * DateOf(EasternNow(t)) + 18
           /\ t = Timestamp(24 * DateOf(EasternNow(t)) + 18)
           /\ LastRefreshBoundary(t) = t
<1> DEFINE d == DateOf(EasternNow(t))
<1>1. d \in Int /\ EasternNow(t) = 24 * d + 18 /\ EasternNow(t) \in Int
  BY LocalTime DEF InWindow, RefreshHourEastern
<1>2. t = Timestamp(24 * d + 18)
  BY <1>1, OneWindowADate
<1>3. TodaysWindow(t) = 24 * d + 18
  <2>1. TodaysWindow(t) = d * 24 + 18
    BY DEF TodaysWindow, RefreshHourEastern
  <2> HIDE DEF d
  <2> QED
    BY <1>1, <2>1
<1>4. ~(EasternNow(t) < TodaysWindow(t))
  BY <1>1, <1>3
<1>5. LastRefreshBoundary(t) = Timestamp(24 * d + 18)
  BY <1>3, <1>4 DEF LastRefreshBoundary
<1> QED
  BY <1>1, <1>2, <1>5

-----------------------------------------------------------------------------
(* The schedule.                                                            *)

\* What the two schedules have decided so far, hour by hour.
ScheduleInv ==
    /\ hour \in Int /\ hour >= FirstHour
    /\ \A h \in accepted : h \in Int /\ InWindow(h)
    /\ \A h \in refused : h \in Int /\ ~ InWindow(h)
    /\ \A h \in FirstHour..(hour - 1) : h % 24 \in CronHours => h \in accepted \cup refused

LEMMA ScheduleInitInv == Init => ScheduleInv
<1> SUFFICES ASSUME Init PROVE ScheduleInv
  OBVIOUS
<1>1. hour = FirstHour /\ FirstHour \in Int /\ accepted = {} /\ refused = {}
  BY HorizonAssumption DEF Init
<1> QED
  BY <1>1 DEF ScheduleInv

LEMMA ScheduleStepInv == ScheduleInv /\ [Next]_vars => ScheduleInv'
<1> SUFFICES ASSUME ScheduleInv, [Next]_vars PROVE ScheduleInv'
  OBVIOUS
<1>0. hour \in Int /\ FirstHour \in Int /\ hour >= FirstHour
  BY HorizonAssumption DEF ScheduleInv
<1>1. CASE Cron
  <2>1. CASE InWindow(hour)
    <3>1. accepted' = accepted \cup {hour} /\ refused' = refused /\ hour' = hour
      BY <1>1, <2>1 DEF Cron
    <3>2. \A h \in accepted' : h \in Int /\ InWindow(h)
      BY <1>0, <2>1, <3>1 DEF ScheduleInv
    <3> QED
      BY <1>0, <3>1, <3>2 DEF ScheduleInv
  <2>2. CASE ~ InWindow(hour)
    <3>1. refused' = refused \cup {hour} /\ accepted' = accepted /\ hour' = hour
      BY <1>1, <2>2 DEF Cron
    <3>2. \A h \in refused' : h \in Int /\ ~ InWindow(h)
      BY <1>0, <2>2, <3>1 DEF ScheduleInv
    <3> QED
      BY <1>0, <3>1, <3>2 DEF ScheduleInv
  <2> QED
    BY <2>1, <2>2
<1>2. CASE Tick
  <2>1. hour' = hour + 1 /\ accepted' = accepted /\ refused' = refused
    BY <1>2 DEF Tick
  <2>2. hour' \in Int /\ hour' >= FirstHour
    BY <1>0, <2>1
  <2>3. ASSUME NEW h \in FirstHour..(hour' - 1), h % 24 \in CronHours
        PROVE  h \in accepted \cup refused
    <3>1. h \in FirstHour..(hour - 1) \/ h = hour
      BY <1>0, <2>1
    <3> QED
      BY <1>2, <2>3, <3>1 DEF ScheduleInv, Tick
  <2> QED
    BY <2>1, <2>2, <2>3 DEF ScheduleInv
<1>3. CASE UNCHANGED vars
  BY <1>3 DEF vars, ScheduleInv
<1> QED
  BY <1>1, <1>2, <1>3 DEF Next

LEMMA ScheduleInvariant == Spec => []ScheduleInv
BY ScheduleInitInv, ScheduleStepInv, PTL DEF Spec

LEMMA DatesAreAccepted ==
    ASSUME ScheduleInv PROVE EveryDateIsAccepted
<1>0. hour \in Int /\ FirstHour \in Int /\ hour >= FirstHour
  BY HorizonAssumption DEF ScheduleInv
<1> DEFINE D0 == DateOf(EasternNow(FirstHour))
           D1 == DateOf(EasternNow(hour))
<1>1. /\ D0 \in Int /\ EasternNow(FirstHour) \in Int /\ EasternNow(FirstHour) < 24 * D0 + 24
      /\ D1 \in Int /\ EasternNow(hour) \in Int /\ 24 * D1 <= EasternNow(hour)
      /\ EasternNow(FirstHour) \in {FirstHour - 4, FirstHour - 5}
      /\ EasternNow(hour) \in {hour - 4, hour - 5}
  <2>1. \A t \in Int : EasternNow(t) \in {t - 4, t - 5}
    BY DEF EasternNow, Offset
  <2>2. ASSUME NEW t \in Int
        PROVE  /\ DateOf(EasternNow(t)) \in Int /\ EasternNow(t) \in Int
               /\ EasternNow(t) < 24 * DateOf(EasternNow(t)) + 24
               /\ 24 * DateOf(EasternNow(t)) <= EasternNow(t)
    <3> DEFINE d == DateOf(EasternNow(t))
               h == HourOf(EasternNow(t))
               n == EasternNow(t)
    <3>1. d \in Int /\ h \in 0..23 /\ n = 24 * d + h
      BY LocalTime
    <3> HIDE DEF d, h, n
    <3>2. n < 24 * d + 24 /\ 24 * d <= n /\ n \in Int
      BY <3>1
    <3> QED
      BY <3>1, <3>2 DEF d, n
  <2> QED
    BY <1>0, <2>1, <2>2
<1> HIDE DEF D0, D1
<1> SUFFICES ASSUME NEW d \in (D0 + 1)..(D1 - 1)
             PROVE  \E h \in accepted : DateOf(EasternNow(h)) = d
  BY DEF EveryDateIsAccepted, D0, D1
<1> DEFINE x == 24 * d + 18
           u == Timestamp(x)
<1>2. d \in Int /\ d >= D0 + 1 /\ d + 1 <= D1 /\ 18 \in 0..23
  BY <1>1
<1>3. /\ u \in Int /\ EasternNow(u) = x /\ u % 24 \in CronHours
      /\ u \in {24 * d + 22, 24 * d + 23}
  BY <1>2, OneWindowADate, BoundaryKeepsOrder
<1>4. DateOf(EasternNow(u)) = d /\ InWindow(u)
  BY <1>2, <1>3, SplitOfDay DEF DateOf, HourOf, InWindow, RefreshHourEastern
<1> HIDE DEF u
<1>5. u \in FirstHour..(hour - 1)
  BY <1>0, <1>1, <1>2, <1>3
<1>6. u \in accepted
  BY <1>3, <1>4, <1>5 DEF ScheduleInv
<1> QED
  BY <1>4, <1>6

\* (BoundariesBracketNow) At every hour the boundary before now and the one
\* after it bracket it, 23 to 25 hours apart: a copy is never held against a
\* boundary that has not come, nor against one a day old.
THEOREM BoundariesAlwaysBracket == Spec => []BoundariesBracketNow
<1>1. ScheduleInv => BoundariesBracketNow
  BY EveryInstantIsBracketed DEF ScheduleInv, BoundariesBracketNow
<1> QED
  BY <1>1, ScheduleInvariant, PTL

\* (ScheduleServesEveryDate) Whenever the transitions are, the two UTC schedules
\* get one run a date past the guard, at its boundary, and miss no date that is
\* over.
THEOREM TwoSchedulesServeTheYear == Spec => []ScheduleServesEveryDate
<1>1. ASSUME ScheduleInv PROVE ScheduleServesEveryDate
  <2>1. NoDateAcceptedTwice
    <3> SUFFICES ASSUME NEW h \in accepted, NEW k \in accepted,
                        DateOf(EasternNow(h)) = DateOf(EasternNow(k))
                 PROVE  h = k
      BY DEF NoDateAcceptedTwice
    <3>1. h \in Int /\ InWindow(h) /\ k \in Int /\ InWindow(k)
      BY <1>1 DEF ScheduleInv
    <3> QED
      BY <3>1, WindowIsTheDates
  <2>2. AcceptedAtBoundary
    BY <1>1, WindowIsTheDates DEF ScheduleInv, AcceptedAtBoundary
  <2> QED
    BY <1>1, <2>1, <2>2, DatesAreAccepted DEF ScheduleServesEveryDate
<1> QED
  BY <1>1, ScheduleInvariant, PTL

=============================================================================
