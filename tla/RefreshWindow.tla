---------------------------- MODULE RefreshWindow ----------------------------
(***************************************************************************)
(* The daily 6 PM America/New_York refresh window (app/refresh_window.py)  *)
(* and the two UTC cron schedules that aim at it (vercel.json, guarded by  *)
(* DailyRefreshRunner.run_if_in_window in app/refresh.py).                 *)
(*                                                                         *)
(* Time is counted in whole UTC hours: every quantity the code compares is *)
(* an 18:00 local boundary, a cron hour or a DST transition, and all three *)
(* fall on whole hours.  Local time is the same count shifted by the zone  *)
(* offset, so "local.date()" is a quotient and "local.hour" a remainder.   *)
(***************************************************************************)
EXTENDS Integers, FiniteSets

CONSTANTS
    SpringForward,  \* UTC hour at which Eastern daylight time begins
    FallBack,       \* UTC hour at which Eastern standard time resumes
    FirstHour,      \* UTC hour at which the observation starts
    LastHour        \* bound: UTC hour at which the observation ends

RefreshHourEastern == 18
\* Faulty variant: a single schedule, right in summer only.
CronHoursSummer == {22}

CronHours == {22, 23}

(***************************************************************************)
(* Daylight time is entered at 2 AM standard time and left at 2 AM         *)
(* daylight time, as the zone's rules have it, and lasts at least a week.  *)
(***************************************************************************)
ASSUME CalendarAssumption ==
    /\ SpringForward \in Nat
    /\ FallBack \in Nat
    /\ (SpringForward - 5) % 24 = 2
    /\ (FallBack - 4) % 24 = 2
    /\ SpringForward + 168 <= FallBack

ASSUME HorizonAssumption == FirstHour \in Nat /\ LastHour \in Nat

\* eastern_now: the zone's offset and the local wall clock at a UTC instant.
Offset(utc) == IF SpringForward <= utc /\ utc < FallBack THEN -4 ELSE -5
EasternNow(utc) == utc + Offset(utc)
DateOf(local) == local \div 24
HourOf(local) == local % 24

\* timestamp() of a local wall time; an 18:00 is never skipped nor repeated.
Timestamp(local) ==
    IF SpringForward - 4 <= local /\ local < FallBack - 4
    THEN local + 4
    ELSE local + 5

\* local.replace(hour=18): today's window, before or after the instant.
TodaysWindow(utc) == DateOf(EasternNow(utc)) * 24 + RefreshHourEastern

\* Faulty variant: today's window, even before it has opened.
LastRefreshBoundaryToday(utc) == Timestamp(TodaysWindow(utc))

LastRefreshBoundary(utc) ==
    Timestamp(IF EasternNow(utc) < TodaysWindow(utc)
              THEN TodaysWindow(utc) - 24
              ELSE TodaysWindow(utc))

NextRefreshBoundary(utc) ==
    Timestamp(IF EasternNow(utc) >= TodaysWindow(utc)
              THEN TodaysWindow(utc) + 24
              ELSE TodaysWindow(utc))

-----------------------------------------------------------------------------

VARIABLES
    hour,       \* the current UTC hour
    accepted,   \* UTC hours at which a cron invocation passed the guard
    refused     \* UTC hours at which one was turned away by it

vars == <<hour, accepted, refused>>

\* run_if_in_window proceeds only in the local 18 o'clock hour.
InWindow(utc) == HourOf(EasternNow(utc)) = RefreshHourEastern

Init ==
    /\ hour = FirstHour
    /\ accepted = {}
    /\ refused = {}

\* The platform delivers a scheduled invocation at some instant of its hour,
\* possibly more than once; a second one in the same hour decides alike.
Cron ==
    /\ hour % 24 \in CronHours
    /\ hour \notin accepted \cup refused
    /\ IF InWindow(hour)
       THEN accepted' = accepted \cup {hour} /\ UNCHANGED refused
       ELSE refused' = refused \cup {hour} /\ UNCHANGED accepted
    /\ UNCHANGED hour

\* The clock moves on once the hour's delivery has happened.
Tick ==
    /\ hour < LastHour
    /\ hour % 24 \in CronHours => hour \in accepted \cup refused
    /\ hour' = hour + 1
    /\ UNCHANGED <<accepted, refused>>

Next == Cron \/ Tick

Spec == Init /\ [][Next]_vars

-----------------------------------------------------------------------------

\* The boundary before an instant and the one after it bracket it and are one
\* local day apart: 24 hours, or 23 and 25 across a DST transition.
BracketsNow(t) ==
    /\ LastRefreshBoundary(t) <= t
    /\ t < NextRefreshBoundary(t)
    /\ NextRefreshBoundary(t) - LastRefreshBoundary(t) \in 23..25

\* refresh_window.py: a cached copy is compared with the boundary before now,
\* and the API reports the one after it; the two never overlap nor leave a gap.
BoundariesBracketNow == BracketsNow(hour)

\* refresh.py: "both UTC schedules can never land in the window on the same
\* day" - no Eastern date is accepted twice, whatever the season.
NoDateAcceptedTwice ==
    \A h, k \in accepted :
        DateOf(EasternNow(h)) = DateOf(EasternNow(k)) => h = k

\* The dual schedule misses no day: once an Eastern date observed from its
\* start is over, one of the two schedules was accepted on it.
EveryDateIsAccepted ==
    \A d \in (DateOf(EasternNow(FirstHour)) + 1)..(DateOf(EasternNow(hour)) - 1) :
        \E h \in accepted : DateOf(EasternNow(h)) = d

\* The accepted invocation runs in the hour that opens at the boundary, so the
\* run's fetches are post-boundary data: _is_current compares with the same
\* instant the guard lets the run start at.
AcceptedAtBoundary == \A h \in accepted : LastRefreshBoundary(h) = h

\* Whatever the season, the two schedules serve every Eastern date, once, at its
\* boundary.
ScheduleServesEveryDate ==
    /\ NoDateAcceptedTwice
    /\ EveryDateIsAccepted
    /\ AcceptedAtBoundary

=============================================================================
