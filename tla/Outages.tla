------------------------------- MODULE Outages -------------------------------
(***************************************************************************)
(* What the instances of the API share at their front door: a clock, and   *)
(* two dependencies that can be out of reach for a while.  A call answers  *)
(* while its dependency is up and raises while it is down.                 *)
(***************************************************************************)
EXTENDS Naturals

CONSTANTS
    Day,        \* ticks of a UTC day
    MaxTime,    \* bound: last tick
    MaxOutages  \* bound: outages

Dependencies == {"supabase", "redis"}

ASSUME OutageAssumption ==
    /\ Day \in Nat \ {0}
    /\ MaxTime \in Nat
    /\ MaxOutages \in Nat

VARIABLES
    time,
    up,       \* dependencies in reach
    outages   \* outages so far

outageVars == <<time, up, outages>>

Days  == 0..(MaxTime \div Day)
Today == time \div Day

OutageInit ==
    /\ time = 0
    /\ up = Dependencies
    /\ outages = 0

Tick ==
    /\ time < MaxTime
    /\ time' = time + 1
    /\ UNCHANGED <<up, outages>>

GoDown(d) ==
    /\ d \in up /\ outages < MaxOutages
    /\ up' = up \ {d}
    /\ outages' = outages + 1
    /\ UNCHANGED time

ComeBack(d) ==
    /\ d \notin up
    /\ up' = up \cup {d}
    /\ UNCHANGED <<time, outages>>

OutageNext == Tick \/ \E d \in Dependencies : GoDown(d) \/ ComeBack(d)

=============================================================================
