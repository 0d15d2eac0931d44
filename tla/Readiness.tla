------------------------------ MODULE Readiness ------------------------------
(***************************************************************************)
(* The readiness checker of one instance (app/readiness.py): pollers share *)
(* a report for a few seconds, and those who find none queue at a lock,    *)
(* behind which the winner asks the database and then Redis.               *)
(***************************************************************************)
EXTENDS Outages, Sequences

CONSTANTS
    Pollers,      \* requests of GET /ready
    CacheSeconds  \* readiness_cache_seconds

ASSUME ReadinessAssumption == CacheSeconds \in Nat

VARIABLES
    report,   \* _cached and _cached_at; none yet is the empty sequence
    poller,   \* each request: the await it is at, whether the database answered it
    probes    \* history: when the last two probes began, newest first

readinessVars == <<report, poller, probes>>

Idle == [at |-> "idle", ready |-> TRUE]

ReadinessInit ==
    /\ report = <<>>
    /\ poller = [p \in Pollers |-> Idle]
    /\ probes = <<>>

Report(ready) == <<[ready |-> ready, at |-> time]>>

(* _fresh_cached *)
Fresh == report # <<>> /\ time < report[1].at + CacheSeconds

Told(p) == poller' = [poller EXCEPT ![p] = Idle]

Locked == \E p \in Pollers : poller[p].at \in {"supabase", "redis"}

Check(p) ==
    /\ poller[p].at = "idle"
    /\ IF Fresh THEN Told(p)
                ELSE poller' = [poller EXCEPT ![p].at = "queued"]
    /\ UNCHANGED <<report, probes>>

Probe(p) ==
    /\ poller' = [poller EXCEPT ![p].at = "supabase"]
    /\ probes' = <<time>> \o SubSeq(probes, 1, IF probes = <<>> THEN 0 ELSE 1)
    /\ UNCHANGED report

(* Faulty variant: who queued probes, whoever probed meanwhile. *)
EnterUnchecked(p) ==
    /\ poller[p].at = "queued"
    /\ ~ Locked
    /\ Probe(p)

(* The lock is the poller's: perhaps somebody has refreshed the report. *)
Enter(p) ==
    /\ poller[p].at = "queued"
    /\ ~ Locked
    /\ \/ Fresh /\ Told(p) /\ UNCHANGED <<report, probes>>
       \/ ~ Fresh /\ Probe(p)

(* ping *)
SupabaseAnswers == "supabase" \in up

(* _check_supabase: the database is required. *)
CheckSupabase(p) ==
    /\ poller[p].at = "supabase"
    /\ poller' = [poller EXCEPT ![p] = [at |-> "redis", ready |-> SupabaseAnswers]]
    /\ UNCHANGED <<report, probes>>

(* _check_redis: whether it answers or not, the instance is as ready as the *)
(* database is.  The report is stored as the lock is released.              *)
CheckRedis(p) ==
    /\ poller[p].at = "redis"
    /\ report' = Report(poller[p].ready)
    /\ Told(p)
    /\ UNCHANGED probes

ReadinessNext ==
    \E p \in Pollers : Check(p) \/ Enter(p) \/ CheckSupabase(p) \/ CheckRedis(p)

-----------------------------------------------------------------------------
(* A probe storm does not amplify (readiness.py:19): however many pollers   *)
(* find the report too old at once, probes of an instance begin at least a  *)
(* cache lifetime apart.                                                    *)
ProbesApart ==
    Len(probes) = 2 => probes[1] >= probes[2] + CacheSeconds

=============================================================================
