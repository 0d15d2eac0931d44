----------------------------- MODULE LoginLimiter -----------------------------
(***************************************************************************)
(* The daily limit of sign-in attempts (app/rate_limit.py): one counter in *)
(* Redis per identity and UTC day, shared by all instances, and in every   *)
(* instance a counter of its own that decides whenever Redis does not      *)
(* answer.  An attempt names its Redis key when it arrives; the fallback   *)
(* reads the clock again.  A counter in Redis outlives its day by more     *)
(* than a call can take, so its expiry is left out.                        *)
(***************************************************************************)
EXTENDS Outages, FiniteSets

CONSTANTS
    Instances,    \* instances of the API
    Identities,   \* client addresses
    Attempts,     \* sign-in requests
    Limit,        \* LOGIN_ATTEMPTS_DAILY_LIMIT
    Nobody,       \* no instance, no identity
    MaxRestarts   \* bound: how often an instance is recycled

ASSUME LimiterAssumption ==
    /\ Limit \in Nat \ {0}
    /\ MaxRestarts \in Nat
    /\ Nobody \notin Instances /\ Nobody \notin Identities

VARIABLES
    redis,     \* the counters in Redis
    counts,    \* _counts of each instance's DailyRequestLimiter
    attempt,   \* each attempt: the await it is at, where, whose, the day it
               \* came, the count Redis gave it; the day it was judged by, and
               \* the life of its instance that judged it (0 for Redis)
    restarts   \* how often each instance was recycled

limiterVars == <<redis, counts, attempt, restarts>>

Buckets == Identities \X Days

NoAttempt == [at |-> "none", on |-> Nobody, id |-> Nobody, came |-> 0, count |-> 0,
              judged |-> 0, life |-> 0]

LimiterInit ==
    /\ redis = [b \in Buckets |-> 0]
    /\ counts = [i \in Instances |-> [b \in Buckets |-> 0]]
    /\ attempt = [a \in Attempts |-> NoAttempt]
    /\ restarts = [i \in Instances |-> 0]

Judge(a, allowed, day, life) ==
    attempt' = [attempt EXCEPT ![a].at = IF allowed THEN "admitted" ELSE "refused",
                               ![a].judged = day,
                               ![a].life = life]

AttemptArrives(a, i, id) ==
    /\ attempt[a] = NoAttempt
    /\ attempt' = [attempt EXCEPT ![a] =
                     [NoAttempt EXCEPT !.at = "incr", !.on = i, !.id = id, !.came = Today]]
    /\ UNCHANGED <<redis, counts, restarts>>

Key(id, day) == <<id, day>>

(* A pipeline answers when each of its commands did, and raises otherwise. *)
RedisAnswers == "redis" \in up

(* Redis executes INCR and EXPIRE. *)
Increment(a) ==
    LET key == Key(attempt[a].id, attempt[a].came)
    IN  /\ attempt[a].at = "incr"
        /\ RedisAnswers
        /\ redis' = [redis EXCEPT ![key] = @ + 1]
        /\ attempt' = [attempt EXCEPT ![a].at = "reply", ![a].count = redis[key] + 1]
        /\ UNCHANGED <<counts, restarts>>

Decide(a) ==
    /\ attempt[a].at = "reply"
    /\ RedisAnswers
    /\ Judge(a, attempt[a].count <= Limit, attempt[a].came, 0)
    /\ UNCHANGED <<redis, counts, restarts>>

(* Faulty variant: off by one. *)
HasRoomLoosely(count) == count <= Limit

HasRoom(count) == count < Limit

(* _prepare: counters of other days are dropped. *)
Pruned(i) == [b \in Buckets |-> IF b[2] = Today THEN counts[i][b] ELSE 0]

(* Whatever goes wrong with Redis, the instance's own counter decides,      *)
(* although Redis may have counted the attempt too.                         *)
FallBack(a) ==
    LET i    == attempt[a].on
        mine == <<attempt[a].id, Today>>
        kept == Pruned(i)
    IN  /\ attempt[a].at \in {"incr", "reply"}
        /\ ~ RedisAnswers
        /\ IF HasRoom(kept[mine])
           THEN counts' = [counts EXCEPT ![i] = [kept EXCEPT ![mine] = @ + 1]]
           ELSE counts' = [counts EXCEPT ![i] = kept]
        /\ Judge(a, HasRoom(kept[mine]), Today, restarts[i] + 1)
        /\ UNCHANGED <<redis, restarts>>

(* The platform recycles an instance, with the attempts on it. *)
Restart(i) ==
    /\ restarts[i] < MaxRestarts
    /\ restarts' = [restarts EXCEPT ![i] = @ + 1]
    /\ counts' = [counts EXCEPT ![i] = [b \in Buckets |-> 0]]
    /\ attempt' = [a \in Attempts |->
                     IF attempt[a].on = i /\ attempt[a].at \in {"incr", "reply"}
                     THEN [attempt[a] EXCEPT !.at = "lost"] ELSE attempt[a]]
    /\ UNCHANGED redis

LimiterNext ==
    \/ \E a \in Attempts, i \in Instances, id \in Identities : AttemptArrives(a, i, id)
    \/ \E a \in Attempts : Increment(a) \/ Decide(a) \/ FallBack(a)
    \/ \E i \in Instances : Restart(i)

-----------------------------------------------------------------------------
Judged(verdict, id, day) ==
    {a \in Attempts :
        attempt[a].at = verdict /\ attempt[a].id = id /\ attempt[a].judged = day}

JudgedBy(verdict, id, day) ==
    {<<attempt[a].on, attempt[a].life>> : a \in Judged(verdict, id, day)}

(* Redis that comes and goes costs the limit once more per life of an       *)
(* instance that fell back, and no more: however often an attempt is        *)
(* counted twice or not at all, an identity is admitted on a day at most    *)
(* the limit times one more than those lives (rate_limit.py:128, fail open).*)
AdmittedIsBounded ==
    \A id \in Identities, d \in Days :
        Cardinality(Judged("admitted", id, d))
            <= Limit * (1 + Cardinality({l \in JudgedBy("admitted", id, d) : l[2] > 0}))

(* Nobody is locked out by somebody else, by another day's attempts or by   *)
(* an outage: a refused identity made at least as many other attempts that  *)
(* count for that day as the limit allows (rate_limit.py:171, 99).          *)
RefusedOnlyAtLimit ==
    \A id \in Identities, d \in Days : \A a \in Judged("refused", id, d) :
        Limit <= Cardinality({b \in Attempts \ {a} :
                                /\ attempt[b].id = id
                                /\ attempt[b].came = d \/ attempt[b].judged = d})

(* Between them, the limit is kept on both sides of an outage and midnight. *)
LimitIsKept == AdmittedIsBounded /\ RefusedOnlyAtLimit

=============================================================================
