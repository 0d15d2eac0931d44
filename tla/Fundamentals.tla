---------------------------- MODULE Fundamentals ----------------------------
(***************************************************************************)
(* The cache-aside statement service (app/fundamentals.py) on several      *)
(* serverless instances: in-process L1, shared Redis L2, the durable       *)
(* store, and the provider, read in that order.                            *)
(*                                                                         *)
(* A load is one run of _load_base_financials; the single-flight table of  *)
(* an instance admits one per ticker, so loads are <<instance, ticker>>    *)
(* pairs.  Code between two awaits is one action.  The durable store is    *)
(* configured (self._snapshots is not None), so L1 profile refreshing and  *)
(* the profile and raw companions, which that mode never reads to decide   *)
(* anything, are left out.                                                 *)
(*                                                                         *)
(* What may go wrong is chosen per instance of the model by Hazards.  A    *)
(* Redis call takes effect as its reply is processed; one that fails reads *)
(* nothing and writes nothing (every caller suppresses the error).  What a *)
(* load decides it first writes to its instance's memory, then awaits the  *)
(* SET that tells the others.  A durable read and the processing of its    *)
(* reply are two steps, and a durable call that fails raises.              *)
(***************************************************************************)
EXTENDS SnapshotStore

CONSTANTS
    Instances,  \* serverless instances of the API
    Ttl,        \* ticks a copy counts as fresh (statement TTL)
    NegTtl,     \* ticks a definitive rejection is remembered
    MaxStale,   \* ticks a copy may be used as a stale fallback
    Free,       \* lock:fund is not set
    Orphan,     \* lock:fund is set by a load that is gone
    Hazards     \* which faults this instance of the model includes

Loads == Instances \X Tickers

AllHazards == {"redis", "store", "provider", "lease", "poll", "evict", "crash", "corrupt"}

ASSUME ServiceAssumption ==
    /\ Ttl \in Nat \ {0}
    /\ NegTtl \in Nat \ {0}
    /\ MaxStale \in Nat
    /\ StartTime > 0
    /\ Free \notin Loads /\ Orphan \notin Loads /\ Free # Orphan
    /\ Hazards \subseteq AllHazards

VARIABLES
    l1,       \* _cache per load: the instance's copy of the ticker
    neg,      \* _negative: when the remembered rejection happened, 0 if none
    rfund,    \* Redis fund:{ticker}
    rneg,     \* Redis neg:{ticker}, as neg
    lock,     \* Redis lock:fund:{ticker}: the load whose token it holds
    pc,       \* where each load is
    stale,    \* the load's stale_base, with stale_age as it was computed
    mine,     \* the load holds a lock token (its lease may have run out)
    row,      \* the head the load read from the store
    got,      \* the filing the load fetched
    answer,   \* what the load resolves to
    born,     \* history: a sound head existed when the load began
    refused,  \* history: when the provider last rejected the ticker
    run       \* the scheduled refresh of each ticker: where it is, and where
              \* it runs

cacheVars == <<l1, neg, rfund, rneg>>
loadVars == <<pc, stale, mine, row, got, answer, born>>
vars == <<now, filing, snapshots, heads, l1, neg, rfund, rneg, lock, pc, stale,
          mine, row, got, answer, born, refused, run>>

\* A cached copy: its version, the instant its age is counted from, the
\* status it reports, and whether it carries a data-quality warning.
Statuses == DurableStatuses \cup {"daily_refresh_due"}
Copy == [ver : 0..MaxFiling, at : Nat, status : Statuses, warned : BOOLEAN]
NoCopy == [ver |-> 0, at |-> 0, status |-> "bootstrap_snapshot", warned |-> FALSE]
Exists(copy) == copy.ver # 0

Answers == [kind : {"none", "ok", "rejected", "storeError", "providerError", "unmapped"},
            copy : Copy]
NoAnswer == [kind |-> "none", copy |-> NoCopy]
Ok(copy) == [kind |-> "ok", copy |-> copy]
Raise(kind) == [kind |-> kind, copy |-> NoCopy]

\* A rejection of the provider: its copy carries the instant only.
Rejection == [kind |-> "rejected", copy |-> [NoCopy EXCEPT !.at = now]]

Warned(copy) == [copy EXCEPT !.warned = TRUE]

\* A copy together with the age it had when it was read, which the load goes
\* on using while it waits.
Held == [copy : Copy, age : Int]
NoHeld == [copy |-> NoCopy, age |-> 0]
Hold(copy) == IF Exists(copy) THEN [copy |-> copy, age |-> now - copy.at] ELSE NoHeld

\* Faulty variant: freshness by TTL alone, as without the durable store.
IsFreshAgeByTtl(age) == age < Ttl

\* _is_current: fresh by TTL and from after the last refresh boundary.
IsFreshAge(age) == age < Ttl /\ now - age >= LastRefreshBoundary(now)
IsCurrentHeld(held) == Exists(held.copy) /\ IsFreshAge(held.age)
IsCurrent(copy) == IsCurrentHeld(Hold(copy))

\* After the caches, stale_base serves only as a fallback of bounded age.
Fallback(held) == IF held.age <= MaxStale THEN held ELSE NoHeld

Published(v, status) == [ver |-> v, at |-> now, status |-> status, warned |-> FALSE]

NoRun == [pc |-> "idle", on |-> Free, ver |-> 0, at |-> 0, date |-> 0]

Init ==
    /\ StoreInit
    /\ l1 = [x \in Loads |-> NoCopy]
    /\ neg = [x \in Loads |-> 0]
    /\ rfund = [t \in Tickers |-> NoCopy]
    /\ rneg = [t \in Tickers |-> 0]
    /\ lock = [t \in Tickers |-> Free]
    /\ pc = [x \in Loads |-> "idle"]
    /\ stale = [x \in Loads |-> NoHeld]
    /\ mine = [x \in Loads |-> FALSE]
    /\ row = [x \in Loads |-> NoHead]
    /\ got = [x \in Loads |-> 0]
    /\ answer = [x \in Loads |-> NoAnswer]
    /\ born = [x \in Loads |-> FALSE]
    /\ refused = [t \in Tickers |-> 0]
    /\ run = [t \in Tickers |-> NoRun]

-----------------------------------------------------------------------------
(* Steps of a load x = <<instance, ticker>>.                                *)

\* A value a Redis GET of the entry e can return: e, or nothing on an error.
Reads(e, nothing) == IF "redis" \in Hazards THEN {e, nothing} ELSE {e}

\* A Redis SET: it takes effect, or its error is suppressed.
Sets(var, newVar, t, value) ==
    \/ newVar = [var EXCEPT ![t] = value]
    \/ "redis" \in Hazards /\ newVar = var

\* The load has its answer, and no more use for what it read on the way.
Leave(x, a, place) ==
    /\ answer' = [answer EXCEPT ![x] = a]
    /\ pc' = [pc EXCEPT ![x] = place]
    /\ stale' = [stale EXCEPT ![x] = NoHeld]
    /\ row' = [row EXCEPT ![x] = NoHead]
    /\ got' = [got EXCEPT ![x] = 0]

\* Faulty variant: returns without releasing a held token.
ResolveKeepingLock(x, a) == Leave(x, a, "done")

\* A held token is released before the load returns.
LetsGo(x) == IF mine[x] THEN "release" ELSE "done"

Resolve(x, a) == Leave(x, a, LetsGo(x))

Move(x, place) == pc' = [pc EXCEPT ![x] = place] /\ UNCHANGED answer

Goto(x, place) == Move(x, place) /\ UNCHANGED <<stale, row, got>>

\* A request finds no load in flight: an L1 hit, or on to Redis with what L1
\* holds as stale_base.
Start(x) ==
    /\ pc[x] = "idle"
    /\ IF IsCurrent(l1[x])
       THEN Resolve(x, Ok(l1[x]))
       ELSE /\ stale' = [stale EXCEPT ![x] = Hold(l1[x])]
            /\ Move(x, "redis")
            /\ UNCHANGED <<row, got>>
    /\ born' = [born EXCEPT ![x] = HasHead(x[2]) /\ heads[x[2]].sound]
    /\ UNCHANGED <<storeVars, cacheVars, lock, mine, refused, run>>

RemembersRejection(x) == neg[x] # 0 /\ now - neg[x] < NegTtl

\* The remote copy replaces stale_base, and L1, if its age is the smaller; the
\* load then ends with a current copy or a rejection the instance remembers.
ReadRedis(x) ==
    /\ pc[x] = "redis"
    /\ \E remote \in Reads(rfund[x[2]], NoCopy) :
          LET younger == /\ Exists(remote)
                         /\ Exists(stale[x].copy) => Hold(remote).age < stale[x].age
              held == IF younger THEN Hold(remote) ELSE stale[x]
          IN  /\ l1' = IF younger THEN [l1 EXCEPT ![x] = remote] ELSE l1
              /\ \/ IsCurrentHeld(held) /\ Resolve(x, Ok(held.copy)) /\ UNCHANGED neg
                 \/ /\ ~IsCurrentHeld(held)
                    /\ RemembersRejection(x)
                    /\ Resolve(x, Raise("rejected"))
                    /\ UNCHANGED neg
                 \/ /\ ~IsCurrentHeld(held)
                    /\ ~RemembersRejection(x)
                    /\ neg' = [neg EXCEPT ![x] = 0]
                    /\ stale' = [stale EXCEPT ![x] = Fallback(held)]
                    /\ Move(x, "negative")
                    /\ UNCHANGED <<row, got>>
    /\ UNCHANGED <<storeVars, rfund, rneg, lock, mine, born, refused, run>>

\* Faulty variant: a remote rejection is remembered as if it were new.
ReadNegativeRestamped(x) ==
    /\ pc[x] = "negative"
    /\ \E at \in Reads(rneg[x[2]], 0) :
          \/ /\ at # 0 /\ now - at < NegTtl
             /\ neg' = [neg EXCEPT ![x] = now]
             /\ Resolve(x, Raise("rejected"))
          \/ /\ ~(at # 0 /\ now - at < NegTtl)
             /\ Goto(x, "lock")
             /\ UNCHANGED neg
    /\ UNCHANGED <<storeVars, l1, rfund, rneg, lock, mine, born, refused, run>>

\* _remote_error: a remote rejection still in force is remembered with its
\* true age and raised.
ReadNegative(x) ==
    /\ pc[x] = "negative"
    /\ \E at \in Reads(rneg[x[2]], 0) :
          \/ /\ at # 0 /\ now - at < NegTtl
             /\ neg' = [neg EXCEPT ![x] = at]
             /\ Resolve(x, Raise("rejected"))
          \/ /\ ~(at # 0 /\ now - at < NegTtl)
             /\ Goto(x, "lock")
             /\ UNCHANGED neg
    /\ UNCHANGED <<storeVars, l1, rfund, rneg, lock, mine, born, refused, run>>

\* Faulty variant: the loser of the lock does not wait for the winner.
TryLockWithoutWaiting(x) ==
    LET t == x[2] IN
    /\ pc[x] = "lock"
    /\ Goto(x, "store")
    /\ IF lock[t] = Free
       THEN lock' = [lock EXCEPT ![t] = x] /\ mine' = [mine EXCEPT ![x] = TRUE]
       ELSE UNCHANGED <<lock, mine>>
    /\ UNCHANGED <<storeVars, cacheVars, born, refused, run>>

\* _try_distributed_lock: acquired, lost to a holder, or Redis unreachable -
\* after which the load goes on without a lock.  A SET NX whose reply is lost
\* leaves a lock nobody will release.
TryLock(x) ==
    LET t == x[2] IN
    /\ pc[x] = "lock"
    /\ \/ /\ lock[t] = Free
          /\ lock' = [lock EXCEPT ![t] = x]
          /\ mine' = [mine EXCEPT ![x] = TRUE]
          /\ Goto(x, "store")
       \/ lock[t] # Free /\ Goto(x, "poll") /\ UNCHANGED <<lock, mine>>
       \/ /\ "redis" \in Hazards
          /\ lock' = [lock EXCEPT ![t] = IF @ = Free THEN Orphan ELSE @]
          /\ Goto(x, "store")
          /\ UNCHANGED mine
       \/ "redis" \in Hazards /\ Goto(x, "store") /\ UNCHANGED <<lock, mine>>
    /\ UNCHANGED <<storeVars, cacheVars, born, refused, run>>

\* _wait_for_remote_refresh: one poll that sees a current copy ends the wait.
Poll(x) ==
    /\ pc[x] = "poll"
    /\ IsCurrent(rfund[x[2]])
    /\ l1' = [l1 EXCEPT ![x] = rfund[x[2]]]
    /\ Resolve(x, Ok(rfund[x[2]]))
    /\ UNCHANGED <<storeVars, neg, rfund, rneg, lock, mine, born, refused, run>>

\* Faulty variant: without a deadline, only the lock's end stops the wait.
PollUntilUnlocked(x) ==
    /\ "poll" \in Hazards
    /\ pc[x] = "poll"
    /\ lock[x[2]] = Free
    /\ Goto(x, "store")
    /\ UNCHANGED <<storeVars, cacheVars, lock, mine, born, refused, run>>

\* The deadline passes without one; the load goes on without a lock.
PollTimeout(x) ==
    /\ "poll" \in Hazards
    /\ pc[x] = "poll"
    /\ Goto(x, "store")
    /\ UNCHANGED <<storeVars, cacheVars, lock, mine, born, refused, run>>

\* The fallback shared by a store error and a provider error.
FallBackOr(x, kind) ==
    IF Exists(stale[x].copy)
    THEN Resolve(x, Ok(Warned(stale[x].copy)))
    ELSE Resolve(x, Raise(kind))

\* Faulty variant: a store that cannot answer counts as a miss.
ReadStoreErrorIsMiss(x) ==
    LET t == x[2] IN
    /\ pc[x] = "store"
    /\ \/ /\ HasHead(t) /\ heads[t].sound
          /\ row' = [row EXCEPT ![x] = heads[t]]
          /\ Move(x, "hydrate")
          /\ UNCHANGED <<stale, got>>
       \/ ~(HasHead(t) /\ heads[t].sound) /\ Goto(x, "fetch")
       \/ "store" \in Hazards /\ Goto(x, "fetch")
    /\ UNCHANGED <<storeVars, cacheVars, lock, mine, born, refused, run>>

\* _read_snapshot_store: a sound head is served, a missing or unsound one is a
\* confirmed miss, and an error is neither.
ReadStore(x) ==
    LET t == x[2] IN
    /\ pc[x] = "store"
    /\ \/ /\ HasHead(t) /\ heads[t].sound
          /\ row' = [row EXCEPT ![x] = heads[t]]
          /\ Move(x, "hydrate")
          /\ UNCHANGED <<stale, got>>
       \/ /\ ~(HasHead(t) /\ heads[t].sound)
          /\ Goto(x, "fetch")
       \/ "store" \in Hazards /\ FallBackOr(x, "storeError")
    /\ UNCHANGED <<storeVars, cacheVars, lock, mine, born, refused, run>>

\* The status a stored head is reported with: past a boundary it is due,
\* unless the ledger already says what became of its refresh.
ServedStatus(head, due) ==
    IF due /\ head.status \notin {"daily_refresh_running", "daily_refresh_failed",
                                  "daily_refresh_partial_failed"}
    THEN "daily_refresh_due"
    ELSE head.status

\* The row is served as stored; the instance's cache takes it at its true age.
Hydrate(x) ==
    LET head == row[x]
        due  == head.verified < LastRefreshBoundary(now)
        copy == [ver |-> head.ver, at |-> head.verified,
                 status |-> ServedStatus(head, due), warned |-> due]
    IN
    /\ pc[x] = "hydrate"
    /\ l1' = [l1 EXCEPT ![x] = copy]
    /\ Leave(x, Ok(copy), "share")
    /\ UNCHANGED <<storeVars, neg, rfund, rneg, lock, mine, born, refused, run>>

\* fetch_fundamentals and normalisation: the filing; a definitive rejection,
\* which is remembered; a provider error; or an exception that neither handler
\* names - a redirect, a body that cannot be decoded - and that ends the load
\* on the spot, its token unreleased.
Fetch(x) ==
    LET t == x[2] IN
    /\ pc[x] = "fetch"
    /\ \/ /\ filing[t] # 0
          /\ got' = [got EXCEPT ![x] = filing[t]]
          /\ Move(x, "persist")
          /\ UNCHANGED <<neg, refused, stale, row>>
       \/ /\ filing[t] = 0
          /\ neg' = [neg EXCEPT ![x] = now]
          /\ refused' = [refused EXCEPT ![t] = now]
          /\ Leave(x, Rejection, "share")
       \/ /\ "provider" \in Hazards
          /\ FallBackOr(x, "providerError")
          /\ UNCHANGED <<neg, refused>>
       \/ /\ "provider" \in Hazards
          /\ Leave(x, Raise("unmapped"), "done")
          /\ UNCHANGED <<neg, refused>>
    /\ UNCHANGED <<storeVars, l1, rfund, rneg, lock, mine, born, run>>

\* Faulty variant: the durable write is best effort.
PersistBestEffort(x) ==
    LET t == x[2] IN
    /\ pc[x] = "persist"
    /\ Goto(x, "publish")
    /\ \/ StoreTickerSnapshot(t, got[x], "bootstrap_snapshot")
       \/ "store" \in Hazards /\ UNCHANGED <<snapshots, heads>>
    /\ UNCHANGED <<now, filing, cacheVars, lock, mine, born, refused, run>>

\* _persist_snapshot: the durable write is awaited before any publication; it
\* commits, fails, or commits and loses its reply.
Persist(x) ==
    LET t == x[2] IN
    /\ pc[x] = "persist"
    /\ \/ /\ StoreTickerSnapshot(t, got[x], "bootstrap_snapshot")
          /\ \/ Goto(x, "publish")
             \/ "store" \in Hazards /\ Resolve(x, Raise("storeError"))
       \/ /\ "store" \in Hazards
          /\ Resolve(x, Raise("storeError"))
          /\ UNCHANGED <<snapshots, heads>>
    /\ UNCHANGED <<now, filing, cacheVars, lock, mine, born, refused, run>>

\* The committed dataset enters the instance's cache, dated by its clock.
Publish(x) ==
    LET copy == Published(got[x], "bootstrap_snapshot") IN
    /\ pc[x] = "publish"
    /\ l1' = [l1 EXCEPT ![x] = copy]
    /\ Leave(x, Ok(copy), "announce")
    /\ UNCHANGED <<storeVars, neg, rfund, rneg, lock, mine, born, refused, run>>

\* The fund: SET, the marker lock losers poll, comes after the profile's and
\* reads the clock again.
Announce(x) ==
    /\ pc[x] = "announce"
    /\ \E at \in answer[x].copy.at .. now :
          Sets(rfund, rfund', x[2], [answer[x].copy EXCEPT !.at = at])
    /\ Goto(x, LetsGo(x))
    /\ UNCHANGED <<storeVars, l1, neg, rneg, lock, mine, born, refused, run>>

\* A row that was served, or a rejection, is put into Redis at its true age.
Share(x) ==
    /\ pc[x] = "share"
    /\ \/ /\ answer[x].kind = "ok"
          /\ Sets(rfund, rfund', x[2], answer[x].copy)
          /\ UNCHANGED rneg
       \/ /\ answer[x].kind = "rejected"
          /\ Sets(rneg, rneg', x[2], answer[x].copy.at)
          /\ UNCHANGED rfund
    /\ Goto(x, LetsGo(x))
    /\ UNCHANGED <<storeVars, l1, neg, lock, mine, born, refused, run>>

\* Faulty variant: a plain DELETE of the lock.
ReleaseAnyLock(x) ==
    /\ pc[x] = "release"
    /\ Goto(x, "done")
    /\ lock' = [lock EXCEPT ![x[2]] = Free]
    /\ UNCHANGED <<storeVars, cacheVars, mine, born, refused, run>>

\* _release_distributed_lock: compare-and-delete; a failure leaves the lock
\* to its time to live.
Release(x) ==
    LET t == x[2] IN
    /\ pc[x] = "release"
    /\ Goto(x, "done")
    /\ \/ lock' = [lock EXCEPT ![t] = IF @ = x THEN Free ELSE @]
       \/ "redis" \in Hazards /\ lock' = [lock EXCEPT ![t] = IF @ = x THEN Orphan ELSE @]
    /\ UNCHANGED <<storeVars, cacheVars, mine, born, refused, run>>

\* The load leaves the single-flight table and its waiters resume.  A token it
\* did not release is nobody's from then on.
ForgetLoads(S) ==
    /\ pc' = [x \in Loads |-> IF x \in S THEN "idle" ELSE pc[x]]
    /\ stale' = [x \in Loads |-> IF x \in S THEN NoHeld ELSE stale[x]]
    /\ mine' = [x \in Loads |-> x \notin S /\ mine[x]]
    /\ row' = [x \in Loads |-> IF x \in S THEN NoHead ELSE row[x]]
    /\ got' = [x \in Loads |-> IF x \in S THEN 0 ELSE got[x]]
    /\ answer' = [x \in Loads |-> IF x \in S THEN NoAnswer ELSE answer[x]]
    /\ born' = [x \in Loads |-> x \notin S /\ born[x]]

Return(x) ==
    /\ pc[x] = "done"
    /\ ForgetLoads({x})
    /\ lock' = [lock EXCEPT ![x[2]] = IF @ = x THEN Orphan ELSE @]
    /\ UNCHANGED <<storeVars, cacheVars, refused, run>>

LoadStep(x) ==
    \/ ReadRedis(x) \/ ReadNegative(x) \/ TryLock(x) \/ Poll(x) \/ PollTimeout(x) \/ ReadStore(x)
    \/ Hydrate(x) \/ Fetch(x) \/ Persist(x) \/ Publish(x) \/ Announce(x) \/ Share(x)
    \/ Release(x) \/ Return(x)

-----------------------------------------------------------------------------
(* The scheduled cycle of one ticker, run by the instance the cron request  *)
(* reached: the ledger's marks on the head (RefreshLedger) around           *)
(* refresh_from_provider.                                                   *)

Scheduled == UNCHANGED <<now, filing, rneg, neg, lock, loadVars, refused>>

\* begin_financial_refresh_run, in the hour that opens at the boundary.
RefreshBegin(i, t, d) ==
    /\ run[t].pc = "idle"
    /\ now = d * Day
    /\ d > run[t].date
    /\ HasHead(t)
    /\ MarkHeads({t}, "daily_refresh_running")
    /\ run' = [run EXCEPT ![t] = [NoRun EXCEPT !.pc = "fetch", !.on = <<i, t>>, !.date = d]]
    /\ UNCHANGED <<snapshots, l1, rfund>>
    /\ Scheduled

RefreshFetch(t) ==
    /\ run[t].pc = "fetch"
    /\ \/ /\ filing[t] # 0
          /\ run' = [run EXCEPT ![t].pc = "persist", ![t].ver = filing[t]]
       \/ /\ "provider" \in Hazards
          /\ run' = [run EXCEPT ![t].pc = "failed"]
    /\ UNCHANGED <<snapshots, heads, l1, rfund>>
    /\ Scheduled

RefreshPersist(t) ==
    /\ run[t].pc = "persist"
    /\ \/ /\ StoreTickerSnapshot(t, run[t].ver, "current_as_of_daily_refresh")
          /\ \/ run' = [run EXCEPT ![t].pc = "publish"]
             \/ "store" \in Hazards /\ run' = [run EXCEPT ![t].pc = "failed"]
       \/ /\ "store" \in Hazards
          /\ run' = [run EXCEPT ![t].pc = "failed"]
          /\ UNCHANGED <<snapshots, heads>>
    /\ UNCHANGED <<l1, rfund>>
    /\ Scheduled

RefreshPublish(t) ==
    /\ run[t].pc = "publish"
    /\ l1' = [l1 EXCEPT ![run[t].on] = Published(run[t].ver, "current_as_of_daily_refresh")]
    /\ run' = [run EXCEPT ![t].pc = "announce", ![t].at = now]
    /\ UNCHANGED <<snapshots, heads, rfund>>
    /\ Scheduled

\* The fund: SET, as Announce.
RefreshAnnounce(t) ==
    LET copy == Published(run[t].ver, "current_as_of_daily_refresh") IN
    /\ run[t].pc = "announce"
    /\ \E at \in run[t].at .. now : Sets(rfund, rfund', t, [copy EXCEPT !.at = at])
    /\ run' = [run EXCEPT ![t].pc = "succeeded"]
    /\ UNCHANGED <<snapshots, heads, l1>>
    /\ Scheduled

\* The claim is completed and the run finished.  With the store failing, the
\* completion may be lost and the finish call with it.
RefreshEnd(t) ==
    /\ run[t].pc \in {"succeeded", "failed"}
    /\ run' = [run EXCEPT ![t] = [NoRun EXCEPT !.date = run[t].date]]
    /\ \/ run[t].pc = "failed" /\ MarkHeads({t}, "daily_refresh_failed")
       \/ run[t].pc = "succeeded" /\ UNCHANGED heads
       \/ "store" \in Hazards /\ MarkHeads({t}, "daily_refresh_partial_failed")
       \/ "store" \in Hazards /\ UNCHANGED heads
    /\ UNCHANGED <<snapshots, l1, rfund>>
    /\ Scheduled

RefreshStep(t) ==
    \/ RefreshFetch(t) \/ RefreshPersist(t) \/ RefreshPublish(t)
    \/ RefreshAnnounce(t) \/ RefreshEnd(t)

-----------------------------------------------------------------------------
(* The environment.                                                         *)

ClockAndProvider ==
    /\ Tick \/ (\E t \in Tickers : NewFiling(t))
    /\ UNCHANGED <<cacheVars, lock, loadVars, refused, run>>

\* The 45-second lease of a lock runs out, whatever its holder is doing.
LeaseExpires(t) ==
    /\ "lease" \in Hazards
    /\ lock[t] # Free
    /\ lock' = [lock EXCEPT ![t] = Free]
    /\ UNCHANGED <<storeVars, cacheVars, loadVars, refused, run>>

\* _bounded_set drops an instance's oldest entry; a Redis key reaches its
\* time to live or is evicted.
Evict(x) ==
    /\ "evict" \in Hazards
    /\ \/ l1' = [l1 EXCEPT ![x] = NoCopy] /\ UNCHANGED <<neg, rfund, rneg>>
       \/ neg' = [neg EXCEPT ![x] = 0] /\ UNCHANGED <<l1, rfund, rneg>>
       \/ rfund' = [rfund EXCEPT ![x[2]] = NoCopy] /\ UNCHANGED <<l1, neg, rneg>>
       \/ rneg' = [rneg EXCEPT ![x[2]] = 0] /\ UNCHANGED <<l1, neg, rfund>>
    /\ UNCHANGED <<storeVars, lock, loadVars, refused, run>>

\* An instance is recycled: its caches, loads and scheduled work are gone, its
\* lock tokens are nobody's.  What it wrote to Redis and the store stays.
Crash(i) ==
    LET dead == {x \in Loads : x[1] = i} IN
    /\ "crash" \in Hazards
    /\ l1' = [x \in Loads |-> IF x \in dead THEN NoCopy ELSE l1[x]]
    /\ neg' = [x \in Loads |-> IF x \in dead THEN 0 ELSE neg[x]]
    /\ lock' = [t \in Tickers |-> IF lock[t] \in dead THEN Orphan ELSE lock[t]]
    /\ run' = [t \in Tickers |-> IF run[t].on \in dead
                                  THEN [NoRun EXCEPT !.date = run[t].date]
                                  ELSE run[t]]
    /\ ForgetLoads(dead)
    /\ UNCHANGED <<storeVars, rfund, rneg, refused>>

\* A head becomes undecodable (an older layout) or is dated in the future.
Corrupt(t) ==
    /\ "corrupt" \in Hazards
    /\ HasHead(t)
    /\ heads' = [heads EXCEPT ![t].sound = FALSE]
    /\ UNCHANGED <<now, filing, snapshots, cacheVars, lock, loadVars, refused, run>>

Next ==
    \/ ClockAndProvider
    \/ \E x \in Loads : Start(x) \/ LoadStep(x) \/ Evict(x)
    \/ \E i \in Instances, t \in Tickers, d \in 0..MaxTime : RefreshBegin(i, t, d)
    \/ \E t \in Tickers : RefreshStep(t) \/ LeaseExpires(t) \/ Corrupt(t)
    \/ \E i \in Instances : Crash(i)

Spec == Init /\ [][Next]_vars

\* Every await of a load ends, in a reply or in its timeout; the event loop
\* then resumes the load.  Requests, refreshes, faults and time are not fair.
FairSpec == Spec /\ \A x \in Loads : WF_vars(LoadStep(x))

-----------------------------------------------------------------------------

Places == {"idle", "redis", "negative", "lock", "poll", "store", "hydrate", "fetch",
           "persist", "publish", "announce", "share", "release", "done"}

RunRow == [pc : {"idle", "fetch", "persist", "publish", "announce", "succeeded", "failed"},
           on : Loads \cup {Free}, ver : 0..MaxFiling, at : Nat, date : Nat]

TypeOK ==
    /\ StoreTypeOK
    /\ l1 \in [Loads -> Copy]
    /\ neg \in [Loads -> Nat]
    /\ rfund \in [Tickers -> Copy]
    /\ rneg \in [Tickers -> Nat]
    /\ lock \in [Tickers -> Loads \cup {Free, Orphan}]
    /\ pc \in [Loads -> Places]
    /\ stale \in [Loads -> Held]
    /\ mine \in [Loads -> BOOLEAN]
    /\ row \in [Loads -> HeadRow]
    /\ got \in [Loads -> 0..MaxFiling]
    /\ answer \in [Loads -> Answers]
    /\ born \in [Loads -> BOOLEAN]
    /\ refused \in [Tickers -> Nat]
    /\ run \in [Tickers -> RunRow]

\* ADR-006: caches never advertise, and customers are never answered with, a
\* dataset the database did not commit - through L1, Redis, the stale
\* fallback, a poll or a crash between any two writes.
Committed(t, copy) == Exists(copy) => <<t, copy.ver>> \in snapshots

CachesAreCommitted ==
    /\ \A x \in Loads :
          /\ Committed(x[2], l1[x])
          /\ Committed(x[2], answer[x].copy)
    /\ \A t \in Tickers : Committed(t, rfund[t])

\* refresh_window.py: an answer with no warning is from after the last 6 PM
\* boundary as the service dates it, on whichever of the six paths it was
\* produced.  The one slack is the code's own: a stale_age computed before the
\* wait for Redis is compared with the clock after it.
Drift(x) ==
    IF pc[x] = "redis" /\ Exists(stale[x].copy)
    THEN now - (stale[x].copy.at + stale[x].age)
    ELSE 0

UnwarnedAnswersAreCurrent ==
    [][\A x \in Loads :
          /\ answer'[x].kind = "ok"
          /\ answer'[x] # answer[x]
          /\ ~answer'[x].copy.warned
          => answer'[x].copy.at + Drift(x) >= LastRefreshBoundary(now)]_vars

\* A ticker the store could serve when its load began is never fetched from
\* the provider for a customer (ADR-007), store outages included.
StoredTickerIsNotRefetched ==
    "corrupt" \notin Hazards =>
        \A x \in Loads : pc[x] \in {"fetch", "persist"} => ~born[x]

\* A remembered rejection is forgotten within its time to live, however often
\* it is copied between Redis and instances.
RejectionsExpire ==
    [][\A x \in Loads :
          /\ answer'[x].kind = "rejected"
          /\ answer[x].kind # "rejected"
          => now - refused'[x[2]] < NegTtl]_vars

\* A lock leaves its holder by the holder's own release, the loss of its
\* instance, or the end of its lease (no load moves then) - never by a load
\* whose lease ran out earlier and that releases late.
LockIsNotStolen ==
    [][\A t \in Tickers, y \in Loads :
          lock[t] = y /\ lock'[t] # y =>
              \/ pc[y] = "release" /\ pc'[y] = "done"
              \/ pc'[y] = "idle"
              \/ pc' = pc]_vars

\* A load that ends lets go of its lock, on every path but one: a lock names a
\* load of its ticker that still holds the token and is on its way, or one
\* that an exception of neither family ended (fundamentals.py:621, 627).
LocksAreLetGo ==
    \A t \in Tickers :
        lock[t] \in Loads =>
            LET x == lock[t]
            IN  /\ x[2] = t
                /\ mine[x]
                /\ \/ pc[x] \in {"store", "hydrate", "fetch", "persist", "publish",
                                 "announce", "share", "release"}
                   \/ pc[x] = "done" /\ answer[x].kind = "unmapped"

\* With Redis answering, leases outliving their holders, no instance lost and
\* no poll reaching its deadline, a cold ticker is fetched by one load at a
\* time, whatever the provider and the store do.
BootstrapIsSingle ==
    Hazards \subseteq {"provider", "store", "corrupt", "evict"} =>
        \A x, y \in Loads :
            /\ pc[x] \in {"fetch", "persist"}
            /\ pc[y] \in {"fetch", "persist"}
            /\ x[2] = y[2]
            => x = y

\* refresh_window.py: "once a window boundary passes, no instance may keep
\* serving pre-boundary statement data as current" - a copy an instance would
\* serve as current belongs to a ticker verified since the boundary.
CurrentCopiesAreVerified ==
    \A x \in Loads :
        IsCurrent(l1[x]) => heads[x[2]].verified >= LastRefreshBoundary(now)

\* Every load ends, so every request sharing it is answered.
EveryLoadEnds == \A x \in Loads : pc[x] # "idle" ~> pc[x] = "idle"

-----------------------------------------------------------------------------

\* The promise this service implements: what a request is answered is the
\* version of the copy its load resolved to.
ReplyOf(a) ==
    IF a.kind = "none" THEN 0 ELSE IF a.kind = "ok" THEN a.copy.ver ELSE -1

Promise == INSTANCE StatementPromise WITH
    Requests <- Loads,
    committed <- snapshots,
    reply <- [x \in Loads |-> ReplyOf(answer[x])]

PromiseSpec == Promise!Spec

=============================================================================
