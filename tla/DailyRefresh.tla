---------------------------- MODULE DailyRefresh ----------------------------
(***************************************************************************)
(* The scheduled refresh (app/refresh.py, DailyRefreshRunner) over the     *)
(* ledger: cron invocations that may be delivered twice, overlap, lose a   *)
(* reply or die half way, each driving every claimed ticker through one    *)
(* provider cycle (FundamentalsService.refresh_from_provider) and one      *)
(* claim completion.  Customers bootstrap new tickers meanwhile.           *)
(*                                                                         *)
(* Cache publication at the end of refresh_from_provider cannot fail and   *)
(* is left to the Fundamentals module.                                     *)
(***************************************************************************)
EXTENDS RefreshLedger

CONSTANTS
    Invocations,    \* concurrently live deliveries of the cron request
    Concurrency,    \* refresh_one bodies a run lets in at a time
    MaxFaults,      \* bound: store calls that fail or lose their reply
    MaxCrashes      \* bound: invocations killed by the platform

ASSUME RunnerAssumption ==
    /\ Concurrency \in Nat \ {0}
    /\ MaxFaults \in Nat
    /\ MaxCrashes \in Nat

VARIABLES
    pc,             \* where each invocation is: idle, begin or work
    date,           \* the Eastern date it computed at the guard
    step,           \* per claimed ticker, where its refresh_one is
    fetched,        \* the filing its provider cycle returned
    bootstrapping,  \* <<ticker, filing>> a customer request fetched on a miss
    late,           \* complete_claim calls timed out but still to be executed
    faults,         \* store calls that have failed so far
    crashes,        \* invocations killed so far
    calls           \* history: provider cycles the runner spent per date, ticker

runnerVars == <<pc, date, step, fetched>>
vars == <<now, filing, snapshots, heads, runs, claims, pc, date, step, fetched,
          bootstrapping, late, faults, crashes, calls>>

Steps == {"none", "queued", "fetch", "persist", "succeed", "fail", "done"}
Idle == [t \in Tickers |-> "none"]

Init ==
    /\ StoreInit
    /\ LedgerInit
    /\ pc = [c \in Invocations |-> "idle"]
    /\ date = [c \in Invocations |-> 0]
    /\ step = [c \in Invocations |-> Idle]
    /\ fetched = [c \in Invocations |-> [t \in Tickers |-> 0]]
    /\ bootstrapping = {}
    /\ late = {}
    /\ faults = 0
    /\ crashes = 0
    /\ calls = [d \in Dates |-> [t \in Tickers |-> 0]]

\* Budgets: a call that goes wrong spends a fault, every other leaves it.
Fault == faults < MaxFaults /\ faults' = faults + 1
NoFault == UNCHANGED faults

\* run_if_in_window: the guard, and the date the whole run will carry.
Deliver(c) ==
    /\ pc[c] = "idle"
    /\ \E d \in Dates :
          /\ now = WindowStart(d)
          /\ date' = [date EXCEPT ![c] = d]
    /\ pc' = [pc EXCEPT ![c] = "begin"]
    /\ UNCHANGED <<storeVars, ledgerVars, step, fetched, bootstrapping, late,
                   faults, crashes, calls>>

\* The invocation returns, or raises out of the cron endpoint.
Leave(c) ==
    /\ pc' = [pc EXCEPT ![c] = "idle"]
    /\ step' = [step EXCEPT ![c] = Idle]
    /\ UNCHANGED <<date, fetched>>

\* begin_refresh_run answers already_claimed: a duplicate delivery, skipped.
SkipDuplicate(c) ==
    /\ pc[c] = "begin"
    /\ AlreadyClaimed(date[c])
    /\ Leave(c)
    /\ UNCHANGED <<storeVars, ledgerVars, bootstrapping, late, faults, crashes,
                   calls>>

\* begin_refresh_run wins the date; losing its reply ends the invocation with
\* the run and its claims already in the ledger.
Begin(c) ==
    /\ pc[c] = "begin"
    /\ BeginRun(date[c])
    /\ \/ /\ pc' = [pc EXCEPT ![c] = "work"]
          /\ step' = [step EXCEPT ![c] =
                 [t \in Tickers |-> IF HasHead(t) THEN "queued" ELSE "none"]]
          /\ UNCHANGED <<date, fetched>>
          /\ NoFault
       \/ Leave(c) /\ Fault
    /\ UNCHANGED <<bootstrapping, late, crashes, calls>>

\* begin_refresh_run fails without effect: SupabaseError, the run is not held.
BeginFails(c) ==
    /\ pc[c] = "begin"
    /\ Fault
    /\ Leave(c)
    /\ UNCHANGED <<storeVars, ledgerVars, bootstrapping, late, crashes, calls>>

\* Faulty variant: the semaphore is never released.
InFlightForGood(c) == {t \in Tickers : step[c][t] \notin {"none", "queued"}}

\* The refresh_one bodies inside the semaphore.
InFlight(c) == {t \in Tickers : step[c][t] \in {"fetch", "persist", "succeed", "fail"}}

\* refresh_one enters the semaphore and calls the provider.
StartTicker(c, t) ==
    /\ step[c][t] = "queued"
    /\ Cardinality(InFlight(c)) < Concurrency
    /\ step' = [step EXCEPT ![c][t] = "fetch"]
    /\ calls' = [calls EXCEPT ![date[c]][t] = @ + 1]
    /\ UNCHANGED <<storeVars, ledgerVars, pc, date, fetched, bootstrapping, late,
                   faults, crashes>>

\* The provider answers with its latest filing, or the cycle raises.
Fetch(c, t) ==
    /\ step[c][t] = "fetch"
    /\ \/ /\ filing[t] # 0
          /\ fetched' = [fetched EXCEPT ![c][t] = filing[t]]
          /\ step' = [step EXCEPT ![c][t] = "persist"]
       \/ /\ step' = [step EXCEPT ![c][t] = "fail"]
          /\ UNCHANGED fetched
    /\ UNCHANGED <<storeVars, ledgerVars, pc, date, bootstrapping, late, faults,
                   crashes, calls>>

\* Faulty variant: a durable write that failed does not fail the cycle.
PersistBestEffort(c, t) ==
    /\ step[c][t] = "persist"
    /\ step' = [step EXCEPT ![c][t] = "succeed"]
    /\ \/ /\ StoreTickerSnapshot(t, fetched[c][t], "current_as_of_daily_refresh")
          /\ NoFault
       \/ Fault /\ UNCHANGED <<snapshots, heads>>
    /\ UNCHANGED <<now, filing, ledgerVars, pc, date, fetched, bootstrapping, late,
                   crashes, calls>>

\* _persist_snapshot awaits store_ticker_snapshot, which commits, fails, or
\* commits and loses its reply; only the first lets the cycle succeed.
Persist(c, t) ==
    /\ step[c][t] = "persist"
    /\ \/ /\ StoreTickerSnapshot(t, fetched[c][t], "current_as_of_daily_refresh")
          /\ \/ NoFault /\ step' = [step EXCEPT ![c][t] = "succeed"]
             \/ Fault /\ step' = [step EXCEPT ![c][t] = "fail"]
       \/ /\ Fault
          /\ step' = [step EXCEPT ![c][t] = "fail"]
          /\ UNCHANGED <<snapshots, heads>>
    /\ UNCHANGED <<now, filing, ledgerVars, pc, date, fetched, bootstrapping, late,
                   crashes, calls>>

\* The status refresh_one reports for the claim.
ClaimStatus(c, t) == IF step[c][t] = "succeed" THEN "succeeded" ELSE "failed"

\* _complete_claim: an error of the call is swallowed, so refresh_one ends
\* whether the call took effect, was lost, or is executed after the timeout.
Complete(c, t) ==
    /\ step[c][t] \in {"succeed", "fail"}
    /\ step' = [step EXCEPT ![c][t] = "done"]
    /\ \/ CompleteClaim(date[c], t, ClaimStatus(c, t)) /\ NoFault /\ UNCHANGED late
       \/ UNCHANGED <<storeVars, ledgerVars, late>> /\ Fault
       \/ /\ late' = late \cup {<<date[c], t, ClaimStatus(c, t)>>}
          /\ Fault
          /\ UNCHANGED <<storeVars, ledgerVars>>
    /\ UNCHANGED <<pc, date, fetched, bootstrapping, crashes, calls>>

\* The database executes a completion its caller gave up on.
CompleteLate(d, t, status) ==
    /\ <<d, t, status>> \in late
    /\ late' = late \ {<<d, t, status>>}
    /\ CompleteClaim(d, t, status)
    /\ UNCHANGED <<runnerVars, bootstrapping, faults, crashes, calls>>

\* gather has returned: finish_refresh_run reconciles, or fails and raises.
\* The endpoint returns either way, so a lost reply differs in nothing.
Finish(c) ==
    /\ pc[c] = "work"
    /\ \A t \in Tickers : step[c][t] \in {"none", "done"}
    /\ Leave(c)
    /\ \/ FinishRun(date[c]) /\ NoFault
       \/ UNCHANGED <<storeVars, ledgerVars>> /\ Fault
    /\ UNCHANGED <<bootstrapping, late, crashes, calls>>

\* The platform kills the invocation (duration limit, deploy, host loss).
Crash(c) ==
    /\ pc[c] # "idle"
    /\ crashes < MaxCrashes
    /\ crashes' = crashes + 1
    /\ Leave(c)
    /\ UNCHANGED <<storeVars, ledgerVars, bootstrapping, late, faults, calls>>

\* A customer request misses in the store and fetches (Fundamentals) ...
BootstrapFetch(t) ==
    /\ ~HasHead(t)
    /\ filing[t] # 0
    /\ bootstrapping' = bootstrapping \cup {<<t, filing[t]>>}
    /\ UNCHANGED <<storeVars, ledgerVars, runnerVars, late, faults, crashes, calls>>

\* ... and stores what it fetched, whatever has been stored in between.
BootstrapStore(t, v) ==
    /\ <<t, v>> \in bootstrapping
    /\ bootstrapping' = bootstrapping \ {<<t, v>>}
    /\ StoreTickerSnapshot(t, v, "bootstrap_snapshot")
    /\ UNCHANGED <<now, filing, ledgerVars, runnerVars, late, faults, crashes, calls>>

Environment ==
    /\ Tick \/ (\E t \in Tickers : NewFiling(t))
    /\ UNCHANGED <<ledgerVars, runnerVars, bootstrapping, late, faults, crashes,
                   calls>>

RefreshOne(c, t) == StartTicker(c, t) \/ Fetch(c, t) \/ Persist(c, t) \/ Complete(c, t)

RunnerStep(c) ==
    \/ SkipDuplicate(c)
    \/ Begin(c)
    \/ BeginFails(c)
    \/ \E t \in Tickers : RefreshOne(c, t)
    \/ Finish(c)

Next ==
    \/ Environment
    \/ \E c \in Invocations : Deliver(c) \/ RunnerStep(c) \/ Crash(c)
    \/ \E d \in Dates, t \in Tickers, s \in {"succeeded", "failed"} :
          CompleteLate(d, t, s)
    \/ \E t \in Tickers : BootstrapFetch(t)
    \/ \E t \in Tickers, v \in Filings : BootstrapStore(t, v)

Spec == Init /\ [][Next]_vars

\* An invocation that is alive keeps running: every await of the runner ends
\* in an answer or in the client's timeout.  Nothing forces a delivery, a
\* crash, a customer or the clock.
FairSpec == Spec /\ \A c \in Invocations : WF_vars(RunnerStep(c))

-----------------------------------------------------------------------------

TypeOK ==
    /\ StoreTypeOK
    /\ LedgerTypeOK
    /\ pc \in [Invocations -> {"idle", "begin", "work"}]
    /\ date \in [Invocations -> Dates]
    /\ step \in [Invocations -> [Tickers -> Steps]]
    /\ fetched \in [Invocations -> [Tickers -> 0..MaxFiling]]
    /\ bootstrapping \subseteq Tickers \X Filings
    /\ late \subseteq Dates \X Tickers \X {"succeeded", "failed"}
    /\ faults \in Nat
    /\ crashes \in Nat
    /\ calls \in [Dates -> [Tickers -> Nat]]

\* ADR-007: duplicate cron delivery cannot spend a second provider cycle of a
\* ticker on the same Eastern date, whatever was lost or killed in between.
OneCyclePerDate == \A d \in Dates, t \in Tickers : calls[d][t] <= 1

\* A claim that ended succeeded means the head was verified inside the run.
\* Covers the order store-then-complete and completions executed late.
SucceededClaimIsVerified ==
    \A d \in Dates, t \in Tickers :
        claims[d][t] = "succeeded" => heads[t].verified >= runs[d].started

\* 003 migration: a run never reports success over a ticker it did not
\* process, even when a completion of it is still under way.
SucceededRunIsComplete ==
    \A d \in Dates :
        runs[d].status = "succeeded" =>
            \A t \in Claimed(d) : claims[d][t] = "succeeded"

\* The run's own counters never exceed the durable evidence they summarise,
\* and its total remains the manifest it opened with.
CountersReconcile ==
    \A d \in Dates :
        /\ runs[d].total = Cardinality(Claimed(d))
        /\ runs[d].succeeded <= Cardinality(ClaimsIn(d, {"succeeded"}))
        /\ runs[d].failed <= Cardinality(ClaimsIn(d, {"failed"}))

\* A head says "daily_refresh_running" only while a run that has not been
\* finished owes it a decision: customers never see a stuck running status
\* once the ledger has moved on.
RunningHeadIsOwed ==
    \A t \in Tickers :
        heads[t].status = "daily_refresh_running" =>
            \E d \in Dates : claims[d][t] = "pending" /\ runs[d].status = "running"

\* A decided claim is evidence: no later call, retry or delivery rewrites it.
DecidedClaimsAreFinal ==
    [][\A d \in Dates, t \in Tickers :
          claims[d][t] \in {"succeeded", "failed"} => claims'[d][t] = claims[d][t]]_vars

\* ADR-007 and migration 003: a run that was opened is reconciled and closed,
\* and every claim of it "must end success or explicit failure".
EveryRunIsReconciled ==
    \A d \in Dates :
        runs[d].status = "running" ~>
            /\ runs[d].status # "running"
            /\ \A t \in Tickers : claims[d][t] # "pending"

-----------------------------------------------------------------------------

\* The daily cycle this runner implements, over the ledger's own rows.
Cycle == INSTANCE RefreshCycle WITH
    run <- [d \in Dates |-> runs[d].status],
    verdict <- claims,
    spent <- [d \in Dates |-> {t \in Tickers : calls[d][t] > 0}]

CycleSpec == Cycle!Spec

=============================================================================
