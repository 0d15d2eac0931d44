---------------------------- MODULE RefreshLedger ----------------------------
(***************************************************************************)
(* The daily-refresh run and claim ledger: the three database functions of *)
(* supabase/migrations/004_phase8_freshness.sql, each one transaction.     *)
(***************************************************************************)
EXTENDS SnapshotStore

VARIABLES
    runs,    \* financial_refresh_runs, one row per Eastern date
    claims   \* financial_refresh_claims, per date and ticker

ledgerVars == <<runs, claims>>

Dates == 0..(MaxTime \div Day)

\* The 18:00 boundary that opens a date's refresh hour.
WindowStart(d) == d * Day

RunStatuses == {"none", "running", "succeeded", "partial_failed", "failed"}
ClaimStatuses == {"none", "pending", "succeeded", "failed"}

NoRun == [status |-> "none", started |-> 0, total |-> 0, succeeded |-> 0, failed |-> 0]

Run == [status : RunStatuses, started : Nat, total : Nat, succeeded : Nat, failed : Nat]

LedgerInit ==
    /\ runs = [d \in Dates |-> NoRun]
    /\ claims = [d \in Dates |-> [t \in Tickers |-> "none"]]

Claimed(d) == {t \in Tickers : claims[d][t] # "none"}
ClaimsIn(d, S) == {t \in Tickers : claims[d][t] \in S}

\* Faulty variant: only a run still under way blocks a second one.
AlreadyRunning(d) == runs[d].status = "running"

\* begin_financial_refresh_run: the insert on the date decides; the winner
\* claims every ticker that has a head and marks those heads running.
AlreadyClaimed(d) == runs[d].status # "none"

BeginRun(d) ==
    LET manifest == {t \in Tickers : HasHead(t)} IN
    /\ ~AlreadyClaimed(d)
    /\ claims' = [claims EXCEPT ![d] =
           [t \in Tickers |-> IF t \in manifest THEN "pending" ELSE "none"]]
    /\ MarkHeads(manifest, "daily_refresh_running")
    /\ runs' = [runs EXCEPT ![d] =
           [NoRun EXCEPT !.status = "running", !.started = now,
                         !.total = Cardinality(manifest)]]
    /\ UNCHANGED <<now, filing, snapshots>>

\* Faulty variant: the failure is not shown on the head.
CompleteClaimOnly(d, t, status) ==
    /\ claims[d][t] # "none"
    /\ claims' = [claims EXCEPT ![d][t] = status]
    /\ UNCHANGED <<storeVars, runs>>

\* complete_financial_refresh_claim: a failed claim also marks the head.
CompleteClaim(d, t, status) ==
    /\ claims[d][t] # "none"
    /\ claims' = [claims EXCEPT ![d][t] = status]
    /\ MarkHeads(IF status = "failed" THEN {t} ELSE {}, "daily_refresh_failed")
    /\ UNCHANGED <<now, filing, snapshots, runs>>

\* Faulty variant: claims left pending are not looked at.
RunOutcomeOfFailures(d) ==
    IF ClaimsIn(d, {"failed"}) = {} THEN "succeeded"
    ELSE IF ClaimsIn(d, {"succeeded"}) = {} THEN "failed"
    ELSE "partial_failed"

\* finish_financial_refresh_run: counts and status come from the claims.
RunOutcome(d) ==
    IF ClaimsIn(d, {"pending"}) # {} THEN "partial_failed"
    ELSE IF ClaimsIn(d, {"failed"}) = {} THEN "succeeded"
    ELSE IF ClaimsIn(d, {"succeeded"}) = {} THEN "failed"
    ELSE "partial_failed"

\* Faulty variant: whatever did not succeed is counted as failed.
FinishRunByDifference(d) ==
    /\ UNCHANGED heads
    /\ runs' = [runs EXCEPT ![d] =
           [@ EXCEPT !.status = RunOutcome(d),
                     !.succeeded = Cardinality(ClaimsIn(d, {"succeeded"})),
                     !.failed = Cardinality(ClaimsIn(d, {"pending", "failed"}))]]
    /\ UNCHANGED <<now, filing, snapshots, claims>>

FinishRun(d) ==
    /\ heads' = [t \in Tickers |->
           IF claims[d][t] = "failed"
           THEN [heads[t] EXCEPT !.status = "daily_refresh_failed"]
           ELSE IF claims[d][t] = "pending"
           THEN [heads[t] EXCEPT !.status = "daily_refresh_partial_failed"]
           ELSE heads[t]]
    /\ runs' = [runs EXCEPT ![d] =
           [@ EXCEPT !.status = RunOutcome(d),
                     !.succeeded = Cardinality(ClaimsIn(d, {"succeeded"})),
                     !.failed = Cardinality(ClaimsIn(d, {"failed"}))]]
    /\ UNCHANGED <<now, filing, snapshots, claims>>

LedgerTypeOK ==
    /\ runs \in [Dates -> Run]
    /\ claims \in [Dates -> [Tickers -> ClaimStatuses]]

=============================================================================
