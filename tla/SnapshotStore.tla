---------------------------- MODULE SnapshotStore ----------------------------
(***************************************************************************)
(* The durable statement store: immutable content-addressed snapshots and  *)
(* one mutable head per ticker (supabase/migrations/003 and 004, reached   *)
(* through app/supabase.py), on the clock every component reads.           *)
(*                                                                         *)
(* Each database function is one transaction, so each is one operator here *)
(* that the callers' actions conjoin.  A filing is a number: the provider  *)
(* publishes 1, 2, ... for a ticker, and because snapshot_version is the   *)
(* fingerprint of the normalized filing, the number is also the version.   *)
(* A head whose version is 0 is a ticker the store has no row for.         *)
(* last_refresh_success_at is written only together with verified_at and   *)
(* always equal to it; it needs no field of its own.                       *)
(***************************************************************************)
EXTENDS Integers, FiniteSets

CONSTANTS
    Tickers,    \* the symbols customers ask for
    MaxFiling,  \* bound: filings the provider publishes per ticker
    Day,        \* ticks between two 6 PM Eastern boundaries
    StartTime,  \* tick at which the observation starts
    MaxTime     \* bound: last tick of the observation

ASSUME StoreAssumption ==
    /\ IsFiniteSet(Tickers)
    /\ MaxFiling \in Nat
    /\ Day \in Nat \ {0}
    /\ StartTime \in Nat
    /\ MaxTime \in Nat

VARIABLES
    now,        \* wall clock, in ticks; multiples of Day are refresh boundaries
    filing,     \* latest filing the provider has per ticker, 0: not covered
    snapshots,  \* normalized_snapshots: the <<ticker, version>> rows
    heads       \* ticker_snapshot_heads

storeVars == <<now, filing, snapshots, heads>>

Filings == 1..MaxFiling

\* Values refresh_status takes in the database.
DurableStatuses ==
    { "bootstrap_snapshot", "current_as_of_daily_refresh",
      "daily_refresh_running", "daily_refresh_failed",
      "daily_refresh_partial_failed" }

\* A head that cannot be decoded, or is dated in the future, is not sound.
HeadRow ==
    [ver : 0..MaxFiling, verified : Nat, status : DurableStatuses, sound : BOOLEAN]

NoHead == [ver |-> 0, verified |-> 0, status |-> "bootstrap_snapshot", sound |-> TRUE]

HasHead(t) == heads[t].ver # 0

\* refresh_window.last_refresh_boundary, with days of equal length.
LastRefreshBoundary(time) == (time \div Day) * Day

StoreInit ==
    /\ now = StartTime
    /\ filing = [t \in Tickers |-> 0]
    /\ snapshots = {}
    /\ heads = [t \in Tickers |-> NoHead]

(***************************************************************************)
(* store_ticker_snapshot: insert the document unless its version exists,   *)
(* then upsert the head, stamped with the transaction's own now().         *)
(***************************************************************************)
StoreTickerSnapshot(t, v, status) ==
    /\ snapshots' = snapshots \cup {<<t, v>>}
    /\ heads' = [heads EXCEPT ![t] =
           [ver |-> v, verified |-> now, status |-> status, sound |-> TRUE]]

\* The UPDATE ... SET refresh_status of the ledger's functions.
MarkHeads(S, status) ==
    heads' = [t \in Tickers |->
                 IF t \in S THEN [heads[t] EXCEPT !.status = status] ELSE heads[t]]

\* Environment: time passes.
Tick ==
    /\ now < MaxTime
    /\ now' = now + 1
    /\ UNCHANGED <<filing, snapshots, heads>>

\* Environment: the company files, or the provider starts covering it.
NewFiling(t) ==
    /\ filing[t] < MaxFiling
    /\ filing' = [filing EXCEPT ![t] = @ + 1]
    /\ UNCHANGED <<now, snapshots, heads>>

StoreTypeOK ==
    /\ now \in Nat
    /\ filing \in [Tickers -> 0..MaxFiling]
    /\ snapshots \subseteq Tickers \X Filings
    /\ heads \in [Tickers -> HeadRow]

(***************************************************************************)
(* What the foreign key and the revoked UPDATE/DELETE promise: every head  *)
(* points at a stored document.                                            *)
(***************************************************************************)
HeadsReferenceSnapshots ==
    \A t \in Tickers : HasHead(t) => <<t, heads[t].ver>> \in snapshots

=============================================================================
