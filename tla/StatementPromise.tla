---------------------------- MODULE StatementPromise ----------------------------
(***************************************************************************)
(* What the statement service promises its callers (ADR-006), without      *)
(* caches, locks or faults: datasets become committed and stay so; a       *)
(* request is answered at most once, with a dataset of its own ticker that *)
(* is committed by then, or it fails; and the answer stands until the      *)
(* request is over.                                                        *)
(***************************************************************************)
EXTENDS Integers

CONSTANTS
    Requests,    \* <<instance, ticker>> pairs, one request at a time each
    Tickers,
    Filings

Waiting == 0
Failed == -1

VARIABLES
    committed,   \* <<ticker, version>> datasets in the durable store
    reply        \* per request: Waiting, Failed, or the version answered

vars == <<committed, reply>>

Init ==
    /\ committed = {}
    /\ reply = [x \in Requests |-> Waiting]

Commit(t, v) ==
    /\ committed' = committed \cup {<<t, v>>}
    /\ UNCHANGED reply

Answer(x, v) ==
    /\ reply[x] = Waiting
    /\ <<x[2], v>> \in committed
    /\ reply' = [reply EXCEPT ![x] = v]
    /\ UNCHANGED committed

\* A request that fails may still have committed what it fetched.
Fail(x) ==
    /\ reply[x] = Waiting
    /\ reply' = [reply EXCEPT ![x] = Failed]
    /\ \/ UNCHANGED committed
       \/ \E v \in Filings : committed' = committed \cup {<<x[2], v>>}

\* Requests end: one that was answered, or all those of a lost instance.
End(S) ==
    /\ reply' = [x \in Requests |-> IF x \in S THEN Waiting ELSE reply[x]]
    /\ UNCHANGED committed

Next ==
    \/ \E t \in Tickers, v \in Filings : Commit(t, v)
    \/ \E x \in Requests, v \in Filings : Answer(x, v)
    \/ \E x \in Requests : Fail(x)
    \/ \E S \in SUBSET Requests : End(S)

Spec == Init /\ [][Next]_vars

=============================================================================
