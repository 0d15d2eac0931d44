---------------------------- MODULE RefreshCycle ----------------------------
(***************************************************************************)
(* What the daily refresh promises (ADR-007), without invocations, calls   *)
(* or faults: a date's run is opened once over a fixed manifest, every     *)
(* ticker of it is spent at most one provider cycle, a verdict needs the   *)
(* cycle to have been spent and is given once, and the run's status can    *)
(* only say what the verdicts support at the moment it is closed.          *)
(***************************************************************************)
EXTENDS FiniteSets

CONSTANTS Dates, Tickers

VARIABLES
    run,      \* per date: none, running, succeeded, partial_failed, failed
    verdict,  \* per date and ticker: none, pending, succeeded, failed
    spent     \* per date: tickers whose provider cycle has been spent

vars == <<run, verdict, spent>>

Init ==
    /\ run = [d \in Dates |-> "none"]
    /\ verdict = [d \in Dates |-> [t \in Tickers |-> "none"]]
    /\ spent = [d \in Dates |-> {}]

Open(d, manifest) ==
    /\ run[d] = "none"
    /\ run' = [run EXCEPT ![d] = "running"]
    /\ verdict' = [verdict EXCEPT ![d] =
           [t \in Tickers |-> IF t \in manifest THEN "pending" ELSE "none"]]
    /\ UNCHANGED spent

Spend(d, t) ==
    /\ run[d] = "running"
    /\ verdict[d][t] = "pending"
    /\ t \notin spent[d]
    /\ spent' = [spent EXCEPT ![d] = @ \cup {t}]
    /\ UNCHANGED <<run, verdict>>

Decide(d, t, v) ==
    /\ verdict[d][t] = "pending"
    /\ t \in spent[d]
    /\ verdict' = [verdict EXCEPT ![d][t] = v]
    /\ UNCHANGED <<run, spent>>

\* A run closes with every cycle spent, and with the status its verdicts give.
Close(d, status) ==
    LET manifest == {t \in Tickers : verdict[d][t] # "none"} IN
    /\ run[d] = "running"
    /\ manifest \subseteq spent[d]
    /\ status = "succeeded" =>
           \A t \in manifest : verdict[d][t] = "succeeded"
    /\ status = "failed" =>
           \A t \in manifest : verdict[d][t] = "failed"
    /\ run' = [run EXCEPT ![d] = status]
    /\ UNCHANGED <<verdict, spent>>

Next ==
    \E d \in Dates :
        \/ \E manifest \in SUBSET Tickers : Open(d, manifest)
        \/ \E t \in Tickers : Spend(d, t)
        \/ \E t \in Tickers, v \in {"succeeded", "failed"} : Decide(d, t, v)
        \/ \E s \in {"succeeded", "partial_failed", "failed"} : Close(d, s)

Spec == Init /\ [][Next]_vars

=============================================================================
