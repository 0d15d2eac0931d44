---------------------------- MODULE MCDailyRefresh ----------------------------
(* Two tickers, two overlapping invocations, two Eastern dates.  A day is two *)
(* ticks: the refresh hour itself and the rest of the day, so a run can be    *)
(* delivered twice in its hour, outlive it, and meet the next day's run.      *)
EXTENDS DailyRefresh, TLC

Symmetry == Permutations(Tickers) \cup Permutations(Invocations)

=============================================================================
