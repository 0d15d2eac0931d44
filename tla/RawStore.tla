------------------------------- MODULE RawStore -------------------------------
(***************************************************************************)
(* The raw payload store (app/raw_store.py): the captures of one ticker    *)
(* and endpoint, a directory that several processes write to and prune.    *)
(*                                                                         *)
(* A sink is the FileRawSink of a process.  Every capture is stored by a   *)
(* worker thread, which prunes the directory afterwards if its sink has    *)
(* not done so for a while; an operator's script prunes it at any time.    *)
(* Threads interleave between their accesses to the file system and to     *)
(* what their sink keeps under its lock.  A killed process is a sink whose *)
(* threads take no further step, its successor another sink.               *)
(*                                                                         *)
(* Captures are numbered in the order they were taken, which is the order  *)
(* of their file names; the bytes of a capture are left out, so the byte   *)
(* counters are the capture counters.                                      *)
(***************************************************************************)
EXTENDS Integers, FiniteSets, Functions

CONSTANTS
    Sinks,         \* processes that serve requests
    Script,        \* the process of scripts/raw_captures.py prune
    Threads,       \* threads a process runs at a time (asyncio.to_thread)
    MaxTaken,      \* bound: captures taken
    MaxCaptures,   \* max_captures_per_endpoint
    Retention,     \* retention_days
    PruneInterval, \* prune_interval_seconds
    LastTick,      \* bound: length of the observation
    MaxMishaps     \* bound: errors of the file system

ASSUME RawStoreAssumption ==
    /\ Script \notin Sinks /\ IsFiniteSet(Sinks)
    /\ Threads \in Nat \ {0}
    /\ MaxTaken \in Nat
    /\ MaxCaptures \in Nat \ {0}
    /\ Retention \in Nat \ {0}
    /\ PruneInterval \in Nat
    /\ LastTick \in Nat
    /\ MaxMishaps \in Nat

VARIABLES
    tick,      \* the clock
    files,     \* captures in the directory
    stored,    \* history: captures that were ever in the directory
    stamp,     \* captured_at of every capture taken so far, in order
    lastPrune, \* _last_prune of the directory, per sink; Never at first
    written,   \* _captures_written
    pruned,    \* _captures_pruned
    worker,    \* the thread of every capture, and that of the script
    mishaps

rawVars == <<tick, files, stored, stamp, lastPrune, written, pruned, worker, mishaps>>

Never == -1

Captures == 1..MaxTaken
Processes == Sinks \cup {Script}
Workers == Captures \cup {0}

\* What a worker is doing, for which sink, the time it read, what it listed and
\* means to unlink, how many files it removed and how many it could not.
Resting(where, sink) ==
    [at |-> where, sink |-> sink, now |-> 0,
     listed |-> {}, doomed |-> {}, removed |-> 0, kept |-> 0]

RawInit ==
    /\ tick = 0
    /\ files = {} /\ stored = {}
    /\ stamp = <<>>
    /\ lastPrune = [s \in Processes |-> Never]
    /\ written = [s \in Processes |-> 0]
    /\ pruned = [s \in Processes |-> 0]
    /\ worker = [w \in Workers |-> Resting("idle", Script)]
    /\ mishaps = 0

-----------------------------------------------------------------------------
Taken == DOMAIN stamp

Mishap == mishaps < MaxMishaps /\ mishaps' = mishaps + 1
NoMishap == UNCHANGED mishaps

Sink(w) == worker[w].sink

Rests(w, where) == worker' = [worker EXCEPT ![w] = Resting(where, Sink(w))]

Busy(s) == {w \in Captures : Sink(w) = s /\ worker[w].at \in {"count", "due", "list", "unlink"}}

\* A provider payload is handed to the sink: captured_at is that of the fetch,
\* and a thread is asked for.
Take(s) ==
    LET n == Cardinality(Taken) + 1 IN
    /\ n \in Captures
    /\ stamp' = [m \in 1..n |-> IF m \in Taken THEN stamp[m] ELSE tick]
    /\ worker' = [worker EXCEPT ![n] = Resting("open", s)]
    /\ UNCHANGED <<tick, files, stored, lastPrune, written, pruned, mishaps>>

\* write: a temporary file, which no listing shows, is filled and renamed, so
\* that the capture is there whole or not at all.  An error ends the thread;
\* the caller is told nothing.
Put(w) ==
    /\ worker[w].at = "open"
    /\ Cardinality(Busy(Sink(w))) < Threads
    /\ \/ /\ files' = files \cup {w}
          /\ stored' = stored \cup {w}
          /\ Rests(w, "count")
          /\ NoMishap
       \/ /\ Mishap
          /\ Rests(w, "done")
          /\ UNCHANGED <<files, stored>>
    /\ UNCHANGED <<tick, stamp, lastPrune, written, pruned>>

\* The capture is counted under the sink's lock, and the clock read without it.
CountWritten(w) ==
    /\ worker[w].at = "count"
    /\ written' = [written EXCEPT ![Sink(w)] = @ + 1]
    /\ worker' = [worker EXCEPT ![w].at = "due", ![w].now = tick]
    /\ UNCHANGED <<tick, files, stored, stamp, lastPrune, pruned, mishaps>>

Due(w) ==
    LET last == lastPrune[Sink(w)]
    IN  last = Never \/ worker[w].now - last >= PruneInterval

\* _maybe_prune, under the lock again: the interval begins before the prune,
\* whatever becomes of it.
MaybePrune(w) ==
    /\ worker[w].at = "due"
    /\ \/ /\ Due(w)
          /\ lastPrune' = [lastPrune EXCEPT ![Sink(w)] = worker[w].now]
          /\ Rests(w, "list")
       \/ ~ Due(w) /\ UNCHANGED lastPrune /\ Rests(w, "done")
    /\ UNCHANGED <<tick, files, stored, stamp, written, pruned, mishaps>>

\* scripts/raw_captures.py prune: prune_all, without the interval.
RunScript ==
    /\ worker[0].at = "idle"
    /\ Rests(0, "list")
    /\ UNCHANGED <<tick, files, stored, stamp, lastPrune, written, pruned, mishaps>>

Expired(n) == stamp[n] + Retention < tick

\* Faulty variants: one capture less than the cap is left; a capture more is.
OverflowTight(surviving) ==
    {n \in surviving : Cardinality({m \in surviving : m > n}) >= MaxCaptures - 1}
OverflowLoose(surviving) ==
    {n \in surviving : Cardinality({m \in surviving : m > n}) > MaxCaptures}

\* The oldest of the surviving captures beyond the cap.
Overflow(surviving) ==
    {n \in surviving : Cardinality({m \in surviving : m > n}) >= MaxCaptures}

\* prune_directory decides on the files it lists.
List(w) ==
    LET expired == {n \in files : Expired(n)} IN
    /\ worker[w].at = "list"
    /\ \/ /\ files # {}
          /\ worker' = [worker EXCEPT ![w].at = "unlink", ![w].listed = files,
                                      ![w].doomed = expired \cup Overflow(files \ expired)]
          /\ NoMishap
       \/ files = {} /\ Rests(w, "done") /\ NoMishap
       \/ Mishap /\ Rests(w, "done")
    /\ UNCHANGED <<tick, files, stored, stamp, lastPrune, written, pruned>>

Strikes(w, n, removed, kept) ==
    worker' = [worker EXCEPT ![w].doomed = @ \ {n}, ![w].removed = @ + removed,
                             ![w].kept = @ + kept]

\* Faulty variant: a file somebody else removed is counted as well.
UnlinkMissingOk(w) ==
    /\ worker[w].at = "unlink"
    /\ \E n \in worker[w].doomed :
           files' = files \ {n} /\ Strikes(w, n, 1, 0)
    /\ UNCHANGED <<tick, stored, stamp, lastPrune, written, pruned, mishaps>>

\* One file after the other, oldest first (what has expired is older than what
\* has not); one that is gone or cannot be removed is passed over.
Unlink(w) ==
    /\ worker[w].at = "unlink"
    /\ \E n \in worker[w].doomed :
        /\ \A m \in worker[w].doomed : n <= m
        /\ \/ n \in files /\ files' = files \ {n} /\ Strikes(w, n, 1, 0) /\ NoMishap
           \/ n \notin files /\ UNCHANGED files /\ Strikes(w, n, 0, 0) /\ NoMishap
           \/ n \in files /\ UNCHANGED files /\ Strikes(w, n, 0, 1) /\ Mishap
    /\ UNCHANGED <<tick, stored, stamp, lastPrune, written, pruned>>

Finished(w) == worker[w].at = "unlink" /\ worker[w].doomed = {}

CountPruned(w) ==
    /\ Finished(w)
    /\ pruned' = [pruned EXCEPT ![Sink(w)] = @ + worker[w].removed]
    /\ Rests(w, "done")
    /\ UNCHANGED <<tick, files, stored, stamp, lastPrune, written, mishaps>>

PassTime ==
    /\ tick < LastTick
    /\ tick' = tick + 1
    /\ UNCHANGED <<files, stored, stamp, lastPrune, written, pruned, worker, mishaps>>

RawNext ==
    \/ \E s \in Sinks : Take(s)
    \/ \E w \in Workers : \/ Put(w) \/ CountWritten(w) \/ MaybePrune(w)
                         \/ List(w) \/ Unlink(w) \/ CountPruned(w)
    \/ RunScript
    \/ PassTime

RawSpec == RawInit /\ [][RawNext]_rawVars

-----------------------------------------------------------------------------

RawTypeOK ==
    /\ tick \in Nat
    /\ files \subseteq stored /\ stored \subseteq Taken
    /\ \E n \in 0..MaxTaken : stamp \in [1..n -> 0..tick]
    /\ lastPrune \in [Processes -> Nat \cup {Never}]
    /\ written \in [Processes -> Nat]
    /\ pruned \in [Processes -> Nat]
    /\ worker \in [Workers -> [at : {"idle", "open", "count", "due", "list", "unlink", "done"},
                               sink : Processes, now : Nat, listed : SUBSET stored,
                               doomed : SUBSET stored, removed : Nat, kept : Nat]]
    /\ mishaps \in Nat

\* Evidence is lost to the retention rules only: a capture that is gone was
\* past the age window, or the cap's worth of newer captures had been stored -
\* however stale the listing, and whoever prunes at the same time
\* (raw_store.py:371).
OnlyRetiredAreGone ==
    \A n \in stored \ files :
        Expired(n) \/ Cardinality({m \in stored : m > n}) >= MaxCaptures

\* Bounded: of the captures a prune had listed, no more than the cap are left
\* when it has gone through them, but for those it could not remove.
PruneLeavesTheCap ==
    \A w \in Workers : Finished(w) =>
        Cardinality(worker[w].listed \cap files) <= MaxCaptures + worker[w].kept

\* Removed by workers that have not counted it yet.
Uncounted == {r \in Workers \X Captures : r[2] <= worker[r[1]].removed}

\* Cost monitoring: the counters of all processes, with what is still to be
\* counted, make up what is in the directory; a file two prunes had doomed is
\* counted by one of them (raw_store.py:388).
CountersMakeUpTheDirectory ==
    Cardinality(files) =
        SumFunction(written) + Cardinality({w \in Workers : worker[w].at = "count"})
        - SumFunction(pruned) - Cardinality(Uncounted)

=============================================================================
