---------------------------- MODULE RawStoreProofs ----------------------------
(***************************************************************************)
(* Theorems about RawStore, for any sinks, threads, cap, age window and    *)
(* number of captures and errors.                                          *)
(*                                                                         *)
(* RawInv is inductive.  A capture a worker means to unlink is retired     *)
(* already and stays so, since what makes it so only grows: the time that  *)
(* passed and the captures that were ever stored.  What a worker listed    *)
(* and does not mean to unlink is within the cap from the start.           *)
(*                                                                         *)
(* TallyInv adds what the counters need: a worker that is not unlinking    *)
(* has nothing removed that is uncounted, and counters and directory       *)
(* agree, the sums taken as sizes of sets.                                 *)
(***************************************************************************)
EXTENDS RawStore, FiniteSetTheorems, NaturalsInduction, WellFoundedInduction, TLAPS

Newer(n) == {m \in stored : m > n}

Retired(n) == Expired(n) \/ Cardinality(Newer(n)) >= MaxCaptures

\* A thread that has yet to store its capture holds one that was taken and is
\* nowhere; what a worker means to unlink it has listed.
WorkersOK ==
    \A w \in Workers :
        /\ worker[w].at \in {"open", "count"} => w \in Taken
        /\ worker[w].at = "open" => w \notin stored
        /\ worker[w].doomed \subseteq worker[w].listed

RetiredOnly ==
    /\ \A n \in stored \ files : Retired(n)
    /\ \A w \in Workers : \A n \in worker[w].doomed : Retired(n)

\* What a worker leaves of its listing.
Left(w) == (worker[w].listed \cap files) \ worker[w].doomed

WithinCap ==
    \A w \in Workers :
        worker[w].at = "unlink" => Cardinality(Left(w)) <= MaxCaptures + worker[w].kept

RawInv == RawTypeOK /\ WorkersOK /\ RetiredOnly /\ WithinCap

Worker ==
    [at : {"idle", "open", "count", "due", "list", "unlink", "done"}, sink : Processes, now : Nat,
     listed : SUBSET stored, doomed : SUBSET stored, removed : Nat, kept : Nat]

-----------------------------------------------------------------------------
(* Finite sets and types.                                                   *)

LEMMA Constants ==
    /\ MaxTaken \in Nat
    /\ MaxCaptures \in Nat \ {0}
    /\ Retention \in Nat
    /\ 0 \notin Captures /\ 0 \in Workers
    /\ Captures \subseteq Workers /\ Workers \subseteq Nat
    /\ Never \notin Nat
  BY RawStoreAssumption DEF Captures, Workers, Never

\* Every set of captures is finite, and a subset has no more of them.
LEMMA Finite ==
    ASSUME RawTypeOK, NEW S \in SUBSET Captures
    PROVE  /\ IsFiniteSet(S) /\ Cardinality(S) \in Nat
           /\ \A T \in SUBSET S : Cardinality(T) \in Nat /\ Cardinality(T) <= Cardinality(S)
<1>1. IsFiniteSet(Captures)
  BY Constants, FS_Interval DEF Captures
<1>2. IsFiniteSet(S)
  BY <1>1, FS_Subset
<1>3. \A T \in SUBSET S : IsFiniteSet(T) /\ Cardinality(T) <= Cardinality(S)
  BY <1>2, FS_Subset
<1> QED
  BY <1>2, <1>3, FS_CardinalityType

\* The captures taken are those up to some number, the last one taken.
LEMMA TakenRange ==
    ASSUME RawTypeOK
    PROVE  \E n \in 0..MaxTaken : /\ Taken = 1..n /\ stamp \in [1..n -> 0..tick]
                                  /\ Cardinality(Taken) = n
<1>1. PICK n \in 0..MaxTaken : stamp \in [1..n -> 0..tick]
  BY DEF RawTypeOK
<1>2. Taken = 1..n
  BY <1>1 DEF Taken
<1>3. Cardinality(1..n) = n
  BY FS_Interval, Constants
<1> QED
  BY <1>1, <1>2, <1>3

LEMMA StoredRange ==
    ASSUME RawTypeOK
    PROVE  stored \subseteq Captures /\ files \subseteq Captures /\ Taken \subseteq Captures
<1>1. PICK n \in 0..MaxTaken : Taken = 1..n
  BY TakenRange
<1>2. 1..n \subseteq 1..MaxTaken
  BY Constants
<1> QED
  BY <1>1, <1>2 DEF RawTypeOK, Captures

LEMMA WorkerType ==
    ASSUME RawTypeOK
    PROVE  worker \in [Workers -> Worker]
  BY DEF RawTypeOK, Worker

-----------------------------------------------------------------------------
(* Type correctness.                                                        *)

LEMMA TypeInit == RawInit => RawTypeOK
<1> SUFFICES ASSUME RawInit PROVE RawTypeOK
  OBVIOUS
<1>1. stamp \in [1..0 -> 0..tick] /\ Taken = {}
  BY DEF RawInit, Taken
<1>2. \E n \in 0..MaxTaken : stamp \in [1..n -> 0..tick]
  BY <1>1, Constants
<1>3. Resting("idle", Script) \in Worker
  BY DEF Resting, Processes, Worker
<1>4. worker \in [Workers -> Worker]
  BY <1>3 DEF RawInit
<1> QED
  BY <1>1, <1>2, <1>4 DEF RawInit, RawTypeOK, Worker

\* What a step does to the time, the captures and one worker's record keeps
\* the types.
LEMMA TypesKept ==
    ASSUME RawTypeOK,
           stored \subseteq stored', stored' \subseteq Taken', files' \subseteq stored',
           tick' \in Nat, mishaps' \in Nat,
           \E n \in 0..MaxTaken : stamp' \in [1..n -> 0..tick'],
           lastPrune' \in [Processes -> Nat \cup {Never}],
           written' \in [Processes -> Nat],
           pruned' \in [Processes -> Nat],
           \/ worker' = worker
           \/ \E w \in Workers, r \in Worker' : worker' = [worker EXCEPT ![w] = r]
    PROVE  RawTypeOK'
<1>1. Worker \subseteq Worker'
  BY DEF Worker
<1>2. worker \in [Workers -> Worker']
  BY <1>1, WorkerType
<1>3. worker' \in [Workers -> Worker']
  BY <1>2
<1> QED
  BY <1>3 DEF RawTypeOK, Worker

LEMMA RestingType ==
    ASSUME NEW s \in Processes, NEW at \in {"idle", "open", "count", "due", "list", "unlink", "done"}
    PROVE  Resting(at, s) \in Worker /\ Resting(at, s) \in Worker'
  BY DEF Resting, Worker

LEMMA TakeType ==
    ASSUME RawTypeOK, NEW s \in Sinks, Take(s)
    PROVE  RawTypeOK' /\ Taken \subseteq Taken'
<1>1. PICK n \in 0..MaxTaken : /\ Taken = 1..n /\ stamp \in [1..n -> 0..tick]
                               /\ Cardinality(Taken) = n
  BY TakenRange
<1>2. n + 1 \in 1..MaxTaken
  BY <1>1 DEF Take, Captures
<1>3. stamp' = [m \in 1..(n + 1) |-> IF m \in Taken THEN stamp[m] ELSE tick]
  BY <1>1 DEF Take
<1>4. tick \in Nat
  BY DEF RawTypeOK
<1>5. stamp' \in [1..(n + 1) -> 0..tick]
  BY <1>1, <1>3, <1>4
<1>6. Taken' = 1..(n + 1) /\ Taken \subseteq Taken'
  BY <1>1, <1>5 DEF Taken
<1>7. s \in Processes /\ n + 1 \in Workers
  BY <1>2 DEF Processes, Workers, Captures
<1>8. \E w \in Workers, r \in Worker' : worker' = [worker EXCEPT ![w] = r]
  BY <1>1, <1>7, RestingType DEF Take
<1>9. n + 1 \in 0..MaxTaken
  BY <1>2
<1>10. \E k \in 0..MaxTaken : stamp' \in [1..k -> 0..tick']
  BY <1>5, <1>9 DEF Take
<1> QED
  BY <1>6, <1>8, <1>10, TypesKept DEF Take, RawTypeOK

\* The steps of one worker, and of the clock.
LEMMA RestsType ==
    ASSUME RawTypeOK, NEW w \in Workers,
           NEW at \in {"idle", "open", "count", "due", "list", "unlink", "done"}, Rests(w, at)
    PROVE  \E v \in Workers, r \in Worker' : worker' = [worker EXCEPT ![v] = r]
<1>1. Sink(w) \in Processes
  BY WorkerType DEF Sink, Worker
<1> QED
  BY <1>1, RestingType DEF Rests

LEMMA StampKept ==
    ASSUME RawTypeOK, UNCHANGED stamp, tick' \in Nat, tick <= tick'
    PROVE  Taken' = Taken /\ \E n \in 0..MaxTaken : stamp' \in [1..n -> 0..tick']
<1>1. PICK n \in 0..MaxTaken : stamp \in [1..n -> 0..tick]
  BY DEF RawTypeOK
<1>2. 0..tick \subseteq 0..tick'
  BY DEF RawTypeOK
<1>3. stamp \in [1..n -> 0..tick']
  BY <1>1, <1>2
<1> QED
  BY <1>3 DEF Taken

LEMMA StampSame ==
    ASSUME RawTypeOK, UNCHANGED <<stamp, tick>>
    PROVE  Taken' = Taken /\ \E n \in 0..MaxTaken : stamp' \in [1..n -> 0..tick']
<1>1. tick' = tick /\ tick \in Nat /\ stamp' = stamp
  BY DEF RawTypeOK
<1>2. tick <= tick'
  BY <1>1
<1> QED
  BY <1>1, <1>2, StampKept

LEMMA PutType ==
    ASSUME RawTypeOK, WorkersOK, NEW w \in Workers, Put(w)
    PROVE  RawTypeOK'
<1>1. w \in Taken
  BY DEF Put, WorkersOK
<1>2. stored \subseteq stored' /\ stored' \subseteq Taken /\ files' \subseteq stored'
  BY <1>1 DEF Put, RawTypeOK
<1>3. \E v \in Workers, r \in Worker' : worker' = [worker EXCEPT ![v] = r]
  BY RestsType DEF Put
<1>4. Taken' = Taken /\ \E n \in 0..MaxTaken : stamp' \in [1..n -> 0..tick']
  BY StampSame DEF Put
<1>5. mishaps' \in Nat
  BY DEF Put, Mishap, NoMishap, RawTypeOK
<1> QED
  BY <1>2, <1>3, <1>4, <1>5, TypesKept DEF Put, RawTypeOK

\* A worker that counted its capture goes on with the time it read.
LEMMA CountWrittenRecord ==
    ASSUME RawTypeOK, NEW w \in Workers, CountWritten(w)
    PROVE  /\ worker'[w] = [worker[w] EXCEPT !.at = "due", !.now = tick]
           /\ worker'[w] \in Worker'
           /\ worker' = [worker EXCEPT ![w] = worker'[w]]
           /\ \A v \in Workers \ {w} : worker'[v] = worker[v]
<1>1. worker \in [Workers -> Worker] /\ worker[w] \in Worker /\ tick \in Nat
  BY WorkerType DEF RawTypeOK
<1>2. worker' = [worker EXCEPT ![w] = [worker[w] EXCEPT !.at = "due", !.now = tick]]
  BY <1>1 DEF CountWritten
<1>3. [worker[w] EXCEPT !.at = "due", !.now = tick] \in Worker'
  BY <1>1 DEF Worker, CountWritten
<1> QED
  BY <1>1, <1>2, <1>3

LEMMA CountWrittenType ==
    ASSUME RawTypeOK, NEW w \in Workers, CountWritten(w)
    PROVE  RawTypeOK'
<1>1. Sink(w) \in Processes
  BY WorkerType DEF Sink, Worker
<1>2. written' \in [Processes -> Nat]
  BY <1>1 DEF CountWritten, RawTypeOK
<1>3. \E v \in Workers, r \in Worker' : worker' = [worker EXCEPT ![v] = r]
  BY CountWrittenRecord
<1>4. Taken' = Taken /\ \E n \in 0..MaxTaken : stamp' \in [1..n -> 0..tick']
  BY StampSame DEF CountWritten
<1> QED
  BY <1>2, <1>3, <1>4, TypesKept DEF CountWritten, RawTypeOK

LEMMA MaybePruneType ==
    ASSUME RawTypeOK, NEW w \in Workers, MaybePrune(w)
    PROVE  RawTypeOK'
<1>1. Sink(w) \in Processes /\ worker[w].now \in Nat
  BY WorkerType DEF Sink, Worker
<1>2. lastPrune' \in [Processes -> Nat \cup {Never}]
  BY <1>1 DEF MaybePrune, RawTypeOK
<1>3. \E v \in Workers, r \in Worker' : worker' = [worker EXCEPT ![v] = r]
  BY RestsType DEF MaybePrune
<1>4. Taken' = Taken /\ \E n \in 0..MaxTaken : stamp' \in [1..n -> 0..tick']
  BY StampSame DEF MaybePrune
<1> QED
  BY <1>2, <1>3, <1>4, TypesKept DEF MaybePrune, RawTypeOK

LEMMA RunScriptType ==
    ASSUME RawTypeOK, RunScript
    PROVE  RawTypeOK'
<1>1. \E v \in Workers, r \in Worker' : worker' = [worker EXCEPT ![v] = r]
  BY RestsType, Constants DEF RunScript
<1>2. Taken' = Taken /\ \E n \in 0..MaxTaken : stamp' \in [1..n -> 0..tick']
  BY StampSame DEF RunScript
<1> QED
  BY <1>1, <1>2, TypesKept DEF RunScript, RawTypeOK

LEMMA ListType ==
    ASSUME RawTypeOK, NEW w \in Workers, List(w)
    PROVE  RawTypeOK'
<1> DEFINE expired == {n \in files : Expired(n)}
<1>1. \E v \in Workers, r \in Worker' : worker' = [worker EXCEPT ![v] = r]
  <2>1. CASE files # {} /\ worker' = [worker EXCEPT
                 ![w].at = "unlink", ![w].listed = files,
                 ![w].doomed = expired \cup Overflow(files \ expired)]
    <3> DEFINE rec == [worker[w] EXCEPT !.at = "unlink", !.listed = files,
                           !.doomed = expired \cup Overflow(files \ expired)]
    <3>1. files \subseteq stored /\ expired \cup Overflow(files \ expired) \subseteq stored
      BY DEF RawTypeOK, Overflow
    <3>2. worker[w] \in Worker /\ UNCHANGED stored
      BY WorkerType DEF List
    <3>3. rec \in Worker'
      BY <3>1, <3>2 DEF Worker
    <3>4. worker' = [worker EXCEPT ![w] = rec]
      BY <2>1
    <3> QED
      BY <3>3, <3>4
  <2>2. CASE Rests(w, "done")
    BY <2>2, RestsType
  <2> QED
    BY <2>1, <2>2 DEF List
<1>2. Taken' = Taken /\ \E n \in 0..MaxTaken : stamp' \in [1..n -> 0..tick']
  BY StampSame DEF List
<1>3. mishaps' \in Nat
  BY DEF List, Mishap, NoMishap, RawTypeOK
<1> QED
  BY <1>1, <1>2, <1>3, TypesKept DEF List, RawTypeOK

LEMMA UnlinkType ==
    ASSUME RawTypeOK, NEW w \in Workers, Unlink(w)
    PROVE  RawTypeOK'
<1>1. PICK n \in worker[w].doomed, removed \in {0, 1}, kept \in {0, 1} :
          Strikes(w, n, removed, kept)
  BY DEF Unlink
<1> DEFINE rec == [worker[w] EXCEPT !.doomed = @ \ {n}, !.removed = @ + removed,
                                    !.kept = @ + kept]
<1>2. worker[w] \in Worker /\ UNCHANGED stored
  BY WorkerType DEF Unlink
<1>3. rec \in Worker'
  <2>1. /\ worker[w].doomed \ {n} \in SUBSET stored
        /\ worker[w].removed + removed \in Nat /\ worker[w].kept + kept \in Nat
    BY <1>2 DEF Worker
  <2> QED
    BY <1>2, <2>1 DEF Worker
<1>4. worker' = [worker EXCEPT ![w] = rec]
  BY <1>1 DEF Strikes
<1>5. \E v \in Workers, r \in Worker' : worker' = [worker EXCEPT ![v] = r]
  BY <1>3, <1>4
<1>6. Taken' = Taken /\ \E k \in 0..MaxTaken : stamp' \in [1..k -> 0..tick']
  BY StampSame DEF Unlink
<1>7. files' \subseteq files
  BY DEF Unlink
<1>8. mishaps' \in Nat
  BY DEF Unlink, Mishap, NoMishap, RawTypeOK
<1> QED
  BY <1>2, <1>8, <1>5, <1>6, <1>7, TypesKept DEF Unlink, RawTypeOK

LEMMA CountPrunedType ==
    ASSUME RawTypeOK, NEW w \in Workers, CountPruned(w)
    PROVE  RawTypeOK'
<1>1. Sink(w) \in Processes /\ worker[w].removed \in Nat
  BY WorkerType DEF Sink, Worker
<1>2. pruned' \in [Processes -> Nat]
  BY <1>1 DEF CountPruned, RawTypeOK
<1>3. \E v \in Workers, r \in Worker' : worker' = [worker EXCEPT ![v] = r]
  BY RestsType DEF CountPruned
<1>4. Taken' = Taken /\ \E n \in 0..MaxTaken : stamp' \in [1..n -> 0..tick']
  BY StampSame DEF CountPruned
<1> QED
  BY <1>2, <1>3, <1>4, TypesKept DEF CountPruned, RawTypeOK

LEMMA PassTimeType ==
    ASSUME RawTypeOK, PassTime
    PROVE  RawTypeOK'
<1>1. tick' \in Nat /\ tick <= tick'
  BY DEF PassTime, RawTypeOK
<1>2. Taken' = Taken /\ \E n \in 0..MaxTaken : stamp' \in [1..n -> 0..tick']
  BY <1>1, StampKept DEF PassTime
<1> QED
  BY <1>1, <1>2, TypesKept DEF PassTime, RawTypeOK

-----------------------------------------------------------------------------
(* What the cap leaves.                                                     *)

Above(surviving, n) == {m \in surviving : m > n}

\* The numbers of newer captures are all different, so at most MaxCaptures
\* of the surviving ones have fewer than MaxCaptures above them.
LEMMA OverflowLeavesTheCap ==
    ASSUME RawTypeOK, NEW surviving \in SUBSET Captures
    PROVE  Cardinality(surviving \ Overflow(surviving)) <= MaxCaptures
<1> DEFINE T == surviving \ Overflow(surviving)
           Rank == [n \in T |-> Cardinality(Above(surviving, n))]
<1>1. \A n \in surviving : Cardinality(Above(surviving, n)) \in Nat
  BY Finite DEF Above
<1>2. Rank \in [T -> 0..(MaxCaptures - 1)]
  <2>1. \A n \in T : ~(Cardinality(Above(surviving, n)) >= MaxCaptures)
    BY DEF Overflow, Above
  <2>2. \A n \in T : Cardinality(Above(surviving, n)) \in 0..(MaxCaptures - 1)
    BY <1>1, <2>1, Constants
  <2> QED
    BY <2>2
<1>3. \A n, m \in T : n < m => Rank[m] < Rank[n]
  <2> SUFFICES ASSUME NEW n \in T, NEW m \in T, n < m
               PROVE  Cardinality(Above(surviving, m)) < Cardinality(Above(surviving, n))
    OBVIOUS
  <2>1. Above(surviving, m) \cup {m} \subseteq Above(surviving, n) /\ m \notin Above(surviving, m)
    <3>1. n \in Nat /\ m \in Nat /\ m \in surviving /\ \A k \in surviving : k \in Nat
      BY Constants
    <3>2. \A k \in surviving : k > m => k > n
      BY <3>1
    <3>3. m > n /\ ~(m > m)
      BY <3>1
    <3> QED
      BY <3>1, <3>2, <3>3 DEF Above
  <2>2. IsFiniteSet(Above(surviving, m))
    BY Finite DEF Above
  <2>3. Cardinality(Above(surviving, m) \cup {m}) = Cardinality(Above(surviving, m)) + 1
    BY <2>1, <2>2, FS_AddElement
  <2>4. Cardinality(Above(surviving, m) \cup {m}) <= Cardinality(Above(surviving, n))
    BY <2>1, Finite DEF Above
  <2> QED
    BY <2>3, <2>4, <1>1
<1>4. \A n, m \in T : Rank[n] = Rank[m] => n = m
  <2> SUFFICES ASSUME NEW n \in T, NEW m \in T, Rank[n] = Rank[m]
               PROVE  n = m
    OBVIOUS
  <2>1. n \in Nat /\ m \in Nat /\ Rank[n] \in Nat /\ Rank[m] \in Nat
    BY <1>2, Constants
  <2>2. ~(n < m) /\ ~(m < n)
    BY <1>3, <2>1
  <2> QED
    BY <2>1, <2>2
<1>5. Rank \in Injection(T, 0..(MaxCaptures - 1))
  BY <1>2, <1>4 DEF Injection, IsInjective
<1>6. IsFiniteSet(0..(MaxCaptures - 1)) /\ Cardinality(0..(MaxCaptures - 1)) = MaxCaptures
  BY FS_Interval, Constants
<1> HIDE DEF T, Rank
<1>7. Cardinality(T) <= MaxCaptures
  BY <1>5, <1>6, FS_Injection
<1> QED
  BY <1>7 DEF T

-----------------------------------------------------------------------------
(* What is retired stays so.                                                *)

\* The clock and the captures ever stored only grow, and captured_at stays.
Grows ==
    /\ tick \in Nat /\ tick' \in Nat /\ tick <= tick'
    /\ stored \subseteq stored' /\ stored' \subseteq Captures
    /\ \A n \in Taken : stamp[n] \in Nat /\ stamp'[n] = stamp[n]

LEMMA RetiredStays ==
    ASSUME RawTypeOK, Grows, NEW n \in Taken, Retired(n)
    PROVE  Retired(n)'
<1>1. CASE Expired(n)
  BY <1>1, Constants DEF Expired, Grows, Retired
<1>2. CASE Cardinality(Newer(n)) >= MaxCaptures
  <2>1. Newer(n) \subseteq Newer(n)' /\ Newer(n)' \in SUBSET Captures
    BY DEF Grows, Newer
  <2>2. Cardinality(Newer(n)) <= Cardinality(Newer(n)')
    BY <2>1, Finite
  <2>3. Cardinality(Newer(n)) \in Nat /\ Cardinality(Newer(n)') \in Nat
    BY <2>1, Finite
  <2>4. Cardinality(Newer(n)') >= MaxCaptures
    BY <1>2, <2>2, <2>3, Constants
  <2> QED
    BY <2>4 DEF Retired
<1> QED
  BY <1>1, <1>2 DEF Retired

\* Every step lets them grow.
LEMMA StepGrows ==
    ASSUME RawTypeOK, WorkersOK, RawNext, RawTypeOK'
    PROVE  Grows
<1>1. tick \in Nat /\ tick' \in Nat /\ tick <= tick'
  <2>1. tick \in Nat
    BY DEF RawTypeOK
  <2>2. tick' = tick \/ tick' = tick + 1
    BY DEF RawNext, Take, Put, CountWritten, MaybePrune, List, Unlink,
       CountPruned, RunScript, PassTime
  <2> QED
    BY <2>1, <2>2
<1>2. stored \subseteq stored'
  BY DEF RawNext, Take, Put, CountWritten, MaybePrune, List, Unlink,
       CountPruned, RunScript, PassTime
<1>3. stored' \subseteq Captures
  <2>1. PICK k \in 0..MaxTaken : stamp' \in [1..k -> 0..tick']
    BY DEF RawTypeOK
  <2>2. Taken' = 1..k /\ 1..k \subseteq 1..MaxTaken
    BY <2>1, Constants DEF Taken
  <2> QED
    BY <2>2 DEF RawTypeOK, Captures
<1>4. \A n \in Taken : stamp[n] \in Nat
  BY TakenRange
<1>5. \A n \in Taken : stamp'[n] = stamp[n]
  <2>1. CASE UNCHANGED stamp
    BY <2>1
  <2>2. ASSUME NEW s \in Sinks, Take(s)
        PROVE  \A n \in Taken : stamp'[n] = stamp[n]
    <3>1. PICK k \in 0..MaxTaken : Taken = 1..k /\ Cardinality(Taken) = k
      BY TakenRange
    <3>2. stamp' = [m \in 1..(k + 1) |-> IF m \in Taken THEN stamp[m] ELSE tick]
      BY <2>2, <3>1 DEF Take
    <3>3. \A n \in Taken : n \in 1..(k + 1)
      BY <3>1
    <3> QED
      BY <3>2, <3>3
  <2> QED
    BY <2>1, <2>2 DEF RawNext, Put, CountWritten, MaybePrune, List, Unlink,
       CountPruned, RunScript, PassTime
<1> QED
  BY <1>1, <1>2, <1>3, <1>4, <1>5 DEF Grows

-----------------------------------------------------------------------------
(* RawInv is inductive.                                                     *)

\* The worker a step is about, and the others.
LEMMA TypeStep ==
    ASSUME RawTypeOK, WorkersOK, RawNext
    PROVE  RawTypeOK'
  BY TakeType, PutType, CountWrittenType, MaybePruneType, ListType, UnlinkType, CountPrunedType,
     RunScriptType, PassTimeType DEF RawNext

LEMMA RestsRecord ==
    ASSUME RawTypeOK, NEW w \in Workers, NEW at, Rests(w, at)
    PROVE  /\ worker'[w] = Resting(at, Sink(w))
           /\ \A v \in Workers \ {w} : worker'[v] = worker[v]
  BY WorkerType DEF Rests

LEMMA StrikesRecord ==
    ASSUME RawTypeOK, NEW w \in Workers, NEW n, NEW removed, NEW kept,
           Strikes(w, n, removed, kept)
    PROVE  /\ worker'[w].at = worker[w].at
           /\ worker'[w].listed = worker[w].listed
           /\ worker'[w].doomed = worker[w].doomed \ {n}
           /\ worker'[w].kept = worker[w].kept + kept
           /\ \A v \in Workers \ {w} : worker'[v] = worker[v]
<1>1. worker[w] \in Worker
  BY WorkerType
<1>2. worker'[w] = [worker[w] EXCEPT !.doomed = @ \ {n}, !.removed = @ + removed,
                                     !.kept = @ + kept]
  BY WorkerType DEF Strikes
<1> QED
  BY <1>1, <1>2, WorkerType DEF Strikes, Worker

LEMMA RestsWorkers ==
    ASSUME RawTypeOK, WorkersOK, UNCHANGED <<tick, stamp, stored>>,
           NEW w \in Workers, NEW at \in {"list", "done"}, Rests(w, at)
    PROVE  WorkersOK'
<1>1. /\ worker'[w].at = at /\ worker'[w].doomed = {}
      /\ \A v \in Workers \ {w} : worker'[v] = worker[v]
  <2>1. /\ worker'[w] = Resting(at, Sink(w))
        /\ \A v \in Workers \ {w} : worker'[v] = worker[v]
    BY RestsRecord
  <2> QED
    BY <2>1 DEF Resting
<1>2. Taken' = Taken /\ stored' = stored
  BY StampSame
<1> QED
  BY <1>1, <1>2 DEF WorkersOK

LEMMA WorkersStep ==
    ASSUME RawTypeOK, WorkersOK, RawNext
    PROVE  WorkersOK'
<1> USE DEF WorkersOK
<1>1. ASSUME NEW s \in Sinks, Take(s) PROVE WorkersOK'
  <2>1. PICK k \in 0..MaxTaken : Taken = 1..k /\ Cardinality(Taken) = k
    BY TakenRange
  <2>2. k + 1 \in Workers /\ worker' = [worker EXCEPT ![k + 1] = Resting("open", s)]
    BY <1>1, <2>1, Constants DEF Take
  <2>3. DOMAIN stamp' = 1..(k + 1)
    BY <1>1, <2>1 DEF Take
  <2>4. k + 1 \in Taken' /\ k + 1 \notin Taken /\ Taken \subseteq Taken'
    BY <2>1, <2>3 DEF Taken
  <2>5. k + 1 \notin stored /\ UNCHANGED stored
    BY <1>1, <2>4 DEF Take, RawTypeOK
  <2>6. /\ worker'[k + 1] = Resting("open", s)
        /\ \A v \in Workers \ {k + 1} : worker'[v] = worker[v]
    BY <2>2, WorkerType
  <2> QED
    BY <2>4, <2>5, <2>6 DEF Resting
<1>2. ASSUME NEW w \in Workers, Put(w) PROVE WorkersOK'
  <2>1. w \in Taken' /\ Taken' = Taken
    BY <1>2, StampSame DEF Put
  <2>2. /\ worker'[w] \in {Resting("count", Sink(w)), Resting("done", Sink(w))}
        /\ \A v \in Workers \ {w} : worker'[v] = worker[v]
    BY <1>2, RestsRecord DEF Put
  <2>3. stored' \subseteq stored \cup {w}
    BY <1>2 DEF Put
  <2> QED
    BY <2>1, <2>2, <2>3 DEF Resting
<1>3. ASSUME NEW w \in Workers, CountWritten(w) PROVE WorkersOK'
  <2>1. Taken' = Taken /\ UNCHANGED stored
    BY <1>3, StampSame DEF CountWritten
  <2>2. /\ worker'[w].at = "due" /\ worker'[w].doomed \subseteq worker'[w].listed
        /\ \A v \in Workers \ {w} : worker'[v] = worker[v]
    <3>1. /\ worker'[w] = [worker[w] EXCEPT !.at = "due", !.now = tick]
          /\ \A v \in Workers \ {w} : worker'[v] = worker[v]
      BY <1>3, CountWrittenRecord
    <3>2. worker[w] \in Worker /\ worker[w].doomed \subseteq worker[w].listed
      BY WorkerType DEF WorkersOK
    <3> QED
      BY <3>1, <3>2 DEF Worker
  <2> QED
    BY <2>1, <2>2 DEF WorkersOK
<1>4. ASSUME NEW w \in Workers, List(w) PROVE WorkersOK'
  <2>1. Taken' = Taken /\ UNCHANGED stored
    BY <1>4, StampSame DEF List
  <2> DEFINE doomed == {n \in files : Expired(n)}
                           \cup Overflow(files \ {n \in files : Expired(n)})
  <2>2. CASE worker' = [worker EXCEPT ![w].at = "unlink", ![w].listed = files,
                                      ![w].doomed = doomed]
    <3>1. worker[w] \in Worker
      BY WorkerType
    <3>2. /\ worker'[w] = [worker[w] EXCEPT !.at = "unlink", !.listed = files,
                                            !.doomed = doomed]
          /\ \A v \in Workers \ {w} : worker'[v] = worker[v]
      BY <2>2, WorkerType
    <3>3. worker'[w].at = "unlink" /\ worker'[w].listed = files /\ worker'[w].doomed = doomed
      BY <3>1, <3>2 DEF Worker
    <3>4. doomed \subseteq files
      BY DEF Overflow
    <3> HIDE DEF doomed
    <3> QED
      BY <2>1, <3>2, <3>3, <3>4
  <2>3. CASE Rests(w, "done")
    BY <1>4, <2>3, RestsWorkers DEF List
  <2> QED
    BY <1>4, <2>2, <2>3 DEF List
<1>5. ASSUME NEW w \in Workers, Unlink(w) PROVE WorkersOK'
  <2>1. Taken' = Taken /\ UNCHANGED stored
    BY <1>5, StampSame DEF Unlink
  <2>2. PICK n \in worker[w].doomed, kept \in {0, 1}, removed \in {0, 1} :
            Strikes(w, n, removed, kept)
    BY <1>5 DEF Unlink
  <2>3. /\ worker'[w].at = worker[w].at
        /\ worker'[w].listed = worker[w].listed
        /\ worker'[w].doomed = worker[w].doomed \ {n}
        /\ \A v \in Workers \ {w} : worker'[v] = worker[v]
    BY <2>2, StrikesRecord
  <2> QED
    BY <2>1, <2>3
<1>6. ASSUME NEW w \in Workers, CountPruned(w) PROVE WorkersOK'
  BY <1>6, RestsWorkers DEF CountPruned
<1>7. ASSUME RunScript PROVE WorkersOK'
  BY <1>7, RestsWorkers, Constants DEF RunScript
<1>8. ASSUME PassTime PROVE WorkersOK'
  BY <1>8 DEF PassTime, Taken
<1>9. ASSUME NEW w \in Workers, MaybePrune(w) PROVE WorkersOK'
  BY <1>9, RestsWorkers DEF MaybePrune
<1> QED
  BY <1>1, <1>2, <1>3, <1>4, <1>5, <1>6, <1>7, <1>8, <1>9 DEF RawNext

\* What a listing dooms is retired by then.
LEMMA ListDoomsRetired ==
    ASSUME RawTypeOK, NEW w \in Workers, List(w), NEW n \in worker'[w].doomed
    PROVE  n \in files /\ Retired(n)
<1> DEFINE expired == {m \in files : Expired(m)}
<1>1. CASE Rests(w, "done")
  <2>1. worker'[w] = Resting("done", Sink(w))
    BY <1>1, RestsRecord
  <2> QED
    BY <2>1 DEF Resting
<1>2. CASE worker' = [worker EXCEPT ![w].at = "unlink", ![w].listed = files,
                                    ![w].doomed = expired \cup Overflow(files \ expired)]
  <2>1. worker[w] \in Worker
    BY WorkerType
  <2>2. worker'[w] = [worker[w] EXCEPT !.at = "unlink", !.listed = files,
                          !.doomed = expired \cup Overflow(files \ expired)]
    BY <1>2, WorkerType
  <2>3. n \in expired \/ n \in Overflow(files \ expired)
    BY <2>1, <2>2 DEF Worker
  <2>4. CASE n \in Overflow(files \ expired)
    <3>1. /\ n \in files
          /\ Cardinality({m \in files \ expired : m > n}) >= MaxCaptures
      BY <2>4 DEF Overflow
    <3>2. {m \in files \ expired : m > n} \subseteq Newer(n) /\ Newer(n) \in SUBSET Captures
      BY StoredRange DEF Newer, RawTypeOK
    <3>3. /\ Cardinality({m \in files \ expired : m > n}) <= Cardinality(Newer(n))
          /\ Cardinality({m \in files \ expired : m > n}) \in Nat
          /\ Cardinality(Newer(n)) \in Nat
      BY <3>2, Finite
    <3>4. Cardinality(Newer(n)) >= MaxCaptures
      BY <3>1, <3>3, Constants
    <3> QED
      BY <3>1, <3>4 DEF Retired
  <2> QED
    BY <2>3, <2>4 DEF Retired
<1> QED
  BY <1>1, <1>2 DEF List

LEMMA RetiredStep ==
    ASSUME RawTypeOK, WorkersOK, RetiredOnly, RawNext
    PROVE  RetiredOnly'
<1>1. \A n \in stored : Retired(n) => Retired(n)'
  BY TypeStep, StepGrows, RetiredStays DEF RawTypeOK
<1>2. \A w \in Workers : worker[w].doomed \subseteq stored
  BY WorkerType DEF Worker
<1>3. \A n \in stored' \ files' : n \in stored /\ Retired(n)
  <2>1. ASSUME NEW w \in Workers, Unlink(w)
        PROVE  stored' = stored /\ \A n \in files \ files' : n \in worker[w].doomed
    BY <2>1 DEF Unlink
  <2>2. ASSUME NEW w \in Workers, Put(w)
        PROVE  stored' \ files' \subseteq stored \ files
    BY <2>2 DEF Put
  <2>3. ASSUME UNCHANGED <<stored, files>>
        PROVE  stored' \ files' \subseteq stored \ files
    BY <2>3
  <2> QED
    BY <2>1, <2>2, <2>3 DEF RawNext, Take, CountWritten, MaybePrune, List, CountPruned, RunScript,
       PassTime, RetiredOnly
<1>4. \A w \in Workers : \A n \in worker'[w].doomed : n \in stored /\ Retired(n)
  <2>1. ASSUME NEW v \in Workers, worker'[v].doomed = {},
               \A u \in Workers \ {v} : worker'[u] = worker[u]
        PROVE  \A w \in Workers : \A n \in worker'[w].doomed : n \in stored /\ Retired(n)
    BY <1>2, <2>1 DEF RetiredOnly
  <2>2. ASSUME NEW v \in Workers, NEW at, Rests(v, at)
        PROVE  worker'[v].doomed = {} /\ \A u \in Workers \ {v} : worker'[u] = worker[u]
    <3>1. /\ worker'[v] = Resting(at, Sink(v))
          /\ \A u \in Workers \ {v} : worker'[u] = worker[u]
      BY <2>2, RestsRecord
    <3> QED
      BY <3>1 DEF Resting
  <2>3. ASSUME NEW s \in Sinks, Take(s)
        PROVE  \E v \in Workers : /\ worker'[v].doomed = {}
                                  /\ \A u \in Workers \ {v} : worker'[u] = worker[u]
    <3> DEFINE k == Cardinality(Taken) + 1
    <3>1. k \in Workers /\ worker' = [worker EXCEPT ![k] = Resting("open", s)]
      BY <2>3 DEF Take, Workers
    <3>2. /\ worker'[k] = Resting("open", s)
          /\ \A u \in Workers \ {k} : worker'[u] = worker[u]
      BY <3>1, WorkerType
    <3> QED
      BY <3>1, <3>2 DEF Resting
  <2>4. ASSUME NEW v \in Workers, Unlink(v)
        PROVE  \A w \in Workers : worker'[w].doomed \subseteq worker[w].doomed
    <3>1. PICK n \in worker[v].doomed, kept \in {0, 1}, removed \in {0, 1} :
              Strikes(v, n, removed, kept)
      BY <2>4 DEF Unlink
    <3>2. /\ worker'[v].doomed = worker[v].doomed \ {n}
          /\ \A u \in Workers \ {v} : worker'[u] = worker[u]
      BY <3>1, StrikesRecord
    <3> QED
      BY <3>2
  <2>5. ASSUME NEW v \in Workers, List(v)
        PROVE  \A w \in Workers : \A n \in worker'[w].doomed : n \in stored /\ Retired(n)
    <3>1. \A u \in Workers \ {v} : worker'[u] = worker[u]
      BY <2>5, WorkerType, RestsRecord DEF List
    <3>2. \A n \in worker'[v].doomed : n \in stored /\ Retired(n)
      BY <2>5, ListDoomsRetired DEF RawTypeOK
    <3> QED
      BY <3>1, <3>2, <1>2 DEF RetiredOnly
  <2>6. ASSUME NEW v \in Workers, Put(v) \/ MaybePrune(v) \/ CountPruned(v)
        PROVE  \E at : Rests(v, at)
    BY <2>6 DEF Put, MaybePrune, CountPruned
  <2>7. RunScript => \E at : Rests(0, at)
    BY DEF RunScript
  <2>8. PassTime => worker' = worker
    BY DEF PassTime
  <2>9. ASSUME NEW v \in Workers, \E at : Rests(v, at)
        PROVE  \A w \in Workers : \A n \in worker'[w].doomed : n \in stored /\ Retired(n)
    BY <2>1, <2>2, <2>9
  <2>10. CASE \E s \in Sinks : Take(s)
    BY <2>1, <2>3, <2>10
  <2>11. CASE \E v \in Workers : Unlink(v)
    BY <2>4, <2>11, <1>2 DEF RetiredOnly
  <2>12. CASE PassTime
    BY <2>8, <2>12, <1>2 DEF RetiredOnly
  <2>13. CASE RunScript
    BY <2>7, <2>9, <2>13, Constants
  <2>14. CASE \E v \in Workers : Put(v) \/ MaybePrune(v) \/ CountPruned(v)
    BY <2>6, <2>9, <2>14
  <2>15. ASSUME NEW v \in Workers, CountWritten(v)
         PROVE  \A w \in Workers : worker'[w].doomed = worker[w].doomed
    BY <2>15, CountWrittenRecord, WorkerType DEF Worker
  <2>16. CASE \E v \in Workers : CountWritten(v)
    BY <2>15, <2>16, <1>2 DEF RetiredOnly
  <2> QED
    BY <2>5, <2>10, <2>11, <2>12, <2>13, <2>14, <2>16 DEF RawNext
<1>5. \A n \in stored' \ files' : Retired(n)'
  BY <1>1, <1>3
<1>6. \A w \in Workers : \A n \in worker'[w].doomed : Retired(n)'
  BY <1>1, <1>4
<1> QED
  BY <1>5, <1>6 DEF RetiredOnly

CapHolds(w) ==
    worker[w].at = "unlink" => Cardinality(Left(w)) <= MaxCaptures + worker[w].kept

\* A worker that lost nothing but files, or kept one more of them.
LEMMA LeftKept ==
    ASSUME RawTypeOK, RawTypeOK', NEW w \in Workers, CapHolds(w), worker[w].at = "unlink",
           NEW more \in SUBSET Captures,
           Left(w)' \subseteq Left(w) \cup more,
           more = {} \/ \E n : more = {n},
           worker'[w].kept = worker[w].kept + Cardinality(more)
    PROVE  CapHolds(w)'
<1>1. worker[w].kept \in Nat
  BY WorkerType DEF Worker
<1>2. Left(w) \in SUBSET Captures
  BY StoredRange DEF Left
<1>3. IsFiniteSet(Left(w)) /\ Cardinality(Left(w)) \in Nat /\ Cardinality(more) \in Nat
  BY <1>2, Finite
<1>4. Cardinality(Left(w) \cup more) <= Cardinality(Left(w)) + Cardinality(more)
  <2>1. CASE more = {}
    <3>1. Left(w) \cup more = Left(w)
      BY <2>1
    <3>2. Cardinality(Left(w) \cup more) = Cardinality(Left(w))
      BY <3>1, Zenon
    <3>3. Cardinality(more) = 0
      BY <2>1, FS_EmptySet
    <3> QED
      BY <1>3, <3>2, <3>3
  <2>2. ASSUME NEW n, more = {n}
        PROVE  Cardinality(Left(w) \cup more) <= Cardinality(Left(w)) + Cardinality(more)
    <3>1. Cardinality(more) = 1
      BY <2>2, FS_Singleton
    <3>2. Cardinality(Left(w) \cup {n}) \in {Cardinality(Left(w)), Cardinality(Left(w)) + 1}
      BY <1>3, FS_AddElement
    <3> QED
      BY <2>2, <3>1, <3>2, <1>3
  <2> QED
    BY <2>1, <2>2
<1>5. Left(w) \cup more \in SUBSET Captures
  BY <1>2
<1>6. Cardinality(Left(w)') <= Cardinality(Left(w) \cup more) /\ Cardinality(Left(w)') \in Nat
  BY <1>5, Finite
<1>7. Cardinality(Left(w) \cup more) \in Nat
  BY <1>5, Finite
<1>8. Cardinality(Left(w)) <= MaxCaptures + worker[w].kept
  BY DEF CapHolds
<1>9. Cardinality(Left(w)') <= MaxCaptures + worker'[w].kept
  BY <1>1, <1>3, <1>4, <1>6, <1>7, <1>8, Constants
<1> QED
  BY <1>9 DEF CapHolds

LEMMA CapStep ==
    ASSUME RawTypeOK, WorkersOK, WithinCap, RawNext
    PROVE  WithinCap'
<1>1. RawTypeOK'
  BY TypeStep
<1>2. \A v \in Workers : CapHolds(v)
  BY DEF WithinCap, CapHolds
<1>3. \A v \in Workers : worker[v].listed \cap files' \subseteq files
  <2>1. \A v \in Workers : worker[v].listed \subseteq stored
    BY WorkerType DEF Worker
  <2>2. ASSUME NEW w \in Workers, Put(w)
        PROVE  \A v \in Workers : worker[v].listed \cap files' \subseteq files
    BY <2>1, <2>2 DEF Put, WorkersOK
  <2> QED
    BY <2>2 DEF RawNext, Take, CountWritten, MaybePrune, List, Unlink,
       CountPruned, RunScript, PassTime
<1>4. ASSUME NEW v \in Workers, worker'[v] = worker[v]
      PROVE  CapHolds(v)'
  <2>1. CASE worker[v].at # "unlink"
    BY <1>4, <2>1 DEF CapHolds
  <2>2. CASE worker[v].at = "unlink"
    <3>1. Left(v)' \subseteq Left(v) \cup {}
      BY <1>3, <1>4 DEF Left
    <3>2. worker'[v].kept = worker[v].kept + Cardinality({})
      <4>1. worker[v].kept \in Nat
        BY WorkerType DEF Worker
      <4> QED
        BY <1>4, <4>1, FS_EmptySet
    <3> QED
      BY <1>1, <1>2, <2>2, <3>1, <3>2, LeftKept
  <2> QED
    BY <2>1, <2>2
<1>5. ASSUME NEW v \in Workers, NEW at \in {"open", "count", "due", "list", "done"},
             NEW s, worker'[v] = Resting(at, s)
      PROVE  CapHolds(v)'
  <2>1. worker'[v].at # "unlink"
    BY <1>5 DEF Resting
  <2> QED
    BY <2>1 DEF CapHolds
<1>6. ASSUME NEW w \in Workers, NEW at \in {"open", "count", "due", "list", "done"}, Rests(w, at)
      PROVE  \A v \in Workers : CapHolds(v)'
  <2>1. /\ worker'[w] = Resting(at, Sink(w))
        /\ \A v \in Workers \ {w} : worker'[v] = worker[v]
    BY <1>6, RestsRecord
  <2>2. CapHolds(w)'
    BY <1>5, <2>1
  <2>3. \A v \in Workers \ {w} : CapHolds(v)'
    BY <1>4, <2>1
  <2> QED
    BY <2>2, <2>3
<1>7. ASSUME NEW s \in Sinks, Take(s)
      PROVE  \A v \in Workers : CapHolds(v)'
  <2>1. PICK k \in Workers : worker' = [worker EXCEPT ![k] = Resting("open", s)]
    BY <1>7 DEF Take, Workers
  <2>2. worker'[k] = Resting("open", s) /\ \A v \in Workers \ {k} : worker'[v] = worker[v]
    BY <2>1, WorkerType
  <2>3. CapHolds(k)'
    BY <1>5, <2>2
  <2>4. \A v \in Workers \ {k} : CapHolds(v)'
    BY <1>4, <2>2
  <2> QED
    BY <2>3, <2>4
<1>8. ASSUME NEW w \in Workers, Unlink(w)
      PROVE  \A v \in Workers : CapHolds(v)'
  <2>1. worker[w] \in Worker /\ worker[w].at = "unlink"
    BY <1>8, WorkerType DEF Unlink
  <2>2. ASSUME NEW n \in worker[w].doomed, NEW kept, NEW removed, Strikes(w, n, removed, kept)
        PROVE  /\ worker'[w].kept = worker[w].kept + kept
               /\ Left(w)' \subseteq Left(w) \cup ({n} \cap files')
               /\ \A v \in Workers \ {w} : worker'[v] = worker[v]
    <3>1. /\ worker'[w].listed = worker[w].listed
          /\ worker'[w].doomed = worker[w].doomed \ {n}
          /\ worker'[w].kept = worker[w].kept + kept
          /\ \A v \in Workers \ {w} : worker'[v] = worker[v]
      BY <2>2, StrikesRecord
    <3> QED
      BY <3>1, <1>3 DEF Left
  <2>3. PICK n \in worker[w].doomed, more \in SUBSET Captures, removed \in {0, 1} :
            /\ Strikes(w, n, removed, Cardinality(more))
            /\ {n} \cap files' \subseteq more
            /\ more = {} \/ more = {n}
    <3>1. PICK n \in worker[w].doomed :
              \/ n \in files /\ files' = files \ {n} /\ Strikes(w, n, 1, 0)
              \/ n \notin files /\ UNCHANGED files /\ Strikes(w, n, 0, 0)
              \/ n \in files /\ UNCHANGED files /\ Strikes(w, n, 0, 1)
      BY <1>8 DEF Unlink
    <3>2. Cardinality({}) = 0 /\ Cardinality({n}) = 1
      BY FS_EmptySet, FS_Singleton
    <3>3. CASE n \notin files'
      BY <3>1, <3>2, <3>3
    <3>4. CASE n \in files'
      <4>1. Strikes(w, n, 0, 1)
        BY <3>1, <3>4
      <4>2. {n} \in SUBSET Captures
        BY <3>1, <3>4, StoredRange
      <4> QED
        BY <3>2, <4>1, <4>2
    <3> QED
      BY <3>3, <3>4
  <2>4. /\ worker'[w].kept = worker[w].kept + Cardinality(more)
        /\ Left(w)' \subseteq Left(w) \cup more
        /\ \A v \in Workers \ {w} : worker'[v] = worker[v]
    BY <2>2, <2>3
  <2>5. CapHolds(w)'
    BY <1>1, <1>2, <2>1, <2>3, <2>4, LeftKept
  <2>6. \A v \in Workers \ {w} : CapHolds(v)'
    BY <1>4, <2>4
  <2> QED
    BY <2>5, <2>6
<1>9. ASSUME NEW w \in Workers, List(w)
      PROVE  \A v \in Workers : CapHolds(v)'
  <2> DEFINE expired == {n \in files : Expired(n)}
             doomed == expired \cup Overflow(files \ expired)
  <2>1. CASE worker' = [worker EXCEPT ![w].at = "unlink", ![w].listed = files,
                                      ![w].doomed = doomed]
    <3>1. worker[w] \in Worker
      BY WorkerType
    <3>2. /\ worker'[w] = [worker[w] EXCEPT !.at = "unlink", !.listed = files,
                               !.doomed = doomed]
          /\ \A v \in Workers \ {w} : worker'[v] = worker[v]
      BY <2>1, WorkerType
    <3>3. worker'[w].listed = files /\ worker'[w].doomed = doomed /\ worker'[w].kept \in Nat
      BY <3>1, <3>2 DEF Worker
    <3>4. Left(w)' = (files \ expired) \ Overflow(files \ expired)
      BY <1>9, <3>3 DEF Left, List
    <3>5. files \ expired \in SUBSET Captures
      BY StoredRange
    <3>6. Cardinality(Left(w)') <= MaxCaptures
      <4> HIDE DEF expired
      <4> QED
        BY <3>4, <3>5, OverflowLeavesTheCap
    <3>7. Left(w)' \in SUBSET Captures
      <4> HIDE DEF expired
      <4> QED
        BY <3>4, <3>5
    <3>8. Cardinality(Left(w)') \in Nat
      BY <3>7, Finite
    <3>9. CapHolds(w)'
      BY <3>3, <3>6, <3>8, Constants DEF CapHolds
    <3>10. \A v \in Workers \ {w} : CapHolds(v)'
      BY <1>4, <3>2
    <3> QED
      BY <3>9, <3>10
  <2>2. CASE Rests(w, "done")
    BY <1>6, <2>2
  <2> QED
    BY <1>9, <2>1, <2>2 DEF List
<1>10. ASSUME NEW w \in Workers, Put(w) \/ MaybePrune(w) \/ CountPruned(w)
       PROVE  \A v \in Workers : CapHolds(v)'
  <2>1. \E at \in {"open", "count", "list", "done"} : Rests(w, at)
    BY <1>10 DEF Put, MaybePrune, CountPruned
  <2> QED
    BY <1>6, <2>1
<1>11. ASSUME NEW w \in Workers, CountWritten(w)
        PROVE  \A v \in Workers : CapHolds(v)'
  <2>1. worker'[w].at = "due" /\ \A v \in Workers \ {w} : worker'[v] = worker[v]
    BY <1>11, CountWrittenRecord, WorkerType DEF Worker
  <2>2. CapHolds(w)'
    BY <2>1 DEF CapHolds
  <2>3. \A v \in Workers \ {w} : CapHolds(v)'
    BY <1>4, <2>1
  <2> QED
    BY <2>2, <2>3
<1>12. ASSUME RunScript
       PROVE  \A v \in Workers : CapHolds(v)'
  BY <1>6, <1>12, Constants DEF RunScript
<1>13. ASSUME PassTime
       PROVE  \A v \in Workers : CapHolds(v)'
  BY <1>4, <1>13 DEF PassTime
<1>14. \A v \in Workers : CapHolds(v)'
  BY <1>7, <1>8, <1>9, <1>10, <1>11, <1>12, <1>13 DEF RawNext
<1> QED
  BY <1>14 DEF WithinCap, CapHolds

-----------------------------------------------------------------------------

LEMMA InvInit == RawInit => RawInv
<1> SUFFICES ASSUME RawInit PROVE RawInv
  OBVIOUS
<1>1. RawTypeOK
  BY TypeInit
<1>2. \A w \in Workers : worker[w].at = "idle" /\ worker[w].doomed = {}
                            /\ worker[w].listed = {}
  BY DEF RawInit, Resting
<1>3. WorkersOK /\ WithinCap
  BY <1>2 DEF WorkersOK, WithinCap
<1>4. RetiredOnly
  BY <1>2 DEF RetiredOnly, RawInit
<1> QED
  BY <1>1, <1>3, <1>4 DEF RawInv

LEMMA InvStep == RawInv /\ [RawNext]_rawVars => RawInv'
<1> SUFFICES ASSUME RawInv, [RawNext]_rawVars PROVE RawInv'
  OBVIOUS
<1>1. CASE RawNext
  BY <1>1, TypeStep, WorkersStep, RetiredStep, CapStep DEF RawInv
<1>2. CASE UNCHANGED rawVars
  <2>1. RawTypeOK'
    BY <1>2 DEF rawVars, RawInv, RawTypeOK, Taken
  <2>2. (WorkersOK /\ RetiredOnly /\ WithinCap)'
    BY <1>2 DEF rawVars, RawInv, WorkersOK, RetiredOnly, WithinCap, Retired, Newer,
       Expired, Left, Taken
  <2> QED
    BY <2>1, <2>2 DEF RawInv
<1> QED
  BY <1>1, <1>2

\* Every variable keeps its type, the counters and times among them.
THEOREM RawTypeCorrect == RawSpec => []RawTypeOK
<1>1. RawInv => RawTypeOK
  BY DEF RawInv
<1> QED
  BY <1>1, InvInit, InvStep, PTL DEF RawSpec

\* A capture is lost to the retention rules only, whatever processes write and
\* prune at the same time and whichever accesses to the file system fail.
THEOREM OnlyRetiredAreGoneAlways == RawSpec => []OnlyRetiredAreGone
<1>1. RawInv => OnlyRetiredAreGone
  BY DEF RawInv, RetiredOnly, Retired, Newer, OnlyRetiredAreGone
<1> QED
  BY <1>1, InvInit, InvStep, PTL DEF RawSpec

\* A prune that has gone through its listing leaves no more than the cap of it,
\* but for the files it could not remove.
THEOREM PruneLeavesTheCapAlways == RawSpec => []PruneLeavesTheCap
<1>1. RawInv => PruneLeavesTheCap
  <2> SUFFICES ASSUME RawInv, NEW w \in Workers, Finished(w)
               PROVE  Cardinality(worker[w].listed \cap files) <= MaxCaptures + worker[w].kept
    BY DEF PruneLeavesTheCap
  <2>1. Left(w) = worker[w].listed \cap files
    BY DEF Left, Finished
  <2> QED
    BY <2>1 DEF RawInv, WithinCap, Finished
<1> QED
  BY <1>1, InvInit, InvStep, PTL DEF RawSpec

-----------------------------------------------------------------------------
(* The counters.                                                            *)
(*                                                                         *)
(* A sum over the processes is the size of a heap: of each process as many *)
(* pairs as its counter says.  A step moves one worker and changes one set *)
(* or one counter on either side alike.                                    *)

\* g sums f over every set of its arguments, one argument after the other.
IsSum(f, g) ==
    g = [s \in SUBSET DOMAIN f |->
            IF s = {} THEN 0 ELSE f[CHOOSE x \in s : TRUE] + g[s \ {CHOOSE x \in s : TRUE}]]

LEMMA SumIsFold ==
    ASSUME NEW f
    PROVE  SumFunction(f) = (CHOOSE g : IsSum(f, g))[DOMAIN f]
BY DEF SumFunction, SumFunctionOnSet, FoldFunctionOnSet, MapThenFoldSet, IsSum

\* A function's values as a set: of each of s as many pairs as its value says.
Heap(f, s) == UNION {{x} \X (1..f[x]) : x \in s}

LEMMA HeapElement ==
    ASSUME NEW f, NEW s, NEW p
    PROVE  p \in Heap(f, s) <=> \E x \in s : p \in {x} \X (1..f[x])
BY DEF Heap

LEMMA HeapIsFinite ==
    ASSUME NEW D, IsFiniteSet(D), NEW f \in [D -> Nat], NEW s \in SUBSET D
    PROVE  IsFiniteSet(Heap(f, s)) /\ Cardinality(Heap(f, s)) \in Nat
<1> DEFINE T == {{x} \X (1..f[x]) : x \in s}
           F == [x \in s |-> {x} \X (1..f[x])]
<1>1. IsFiniteSet(s)
  BY FS_Subset
<1>2. F \in Surjection(s, T)
  BY DEF Surjection
<1>3. IsFiniteSet(T)
  BY <1>1, <1>2, FS_Surjection
<1>4. ASSUME NEW x \in s PROVE IsFiniteSet({x} \X (1..f[x]))
  <2>0. f[x] \in Nat
    OBVIOUS
  <2>1. IsFiniteSet({x})
    BY FS_Singleton
  <2>2. 1 \in Int /\ f[x] \in Int
    BY <2>0
  <2>3. IsFiniteSet(1..f[x])
    BY <2>2, FS_Interval
  <2> QED
    BY <2>1, <2>3, FS_Product
<1>5. \A A \in T : IsFiniteSet(A)
  BY <1>4
<1>6. IsFiniteSet(UNION T)
  <2> HIDE DEF T
  <2> QED
    BY <1>3, <1>5, FS_UNION
<1> QED
  BY <1>6, FS_CardinalityType DEF Heap

LEMMA HeapSplits ==
    ASSUME NEW D, IsFiniteSet(D), NEW f \in [D -> Nat], NEW s \in SUBSET D, NEW x \in s
    PROVE  Cardinality(Heap(f, s)) = f[x] + Cardinality(Heap(f, s \ {x}))
<1> DEFINE A == Heap(f, s \ {x})
           B == {x} \X (1..f[x])
<1>1. IsFiniteSet(A) /\ Cardinality(A) \in Nat
  BY HeapIsFinite
<1>2. IsFiniteSet(B) /\ Cardinality(B) = f[x]
  <2>1. IsFiniteSet({x}) /\ Cardinality({x}) = 1
    BY FS_Singleton
  <2>2. f[x] \in Nat
    OBVIOUS
  <2>3. IsFiniteSet(1..f[x]) /\ Cardinality(1..f[x]) = f[x]
    BY <2>2, FS_Interval
  <2>4. IsFiniteSet(B) /\ Cardinality(B) = 1 * f[x]
    BY <2>1, <2>3, FS_Product
  <2> QED
    BY <2>2, <2>4
<1>3. Heap(f, s) = A \cup B
  <2>1. \A p : p \in Heap(f, s) <=> p \in A \/ p \in B
    BY HeapElement
  <2> QED
    BY <2>1
<1>4. A \cap B = {}
  <2> SUFFICES ASSUME NEW p \in A, p \in B PROVE FALSE
    OBVIOUS
  <2>1. PICK y \in s \ {x} : p \in {y} \X (1..f[y])
    BY HeapElement
  <2>2. p[1] = y /\ p[1] = x
    BY <2>1
  <2> QED
    BY <2>1, <2>2
<1> HIDE DEF A, B
<1>5. Cardinality(A \cup B) = Cardinality(A) + Cardinality(B) - Cardinality(A \cap B)
  BY <1>1, <1>2, FS_Union
<1>6. Cardinality(A \cap B) = 0
  BY <1>4, FS_EmptySet
<1>7. f[x] \in Nat
  OBVIOUS
<1>8. Cardinality(A \cup B) = f[x] + Cardinality(A)
  BY <1>1, <1>2, <1>5, <1>6, <1>7
<1> QED
  BY <1>3, <1>8 DEF A

\* SumFunction by the library's recursion is the size of the heap.
LEMMA SumIsHeap ==
    ASSUME NEW D, IsFiniteSet(D), NEW f \in [D -> Nat]
    PROVE  SumFunction(f) = Cardinality(Heap(f, D)) /\ SumFunction(f) \in Nat
<1> DEFINE G == [s \in SUBSET D |-> Cardinality(Heap(f, s))]
           c(s) == CHOOSE x \in s : TRUE
<1>1. DOMAIN f = D
  OBVIOUS
<1>2. Cardinality(Heap(f, {})) = 0
  <2>1. Heap(f, {}) = {}
    BY HeapElement
  <2> QED
    BY <2>1, FS_EmptySet
<1>3. \A s \in SUBSET D : s # {} => c(s) \in s /\ s \ {c(s)} \in SUBSET D
  OBVIOUS
<1>4. \A s \in SUBSET D : G[s] = IF s = {} THEN 0 ELSE f[c(s)] + G[s \ {c(s)}]
  <2> SUFFICES ASSUME NEW s \in SUBSET D
               PROVE  G[s] = IF s = {} THEN 0 ELSE f[c(s)] + G[s \ {c(s)}]
    OBVIOUS
  <2>1. CASE s = {}
    BY <1>2, <2>1
  <2>2. CASE s # {}
    <3> HIDE DEF c
    <3>1. Cardinality(Heap(f, s)) = f[c(s)] + Cardinality(Heap(f, s \ {c(s)}))
      BY <1>3, <2>2, HeapSplits
    <3> QED
      BY <1>3, <2>2, <3>1
  <2> QED
    BY <2>1, <2>2
<1>5. IsSum(f, G)
  <2>1. G = [s \in SUBSET D |-> IF s = {} THEN 0 ELSE f[c(s)] + G[s \ {c(s)}]]
    <3>1. DOMAIN G = SUBSET D
      OBVIOUS
    <3>2. G = [s \in SUBSET D |-> G[s]]
      OBVIOUS
    <3> HIDE DEF G, c
    <3> QED
      BY <1>4, <3>2
  <2> QED
    BY <1>1, <2>1 DEF IsSum
<1> DEFINE g == CHOOSE h : IsSum(f, h)
<1>6. IsSum(f, g)
  BY <1>5
<1> HIDE DEF g
<1>7. \A s \in SUBSET D : g[s] = IF s = {} THEN 0 ELSE f[c(s)] + g[s \ {c(s)}]
  BY <1>1, <1>6 DEF IsSum
<1> DEFINE R == StrictSubsetOrdering(D)
           Bad == {s \in SUBSET D : g[s] # G[s]}
<1>8. Bad = {}
  <2> SUFFICES ASSUME Bad # {} PROVE FALSE
    OBVIOUS
  <2>1. IsWellFoundedOn(R, FiniteSubsetsOf(D))
    BY FS_StrictSubsetOrderingWellFounded
  <2>2. Bad \subseteq FiniteSubsetsOf(D)
    <3> SUFFICES ASSUME NEW s \in SUBSET D PROVE s \in FiniteSubsetsOf(D)
      OBVIOUS
    <3>1. IsFiniteSet(s)
      BY FS_Subset
    <3> QED
      BY <3>1 DEF FiniteSubsetsOf
  <2>3. \E s \in Bad : \A t \in Bad : ~ (<<t, s>> \in R)
    <3> HIDE DEF Bad, R
    <3> QED
      BY <2>1, <2>2, WFMin
  <2>4. PICK s \in Bad : \A t \in Bad : ~ (<<t, s>> \in R)
    BY <2>3
  <2>5. s # {}
    BY <1>4, <1>7
  <2>6. c(s) \in s /\ s \ {c(s)} \in SUBSET D
    BY <1>3, <2>5
  <2> HIDE DEF c
  <2>7. <<s \ {c(s)}, s>> \in R
    BY <2>6 DEF StrictSubsetOrdering
  <2>8. s \ {c(s)} \notin Bad
    BY <2>4, <2>7
  <2>9. g[s \ {c(s)}] = G[s \ {c(s)}]
    BY <2>6, <2>8
  <2> HIDE DEF G
  <2>10. g[s] = G[s]
    BY <1>4, <1>7, <2>5, <2>9
  <2> QED
    BY <2>10
<1>9. g[D] = G[D]
  BY <1>8
<1>10. SumFunction(f) = g[D]
  BY <1>1, SumIsFold DEF g
<1> QED
  BY <1>9, <1>10, HeapIsFinite

\* One value changed, the sum changes by as much.
LEMMA HeapChanges ==
    ASSUME NEW D, IsFiniteSet(D), NEW f \in [D -> Nat], NEW g \in [D -> Nat], NEW x \in D,
           \A y \in D \ {x} : g[y] = f[y]
    PROVE  /\ Cardinality(Heap(f, D)) \in Nat /\ Cardinality(Heap(g, D)) \in Nat
           /\ Cardinality(Heap(g, D)) - g[x] = Cardinality(Heap(f, D)) - f[x]
<1>1. Heap(g, D \ {x}) = Heap(f, D \ {x})
  <2>1. \A p : p \in Heap(g, D \ {x}) <=> p \in Heap(f, D \ {x})
    BY HeapElement
  <2> QED
    BY <2>1
<1>2. /\ Cardinality(Heap(g, D)) = g[x] + Cardinality(Heap(g, D \ {x}))
      /\ Cardinality(Heap(f, D)) = f[x] + Cardinality(Heap(f, D \ {x}))
  BY HeapSplits
<1>3. Cardinality(Heap(f, D)) \in Nat /\ Cardinality(Heap(g, D)) \in Nat
  BY HeapIsFinite
<1>4. Cardinality(Heap(f, D \ {x})) \in Nat
  BY HeapIsFinite
<1>5. f[x] \in Nat /\ g[x] \in Nat
  OBVIOUS
<1> DEFINE a == Cardinality(Heap(f, D \ {x}))
<1>6. Cardinality(Heap(g, D)) = g[x] + a /\ Cardinality(Heap(f, D)) = f[x] + a /\ a \in Nat
  BY <1>1, <1>2, <1>4
<1> HIDE DEF a
<1> QED
  BY <1>3, <1>5, <1>6

Counting == {w \in Workers : worker[w].at = "count"}

RemovedBy == [w \in Workers |-> worker[w].removed]

\* A worker that is not at it has removed nothing that is uncounted, and what it
\* removed and means to remove are captures.
RemovalsOK ==
    /\ \A w \in Workers : worker[w].at # "unlink" =>
          worker[w].removed = 0 /\ worker[w].doomed = {}
    /\ \A w \in Workers : worker[w].removed + Cardinality(worker[w].doomed) <= MaxTaken
    /\ \A w \in Captures \ Taken : worker[w].at = "idle"

\* The counters, as sizes of sets.
Tallied ==
    Cardinality(files) + Cardinality(Heap(pruned, Processes))
                       + Cardinality(Heap(RemovedBy, Workers))
        = Cardinality(Heap(written, Processes)) + Cardinality(Counting)

TallyInv == RawInv /\ RemovalsOK /\ Tallied

LEMMA TallySets ==
    ASSUME RawTypeOK
    PROVE  /\ IsFiniteSet(Processes) /\ IsFiniteSet(Workers)
           /\ written \in [Processes -> Nat] /\ pruned \in [Processes -> Nat]
           /\ RemovedBy \in [Workers -> Nat]
           /\ IsFiniteSet(files) /\ Cardinality(files) \in Nat
           /\ IsFiniteSet(Counting) /\ Cardinality(Counting) \in Nat
           /\ Cardinality(Heap(written, Processes)) \in Nat
           /\ Cardinality(Heap(pruned, Processes)) \in Nat
           /\ Cardinality(Heap(RemovedBy, Workers)) \in Nat
<1>1. IsFiniteSet(Processes)
  BY RawStoreAssumption, FS_AddElement DEF Processes
<1>2. IsFiniteSet(Workers)
  <2>1. IsFiniteSet(Captures)
    BY Finite, Constants
  <2> QED
    BY <2>1, FS_AddElement DEF Workers
<1>3. written \in [Processes -> Nat] /\ pruned \in [Processes -> Nat]
  BY DEF RawTypeOK
<1>4. RemovedBy \in [Workers -> Nat]
  BY WorkerType DEF RemovedBy, Worker
<1>5. IsFiniteSet(files) /\ Cardinality(files) \in Nat
  BY StoredRange, Finite
<1>6. IsFiniteSet(Counting) /\ Cardinality(Counting) \in Nat
  BY <1>2, FS_Subset, FS_CardinalityType DEF Counting
<1> QED
  BY <1>1, <1>2, <1>3, <1>4, <1>5, <1>6, HeapIsFinite

LEMMA UncountedIsHeap ==
    ASSUME RawTypeOK, RemovalsOK
    PROVE  Uncounted = Heap(RemovedBy, Workers)
<1>1. ASSUME NEW w \in Workers
      PROVE  worker[w].removed \in Nat /\ worker[w].removed <= MaxTaken
  <2>1. worker[w] \in Worker
    BY WorkerType
  <2>2. worker[w].removed \in Nat /\ worker[w].doomed \in SUBSET Captures
    BY <2>1, StoredRange DEF Worker
  <2>3. Cardinality(worker[w].doomed) \in Nat
    BY <2>2, Finite
  <2> DEFINE r == worker[w].removed
             k == Cardinality(worker[w].doomed)
  <2>4. r \in Nat /\ k \in Nat /\ r + k <= MaxTaken /\ MaxTaken \in Nat
    BY <2>2, <2>3, Constants DEF RemovalsOK
  <2> HIDE DEF r, k
  <2>5. r \in Nat /\ r <= MaxTaken
    BY <2>4
  <2> QED
    BY <2>5 DEF r
<1>2. \A r : r \in Uncounted => r \in Heap(RemovedBy, Workers)
  <2> SUFFICES ASSUME NEW r, r \in Uncounted PROVE r \in Heap(RemovedBy, Workers)
    OBVIOUS
  <2>1. r \in Workers \X Captures /\ r[2] <= worker[r[1]].removed
    BY DEF Uncounted
  <2>2. r[1] \in Workers /\ r[2] \in 1..MaxTaken /\ r = <<r[1], r[2]>>
    BY <2>1 DEF Captures
  <2>3. r[2] \in 1..RemovedBy[r[1]]
    BY <1>1, <2>1, <2>2 DEF RemovedBy
  <2>4. r \in {r[1]} \X (1..RemovedBy[r[1]])
    BY <2>2, <2>3
  <2> QED
    BY <2>2, <2>4, HeapElement
<1>3. \A r : r \in Heap(RemovedBy, Workers) => r \in Uncounted
  <2> SUFFICES ASSUME NEW r, r \in Heap(RemovedBy, Workers) PROVE r \in Uncounted
    OBVIOUS
  <2>1. PICK w \in Workers : r \in {w} \X (1..RemovedBy[w])
    BY HeapElement
  <2>2. r = <<w, r[2]>> /\ r[1] = w /\ r[2] \in 1..worker[w].removed
    BY <2>1 DEF RemovedBy
  <2>3. r[2] \in 1..MaxTaken /\ r[2] <= worker[w].removed
    BY <1>1, <2>2, Constants
  <2>4. r \in Workers \X Captures
    BY <2>2, <2>3 DEF Captures
  <2> QED
    BY <2>2, <2>3, <2>4 DEF Uncounted
<1> QED
  BY <1>2, <1>3

LEMMA TalliedIsTheProperty ==
    ASSUME RawTypeOK, RemovalsOK, Tallied
    PROVE  CountersMakeUpTheDirectory
<1>1. /\ SumFunction(written) = Cardinality(Heap(written, Processes))
      /\ SumFunction(pruned) = Cardinality(Heap(pruned, Processes))
  BY TallySets, SumIsHeap
<1>2. Cardinality(Uncounted) = Cardinality(Heap(RemovedBy, Workers))
  BY UncountedIsHeap
<1> DEFINE a == Cardinality(files)
           b == Cardinality(Heap(pruned, Processes))
           c == Cardinality(Heap(RemovedBy, Workers))
           d == Cardinality(Heap(written, Processes))
           e == Cardinality(Counting)
<1>3. a + b + c = d + e /\ a \in Nat /\ b \in Nat /\ c \in Nat /\ d \in Nat /\ e \in Nat
  BY TallySets DEF Tallied
<1> HIDE DEF a, b, c, d, e
<1>4. a = d + e - b - c
  BY <1>3
<1> QED
  BY <1>1, <1>2, <1>4 DEF CountersMakeUpTheDirectory, a, b, c, d, e, Counting

\* No worker but w changes.
Moves(w) == \A u \in Workers \ {w} : worker'[u] = worker[u]

\* The steps of a worker, by where it is before and after, and what they do to
\* the files and to the counters.
Stores(w) ==
    /\ worker[w].at # "count" /\ worker'[w].at = "count"
    /\ worker'[w].removed = 0 /\ worker[w].removed = 0
    /\ w \notin files /\ files' = files \cup {w}
    /\ UNCHANGED <<written, pruned>>

Writes(w) ==
    /\ worker[w].at = "count" /\ worker'[w].at # "count"
    /\ worker'[w].removed = 0 /\ worker[w].removed = 0
    /\ written' = [written EXCEPT ![Sink(w)] = @ + 1]
    /\ UNCHANGED <<files, pruned>>

Removes(w) ==
    /\ worker[w].at # "count" /\ worker'[w].at # "count"
    /\ worker'[w].removed = worker[w].removed + 1
    /\ \E n \in files : files' = files \ {n}
    /\ UNCHANGED <<written, pruned>>

Settles(w) ==
    /\ worker[w].at # "count" /\ worker'[w].at # "count"
    /\ worker'[w].removed = 0
    /\ pruned' = [pruned EXCEPT ![Sink(w)] = @ + worker[w].removed]
    /\ UNCHANGED <<files, written>>

Turns(w) ==
    /\ worker[w].at # "count" /\ worker'[w].at # "count"
    /\ worker'[w].removed = worker[w].removed
    /\ UNCHANGED <<files, written, pruned>>

LEMMA RemovedChanges ==
    ASSUME RawTypeOK, RawTypeOK', NEW w \in Workers, Moves(w)
    PROVE  /\ worker[w].removed \in Nat /\ worker'[w].removed \in Nat
           /\ Cardinality(Heap(RemovedBy', Workers)) \in Nat
           /\ Cardinality(Heap(RemovedBy', Workers)) - worker'[w].removed
                = Cardinality(Heap(RemovedBy, Workers)) - worker[w].removed
<1>1. IsFiniteSet(Workers) /\ RemovedBy \in [Workers -> Nat]
  BY TallySets
<1>2. worker' \in [Workers -> Worker']
  BY DEF RawTypeOK, Worker
<1>3. RemovedBy' \in [Workers -> Nat]
  BY <1>2 DEF RemovedBy, Worker
<1>4. /\ \A y \in Workers \ {w} : RemovedBy'[y] = RemovedBy[y]
      /\ RemovedBy[w] = worker[w].removed /\ RemovedBy'[w] = worker'[w].removed
  BY DEF Moves, RemovedBy
<1>5. RemovedBy[w] \in Nat /\ RemovedBy'[w] \in Nat
  BY <1>1, <1>3
<1> DEFINE f == RemovedBy
           g == RemovedBy'
<1>6. f \in [Workers -> Nat] /\ g \in [Workers -> Nat] /\ \A y \in Workers \ {w} : g[y] = f[y]
  BY <1>1, <1>3, <1>4
<1>7. /\ Cardinality(Heap(g, Workers)) \in Nat
      /\ Cardinality(Heap(g, Workers)) - g[w] = Cardinality(Heap(f, Workers)) - f[w]
  <2> HIDE DEF f, g
  <2> QED
    BY <1>1, <1>6, HeapChanges
<1> QED
  BY <1>4, <1>5, <1>7

LEMMA CounterGrows ==
    ASSUME NEW D, IsFiniteSet(D), NEW f \in [D -> Nat], NEW g \in [D -> Nat], NEW x \in D,
           NEW k \in Nat, g[x] = f[x] + k, \A y \in D \ {x} : g[y] = f[y]
    PROVE  Cardinality(Heap(g, D)) = Cardinality(Heap(f, D)) + k
<1>2. /\ Cardinality(Heap(f, D)) \in Nat /\ Cardinality(Heap(g, D)) \in Nat
      /\ Cardinality(Heap(g, D)) - g[x] = Cardinality(Heap(f, D)) - f[x]
  BY HeapChanges
<1>3. f[x] \in Nat
  OBVIOUS
<1> DEFINE a == Cardinality(Heap(f, D))
           b == Cardinality(Heap(g, D))
           y == f[x]
           z == g[x]
<1>4. a \in Nat /\ b \in Nat /\ y \in Nat /\ z = y + k /\ b - z = a - y
  BY <1>2, <1>3
<1> HIDE DEF a, b, y, z
<1>5. b = a + k
  BY <1>4
<1> QED
  BY <1>5 DEF a, b

LEMMA CounterChanges ==
    ASSUME NEW D, IsFiniteSet(D), NEW f \in [D -> Nat], NEW x \in D, NEW k \in Nat
    PROVE  Cardinality(Heap([f EXCEPT ![x] = @ + k], D)) = Cardinality(Heap(f, D)) + k
<1> DEFINE g == [f EXCEPT ![x] = @ + k]
<1>1. g \in [D -> Nat] /\ g[x] = f[x] + k /\ \A y \in D \ {x} : g[y] = f[y]
  OBVIOUS
<1> HIDE DEF g
<1>2. Cardinality(Heap(g, D)) = Cardinality(Heap(f, D)) + k
  BY <1>1, CounterGrows
<1> QED
  BY <1>2 DEF g

LEMMA CountingChanges ==
    ASSUME RawTypeOK, RawTypeOK', NEW w \in Workers, Moves(w)
    PROVE  /\ worker[w].at # "count" /\ worker'[w].at = "count" =>
                 Cardinality(Counting') = Cardinality(Counting) + 1
           /\ worker[w].at = "count" /\ worker'[w].at # "count" =>
                 Cardinality(Counting') = Cardinality(Counting) - 1
           /\ worker[w].at # "count" /\ worker'[w].at # "count" =>
                 Counting' = Counting
<1>1. IsFiniteSet(Counting) /\ Cardinality(Counting) \in Nat
  BY TallySets
<1>2. \A u \in Workers \ {w} : u \in Counting' <=> u \in Counting
  BY DEF Moves, Counting
<1>3. Counting \subseteq Workers /\ Counting' \subseteq Workers
  BY DEF Counting
<1>4. (w \in Counting <=> worker[w].at = "count") /\ (w \in Counting' <=> worker'[w].at = "count")
  BY DEF Counting
<1>5. w \notin Counting /\ w \in Counting' => Counting' = Counting \cup {w}
  BY <1>2, <1>3
<1>6. w \in Counting /\ w \notin Counting' => Counting' = Counting \ {w}
  BY <1>2, <1>3
<1>7. w \notin Counting /\ w \notin Counting' => Counting' = Counting
  BY <1>2, <1>3
<1>8. w \notin Counting => Cardinality(Counting \cup {w}) = Cardinality(Counting) + 1
  BY <1>1, FS_AddElement
<1>9. w \in Counting => Cardinality(Counting \ {w}) = Cardinality(Counting) - 1
  BY <1>1, FS_RemoveElement
<1> QED
  BY <1>4, <1>5, <1>6, <1>7, <1>8, <1>9

\* The sums of both sides change alike.
LEMMA TallyMoves ==
    ASSUME RawTypeOK, RawTypeOK', Tallied, NEW w \in Workers, Moves(w),
           Stores(w) \/ Writes(w) \/ Removes(w) \/ Settles(w) \/ Turns(w)
    PROVE  Tallied'
<1> DEFINE a == Cardinality(files)
           b == Cardinality(Heap(pruned, Processes))
           c == Cardinality(Heap(RemovedBy, Workers))
           d == Cardinality(Heap(written, Processes))
           e == Cardinality(Counting)
           i == worker[w].removed
           j == worker'[w].removed
           a1 == Cardinality(files')
           b1 == Cardinality(Heap(pruned', Processes))
           c1 == Cardinality(Heap(RemovedBy', Workers))
           d1 == Cardinality(Heap(written', Processes))
           e1 == Cardinality(Counting')
<1>1. a \in Nat /\ b \in Nat /\ c \in Nat /\ d \in Nat /\ e \in Nat /\ a + b + c = d + e
  BY TallySets DEF Tallied
<1>2. i \in Nat /\ j \in Nat /\ c1 \in Nat /\ c1 - j = c - i
  BY RemovedChanges
<1>3. IsFiniteSet(files) /\ IsFiniteSet(Processes)
      /\ written \in [Processes -> Nat] /\ pruned \in [Processes -> Nat]
  BY TallySets
<1>4. Sink(w) \in Processes
  BY WorkerType DEF Sink, Worker
<1>5. a1 + b1 + c1 = d1 + e1
  <2>1. CASE Stores(w)
    <3>1. a1 = a + 1
      BY <1>3, <2>1, FS_AddElement DEF Stores
    <3>2. e1 = e + 1
      BY <2>1, CountingChanges DEF Stores
    <3>3. b1 = b /\ d1 = d /\ i = 0 /\ j = 0
      BY <2>1 DEF Stores
    <3> HIDE DEF a, b, c, d, e, i, j, a1, b1, c1, d1, e1
    <3> QED
      BY <1>1, <1>2, <3>1, <3>2, <3>3
  <2>2. CASE Writes(w)
    <3>0. 1 \in Nat /\ written' = [written EXCEPT ![Sink(w)] = @ + 1]
      BY <2>2 DEF Writes
    <3>1. d1 = d + 1
      BY <1>3, <1>4, <3>0, CounterChanges
    <3>2. e1 = e - 1
      BY <2>2, CountingChanges DEF Writes
    <3>3. a1 = a /\ b1 = b /\ i = 0 /\ j = 0
      BY <2>2 DEF Writes
    <3> HIDE DEF a, b, c, d, e, i, j, a1, b1, c1, d1, e1
    <3> QED
      BY <1>1, <1>2, <3>1, <3>2, <3>3
  <2>3. CASE Removes(w)
    <3>1. a1 = a - 1
      BY <1>3, <2>3, FS_RemoveElement DEF Removes
    <3>2. e1 = e
      BY <2>3, CountingChanges DEF Removes
    <3>3. b1 = b /\ d1 = d /\ j = i + 1
      BY <2>3 DEF Removes
    <3> HIDE DEF a, b, c, d, e, i, j, a1, b1, c1, d1, e1
    <3> QED
      BY <1>1, <1>2, <3>1, <3>2, <3>3
  <2>4. CASE Settles(w)
    <3>0. pruned' = [pruned EXCEPT ![Sink(w)] = @ + i]
      BY <2>4 DEF Settles
    <3>1. b1 = b + i
      <4> HIDE DEF i
      <4> QED
        BY <1>2, <1>3, <1>4, <3>0, CounterChanges
    <3>2. e1 = e
      BY <2>4, CountingChanges DEF Settles
    <3>3. a1 = a /\ d1 = d /\ j = 0
      BY <2>4 DEF Settles
    <3> HIDE DEF a, b, c, d, e, i, j, a1, b1, c1, d1, e1
    <3> QED
      BY <1>1, <1>2, <3>1, <3>2, <3>3
  <2>5. CASE Turns(w)
    <3>1. e1 = e
      BY <2>5, CountingChanges DEF Turns
    <3>2. a1 = a /\ b1 = b /\ d1 = d /\ j = i
      BY <2>5 DEF Turns
    <3> HIDE DEF a, b, c, d, e, i, j, a1, b1, c1, d1, e1
    <3> QED
      BY <1>1, <1>2, <3>1, <3>2
  <2> QED
    BY <2>1, <2>2, <2>3, <2>4, <2>5
<1> QED
  BY <1>5 DEF Tallied

Uncaught(w) == w \in Captures /\ w \notin Taken

LEMMA RemovalsKept ==
    ASSUME RemovalsOK, NEW w \in Workers, Moves(w),
           Taken \subseteq Taken', ~Uncaught(w)',
           worker'[w].at # "unlink" => worker'[w].removed = 0 /\ worker'[w].doomed = {},
           worker'[w].removed + Cardinality(worker'[w].doomed) <= MaxTaken
    PROVE  RemovalsOK'
<1>1. \A u \in Workers : worker'[u].at # "unlink" =>
          worker'[u].removed = 0 /\ worker'[u].doomed = {}
  BY DEF RemovalsOK, Moves
<1>2. \A u \in Workers : worker'[u].removed + Cardinality(worker'[u].doomed) <= MaxTaken
  BY DEF RemovalsOK, Moves
<1>3. \A u \in Captures \ Taken' : worker'[u].at = "idle"
  <2>1. \A u \in Captures \ Taken' : u \in Workers \ {w} /\ u \in Captures \ Taken
    BY Constants DEF Uncaught
  <2> QED
    BY <2>1 DEF RemovalsOK, Moves
<1> QED
  BY <1>1, <1>2, <1>3 DEF RemovalsOK

\* A worker that rests has removed nothing and means to remove nothing.
LEMMA RestingRemovals ==
    ASSUME RemovalsOK, NEW w \in Workers, Moves(w), Taken \subseteq Taken', ~Uncaught(w)',
           NEW at, at # "unlink", NEW s, worker'[w] = Resting(at, s)
    PROVE  RemovalsOK' /\ worker'[w].at = at /\ worker'[w].removed = 0
<1>1. worker'[w].at = at /\ worker'[w].removed = 0 /\ worker'[w].doomed = {}
  BY DEF Resting
<1>2. worker'[w].removed + Cardinality(worker'[w].doomed) <= MaxTaken
  <2>1. Cardinality({}) = 0 /\ MaxTaken \in Nat
    BY FS_EmptySet, Constants
  <2>2. 0 + Cardinality({}) <= MaxTaken
    BY <2>1
  <2> QED
    BY <1>1, <2>2
<1> QED
  BY <1>1, <1>2, RemovalsKept

\* A worker at work holds a capture that was taken, or is that of the script.
LEMMA BusyIsCaught ==
    ASSUME RemovalsOK, NEW w \in Workers, worker[w].at # "idle"
    PROVE  ~Uncaught(w)
  BY DEF RemovalsOK, Uncaught

LEMMA RestsTally ==
    ASSUME RawTypeOK, RemovalsOK, NEW w \in Workers, worker[w].at # "idle" \/ w = 0,
           UNCHANGED stamp, NEW at, at # "unlink", Rests(w, at)
    PROVE  RemovalsOK' /\ Moves(w) /\ worker'[w].at = at /\ worker'[w].removed = 0
<1>1. worker'[w] = Resting(at, Sink(w)) /\ Moves(w)
  BY RestsRecord DEF Moves
<1>2. Taken' = Taken
  BY DEF Taken
<1>3. ~Uncaught(w)'
  BY <1>2, BusyIsCaught, Constants DEF Uncaught
<1> QED
  BY <1>1, <1>2, <1>3, RestingRemovals

LEMMA TakeTally ==
    ASSUME RawTypeOK, RemovalsOK, NEW s \in Sinks, Take(s)
    PROVE  RemovalsOK' /\ \E w \in Workers : Moves(w) /\ Turns(w)
<1>1. PICK k \in 0..MaxTaken : Taken = 1..k /\ Cardinality(Taken) = k
  BY TakenRange
<1>2. k + 1 \in Captures /\ worker' = [worker EXCEPT ![k + 1] = Resting("open", s)]
  BY <1>1 DEF Take
<1>3. DOMAIN stamp' = 1..(k + 1)
  BY <1>1 DEF Take
<1>4. k + 1 \in Taken' /\ k + 1 \notin Taken /\ Taken \subseteq Taken'
  BY <1>1, <1>3 DEF Taken
<1> DEFINE w == k + 1
<1>5. w \in Workers /\ worker'[w] = Resting("open", s) /\ Moves(w)
  BY <1>2, Constants, WorkerType DEF Moves
<1>6. worker[w].at = "idle" /\ worker[w].removed = 0
  BY <1>2, <1>4, <1>5 DEF RemovalsOK
<1>7. ~Uncaught(w)'
  BY <1>4 DEF Uncaught
<1> HIDE DEF w
<1>8. RemovalsOK' /\ worker'[w].at = "open" /\ worker'[w].removed = 0
  BY <1>4, <1>5, <1>7, RestingRemovals
<1>9. Turns(w)
  BY <1>6, <1>8 DEF Turns, Take
<1> QED
  BY <1>5, <1>8, <1>9

LEMMA PutTally ==
    ASSUME RawTypeOK, WorkersOK, RemovalsOK, NEW w \in Workers, Put(w)
    PROVE  RemovalsOK' /\ Moves(w) /\ (Stores(w) \/ Turns(w))
<1>1. worker[w].at = "open" /\ worker[w].removed = 0 /\ w \notin files
  BY DEF Put, RemovalsOK, WorkersOK, RawTypeOK
<1>2. CASE Rests(w, "count") /\ files' = files \cup {w}
  <2>1. RemovalsOK' /\ Moves(w) /\ worker'[w].at = "count" /\ worker'[w].removed = 0
    BY <1>1, <1>2, RestsTally DEF Put
  <2> QED
    BY <1>1, <1>2, <2>1 DEF Stores, Put
<1>3. CASE Rests(w, "done") /\ files' = files
  <2>1. RemovalsOK' /\ Moves(w) /\ worker'[w].at = "done" /\ worker'[w].removed = 0
    BY <1>1, <1>3, RestsTally DEF Put
  <2> QED
    BY <1>1, <1>3, <2>1 DEF Turns, Put
<1> QED
  BY <1>2, <1>3 DEF Put

LEMMA CountWrittenTally ==
    ASSUME RawTypeOK, RemovalsOK, NEW w \in Workers, CountWritten(w)
    PROVE  RemovalsOK' /\ Moves(w) /\ Writes(w)
<1>1. worker[w].at = "count" /\ worker[w].removed = 0 /\ UNCHANGED stamp
  BY DEF CountWritten, RemovalsOK
<1>2. /\ worker'[w].at = "due" /\ worker'[w].removed = 0
      /\ worker'[w].doomed = worker[w].doomed /\ worker'[w].listed = worker[w].listed
      /\ \A v \in Workers \ {w} : worker'[v] = worker[v]
  BY <1>1, CountWrittenRecord, WorkerType DEF Worker
<1>3. Taken' = Taken
  BY <1>1 DEF Taken
<1>4. ~Uncaught(w)' /\ Moves(w)
  BY <1>1, <1>2, <1>3, BusyIsCaught DEF Moves, Uncaught
<1>5. worker[w].doomed = {} /\ worker[w].removed + Cardinality(worker[w].doomed) <= MaxTaken
  BY <1>1 DEF RemovalsOK
<1>6. /\ worker'[w].removed + Cardinality(worker'[w].doomed) <= MaxTaken
      /\ worker'[w].doomed = {} /\ Taken \subseteq Taken'
  BY <1>1, <1>2, <1>3, <1>5
<1>7. RemovalsOK'
  BY <1>2, <1>4, <1>6, RemovalsKept
<1> QED
  BY <1>1, <1>2, <1>4, <1>7 DEF Writes, CountWritten

LEMMA MaybePruneTally ==
    ASSUME RawTypeOK, RemovalsOK, NEW w \in Workers, MaybePrune(w)
    PROVE  RemovalsOK' /\ Moves(w) /\ Turns(w)
<1>1. worker[w].at = "due" /\ worker[w].removed = 0 /\ UNCHANGED stamp
  BY DEF MaybePrune, RemovalsOK
<1>2. PICK at \in {"list", "done"} : Rests(w, at)
  BY DEF MaybePrune
<1>3. RemovalsOK' /\ Moves(w) /\ worker'[w].at = at /\ worker'[w].removed = 0
  BY <1>1, <1>2, RestsTally
<1> QED
  BY <1>1, <1>2, <1>3 DEF Turns, MaybePrune

LEMMA RunScriptTally ==
    ASSUME RawTypeOK, RemovalsOK, RunScript
    PROVE  RemovalsOK' /\ Moves(0) /\ Turns(0)
<1>1. worker[0].at = "idle" /\ worker[0].removed = 0 /\ 0 \in Workers /\ UNCHANGED stamp
  BY Constants DEF RunScript, RemovalsOK
<1>2. RemovalsOK' /\ Moves(0) /\ worker'[0].at = "list" /\ worker'[0].removed = 0
  BY <1>1, RestsTally DEF RunScript
<1> QED
  BY <1>1, <1>2 DEF Turns, RunScript

LEMMA ListTally ==
    ASSUME RawTypeOK, RemovalsOK, NEW w \in Workers, List(w)
    PROVE  RemovalsOK' /\ Moves(w) /\ Turns(w)
<1>1. worker[w].at = "list" /\ worker[w].removed = 0
      /\ UNCHANGED <<stamp, files, written, pruned>>
  BY DEF List, RemovalsOK
<1> DEFINE doomed == {n \in files : Expired(n)} \cup Overflow(files \ {n \in files : Expired(n)})
<1>2. CASE worker' = [worker EXCEPT ![w].at = "unlink", ![w].listed = files,
                                    ![w].doomed = doomed]
  <2>1. /\ worker'[w] = [worker[w] EXCEPT !.at = "unlink", !.listed = files, !.doomed = doomed]
        /\ Moves(w)
    BY <1>2, WorkerType DEF Moves
  <2>2. worker[w] \in Worker
    BY WorkerType
  <2>3. worker'[w].at = "unlink" /\ worker'[w].doomed = doomed /\ worker'[w].removed = 0
    BY <1>1, <2>1, <2>2 DEF Worker
  <2>4. doomed \in SUBSET Captures
    BY StoredRange DEF Overflow
  <2>5. Cardinality(doomed) \in Nat /\ Cardinality(doomed) <= MaxTaken
    <3>1. Cardinality(Captures) = MaxTaken
      BY Constants, FS_Interval DEF Captures
    <3>2. Captures \in SUBSET Captures
      OBVIOUS
    <3> HIDE DEF doomed
    <3> QED
      BY <2>4, <3>1, <3>2, Finite
  <2>6. 0 + Cardinality(doomed) <= MaxTaken
    <3> HIDE DEF doomed
    <3> QED
      BY <2>5, Constants
  <2>7. ~Uncaught(w)'
    BY <1>1, BusyIsCaught DEF Uncaught, Taken
  <2>8. RemovalsOK'
    <3>1. worker'[w].removed + Cardinality(worker'[w].doomed) <= MaxTaken
      BY <2>3, <2>6
    <3>2. Taken \subseteq Taken'
      BY <1>1 DEF Taken
    <3> QED
      BY <2>1, <2>3, <2>7, <3>1, <3>2, RemovalsKept
  <2> QED
    BY <1>1, <2>1, <2>3, <2>8 DEF Turns
<1>3. CASE Rests(w, "done")
  <2>1. RemovalsOK' /\ Moves(w) /\ worker'[w].at = "done" /\ worker'[w].removed = 0
    BY <1>1, <1>3, RestsTally
  <2> QED
    BY <1>1, <2>1 DEF Turns
<1> QED
  BY <1>2, <1>3 DEF List

LEMMA UnlinkTally ==
    ASSUME RawTypeOK, RemovalsOK, NEW w \in Workers, Unlink(w)
    PROVE  RemovalsOK' /\ Moves(w) /\ (Removes(w) \/ Turns(w))
<1>1. PICK n \in worker[w].doomed, removed \in {0, 1}, kept \in {0, 1} :
          /\ Strikes(w, n, removed, kept)
          /\ \/ removed = 1 /\ n \in files /\ files' = files \ {n}
             \/ removed = 0 /\ files' = files
  <2>1. PICK n \in worker[w].doomed :
            \/ n \in files /\ files' = files \ {n} /\ Strikes(w, n, 1, 0)
            \/ n \notin files /\ UNCHANGED files /\ Strikes(w, n, 0, 0)
            \/ n \in files /\ UNCHANGED files /\ Strikes(w, n, 0, 1)
    BY DEF Unlink
  <2> QED
    BY <2>1
<1>2. worker[w].at = "unlink" /\ UNCHANGED <<stamp, written, pruned>>
  BY DEF Unlink
<1>3. worker[w] \in Worker
  BY WorkerType
<1>4. /\ worker'[w].at = "unlink" /\ worker'[w].doomed = worker[w].doomed \ {n}
      /\ worker'[w].removed = worker[w].removed + removed
      /\ Moves(w)
  <2>1. worker'[w] = [worker[w] EXCEPT !.doomed = @ \ {n}, !.removed = @ + removed,
                                       !.kept = @ + kept]
    BY <1>1, WorkerType DEF Strikes
  <2> QED
    BY <1>1, <1>2, <1>3, <2>1, StrikesRecord DEF Worker, Moves
<1>5. worker'[w].removed + Cardinality(worker'[w].doomed) <= MaxTaken
  <2>1. worker[w].doomed \in SUBSET Captures /\ worker[w].removed \in Nat
    BY <1>3, StoredRange DEF Worker
  <2>2. IsFiniteSet(worker[w].doomed) /\ Cardinality(worker[w].doomed) \in Nat
    BY <2>1, Finite
  <2>3. Cardinality(worker[w].doomed \ {n}) = Cardinality(worker[w].doomed) - 1
    BY <1>1, <2>2, FS_RemoveElement
  <2> DEFINE i == worker[w].removed
             k == Cardinality(worker[w].doomed)
             j == worker'[w].removed
             l == Cardinality(worker'[w].doomed)
  <2>4. i \in Nat /\ k \in Nat /\ i + k <= MaxTaken /\ MaxTaken \in Nat
        /\ j = i + removed /\ l = k - 1
    BY <1>4, <2>1, <2>2, <2>3, Constants DEF RemovalsOK
  <2> HIDE DEF i, j, k, l
  <2>5. j + l <= MaxTaken
    BY <1>1, <2>4
  <2> QED
    BY <2>5 DEF j, l
<1>6. ~Uncaught(w)' /\ Taken \subseteq Taken'
  BY <1>2, BusyIsCaught DEF Uncaught, Taken
<1>7. RemovalsOK'
  BY <1>4, <1>5, <1>6, RemovalsKept
<1>8. CASE removed = 1 /\ n \in files /\ files' = files \ {n}
  BY <1>2, <1>4, <1>7, <1>8 DEF Removes
<1>9. CASE removed = 0 /\ files' = files
  <2>1. worker[w].removed \in Nat
    BY <1>3 DEF Worker
  <2>2. worker'[w].removed = worker[w].removed
    BY <1>4, <1>9, <2>1
  <2> QED
    BY <1>2, <1>4, <1>7, <1>9, <2>2 DEF Turns
<1> QED
  BY <1>1, <1>8, <1>9

LEMMA CountPrunedTally ==
    ASSUME RawTypeOK, RemovalsOK, NEW w \in Workers, CountPruned(w)
    PROVE  RemovalsOK' /\ Moves(w) /\ Settles(w)
<1>1. worker[w].at = "unlink" /\ UNCHANGED stamp
  BY DEF CountPruned, Finished
<1>2. RemovalsOK' /\ Moves(w) /\ worker'[w].at = "done" /\ worker'[w].removed = 0
  BY <1>1, RestsTally DEF CountPruned
<1> QED
  BY <1>1, <1>2 DEF Settles, CountPruned

LEMMA TallyInit == RawInit => TallyInv
<1> SUFFICES ASSUME RawInit PROVE TallyInv
  OBVIOUS
<1>1. RawInv
  BY InvInit
<1>2. \A w \in Workers : worker[w] = Resting("idle", Script)
  BY DEF RawInit
<1>3. RemovalsOK
  <2>1. Cardinality({}) = 0 /\ MaxTaken \in Nat /\ Captures \subseteq Workers
    BY FS_EmptySet, Constants
  <2>2. 0 + Cardinality({}) <= MaxTaken
    BY <2>1
  <2> QED
    BY <1>2, <2>1, <2>2 DEF Resting, RemovalsOK
<1>4. Tallied
  <2>1. Counting = {} /\ files = {}
    BY <1>2 DEF Counting, Resting, RawInit
  <2>2. ASSUME NEW D, NEW f, \A x \in D : f[x] = 0
        PROVE  Cardinality(Heap(f, D)) = 0
    <3>1. \A p : p \notin Heap(f, D)
      BY <2>2, HeapElement
    <3>2. Heap(f, D) = {}
      BY <3>1
    <3> QED
      BY <3>2, FS_EmptySet
  <2>3. /\ \A x \in Processes : written[x] = 0 /\ pruned[x] = 0
        /\ \A w \in Workers : RemovedBy[w] = 0
    BY <1>2 DEF RawInit, RemovedBy, Resting
  <2>4. /\ Cardinality(Heap(written, Processes)) = 0
        /\ Cardinality(Heap(pruned, Processes)) = 0
        /\ Cardinality(Heap(RemovedBy, Workers)) = 0
    BY <2>2, <2>3
  <2>5. Cardinality(files) = 0 /\ Cardinality(Counting) = 0
    BY <2>1, FS_EmptySet
  <2> QED
    BY <2>4, <2>5 DEF Tallied
<1> QED
  BY <1>1, <1>3, <1>4 DEF TallyInv

LEMMA TallyStep == TallyInv /\ [RawNext]_rawVars => TallyInv'
<1> SUFFICES ASSUME TallyInv, [RawNext]_rawVars PROVE TallyInv'
  OBVIOUS
<1>1. RawInv' /\ RawTypeOK /\ RawTypeOK' /\ WorkersOK /\ RemovalsOK /\ Tallied
  BY InvStep DEF TallyInv, RawInv
<1>2. ASSUME NEW w \in Workers, RemovalsOK', Moves(w),
             Stores(w) \/ Writes(w) \/ Removes(w) \/ Settles(w) \/ Turns(w)
      PROVE  RemovalsOK' /\ Tallied'
  BY <1>1, <1>2, TallyMoves
<1>3. ASSUME UNCHANGED <<files, written, pruned, worker, stamp>>
      PROVE  RemovalsOK' /\ Tallied'
  BY <1>1, <1>3 DEF RemovalsOK, Tallied, Taken, RemovedBy, Counting
<1>4. ASSUME NEW w \in Workers, \/ Put(w) \/ CountWritten(w) \/ MaybePrune(w) \/ List(w)
                                \/ Unlink(w) \/ CountPruned(w)
      PROVE  RemovalsOK' /\ Tallied'
  BY <1>1, <1>2, <1>4, PutTally, CountWrittenTally, MaybePruneTally, ListTally,
     UnlinkTally, CountPrunedTally
<1>5. ASSUME NEW s \in Sinks, Take(s)
      PROVE  RemovalsOK' /\ Tallied'
  BY <1>1, <1>2, <1>5, TakeTally
<1>6. ASSUME RunScript
      PROVE  RemovalsOK' /\ Tallied'
  BY <1>1, <1>2, <1>6, RunScriptTally, Constants
<1>7. RemovalsOK' /\ Tallied'
  BY <1>3, <1>4, <1>5, <1>6 DEF RawNext, PassTime, rawVars
<1> QED
  BY <1>1, <1>7 DEF TallyInv

\* The counters of all processes, with what is still to be counted, make up
\* what is in the directory, however many processes store and prune at once: a
\* file that two prunes had doomed is counted by the one that removed it
\* (raw_store.py:388).
THEOREM CountersAddUp == RawSpec => []CountersMakeUpTheDirectory
<1>1. TallyInv => CountersMakeUpTheDirectory
  BY TalliedIsTheProperty DEF TallyInv, RawInv
<1> QED
  BY <1>1, TallyInit, TallyStep, PTL DEF RawSpec
=============================================================================
