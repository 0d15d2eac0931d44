------------------------ MODULE FundamentalsProofs ------------------------
(***************************************************************************)
(* What holds of the statement service for every set of instances and      *)
(* tickers, every time to live and every combination of faults: type       *)
(* correctness, that nothing uncommitted is ever cached or answered, what  *)
(* locks protect, what the provider is spared and what customers are told. *)
(***************************************************************************)
EXTENDS Fundamentals, TLAPS

\* What one load keeps to itself while it runs.
LoadTypeOK ==
    /\ pc \in [Loads -> Places]
    /\ stale \in [Loads -> Held]
    /\ row \in [Loads -> HeadRow]
    /\ got \in [Loads -> 0..MaxFiling]
    /\ answer \in [Loads -> Answers]

CacheTypeOK ==
    /\ l1 \in [Loads -> Copy]
    /\ neg \in [Loads -> Nat]
    /\ rfund \in [Tickers -> Copy]
    /\ rneg \in [Tickers -> Nat]

\* Only a filing that exists is handed to the store.
FetchedIsFiling ==
    /\ \A x \in Loads : pc[x] = "persist" => got[x] # 0
    /\ \A t \in Tickers : run[t].pc = "persist" => run[t].ver # 0

TypeInv == TypeOK /\ FetchedIsFiling

LEMMA TypeParts ==
    TypeOK <=> /\ StoreTypeOK
               /\ LoadTypeOK
               /\ CacheTypeOK
               /\ lock \in [Tickers -> Loads \cup {Free, Orphan}]
               /\ mine \in [Loads -> BOOLEAN]
               /\ born \in [Loads -> BOOLEAN]
               /\ refused \in [Tickers -> Nat]
               /\ run \in [Tickers -> RunRow]
  BY DEF TypeOK, LoadTypeOK, CacheTypeOK

LEMMA NoThings ==
    /\ NoCopy \in Copy
    /\ NoHead \in HeadRow
    /\ NoHeld \in Held
    /\ NoAnswer \in Answers
    /\ NoRun \in RunRow
  BY StoreAssumption
     DEF NoCopy, Copy, Statuses, DurableStatuses, NoHead, HeadRow, NoHeld, Held, NoAnswer,
         Answers, NoRun, RunRow

LEMMA TickerOfLoad == \A x \in Loads : x[1] \in Instances /\ x[2] \in Tickers
  BY DEF Loads

LEMMA CopiesAreTyped ==
    ASSUME now \in Nat, NEW copy \in Copy
    PROVE  /\ Warned(copy) \in Copy
           /\ Hold(copy) \in Held
           /\ Ok(copy) \in Answers
<1>1. Warned(copy) \in Copy
  BY DEF Warned, Copy
<1>2. now - copy.at \in Int
  BY DEF Copy
<1>3. Hold(copy) \in Held
  BY <1>2, NoThings DEF Hold, Held
<1>4. Ok(copy) \in Answers
  BY DEF Ok, Answers
<1> QED
  BY <1>1, <1>3, <1>4

NoNewPersist ==
    \A y \in Loads : pc'[y] = "persist" => pc[y] = "persist" /\ got'[y] = got[y]

\* How the bookkeeping of a load changes: an answer, a move, a fetch.
LEMMA LeaveType ==
    ASSUME LoadTypeOK, NEW x \in Loads, NEW a \in Answers, NEW p \in Places \ {"persist"},
           Leave(x, a, p)
    PROVE  /\ LoadTypeOK'
           /\ NoNewPersist
  BY NoThings, StoreAssumption DEF LoadTypeOK, Leave, Places, NoNewPersist

LEMMA WaysOut ==
    /\ \A x : LetsGo(x) \in {"release", "done"}
    /\ {"announce", "share", "release", "done"} \subseteq Places \ {"persist"}
  BY DEF LetsGo, Places

LEMMA ResolveType ==
    ASSUME LoadTypeOK, NEW x \in Loads, NEW a \in Answers, Resolve(x, a)
    PROVE  /\ LoadTypeOK'
           /\ NoNewPersist
<1>1. LetsGo(x) \in Places \ {"persist"} /\ Leave(x, a, LetsGo(x))
  BY WaysOut DEF Resolve
<1> QED
  BY <1>1, LeaveType

LEMMA GotoType ==
    ASSUME LoadTypeOK, NEW x \in Loads, NEW p \in Places \ {"persist"}, Goto(x, p)
    PROVE  /\ LoadTypeOK'
           /\ NoNewPersist
  BY DEF LoadTypeOK, Goto, Move, Places, NoNewPersist

LEMMA ForgetType ==
    ASSUME LoadTypeOK, NEW S, ForgetLoads(S), mine \in [Loads -> BOOLEAN],
           born \in [Loads -> BOOLEAN]
    PROVE  /\ LoadTypeOK'
           /\ mine' \in [Loads -> BOOLEAN] /\ born' \in [Loads -> BOOLEAN]
           /\ NoNewPersist
  BY NoThings, StoreAssumption DEF LoadTypeOK, ForgetLoads, Places, NoNewPersist

LEMMA RaiseType ==
    \A kind \in {"rejected", "storeError", "providerError", "unmapped"} : Raise(kind) \in Answers
  BY NoThings DEF Raise, Answers

LEMMA RejectionType == now \in Nat => Rejection \in Answers
  BY NoThings DEF Rejection, Answers, Copy

LEMMA FallBackType ==
    ASSUME now \in Nat, LoadTypeOK, NEW x \in Loads,
           NEW kind \in {"storeError", "providerError"}, FallBackOr(x, kind)
    PROVE  /\ LoadTypeOK'
           /\ NoNewPersist
<1>1. stale[x].copy \in Copy
  BY DEF LoadTypeOK, Held
<1>2. Ok(Warned(stale[x].copy)) \in Answers /\ Raise(kind) \in Answers
  BY <1>1, CopiesAreTyped, RaiseType
<1> QED
  BY <1>2, ResolveType DEF FallBackOr

LEMMA StoreTickerSnapshotType ==
    ASSUME StoreTypeOK, NEW t \in Tickers, NEW v \in Filings,
           NEW s \in DurableStatuses, StoreTickerSnapshot(t, v, s)
    PROVE  /\ snapshots' \subseteq Tickers \X Filings
           /\ heads' \in [Tickers -> HeadRow]
  BY StoreAssumption DEF StoreTypeOK, StoreTickerSnapshot, HeadRow, Filings

LEMMA MarkHeadsType ==
    ASSUME StoreTypeOK, NEW S, NEW s \in DurableStatuses, MarkHeads(S, s)
    PROVE  heads' \in [Tickers -> HeadRow]
  BY DEF StoreTypeOK, MarkHeads, HeadRow

LEMMA TypeInit == Init => TypeInv
  BY StoreAssumption, NoThings
     DEF Init, StoreInit, TypeInv, TypeOK, StoreTypeOK, FetchedIsFiling, NoRun, Places

\* Loads that stay out of "persist", or were there with their filing already,
\* and a run left alone, leave the whole state well typed.
LEMMA LoadFrame ==
    ASSUME TypeInv, StoreTypeOK', LoadTypeOK', CacheTypeOK',
           lock' \in [Tickers -> Loads \cup {Free, Orphan}],
           mine' \in [Loads -> BOOLEAN], born' \in [Loads -> BOOLEAN],
           refused' \in [Tickers -> Nat], run' = run, NoNewPersist
    PROVE  TypeInv'
  BY DEF TypeInv, TypeOK, LoadTypeOK, CacheTypeOK, FetchedIsFiling, NoNewPersist

\* One lemma per action that does more than move a load.
LEMMA ReadRedisType ==
    ASSUME TypeInv, NEW x \in Loads, ReadRedis(x)
    PROVE  TypeInv'
<1>1. PICK remote \in {rfund[x[2]], NoCopy} :
         LET younger == /\ Exists(remote)
                        /\ Exists(stale[x].copy) => Hold(remote).age < stale[x].age
             held == IF younger THEN Hold(remote) ELSE stale[x]
         IN  /\ l1' = IF younger THEN [l1 EXCEPT ![x] = remote] ELSE l1
             /\ \/ Resolve(x, Ok(held.copy)) /\ UNCHANGED neg
                \/ Resolve(x, Raise("rejected")) /\ UNCHANGED neg
                \/ /\ neg' = [neg EXCEPT ![x] = 0]
                   /\ stale' = [stale EXCEPT ![x] = Fallback(held)]
                   /\ Move(x, "negative")
                   /\ UNCHANGED <<row, got>>
  BY DEF ReadRedis, Reads
<1> DEFINE younger == /\ Exists(remote)
                      /\ Exists(stale[x].copy) => Hold(remote).age < stale[x].age
           held == IF younger THEN Hold(remote) ELSE stale[x]
<1>2. remote \in Copy
  BY TickerOfLoad, NoThings DEF TypeInv, TypeOK
<1>3. held \in Held /\ Fallback(held) \in Held /\ Ok(held.copy) \in Answers
  <2>1. held \in Held
    BY <1>2, CopiesAreTyped DEF TypeInv, TypeOK, StoreTypeOK
  <2>2. held.copy \in Copy
    BY <2>1 DEF Held
  <2> HIDE DEF held
  <2> QED
    BY <2>1, <2>2, CopiesAreTyped, NoThings DEF Fallback, TypeInv, TypeOK, StoreTypeOK
<1>4. l1' \in [Loads -> Copy] /\ neg' \in [Loads -> Nat]
  BY <1>1, <1>2 DEF TypeInv, TypeOK
<1>5. /\ LoadTypeOK'
      /\ NoNewPersist
  <2> HIDE DEF held
  <2>1. CASE \E a \in Answers : Resolve(x, a)
    BY <2>1, ResolveType, TypeParts DEF TypeInv
  <2>2. CASE /\ stale' = [stale EXCEPT ![x] = Fallback(held)]
             /\ Move(x, "negative")
             /\ UNCHANGED <<row, got>>
    BY <2>2, <1>3, TypeParts DEF TypeInv, LoadTypeOK, Move, Places, NoNewPersist
  <2> QED
    BY <1>1, <1>3, <2>1, <2>2, RaiseType DEF held
<1>6. StoreTypeOK' /\ CacheTypeOK'
  BY <1>4 DEF ReadRedis, storeVars, TypeInv, TypeOK, StoreTypeOK, CacheTypeOK
<1> QED
  BY <1>5, <1>6, LoadFrame DEF ReadRedis, TypeInv, TypeOK

LEMMA StartType ==
    ASSUME TypeInv, NEW x \in Loads, Start(x)
    PROVE  TypeInv'
<1>1. l1[x] \in Copy /\ Hold(l1[x]) \in Held /\ Ok(l1[x]) \in Answers
  BY CopiesAreTyped DEF TypeInv, TypeOK, StoreTypeOK
<1>2. LoadTypeOK' /\ NoNewPersist
  <2>1. CASE Resolve(x, Ok(l1[x]))
    BY <1>1, <2>1, ResolveType, TypeParts DEF TypeInv
  <2>2. CASE /\ stale' = [stale EXCEPT ![x] = Hold(l1[x])]
             /\ Move(x, "redis")
             /\ UNCHANGED <<row, got>>
    BY <1>1, <2>2, TypeParts DEF TypeInv, LoadTypeOK, Move, Places, NoNewPersist
  <2> QED
    BY <2>1, <2>2 DEF Start
<1>3. born' \in [Loads -> BOOLEAN]
  BY DEF Start, TypeInv, TypeOK, HasHead, StoreTypeOK, HeadRow
<1> QED
  BY <1>2, <1>3, LoadFrame
     DEF Start, storeVars, cacheVars, TypeInv, TypeOK, StoreTypeOK, CacheTypeOK

LEMMA ReadNegativeType ==
    ASSUME TypeInv, NEW x \in Loads, ReadNegative(x)
    PROVE  TypeInv'
<1>1. PICK at \in {rneg[x[2]], 0} :
         \/ neg' = [neg EXCEPT ![x] = at] /\ Resolve(x, Raise("rejected"))
         \/ Goto(x, "lock") /\ UNCHANGED neg
  BY DEF ReadNegative, Reads
<1>2. at \in Nat
  BY TickerOfLoad DEF TypeInv, TypeOK
<1>3. neg' \in [Loads -> Nat]
  BY <1>1, <1>2 DEF TypeInv, TypeOK
<1>4. LoadTypeOK' /\ NoNewPersist
  BY <1>1, ResolveType, GotoType, RaiseType, TypeParts DEF TypeInv, Places
<1> QED
  BY <1>3, <1>4, LoadFrame
     DEF ReadNegative, storeVars, TypeInv, TypeOK, StoreTypeOK, CacheTypeOK

LEMMA TryLockType ==
    ASSUME TypeInv, NEW x \in Loads, TryLock(x)
    PROVE  TypeInv'
<1>1. LoadTypeOK' /\ NoNewPersist
  BY GotoType, TypeParts DEF TryLock, TypeInv, Places
<1> DEFINE taken == IF lock[x[2]] = Free THEN Orphan ELSE lock[x[2]]
<1>2. taken \in Loads \cup {Free, Orphan} /\ x[2] \in Tickers
  BY TickerOfLoad DEF TypeInv, TypeOK
<1>3. lock' = lock \/ lock' = [lock EXCEPT ![x[2]] = x] \/ lock' = [lock EXCEPT ![x[2]] = taken]
  BY DEF TryLock
<1>4. lock' \in [Tickers -> Loads \cup {Free, Orphan}]
  <2> HIDE DEF taken
  <2> QED
    BY <1>2, <1>3 DEF TypeInv, TypeOK
<1>5. mine' \in [Loads -> BOOLEAN]
  BY DEF TryLock, TypeInv, TypeOK
<1> QED
  BY <1>1, <1>4, <1>5, LoadFrame
     DEF TryLock, storeVars, cacheVars, TypeInv, TypeOK, StoreTypeOK, CacheTypeOK

LEMMA PollType ==
    ASSUME TypeInv, NEW x \in Loads, Poll(x) \/ PollTimeout(x)
    PROVE  TypeInv'
<1>1. rfund[x[2]] \in Copy /\ Ok(rfund[x[2]]) \in Answers
  BY TickerOfLoad, CopiesAreTyped DEF TypeInv, TypeOK, StoreTypeOK
<1>2. LoadTypeOK' /\ NoNewPersist
  BY <1>1, ResolveType, GotoType, TypeParts DEF Poll, PollTimeout, TypeInv, Places
<1>3. l1' \in [Loads -> Copy]
  BY <1>1 DEF Poll, PollTimeout, cacheVars, TypeInv, TypeOK
<1> QED
  BY <1>2, <1>3, LoadFrame
     DEF Poll, PollTimeout, storeVars, cacheVars, TypeInv, TypeOK, StoreTypeOK, CacheTypeOK

LEMMA ReadStoreType ==
    ASSUME TypeInv, NEW x \in Loads, ReadStore(x)
    PROVE  TypeInv'
<1>1. CASE Goto(x, "fetch") \/ FallBackOr(x, "storeError")
  <2>1. LoadTypeOK' /\ NoNewPersist
    BY <1>1, GotoType, FallBackType, TypeParts DEF TypeInv, TypeOK, StoreTypeOK, Places
  <2> QED
    BY <2>1, LoadFrame
       DEF ReadStore, storeVars, cacheVars, TypeInv, TypeOK, StoreTypeOK, CacheTypeOK
<1>2. CASE /\ row' = [row EXCEPT ![x] = heads[x[2]]]
           /\ Move(x, "hydrate")
           /\ UNCHANGED <<stale, got>>
  <2>1. heads[x[2]] \in HeadRow
    BY TickerOfLoad DEF TypeInv, TypeOK, StoreTypeOK
  <2>2. LoadTypeOK' /\ NoNewPersist
    BY <1>2, <2>1, TypeParts DEF TypeInv, LoadTypeOK, Move, Places, NoNewPersist
  <2> QED
    BY <2>2, LoadFrame
       DEF ReadStore, storeVars, cacheVars, TypeInv, TypeOK, StoreTypeOK, CacheTypeOK
<1> QED
  BY <1>1, <1>2 DEF ReadStore

LEMMA SetsCopy ==
    ASSUME TypeInv, NEW t \in Tickers, NEW copy \in Copy, Sets(rfund, rfund', t, copy)
    PROVE  rfund' \in [Tickers -> Copy]
  BY DEF Sets, TypeInv, TypeOK

\* What a load that read a row, or wrote one, serves.
LEMMA HydrateServes ==
    ASSUME TypeInv, NEW x \in Loads, Hydrate(x)
    PROVE  \E copy \in Copy : /\ copy.ver = row[x].ver
                              /\ l1' = [l1 EXCEPT ![x] = copy]
                              /\ Leave(x, Ok(copy), "share")
<1> DEFINE due == row[x].verified < LastRefreshBoundary(now)
           copy == [ver |-> row[x].ver, at |-> row[x].verified,
                    status |-> ServedStatus(row[x], due), warned |-> due]
<1>1. row[x] \in HeadRow
  BY DEF TypeInv, TypeOK
<1>2. ServedStatus(row[x], due) \in Statuses
  BY <1>1 DEF ServedStatus, HeadRow, Statuses
<1>3. copy \in Copy
  BY <1>1, <1>2 DEF Copy, HeadRow
<1> QED
  BY <1>3 DEF Hydrate

LEMMA PublishServes ==
    ASSUME TypeInv, NEW x \in Loads, Publish(x)
    PROVE  \E copy \in Copy : /\ copy.ver = got[x]
                              /\ l1' = [l1 EXCEPT ![x] = copy]
                              /\ Leave(x, Ok(copy), "announce")
<1> DEFINE copy == Published(got[x], "bootstrap_snapshot")
<1>1. copy \in Copy /\ copy.ver = got[x]
  BY DEF Published, Copy, Statuses, DurableStatuses, TypeInv, TypeOK, StoreTypeOK
<1> QED
  BY <1>1 DEF Publish

LEMMA HydrateType ==
    ASSUME TypeInv, NEW x \in Loads, Hydrate(x)
    PROVE  TypeInv'
<1>1. PICK copy \in Copy : l1' = [l1 EXCEPT ![x] = copy] /\ Leave(x, Ok(copy), "share")
  BY HydrateServes
<1>2. LoadTypeOK' /\ NoNewPersist
  BY <1>1, CopiesAreTyped, LeaveType, WaysOut, TypeParts DEF TypeInv, StoreTypeOK
<1>3. l1' \in [Loads -> Copy]
  BY <1>1 DEF TypeInv, TypeOK
<1> QED
  BY <1>2, <1>3, LoadFrame
     DEF Hydrate, storeVars, TypeInv, TypeOK, StoreTypeOK, CacheTypeOK

LEMMA FetchType ==
    ASSUME TypeInv, NEW x \in Loads, Fetch(x)
    PROVE  TypeInv'
<1>1. CASE /\ filing[x[2]] # 0
           /\ got' = [got EXCEPT ![x] = filing[x[2]]]
           /\ Move(x, "persist")
           /\ UNCHANGED <<neg, refused, stale, row>>
  <2>1. filing[x[2]] \in 0..MaxFiling
    BY TickerOfLoad DEF TypeInv, TypeOK, StoreTypeOK
  <2>2. LoadTypeOK'
    BY <1>1, <2>1, TypeParts DEF TypeInv, LoadTypeOK, Move, Places
  <2>3. run' = run /\ FetchedIsFiling'
    BY <1>1 DEF Fetch, Move, TypeInv, TypeOK, FetchedIsFiling
  <2> QED
    BY <1>1, <2>2, <2>3
       DEF Fetch, storeVars, TypeInv, TypeOK, StoreTypeOK, LoadTypeOK
<1>2. CASE /\ neg' = [neg EXCEPT ![x] = now]
           /\ refused' = [refused EXCEPT ![x[2]] = now]
           /\ Leave(x, Rejection, "share")
  <2>1. LoadTypeOK' /\ NoNewPersist
    BY <1>2, RejectionType, LeaveType, WaysOut, TypeParts DEF TypeInv, StoreTypeOK
  <2>2. neg' \in [Loads -> Nat] /\ refused' \in [Tickers -> Nat]
    BY <1>2, TickerOfLoad DEF TypeInv, TypeOK, StoreTypeOK
  <2> QED
    BY <2>1, <2>2, LoadFrame
       DEF Fetch, storeVars, TypeInv, TypeOK, StoreTypeOK, CacheTypeOK
<1>3. CASE /\ FallBackOr(x, "providerError") \/ Leave(x, Raise("unmapped"), "done")
           /\ UNCHANGED <<neg, refused>>
  <2>1. LoadTypeOK' /\ NoNewPersist
    BY <1>3, FallBackType, RaiseType, LeaveType, WaysOut, TypeParts
       DEF TypeInv, TypeOK, StoreTypeOK
  <2> QED
    BY <1>3, <2>1, LoadFrame
       DEF Fetch, storeVars, TypeInv, TypeOK, StoreTypeOK, CacheTypeOK
<1> QED
  BY <1>1, <1>2, <1>3 DEF Fetch

LEMMA PersistType ==
    ASSUME TypeInv, NEW x \in Loads, Persist(x)
    PROVE  TypeInv'
<1>1. LoadTypeOK' /\ NoNewPersist
  BY GotoType, ResolveType, RaiseType, TypeParts DEF Persist, TypeInv, Places
<1>2. got[x] \in Filings
  BY StoreAssumption DEF Persist, TypeInv, TypeOK, FetchedIsFiling, Filings
<1>3. StoreTypeOK'
  BY <1>2, StoreTickerSnapshotType, TickerOfLoad
     DEF Persist, TypeInv, TypeOK, StoreTypeOK, DurableStatuses
<1> QED
  BY <1>1, <1>3, LoadFrame DEF Persist, cacheVars, TypeInv, TypeOK, CacheTypeOK

LEMMA PublishType ==
    ASSUME TypeInv, NEW x \in Loads, Publish(x)
    PROVE  TypeInv'
<1>1. PICK copy \in Copy : l1' = [l1 EXCEPT ![x] = copy] /\ Leave(x, Ok(copy), "announce")
  BY PublishServes
<1>2. LoadTypeOK' /\ NoNewPersist
  BY <1>1, CopiesAreTyped, LeaveType, WaysOut, TypeParts DEF TypeInv, StoreTypeOK
<1>3. l1' \in [Loads -> Copy]
  BY <1>1 DEF TypeInv, TypeOK
<1> QED
  BY <1>2, <1>3, LoadFrame
     DEF Publish, storeVars, TypeInv, TypeOK, StoreTypeOK, CacheTypeOK

\* What an awaited SET tells the other instances.
LEMMA TellsCopies ==
    ASSUME TypeInv, NEW x \in Loads, Announce(x) \/ Share(x)
    PROVE  /\ rfund' = rfund \/ \E copy \in Copy : /\ answer[x].kind = "ok" \/ pc[x] = "announce"
                                                 /\ copy.ver = answer[x].copy.ver
                                                 /\ rfund' = [rfund EXCEPT ![x[2]] = copy]
           /\ \/ rneg' = rneg
              \/ /\ pc[x] = "share" /\ answer[x].kind = "rejected"
                 /\ rneg' = [rneg EXCEPT ![x[2]] = answer[x].copy.at]
           /\ Goto(x, LetsGo(x))
<1>1. answer[x].copy \in Copy /\ now \in Nat
  BY DEF TypeInv, TypeOK, StoreTypeOK, Answers
<1>2. \A at \in answer[x].copy.at .. now : [answer[x].copy EXCEPT !.at = at] \in Copy
  BY <1>1 DEF Copy
<1>3. \A at : [answer[x].copy EXCEPT !.at = at].ver = answer[x].copy.ver
  BY <1>1 DEF Copy
<1>4. CASE Announce(x)
  BY <1>2, <1>3, <1>4 DEF Announce, Sets
<1>5. CASE Share(x)
  BY <1>1, <1>5 DEF Share, Sets
<1> QED
  BY <1>4, <1>5

LEMMA TellType ==
    ASSUME TypeInv, NEW x \in Loads, Announce(x) \/ Share(x)
    PROVE  TypeInv'
<1>1. Goto(x, LetsGo(x)) /\ LetsGo(x) \in Places \ {"persist"}
  BY TellsCopies, WaysOut
<1>2. LoadTypeOK' /\ NoNewPersist
  BY <1>1, GotoType, TypeParts DEF TypeInv
<1>3. rfund' \in [Tickers -> Copy]
  BY TellsCopies, TickerOfLoad DEF TypeInv, TypeOK
<1>4. rneg' \in [Tickers -> Nat]
  <2>1. answer[x].copy.at \in Nat
    BY DEF TypeInv, TypeOK, Answers, Copy
  <2> QED
    BY <2>1, TellsCopies, TickerOfLoad DEF TypeInv, TypeOK
<1> QED
  BY <1>2, <1>3, <1>4, LoadFrame
     DEF Announce, Share, storeVars, TypeInv, TypeOK, StoreTypeOK, CacheTypeOK

LEMMA ReleaseType ==
    ASSUME TypeInv, NEW x \in Loads, Release(x)
    PROVE  TypeInv'
<1>1. LoadTypeOK' /\ NoNewPersist
  BY GotoType, TypeParts DEF Release, TypeInv, Places
<1>2. lock' \in [Tickers -> Loads \cup {Free, Orphan}]
  BY TickerOfLoad DEF Release, TypeInv, TypeOK
<1> QED
  BY <1>1, <1>2, LoadFrame
     DEF Release, storeVars, cacheVars, TypeInv, TypeOK, StoreTypeOK, CacheTypeOK

LEMMA ReturnType ==
    ASSUME TypeInv, NEW x \in Loads, Return(x)
    PROVE  TypeInv'
<1>1. LoadTypeOK' /\ mine' \in [Loads -> BOOLEAN] /\ born' \in [Loads -> BOOLEAN]
      /\ NoNewPersist
  BY ForgetType, TypeParts DEF Return, TypeInv
<1>2. lock' \in [Tickers -> Loads \cup {Free, Orphan}]
  BY TickerOfLoad DEF Return, TypeInv, TypeOK
<1> QED
  BY <1>1, <1>2, LoadFrame
     DEF Return, storeVars, cacheVars, TypeInv, TypeOK, StoreTypeOK, CacheTypeOK

\* The scheduled cycle touches the heads, the run and the caches of a ticker.
LEMMA ScheduledFrame ==
    ASSUME TypeInv, Scheduled, snapshots' \subseteq Tickers \X Filings,
           heads' \in [Tickers -> HeadRow], l1' \in [Loads -> Copy],
           rfund' \in [Tickers -> Copy], run' \in [Tickers -> RunRow],
           \A t \in Tickers : run'[t].pc = "persist" => run'[t].ver # 0
    PROVE  TypeInv'
  BY DEF TypeInv, TypeOK, StoreTypeOK, FetchedIsFiling, Scheduled, loadVars

LEMMA RefreshBeginType ==
    ASSUME TypeInv, NEW i \in Instances, NEW t \in Tickers, NEW d \in Nat,
           RefreshBegin(i, t, d)
    PROVE  TypeInv'
<1>1. heads' \in [Tickers -> HeadRow]
  BY MarkHeadsType DEF RefreshBegin, TypeInv, TypeOK, DurableStatuses
<1>2. /\ [NoRun EXCEPT !.pc = "fetch", !.on = <<i, t>>, !.date = d] \in RunRow
      /\ [NoRun EXCEPT !.pc = "fetch", !.on = <<i, t>>, !.date = d].pc = "fetch"
  <2>1. NoRun \in RunRow /\ <<i, t>> \in Loads
    BY NoThings DEF Loads
  <2> QED
    BY <2>1 DEF RunRow
<1>3. run' \in [Tickers -> RunRow]
      /\ \A u \in Tickers : run'[u].pc = "persist" => run'[u].ver # 0
  BY <1>2 DEF RefreshBegin, TypeInv, TypeOK, FetchedIsFiling
<1> QED
  BY <1>1, <1>3, ScheduledFrame DEF RefreshBegin, TypeInv, TypeOK, StoreTypeOK

LEMMA RefreshFetchType ==
    ASSUME TypeInv, NEW t \in Tickers, RefreshFetch(t)
    PROVE  TypeInv'
<1>1. filing[t] \in 0..MaxFiling
  BY DEF TypeInv, TypeOK, StoreTypeOK
<1>2. run' \in [Tickers -> RunRow]
  <2>1. run[t] \in RunRow
    BY DEF TypeInv, TypeOK
  <2>2. /\ [run[t] EXCEPT !.pc = "persist", !.ver = filing[t]] \in RunRow
        /\ [run[t] EXCEPT !.pc = "failed"] \in RunRow
    BY <1>1, <2>1 DEF RunRow
  <2> QED
    BY <2>2 DEF RefreshFetch, TypeInv, TypeOK
<1>3. \A u \in Tickers : run'[u].pc = "persist" => run'[u].ver # 0
  <2>1. run[t] \in RunRow /\ \A u \in Tickers \ {t} : run'[u] = run[u]
    BY DEF RefreshFetch, TypeInv, TypeOK
  <2>2. \/ filing[t] # 0 /\ run'[t] = [run[t] EXCEPT !.pc = "persist", !.ver = filing[t]]
        \/ run'[t] = [run[t] EXCEPT !.pc = "failed"]
    BY DEF RefreshFetch, TypeInv, TypeOK
  <2>3. run'[t].pc = "persist" => run'[t].ver # 0
    BY <2>1, <2>2 DEF RunRow
  <2> QED
    BY <2>1, <2>3 DEF TypeInv, FetchedIsFiling
<1> QED
  BY <1>2, <1>3, ScheduledFrame DEF RefreshFetch, TypeInv, TypeOK, StoreTypeOK

LEMMA RefreshPersistType ==
    ASSUME TypeInv, NEW t \in Tickers, RefreshPersist(t)
    PROVE  TypeInv'
<1>1. run[t].ver \in Filings
  BY StoreAssumption DEF RefreshPersist, TypeInv, TypeOK, RunRow, FetchedIsFiling, Filings
<1>2. snapshots' \subseteq Tickers \X Filings /\ heads' \in [Tickers -> HeadRow]
  BY <1>1, StoreTickerSnapshotType
     DEF RefreshPersist, TypeInv, TypeOK, StoreTypeOK, DurableStatuses
<1>3. run' \in [Tickers -> RunRow]
  <2>1. run[t] \in RunRow
    BY DEF TypeInv, TypeOK
  <2>2. /\ [run[t] EXCEPT !.pc = "publish"] \in RunRow
        /\ [run[t] EXCEPT !.pc = "failed"] \in RunRow
    BY <2>1 DEF RunRow
  <2> QED
    BY <2>2 DEF RefreshPersist, TypeInv, TypeOK
<1>4. \A u \in Tickers : run'[u].pc = "persist" => run'[u].ver # 0
  BY DEF RefreshPersist, TypeInv, TypeOK, RunRow, FetchedIsFiling
<1> QED
  BY <1>2, <1>3, <1>4, ScheduledFrame DEF RefreshPersist, TypeInv, TypeOK

LEMMA RefreshPublishType ==
    ASSUME TypeInv, NEW t \in Tickers, RefreshPublish(t)
    PROVE  TypeInv'
<1> DEFINE copy == Published(run[t].ver, "current_as_of_daily_refresh")
<1>1. copy \in Copy
  BY DEF Published, Copy, Statuses, DurableStatuses, TypeInv, TypeOK, StoreTypeOK, RunRow
<1>2. l1' = [l1 EXCEPT ![run[t].on] = copy]
  BY DEF RefreshPublish
<1> HIDE DEF copy
<1>3. l1' \in [Loads -> Copy]
  BY <1>1, <1>2 DEF TypeInv, TypeOK
<1>4. run' \in [Tickers -> RunRow]
  <2>1. run[t] \in RunRow /\ now \in Nat
    BY DEF TypeInv, TypeOK, StoreTypeOK
  <2>2. [run[t] EXCEPT !.pc = "announce", !.at = now] \in RunRow
    BY <2>1 DEF RunRow
  <2> QED
    BY <2>2 DEF RefreshPublish, TypeInv, TypeOK
<1>5. \A u \in Tickers : run'[u].pc = "persist" => run'[u].ver # 0
  BY DEF RefreshPublish, TypeInv, TypeOK, RunRow, FetchedIsFiling
<1> QED
  BY <1>3, <1>4, <1>5, ScheduledFrame DEF RefreshPublish, TypeInv, TypeOK, StoreTypeOK

LEMMA RefreshTells ==
    ASSUME TypeInv, NEW t \in Tickers, RefreshAnnounce(t)
    PROVE  rfund' = rfund \/ \E copy \in Copy : /\ copy.ver = run[t].ver
                                              /\ rfund' = [rfund EXCEPT ![t] = copy]
<1>1. run[t].ver \in 0..MaxFiling /\ run[t].at \in Nat /\ now \in Nat
  BY DEF TypeInv, TypeOK, StoreTypeOK, RunRow
<1>2. \A at \in run[t].at .. now :
         LET copy == [Published(run[t].ver, "current_as_of_daily_refresh") EXCEPT !.at = at]
         IN  copy \in Copy /\ copy.ver = run[t].ver
  <2>1. Published(run[t].ver, "current_as_of_daily_refresh") \in Copy
    BY <1>1 DEF Published, Copy, Statuses, DurableStatuses
  <2>2. Published(run[t].ver, "current_as_of_daily_refresh").ver = run[t].ver
    BY DEF Published
  <2> QED
    BY <1>1, <2>1, <2>2 DEF Copy
<1> QED
  BY <1>2 DEF RefreshAnnounce, Sets

LEMMA RefreshAnnounceType ==
    ASSUME TypeInv, NEW t \in Tickers, RefreshAnnounce(t)
    PROVE  TypeInv'
<1>1. rfund' \in [Tickers -> Copy]
  BY RefreshTells DEF TypeInv, TypeOK
<1>2. run' \in [Tickers -> RunRow]
  BY DEF RefreshAnnounce, TypeInv, TypeOK, RunRow
<1>3. \A u \in Tickers : run'[u].pc = "persist" => run'[u].ver # 0
  BY DEF RefreshAnnounce, TypeInv, TypeOK, RunRow, FetchedIsFiling
<1> QED
  BY <1>1, <1>2, <1>3, ScheduledFrame DEF RefreshAnnounce, TypeInv, TypeOK, StoreTypeOK

LEMMA RefreshEndType ==
    ASSUME TypeInv, NEW t \in Tickers, RefreshEnd(t)
    PROVE  TypeInv'
<1>1. heads' \in [Tickers -> HeadRow]
  BY MarkHeadsType DEF RefreshEnd, TypeInv, TypeOK, StoreTypeOK, DurableStatuses
<1>2. [NoRun EXCEPT !.date = run[t].date] \in RunRow
  BY StoreAssumption DEF TypeInv, TypeOK, RunRow, NoRun
<1>3. run' \in [Tickers -> RunRow]
  BY <1>2 DEF RefreshEnd, TypeInv, TypeOK
<1>4. \A u \in Tickers : run'[u].pc = "persist" => run'[u].ver # 0
  BY DEF RefreshEnd, TypeInv, TypeOK, NoRun, FetchedIsFiling
<1> QED
  BY <1>1, <1>3, <1>4, ScheduledFrame DEF RefreshEnd, TypeInv, TypeOK, StoreTypeOK

\* The environment.
LEMMA EnvironmentType ==
    ASSUME TypeInv,
           \/ ClockAndProvider
           \/ \E x \in Loads : Evict(x)
           \/ \E t \in Tickers : LeaseExpires(t) \/ Corrupt(t)
    PROVE  TypeInv'
<1>1. CASE ClockAndProvider
  <2>1. StoreTypeOK'
    <3>1. CASE Tick
      BY <1>1, <3>1 DEF Tick, TypeInv, TypeOK, StoreTypeOK
    <3>2. ASSUME NEW t \in Tickers, NewFiling(t) PROVE StoreTypeOK'
      <4>1. filing[t] + 1 \in 0..MaxFiling
        BY <3>2, StoreAssumption DEF NewFiling, TypeInv, TypeOK, StoreTypeOK
      <4> QED
        BY <3>2, <4>1 DEF NewFiling, TypeInv, TypeOK, StoreTypeOK
    <3> QED
      BY <1>1, <3>1, <3>2 DEF ClockAndProvider
  <2> QED
    BY <1>1, <2>1 DEF ClockAndProvider, cacheVars, loadVars, TypeInv, TypeOK, FetchedIsFiling
<1>2. ASSUME NEW x \in Loads, Evict(x) PROVE TypeInv'
  <2>1. CacheTypeOK'
    BY <1>2, NoThings, TickerOfLoad DEF Evict, TypeInv, TypeOK, CacheTypeOK
  <2> QED
    BY <1>2, <2>1
       DEF Evict, storeVars, loadVars, TypeInv, TypeOK, StoreTypeOK, CacheTypeOK, FetchedIsFiling
<1>3. ASSUME NEW t \in Tickers, LeaseExpires(t) PROVE TypeInv'
  BY <1>3 DEF LeaseExpires, storeVars, cacheVars, loadVars, TypeInv, TypeOK, StoreTypeOK,
              FetchedIsFiling
<1>4. ASSUME NEW t \in Tickers, Corrupt(t) PROVE TypeInv'
  <2>1. heads' \in [Tickers -> HeadRow]
    <3>1. heads[t] \in HeadRow
      BY DEF TypeInv, TypeOK, StoreTypeOK
    <3>2. [heads[t] EXCEPT !.sound = FALSE] \in HeadRow
      BY <3>1 DEF HeadRow
    <3> QED
      BY <1>4, <3>2 DEF Corrupt, TypeInv, TypeOK, StoreTypeOK
  <2> QED
    BY <1>4, <2>1 DEF Corrupt, cacheVars, loadVars, TypeInv, TypeOK, StoreTypeOK,
                      FetchedIsFiling
<1> QED
  BY <1>1, <1>2, <1>3, <1>4

LEMMA CrashType ==
    ASSUME TypeInv, NEW i \in Instances, Crash(i)
    PROVE  TypeInv'
<1> DEFINE dead == {x \in Loads : x[1] = i}
<1>1. ForgetLoads(dead)
  BY DEF Crash
<1>2. LoadTypeOK' /\ mine' \in [Loads -> BOOLEAN] /\ born' \in [Loads -> BOOLEAN]
      /\ NoNewPersist
  BY <1>1, ForgetType, TypeParts DEF TypeInv
<1>3. CacheTypeOK' /\ lock' \in [Tickers -> Loads \cup {Free, Orphan}]
  BY NoThings DEF Crash, TypeInv, TypeOK, CacheTypeOK
<1>4. \A t \in Tickers : [NoRun EXCEPT !.date = run[t].date] \in RunRow
  BY StoreAssumption DEF TypeInv, TypeOK, RunRow, NoRun
<1>5. run' \in [Tickers -> RunRow]
      /\ \A t \in Tickers : run'[t].pc = "persist" => run'[t].ver # 0
  BY <1>4 DEF Crash, TypeInv, TypeOK, FetchedIsFiling, NoRun
<1>6. StoreTypeOK' /\ refused' \in [Tickers -> Nat]
  BY DEF Crash, storeVars, TypeInv, TypeOK, StoreTypeOK
<1> QED
  BY <1>2, <1>3, <1>5, <1>6
     DEF TypeInv, TypeOK, LoadTypeOK, CacheTypeOK, FetchedIsFiling, NoNewPersist

LEMMA TypeStep == TypeInv /\ [Next]_vars => TypeInv'
<1> SUFFICES ASSUME TypeInv, [Next]_vars PROVE TypeInv'
  OBVIOUS
<1>1. CASE UNCHANGED vars
  BY <1>1 DEF vars, TypeInv, TypeOK, StoreTypeOK, FetchedIsFiling
<1>2. ASSUME NEW x \in Loads, Start(x) \/ LoadStep(x) PROVE TypeInv'
  BY <1>2, StartType, ReadRedisType, ReadNegativeType, TryLockType, PollType, ReadStoreType,
     HydrateType, FetchType, PersistType, PublishType, TellType, ReleaseType, ReturnType
     DEF LoadStep
<1>3. ASSUME NEW t \in Tickers, RefreshStep(t) PROVE TypeInv'
  BY <1>3, RefreshFetchType, RefreshPersistType, RefreshPublishType, RefreshAnnounceType,
     RefreshEndType DEF RefreshStep
<1>4. ASSUME NEW i \in Instances, NEW t \in Tickers, NEW d \in 0..MaxTime, RefreshBegin(i, t, d)
      PROVE  TypeInv'
  BY <1>4, RefreshBeginType, StoreAssumption
<1> QED
  BY <1>1, <1>2, <1>3, <1>4, EnvironmentType, CrashType DEF Next

\* Every variable of the service keeps its type - in particular what a load
\* hands to the store is a filing the provider returned, and a status a
\* customer sees is one of the API's vocabulary - whatever fails and when.
THEOREM TypeCorrect == Spec => []TypeOK
<1>1. TypeInv => TypeOK
  BY DEF TypeInv
<1> QED
  BY <1>1, TypeInit, TypeStep, PTL DEF Spec

-----------------------------------------------------------------------------
(* Nothing uncommitted is ever cached or answered.  CachesAreCommitted is    *)
(* not inductive: what a load publishes tomorrow is what it carries today,   *)
(* so the invariant follows the version through every place a load or a      *)
(* scheduled run carries it, from the store's row to the customer.           *)

IsStored(t, v) == <<t, v>> \in snapshots

\* Where a load that knows its answer can be.
Answered == {"announce", "share", "release", "done"}

LoadCarriesCommitted(x) ==
    /\ Committed(x[2], stale[x].copy)
    /\ Committed(x[2], answer[x].copy)
    /\ pc[x] = "hydrate" => IsStored(x[2], row[x].ver)
    /\ pc[x] = "publish" => IsStored(x[2], got[x])
    /\ pc[x] \notin Answered => answer[x] = NoAnswer

LoadsCarryCommitted == \A x \in Loads : LoadCarriesCommitted(x)

CachesHoldCommitted ==
    /\ \A x \in Loads : Committed(x[2], l1[x])
    /\ \A t \in Tickers : Committed(t, rfund[t])

RunCarriesCommitted(t) ==
    /\ run[t].pc \in {"publish", "announce"} => IsStored(t, run[t].ver)
    /\ run[t].pc # "idle" => run[t].on \in Loads /\ run[t].on[2] = t

RunsCarryCommitted == \A t \in Tickers : RunCarriesCommitted(t)

CommittedInv ==
    /\ HeadsReferenceSnapshots
    /\ LoadsCarryCommitted
    /\ CachesHoldCommitted
    /\ RunsCarryCommitted

\* The filings of the store are only ever added to.
StoreGrows == snapshots \subseteq snapshots'

LEMMA CommittedInit == Init => CommittedInv
  BY DEF Init, StoreInit, CommittedInv, HeadsReferenceSnapshots, HasHead, NoHead,
         LoadsCarryCommitted, LoadCarriesCommitted, CachesHoldCommitted, RunsCarryCommitted,
         RunCarriesCommitted, Committed, Exists, NoCopy, NoHeld, NoAnswer, NoRun

LEMMA LoadsAfterLeave ==
    ASSUME LoadTypeOK, LoadsCarryCommitted, StoreGrows, NEW x \in Loads, NEW a \in Answers,
           NEW p \in Answered,
           Leave(x, a, p), Exists(a.copy) => <<x[2], a.copy.ver>> \in snapshots'
    PROVE  LoadsCarryCommitted'
<1> SUFFICES ASSUME NEW y \in Loads PROVE LoadCarriesCommitted(y)'
  BY DEF LoadsCarryCommitted
<1>1. CASE y = x
  BY <1>1
     DEF LoadTypeOK, Leave, Answered, LoadCarriesCommitted, Committed, Exists, NoHeld, NoCopy
<1>2. CASE y # x
  BY <1>2 DEF LoadTypeOK, Leave, LoadsCarryCommitted, LoadCarriesCommitted, Committed,
              IsStored, StoreGrows
<1> QED
  BY <1>1, <1>2

LEMMA LoadsAfterResolve ==
    ASSUME LoadTypeOK, LoadsCarryCommitted, StoreGrows, NEW x \in Loads, NEW a \in Answers,
           Resolve(x, a), Exists(a.copy) => <<x[2], a.copy.ver>> \in snapshots'
    PROVE  LoadsCarryCommitted'
<1>1. LetsGo(x) \in Answered /\ Leave(x, a, LetsGo(x))
  BY WaysOut DEF Resolve, Answered
<1> QED
  BY <1>1, LoadsAfterLeave

LEMMA LoadsAfterGoto ==
    ASSUME LoadTypeOK, LoadsCarryCommitted, StoreGrows, NEW x \in Loads,
           NEW p \in Places \ {"hydrate"}, Goto(x, p),
           p = "publish" => <<x[2], got[x]>> \in snapshots',
           pc[x] \in Answered => p \in Answered
    PROVE  LoadsCarryCommitted'
<1> SUFFICES ASSUME NEW y \in Loads PROVE LoadCarriesCommitted(y)'
  BY DEF LoadsCarryCommitted
<1>1. CASE y = x
  BY <1>1 DEF LoadTypeOK, Goto, Move, LoadsCarryCommitted, LoadCarriesCommitted, Committed,
              IsStored, StoreGrows
<1>2. CASE y # x
  BY <1>2 DEF LoadTypeOK, Goto, Move, LoadsCarryCommitted, LoadCarriesCommitted, Committed,
              IsStored, StoreGrows
<1> QED
  BY <1>1, <1>2

LEMMA LoadsAfterForget ==
    ASSUME LoadsCarryCommitted, StoreGrows, NEW S, ForgetLoads(S)
    PROVE  LoadsCarryCommitted'
<1> SUFFICES ASSUME NEW y \in Loads PROVE LoadCarriesCommitted(y)'
  BY DEF LoadsCarryCommitted
<1>1. CASE y \in S
  BY <1>1 DEF ForgetLoads, LoadCarriesCommitted, Committed, Exists, NoHeld, NoAnswer, NoCopy
<1>2. CASE y \notin S
  BY <1>2 DEF ForgetLoads, LoadsCarryCommitted, LoadCarriesCommitted, Committed, IsStored,
              StoreGrows
<1> QED
  BY <1>1, <1>2

LEMMA LoadsAlone ==
    ASSUME LoadsCarryCommitted, StoreGrows, UNCHANGED <<pc, stale, row, got, answer>>
    PROVE  LoadsCarryCommitted'
  BY DEF LoadsCarryCommitted, LoadCarriesCommitted, Committed, IsStored, StoreGrows

LEMMA FallBackCommitted ==
    ASSUME now \in Nat, LoadTypeOK, LoadsCarryCommitted, StoreGrows, NEW x \in Loads,
           NEW kind \in {"storeError", "providerError"}, FallBackOr(x, kind)
    PROVE  LoadsCarryCommitted'
<1>1. stale[x].copy \in Copy
  BY DEF LoadTypeOK, Held
<1>2. Warned(stale[x].copy).ver = stale[x].copy.ver
  BY <1>1 DEF Warned, Copy
<1>3. CASE Exists(stale[x].copy) /\ Resolve(x, Ok(Warned(stale[x].copy)))
  BY <1>1, <1>2, <1>3, CopiesAreTyped, LoadsAfterResolve
     DEF Ok, LoadsCarryCommitted, LoadCarriesCommitted, Committed, StoreGrows
<1>4. CASE Resolve(x, Raise(kind))
  BY <1>4, RaiseType, LoadsAfterResolve DEF Raise, Exists, NoCopy
<1> QED
  BY <1>3, <1>4 DEF FallBackOr

LEMMA CachesAfterPut ==
    ASSUME TypeOK, CachesHoldCommitted, StoreGrows, NEW x \in Loads, NEW copy \in Copy,
           Exists(copy) => <<x[2], copy.ver>> \in snapshots',
           l1' = [l1 EXCEPT ![x] = copy] \/ l1' = l1,
           Sets(rfund, rfund', x[2], copy) \/ rfund' = rfund
    PROVE  CachesHoldCommitted'
<1>1. ASSUME NEW y \in Loads PROVE Committed(y[2], l1[y])'
  BY DEF TypeOK, CachesHoldCommitted, Committed, StoreGrows
<1>2. ASSUME NEW t \in Tickers PROVE Committed(t, rfund[t])'
  BY DEF TypeOK, CachesHoldCommitted, Committed, StoreGrows, Sets
<1> QED
  BY <1>1, <1>2 DEF CachesHoldCommitted

LEMMA CachesAlone ==
    ASSUME CachesHoldCommitted, StoreGrows, UNCHANGED <<l1, rfund>>
    PROVE  CachesHoldCommitted'
  BY DEF CachesHoldCommitted, Committed, StoreGrows

LEMMA RunsAlone ==
    ASSUME RunsCarryCommitted, StoreGrows, run' = run
    PROVE  RunsCarryCommitted'
  BY DEF RunsCarryCommitted, RunCarriesCommitted, IsStored, StoreGrows

LEMMA HeadsAlone ==
    ASSUME HeadsReferenceSnapshots, StoreGrows, heads' = heads
    PROVE  HeadsReferenceSnapshots'
  BY DEF HeadsReferenceSnapshots, HasHead, StoreGrows

LEMMA HeadsAfterStore ==
    ASSUME StoreTypeOK, HeadsReferenceSnapshots, NEW t \in Tickers, NEW v, NEW s,
           StoreTickerSnapshot(t, v, s)
    PROVE  HeadsReferenceSnapshots' /\ StoreGrows /\ <<t, v>> \in snapshots'
  BY DEF StoreTypeOK, HeadsReferenceSnapshots, HasHead, StoreGrows, StoreTickerSnapshot

LEMMA HeadsAfterMark ==
    ASSUME StoreTypeOK, HeadsReferenceSnapshots, NEW S, NEW s, MarkHeads(S, s),
           snapshots' = snapshots
    PROVE  HeadsReferenceSnapshots'
<1>1. \A u \in Tickers : heads'[u].ver = heads[u].ver
  BY DEF MarkHeads, StoreTypeOK, HeadRow
<1> QED
  BY <1>1 DEF HeadsReferenceSnapshots, HasHead

\* One lemma per action that puts data somewhere.
LEMMA StartCommitted ==
    ASSUME TypeInv, CommittedInv, NEW x \in Loads, Start(x)
    PROVE  CommittedInv'
<1>1. StoreGrows /\ LoadTypeOK
  BY TypeParts DEF Start, storeVars, StoreGrows, TypeInv
<1>2. l1[x] \in Copy /\ Ok(l1[x]) \in Answers /\ Committed(x[2], l1[x])
  BY CopiesAreTyped DEF TypeInv, TypeOK, StoreTypeOK, CommittedInv, CachesHoldCommitted
<1>3. CASE Resolve(x, Ok(l1[x]))
  <2>1. LoadsCarryCommitted'
    BY <1>1, <1>2, <1>3, LoadsAfterResolve DEF Ok, Committed, StoreGrows, CommittedInv
  <2> QED
    BY <1>1, <2>1, HeadsAlone, CachesAlone, RunsAlone
       DEF Start, storeVars, cacheVars, CommittedInv
<1>4. CASE /\ stale' = [stale EXCEPT ![x] = Hold(l1[x])]
           /\ Move(x, "redis")
           /\ UNCHANGED <<row, got>>
  <2>1. Committed(x[2], Hold(l1[x]).copy)
    BY <1>2 DEF Hold, NoHeld, NoCopy, Committed, Exists
  <2>2. LoadsCarryCommitted'
    <3> SUFFICES ASSUME NEW y \in Loads PROVE LoadCarriesCommitted(y)'
      BY DEF LoadsCarryCommitted
    <3>1. answer[x] = NoAnswer /\ snapshots' = snapshots
      BY DEF Start, storeVars, CommittedInv, LoadsCarryCommitted, LoadCarriesCommitted, Answered
    <3>2. CASE y = x
      BY <1>1, <1>4, <2>1, <3>1, <3>2
         DEF LoadTypeOK, Move, LoadCarriesCommitted, Committed, Exists, NoAnswer, NoCopy
    <3>3. CASE y # x
      BY <1>1, <1>4, <3>1, <3>3
         DEF LoadTypeOK, Move, CommittedInv, LoadsCarryCommitted, LoadCarriesCommitted,
             Committed, IsStored
    <3> QED
      BY <3>2, <3>3
  <2> QED
    BY <1>1, <2>2, HeadsAlone, CachesAlone, RunsAlone
       DEF Start, storeVars, cacheVars, CommittedInv
<1> QED
  BY <1>3, <1>4 DEF Start

LEMMA ReadRedisCommitted ==
    ASSUME TypeInv, CommittedInv, NEW x \in Loads, ReadRedis(x)
    PROVE  CommittedInv'
<1>1. PICK remote \in {rfund[x[2]], NoCopy} :
         LET younger == /\ Exists(remote)
                        /\ Exists(stale[x].copy) => Hold(remote).age < stale[x].age
             held == IF younger THEN Hold(remote) ELSE stale[x]
         IN  /\ l1' = IF younger THEN [l1 EXCEPT ![x] = remote] ELSE l1
             /\ \/ Resolve(x, Ok(held.copy)) /\ UNCHANGED neg
                \/ Resolve(x, Raise("rejected")) /\ UNCHANGED neg
                \/ /\ neg' = [neg EXCEPT ![x] = 0]
                   /\ stale' = [stale EXCEPT ![x] = Fallback(held)]
                   /\ Move(x, "negative")
                   /\ UNCHANGED <<row, got>>
  BY DEF ReadRedis, Reads
<1> DEFINE younger == /\ Exists(remote)
                      /\ Exists(stale[x].copy) => Hold(remote).age < stale[x].age
           held == IF younger THEN Hold(remote) ELSE stale[x]
<1>2. StoreGrows /\ LoadTypeOK /\ snapshots' = snapshots
  BY TypeParts DEF ReadRedis, storeVars, StoreGrows, TypeInv
<1>3. remote \in Copy /\ Committed(x[2], remote)
  <2>1. NoCopy \in Copy /\ Committed(x[2], NoCopy)
    BY NoThings DEF Committed, Exists, NoCopy
  <2>2. rfund[x[2]] \in Copy /\ Committed(x[2], rfund[x[2]])
    BY TickerOfLoad DEF TypeInv, TypeOK, CommittedInv, CachesHoldCommitted
  <2> QED
    BY <2>1, <2>2
<1>4. held \in Held /\ Committed(x[2], held.copy)
  <2>1. Hold(remote) \in Held /\ Committed(x[2], Hold(remote).copy)
    BY <1>3, CopiesAreTyped
       DEF Hold, NoHeld, NoCopy, Committed, Exists, TypeInv, TypeOK, StoreTypeOK
  <2>2. stale[x] \in Held /\ Committed(x[2], stale[x].copy)
    BY DEF TypeInv, TypeOK, CommittedInv, LoadsCarryCommitted, LoadCarriesCommitted
  <2> QED
    BY <2>1, <2>2
<1>5. /\ Ok(held.copy) \in Answers
      /\ Committed(x[2], Fallback(held).copy)
  <2>1. held.copy \in Copy
    BY <1>4 DEF Held
  <2> HIDE DEF held
  <2> QED
    BY <1>4, <2>1, CopiesAreTyped
       DEF Fallback, NoHeld, NoCopy, Committed, Exists, TypeInv, TypeOK, StoreTypeOK
<1>6. CachesHoldCommitted'
  BY <1>1, <1>2, <1>3, CachesAfterPut, CachesAlone
     DEF ReadRedis, Committed, StoreGrows, TypeInv, CommittedInv
<1>7. LoadsCarryCommitted'
  <2> HIDE DEF held
  <2>1. CASE Resolve(x, Ok(held.copy))
    BY <1>2, <1>4, <1>5, <2>1, LoadsAfterResolve DEF Ok, Committed, StoreGrows, CommittedInv
  <2>2. CASE Resolve(x, Raise("rejected"))
    BY <1>2, <2>2, RaiseType, LoadsAfterResolve DEF Raise, Exists, NoCopy, CommittedInv
  <2>3. CASE /\ stale' = [stale EXCEPT ![x] = Fallback(held)]
             /\ Move(x, "negative")
             /\ UNCHANGED <<row, got>>
    <3> SUFFICES ASSUME NEW y \in Loads PROVE LoadCarriesCommitted(y)'
      BY DEF LoadsCarryCommitted
    <3>1. answer[x] = NoAnswer
      BY DEF ReadRedis, CommittedInv, LoadsCarryCommitted, LoadCarriesCommitted, Answered
    <3>2. CASE y = x
      BY <1>2, <1>5, <2>3, <3>1, <3>2
         DEF LoadTypeOK, Move, LoadCarriesCommitted, Committed, Exists, NoAnswer, NoCopy
    <3>3. CASE y # x
      BY <1>2, <2>3, <3>3
         DEF LoadTypeOK, Move, CommittedInv, LoadsCarryCommitted, LoadCarriesCommitted,
             Committed, IsStored
    <3> QED
      BY <3>2, <3>3
  <2> QED
    BY <1>1, <2>1, <2>2, <2>3 DEF held
<1> QED
  BY <1>2, <1>6, <1>7, HeadsAlone, RunsAlone DEF ReadRedis, storeVars, CommittedInv

LEMMA ReadStoreCommitted ==
    ASSUME TypeInv, CommittedInv, NEW x \in Loads, ReadStore(x)
    PROVE  CommittedInv'
<1>1. StoreGrows /\ LoadTypeOK /\ snapshots' = snapshots
  BY TypeParts DEF ReadStore, storeVars, StoreGrows, TypeInv
<1>2. LoadsCarryCommitted'
  <2>1. CASE Goto(x, "fetch")
    BY <1>1, <2>1, LoadsAfterGoto DEF ReadStore, Places, Answered, CommittedInv
  <2>2. CASE FallBackOr(x, "storeError")
    BY <1>1, <2>2, FallBackCommitted DEF TypeInv, TypeOK, StoreTypeOK, CommittedInv
  <2>3. CASE /\ HasHead(x[2])
             /\ row' = [row EXCEPT ![x] = heads[x[2]]]
             /\ Move(x, "hydrate")
             /\ UNCHANGED <<stale, got>>
    <3> SUFFICES ASSUME NEW y \in Loads PROVE LoadCarriesCommitted(y)'
      BY DEF LoadsCarryCommitted
    <3>1. <<x[2], heads[x[2]].ver>> \in snapshots
      BY <2>3, TickerOfLoad DEF CommittedInv, HeadsReferenceSnapshots
    <3>2. CASE y = x
      BY <1>1, <2>3, <3>1, <3>2
         DEF TypeInv, TypeOK, ReadStore, Move, CommittedInv, LoadsCarryCommitted,
             LoadCarriesCommitted, Answered, Committed, IsStored
    <3>3. CASE y # x
      BY <1>1, <2>3, <3>3
         DEF TypeInv, TypeOK, Move, CommittedInv, LoadsCarryCommitted, LoadCarriesCommitted,
             Committed, IsStored
    <3> QED
      BY <3>2, <3>3
  <2> QED
    BY <2>1, <2>2, <2>3 DEF ReadStore
<1> QED
  BY <1>1, <1>2, HeadsAlone, CachesAlone, RunsAlone
     DEF ReadStore, storeVars, cacheVars, CommittedInv

\* A copy of a committed version may be cached and answered.
LEMMA ServeCommitted ==
    ASSUME TypeInv, CommittedInv, NEW x \in Loads, NEW copy \in Copy, NEW p \in Answered,
           Leave(x, Ok(copy), p), <<x[2], copy.ver>> \in snapshots,
           l1' = [l1 EXCEPT ![x] = copy],
           UNCHANGED <<storeVars, rfund, run>>
    PROVE  CommittedInv'
<1>1. StoreGrows /\ LoadTypeOK
  BY TypeParts DEF storeVars, StoreGrows, TypeInv
<1>2. LoadsCarryCommitted'
  BY <1>1, CopiesAreTyped, LoadsAfterLeave
     DEF Ok, StoreGrows, CommittedInv, TypeInv, TypeOK, StoreTypeOK
<1>3. CachesHoldCommitted'
  BY <1>1, CachesAfterPut DEF StoreGrows, TypeInv, CommittedInv
<1> QED
  BY <1>1, <1>2, <1>3, HeadsAlone, RunsAlone DEF storeVars, CommittedInv

LEMMA PollCommitted ==
    ASSUME TypeInv, CommittedInv, NEW x \in Loads, Poll(x)
    PROVE  CommittedInv'
<1>1. rfund[x[2]] \in Copy
  BY TickerOfLoad DEF TypeInv, TypeOK
<1>2. Exists(rfund[x[2]])
  <2>1. ~Exists(NoCopy)
    BY DEF Exists, NoCopy
  <2>2. Exists(Hold(rfund[x[2]]).copy)
    BY DEF Poll, IsCurrent, IsCurrentHeld
  <2> QED
    BY <2>1, <2>2 DEF Hold, NoHeld
<1>3. <<x[2], rfund[x[2]].ver>> \in snapshots
  BY <1>2, TickerOfLoad DEF CommittedInv, CachesHoldCommitted, Committed
<1>4. LetsGo(x) \in Answered
  BY WaysOut DEF Answered
<1> QED
  BY <1>1, <1>3, <1>4, ServeCommitted DEF Poll, Resolve

LEMMA HydrateCommitted ==
    ASSUME TypeInv, CommittedInv, NEW x \in Loads, Hydrate(x)
    PROVE  CommittedInv'
<1>1. PICK copy \in Copy : /\ copy.ver = row[x].ver
                          /\ l1' = [l1 EXCEPT ![x] = copy]
                          /\ Leave(x, Ok(copy), "share")
  BY HydrateServes
<1>2. <<x[2], row[x].ver>> \in snapshots
  BY DEF Hydrate, CommittedInv, LoadsCarryCommitted, LoadCarriesCommitted, IsStored
<1> QED
  BY <1>1, <1>2, ServeCommitted DEF Hydrate, Answered

LEMMA PublishCommitted ==
    ASSUME TypeInv, CommittedInv, NEW x \in Loads, Publish(x)
    PROVE  CommittedInv'
<1>1. PICK copy \in Copy : /\ copy.ver = got[x]
                          /\ l1' = [l1 EXCEPT ![x] = copy]
                          /\ Leave(x, Ok(copy), "announce")
  BY PublishServes
<1>2. <<x[2], got[x]>> \in snapshots
  BY DEF Publish, CommittedInv, LoadsCarryCommitted, LoadCarriesCommitted, IsStored
<1> QED
  BY <1>1, <1>2, ServeCommitted DEF Publish, Answered

LEMMA TellCommitted ==
    ASSUME TypeInv, CommittedInv, NEW x \in Loads, Announce(x) \/ Share(x)
    PROVE  CommittedInv'
<1>1. StoreGrows /\ LoadTypeOK /\ UNCHANGED <<snapshots, heads, l1, run>>
  BY TypeParts DEF Announce, Share, storeVars, StoreGrows, TypeInv
<1>2. LoadsCarryCommitted'
  <2>1. Goto(x, LetsGo(x)) /\ LetsGo(x) \in {"release", "done"}
    BY TellsCopies, WaysOut
  <2> QED
    BY <1>1, <2>1, LoadsAfterGoto DEF Places, Answered, CommittedInv
<1>3. CachesHoldCommitted'
  <2>1. CASE rfund' = rfund
    BY <1>1, <2>1, CachesAlone DEF CommittedInv
  <2>2. ASSUME NEW copy \in Copy, copy.ver = answer[x].copy.ver,
               rfund' = [rfund EXCEPT ![x[2]] = copy]
        PROVE  CachesHoldCommitted'
    <3>1. Exists(copy) => <<x[2], copy.ver>> \in snapshots'
      BY <1>1, <2>2
         DEF Exists, CommittedInv, LoadsCarryCommitted, LoadCarriesCommitted, Committed
    <3> QED
      BY <1>1, <2>2, <3>1, CachesAfterPut DEF Sets, TypeInv, CommittedInv
  <2> QED
    BY <2>1, <2>2, TellsCopies
<1> QED
  BY <1>1, <1>2, <1>3, HeadsAlone, RunsAlone DEF CommittedInv

LEMMA FetchCommitted ==
    ASSUME TypeInv, CommittedInv, NEW x \in Loads, Fetch(x)
    PROVE  CommittedInv'
<1>1. StoreGrows /\ LoadTypeOK /\ snapshots' = snapshots
  BY TypeParts DEF Fetch, storeVars, StoreGrows, TypeInv
<1>2. LoadsCarryCommitted'
  <2>1. CASE /\ got' = [got EXCEPT ![x] = filing[x[2]]]
             /\ Move(x, "persist")
             /\ UNCHANGED <<stale, row>>
    BY <1>1, <2>1
       DEF LoadTypeOK, Fetch, Move, CommittedInv, LoadsCarryCommitted, LoadCarriesCommitted,
           Answered, Committed, IsStored
  <2>2. CASE Leave(x, Rejection, "share")
    <3>1. ~Exists(Rejection.copy)
      BY DEF Rejection, Exists, NoCopy
    <3> QED
      BY <1>1, <2>2, <3>1, RejectionType, LoadsAfterLeave
         DEF Answered, CommittedInv, TypeInv, TypeOK, StoreTypeOK
  <2>3. CASE Leave(x, Raise("unmapped"), "done")
    BY <1>1, <2>3, RaiseType, LoadsAfterLeave DEF Raise, Exists, NoCopy, Answered, CommittedInv
  <2>4. CASE FallBackOr(x, "providerError")
    BY <1>1, <2>4, FallBackCommitted DEF TypeInv, TypeOK, StoreTypeOK, CommittedInv
  <2> QED
    BY <2>1, <2>2, <2>3, <2>4 DEF Fetch
<1> QED
  BY <1>1, <1>2, HeadsAlone, CachesAlone, RunsAlone DEF Fetch, storeVars, CommittedInv

LEMMA PersistCommitted ==
    ASSUME TypeInv, CommittedInv, NEW x \in Loads, Persist(x)
    PROVE  CommittedInv'
<1>1. LoadTypeOK
  BY TypeParts DEF TypeInv
<1>2. CASE StoreTickerSnapshot(x[2], got[x], "bootstrap_snapshot")
  <2>1. HeadsReferenceSnapshots' /\ StoreGrows /\ <<x[2], got[x]>> \in snapshots'
    BY <1>2, TickerOfLoad, HeadsAfterStore DEF TypeInv, TypeOK, CommittedInv
  <2>2. LoadsCarryCommitted'
    <3>1. CASE Goto(x, "publish")
      BY <1>1, <2>1, <3>1, LoadsAfterGoto DEF Persist, Places, Answered, CommittedInv
    <3>2. CASE Resolve(x, Raise("storeError"))
      BY <1>1, <2>1, <3>2, RaiseType, LoadsAfterResolve DEF Raise, Exists, NoCopy, CommittedInv
    <3> QED
      BY <3>1, <3>2 DEF Persist
  <2> QED
    BY <2>1, <2>2, CachesAlone, RunsAlone DEF Persist, cacheVars, CommittedInv
<1>3. CASE Resolve(x, Raise("storeError")) /\ UNCHANGED <<snapshots, heads>>
  <2>1. StoreGrows
    BY <1>3 DEF StoreGrows
  <2>2. LoadsCarryCommitted'
    BY <1>1, <1>3, <2>1, RaiseType, LoadsAfterResolve DEF Raise, Exists, NoCopy, CommittedInv
  <2> QED
    BY <1>3, <2>1, <2>2, HeadsAlone, CachesAlone, RunsAlone DEF Persist, cacheVars, CommittedInv
<1> QED
  BY <1>2, <1>3 DEF Persist

\* Moves that carry nothing.
LEMMA MoveCommitted ==
    ASSUME TypeInv, CommittedInv, NEW x \in Loads,
           ReadNegative(x) \/ TryLock(x) \/ PollTimeout(x) \/ Release(x) \/ Return(x)
    PROVE  CommittedInv'
<1>1. StoreGrows /\ LoadTypeOK /\ UNCHANGED <<snapshots, heads, l1, rfund, run>>
  BY TypeParts
     DEF ReadNegative, TryLock, PollTimeout, Release, Return, storeVars, cacheVars, StoreGrows,
         TypeInv
<1>2. LoadsCarryCommitted'
  <2>1. CASE Resolve(x, Raise("rejected"))
    BY <1>1, <2>1, RaiseType, LoadsAfterResolve DEF Raise, Exists, NoCopy, CommittedInv
  <2>2. ASSUME NEW p \in {"lock", "store", "poll", "done"}, Goto(x, p),
               pc[x] \in Answered => p = "done"
        PROVE  LoadsCarryCommitted'
    BY <1>1, <2>2, LoadsAfterGoto DEF Places, Answered, CommittedInv
  <2>3. CASE ForgetLoads({x})
    BY <1>1, <2>3, LoadsAfterForget DEF CommittedInv
  <2> QED
    BY <2>1, <2>2, <2>3 DEF ReadNegative, TryLock, PollTimeout, Release, Return, Answered
<1> QED
  BY <1>1, <1>2, HeadsAlone, CachesAlone, RunsAlone DEF CommittedInv

LEMMA RefreshBeginCommitted ==
    ASSUME TypeInv, CommittedInv, NEW i \in Instances, NEW t \in Tickers, NEW d \in Nat,
           RefreshBegin(i, t, d)
    PROVE  CommittedInv'
<1>1. StoreGrows /\ snapshots' = snapshots
  BY DEF RefreshBegin, StoreGrows
<1>2. HeadsReferenceSnapshots'
  BY <1>1, HeadsAfterMark DEF RefreshBegin, TypeInv, TypeOK, CommittedInv
<1>3. <<i, t>> \in Loads
  BY DEF Loads
<1>4. RunsCarryCommitted'
  BY <1>1, <1>3
     DEF RefreshBegin, TypeInv, TypeOK, CommittedInv, RunsCarryCommitted, RunCarriesCommitted,
         IsStored
<1> QED
  BY <1>1, <1>2, <1>4, LoadsAlone, CachesAlone
     DEF RefreshBegin, Scheduled, loadVars, CommittedInv

LEMMA RefreshFetchCommitted ==
    ASSUME TypeInv, CommittedInv, NEW t \in Tickers, RefreshFetch(t)
    PROVE  CommittedInv'
<1>1. StoreGrows /\ UNCHANGED <<snapshots, heads>>
  BY DEF RefreshFetch, StoreGrows
<1>2. RunsCarryCommitted'
  <2>1. run[t].pc = "fetch" /\ run[t].on \in Loads /\ run[t].on[2] = t
    BY DEF RefreshFetch, CommittedInv, RunsCarryCommitted, RunCarriesCommitted
  <2>2. /\ \A u \in Tickers \ {t} : run'[u] = run[u]
        /\ run'[t].pc \in {"persist", "failed"}
        /\ run'[t].on = run[t].on
    BY DEF RefreshFetch, TypeInv, TypeOK, RunRow
  <2> QED
    BY <1>1, <2>1, <2>2 DEF CommittedInv, RunsCarryCommitted, RunCarriesCommitted, IsStored
<1> QED
  BY <1>1, <1>2, HeadsAlone, LoadsAlone, CachesAlone
     DEF RefreshFetch, Scheduled, loadVars, CommittedInv

LEMMA RunMoves ==
    ASSUME TypeInv, NEW t \in Tickers, NEW place, run' = [run EXCEPT ![t].pc = place]
    PROVE  /\ run'[t].pc = place /\ run'[t].ver = run[t].ver /\ run'[t].on = run[t].on
           /\ \A u \in Tickers \ {t} : run'[u] = run[u]
<1>1. run[t] \in RunRow
  BY DEF TypeInv, TypeOK
<1>2. run'[t] = [run[t] EXCEPT !.pc = place]
  BY DEF TypeInv, TypeOK
<1> QED
  BY <1>1, <1>2 DEF RunRow, TypeInv, TypeOK

LEMMA RefreshPersistCommitted ==
    ASSUME TypeInv, CommittedInv, NEW t \in Tickers, RefreshPersist(t)
    PROVE  CommittedInv'
<1>1. CASE StoreTickerSnapshot(t, run[t].ver, "current_as_of_daily_refresh")
  <2>1. HeadsReferenceSnapshots' /\ StoreGrows /\ <<t, run[t].ver>> \in snapshots'
    BY <1>1, HeadsAfterStore DEF TypeInv, TypeOK, CommittedInv
  <2>2. RunsCarryCommitted'
    BY <2>1, RunMoves
       DEF RefreshPersist, CommittedInv, RunsCarryCommitted, RunCarriesCommitted, IsStored,
           StoreGrows
  <2> QED
    BY <2>1, <2>2, LoadsAlone, CachesAlone DEF RefreshPersist, Scheduled, loadVars, CommittedInv
<1>2. CASE run' = [run EXCEPT ![t].pc = "failed"] /\ UNCHANGED <<snapshots, heads>>
  <2>1. StoreGrows
    BY <1>2 DEF StoreGrows
  <2>2. RunsCarryCommitted'
    BY <1>2, RunMoves
       DEF RefreshPersist, CommittedInv, RunsCarryCommitted, RunCarriesCommitted, IsStored
  <2> QED
    BY <1>2, <2>1, <2>2, HeadsAlone, LoadsAlone, CachesAlone
       DEF RefreshPersist, Scheduled, loadVars, CommittedInv
<1> QED
  BY <1>1, <1>2 DEF RefreshPersist

LEMMA RefreshPublishCommitted ==
    ASSUME TypeInv, CommittedInv, NEW t \in Tickers, RefreshPublish(t)
    PROVE  CommittedInv'
<1>1. StoreGrows /\ UNCHANGED <<snapshots, heads>>
  BY DEF RefreshPublish, StoreGrows
<1>2. PICK copy \in Copy : /\ copy.ver = run[t].ver
                          /\ l1' = [l1 EXCEPT ![run[t].on] = copy]
  <2> DEFINE copy == Published(run[t].ver, "current_as_of_daily_refresh")
  <2>1. copy \in Copy /\ copy.ver = run[t].ver
    BY DEF Published, Copy, Statuses, DurableStatuses, TypeInv, TypeOK, StoreTypeOK, RunRow
  <2> QED
    BY <2>1 DEF RefreshPublish
<1>3. run[t].on \in Loads /\ run[t].on[2] = t /\ <<t, run[t].ver>> \in snapshots
  BY DEF RefreshPublish, CommittedInv, RunsCarryCommitted, RunCarriesCommitted, IsStored
<1>4. CachesHoldCommitted'
  BY <1>1, <1>2, <1>3, CachesAfterPut DEF RefreshPublish, StoreGrows, TypeInv, CommittedInv
<1>5. RunsCarryCommitted'
  BY <1>1, <1>3
     DEF RefreshPublish, TypeInv, TypeOK, RunRow, CommittedInv, RunsCarryCommitted,
         RunCarriesCommitted, IsStored
<1> QED
  BY <1>1, <1>4, <1>5, HeadsAlone, LoadsAlone DEF RefreshPublish, Scheduled, loadVars, CommittedInv

LEMMA RefreshAnnounceCommitted ==
    ASSUME TypeInv, CommittedInv, NEW t \in Tickers, RefreshAnnounce(t)
    PROVE  CommittedInv'
<1>1. StoreGrows /\ UNCHANGED <<snapshots, heads, l1>>
  BY DEF RefreshAnnounce, StoreGrows
<1>2. <<t, run[t].ver>> \in snapshots
  BY DEF RefreshAnnounce, CommittedInv, RunsCarryCommitted, RunCarriesCommitted, IsStored
<1>3. CachesHoldCommitted'
  BY <1>1, <1>2, RefreshTells
     DEF TypeInv, TypeOK, CommittedInv, CachesHoldCommitted, Committed, Exists
<1>4. RunsCarryCommitted'
  BY <1>1, RunMoves
     DEF RefreshAnnounce, CommittedInv, RunsCarryCommitted, RunCarriesCommitted, IsStored
<1> QED
  BY <1>1, <1>3, <1>4, HeadsAlone, LoadsAlone DEF RefreshAnnounce, Scheduled, loadVars, CommittedInv

LEMMA RefreshEndCommitted ==
    ASSUME TypeInv, CommittedInv, NEW t \in Tickers, RefreshEnd(t)
    PROVE  CommittedInv'
<1>1. StoreGrows /\ snapshots' = snapshots
  BY DEF RefreshEnd, StoreGrows
<1>2. HeadsReferenceSnapshots'
  BY <1>1, HeadsAfterMark, HeadsAlone DEF RefreshEnd, TypeInv, TypeOK, CommittedInv
<1>3. RunsCarryCommitted'
  BY <1>1
     DEF RefreshEnd, NoRun, TypeInv, TypeOK, CommittedInv, RunsCarryCommitted,
         RunCarriesCommitted, IsStored
<1> QED
  BY <1>1, <1>2, <1>3, LoadsAlone, CachesAlone DEF RefreshEnd, Scheduled, loadVars, CommittedInv

LEMMA EnvironmentCommitted ==
    ASSUME TypeInv, CommittedInv,
           \/ ClockAndProvider
           \/ \E x \in Loads : Evict(x)
           \/ \E t \in Tickers : LeaseExpires(t) \/ Corrupt(t)
    PROVE  CommittedInv'
<1>1. StoreGrows /\ snapshots' = snapshots
  BY DEF ClockAndProvider, Tick, NewFiling, Evict, LeaseExpires, Corrupt, storeVars, StoreGrows
<1>2. UNCHANGED <<pc, stale, row, got, answer, run>>
  BY DEF ClockAndProvider, Evict, LeaseExpires, Corrupt, loadVars
<1>3. HeadsReferenceSnapshots'
  <2>1. ASSUME NEW t \in Tickers, Corrupt(t) PROVE HeadsReferenceSnapshots'
    <3>1. \A u \in Tickers : heads'[u].ver = heads[u].ver
      BY <2>1 DEF Corrupt, TypeInv, TypeOK, StoreTypeOK, HeadRow
    <3> QED
      BY <1>1, <3>1 DEF CommittedInv, HeadsReferenceSnapshots, HasHead
  <2>2. CASE heads' = heads
    BY <1>1, <2>2, HeadsAlone DEF CommittedInv
  <2> QED
    BY <2>1, <2>2
       DEF ClockAndProvider, Tick, NewFiling, Evict, LeaseExpires, storeVars
<1>4. CachesHoldCommitted'
  <2>1. ASSUME NEW x \in Loads, Evict(x) PROVE CachesHoldCommitted'
    BY <1>1, <2>1
       DEF Evict, TypeInv, TypeOK, CommittedInv, CachesHoldCommitted, Committed, Exists, NoCopy
  <2>2. CASE UNCHANGED <<l1, rfund>>
    BY <1>1, <2>2, CachesAlone DEF CommittedInv
  <2> QED
    BY <2>1, <2>2 DEF ClockAndProvider, LeaseExpires, Corrupt, cacheVars
<1> QED
  BY <1>1, <1>2, <1>3, <1>4, LoadsAlone, RunsAlone DEF CommittedInv

LEMMA CrashCommitted ==
    ASSUME TypeInv, CommittedInv, NEW i \in Instances, Crash(i)
    PROVE  CommittedInv'
<1> DEFINE dead == {x \in Loads : x[1] = i}
<1>1. StoreGrows /\ UNCHANGED <<snapshots, heads>>
  BY DEF Crash, storeVars, StoreGrows
<1>2. LoadsCarryCommitted'
  BY <1>1, LoadsAfterForget DEF Crash, CommittedInv
<1>3. CachesHoldCommitted'
  BY <1>1 DEF Crash, CommittedInv, CachesHoldCommitted, Committed, Exists, NoCopy
<1>4. RunsCarryCommitted'
  BY <1>1 DEF Crash, NoRun, CommittedInv, RunsCarryCommitted, RunCarriesCommitted, IsStored
<1> QED
  BY <1>1, <1>2, <1>3, <1>4, HeadsAlone DEF CommittedInv

LEMMA CommittedStep == TypeInv /\ CommittedInv /\ [Next]_vars => CommittedInv'
<1> SUFFICES ASSUME TypeInv, CommittedInv, [Next]_vars PROVE CommittedInv'
  OBVIOUS
<1>1. CASE UNCHANGED vars
  BY <1>1, HeadsAlone, LoadsAlone, CachesAlone, RunsAlone DEF vars, CommittedInv, StoreGrows
<1>2. ASSUME NEW x \in Loads, Start(x) \/ LoadStep(x) PROVE CommittedInv'
  BY <1>2, StartCommitted, ReadRedisCommitted, PollCommitted, ReadStoreCommitted,
     HydrateCommitted, FetchCommitted, PersistCommitted, PublishCommitted, TellCommitted,
     MoveCommitted DEF LoadStep
<1>3. ASSUME NEW t \in Tickers, RefreshStep(t) PROVE CommittedInv'
  BY <1>3, RefreshFetchCommitted, RefreshPersistCommitted, RefreshPublishCommitted,
     RefreshAnnounceCommitted, RefreshEndCommitted DEF RefreshStep
<1>4. ASSUME NEW i \in Instances, NEW t \in Tickers, NEW d \in 0..MaxTime, RefreshBegin(i, t, d)
      PROVE  CommittedInv'
  BY <1>4, RefreshBeginCommitted, StoreAssumption
<1> QED
  BY <1>1, <1>2, <1>3, <1>4, EnvironmentCommitted, CrashCommitted DEF Next

\* ADR-006: no cache of any instance, no copy in Redis and no answer holds a
\* dataset that the database has not committed - for every number of instances
\* and tickers, any time to live, and any of the faults at any step.
THEOREM OnlyCommitted == Spec => []CachesAreCommitted
<1>1. Init => TypeInv /\ CommittedInv
  BY TypeInit, CommittedInit
<1>2. TypeInv /\ CommittedInv /\ [Next]_vars => (TypeInv /\ CommittedInv)'
  BY TypeStep, CommittedStep
<1>3. CommittedInv => CachesAreCommitted
  BY DEF CommittedInv, CachesHoldCommitted, LoadsCarryCommitted, LoadCarriesCommitted,
         CachesAreCommitted
<1> QED
  BY <1>1, <1>2, <1>3, PTL DEF Spec

-----------------------------------------------------------------------------
(* The service implements StatementPromise: each step commits a dataset,     *)
(* answers one request, fails one, ends some, or changes nothing of it.      *)

Reply == [x \in Loads |-> ReplyOf(answer[x])]

LEMMA PromiseInit == Init => Promise!Init
  BY DEF Init, StoreInit, Promise!Init, Promise!Waiting, ReplyOf, NoAnswer

\* A request not yet answered waits.
LEMMA PromiseAnswers ==
    ASSUME TypeInv, CommittedInv, NEW x \in Loads, NEW copy \in Copy, NEW p,
           pc[x] \notin Answered, Leave(x, Ok(copy), p),
           Exists(copy), <<x[2], copy.ver>> \in snapshots, snapshots' = snapshots
    PROVE  Promise!Next
<1>1. copy.ver \in Filings
  BY DEF TypeInv, TypeOK, StoreTypeOK
<1>2. Reply[x] = 0
  BY DEF CommittedInv, LoadsCarryCommitted, LoadCarriesCommitted, Reply, ReplyOf, NoAnswer
<1>3. Reply' = [Reply EXCEPT ![x] = copy.ver]
  BY DEF Leave, Ok, Reply, ReplyOf, TypeInv, TypeOK
<1>4. Promise!Answer(x, copy.ver)
  BY <1>2, <1>3 DEF Promise!Answer, Promise!Waiting, Reply
<1> QED
  BY <1>1, <1>4 DEF Promise!Next

LEMMA PromiseFails ==
    ASSUME TypeInv, CommittedInv, NEW x \in Loads, NEW a, NEW p,
           a.kind \in {"rejected", "storeError", "providerError", "unmapped"},
           pc[x] \notin Answered, Leave(x, a, p),
           \/ snapshots' = snapshots
           \/ \E v \in Filings : snapshots' = snapshots \cup {<<x[2], v>>}
    PROVE  Promise!Next
<1>1. Reply[x] = 0
  BY DEF CommittedInv, LoadsCarryCommitted, LoadCarriesCommitted, Reply, ReplyOf, NoAnswer
<1>2. Reply' = [Reply EXCEPT ![x] = -1]
  BY DEF Leave, Reply, ReplyOf, TypeInv, TypeOK
<1>3. Promise!Fail(x)
  BY <1>1, <1>2 DEF Promise!Fail, Promise!Waiting, Promise!Failed, Reply
<1> QED
  BY <1>3 DEF Promise!Next

LEMMA PromiseFallsBack ==
    ASSUME TypeInv, CommittedInv, NEW x \in Loads,
           NEW kind \in {"storeError", "providerError"},
           pc[x] \notin Answered, FallBackOr(x, kind), snapshots' = snapshots
    PROVE  Promise!Next
<1>1. stale[x].copy \in Copy
  BY DEF TypeInv, TypeOK, Held
<1>2. Warned(stale[x].copy) \in Copy /\ Warned(stale[x].copy).ver = stale[x].copy.ver
  BY <1>1 DEF Warned, Copy
<1>3. CASE Exists(stale[x].copy) /\ Resolve(x, Ok(Warned(stale[x].copy)))
  <2>1. <<x[2], stale[x].copy.ver>> \in snapshots
    BY <1>3 DEF CommittedInv, LoadsCarryCommitted, LoadCarriesCommitted, Committed
  <2>2. Exists(Warned(stale[x].copy))
    BY <1>2, <1>3 DEF Exists
  <2> QED
    BY <1>2, <1>3, <2>1, <2>2, PromiseAnswers DEF Resolve
<1>4. CASE Resolve(x, Raise(kind))
  BY <1>4, PromiseFails DEF Resolve, Raise
<1> QED
  BY <1>3, <1>4 DEF FallBackOr

LEMMA PromiseEnds ==
    ASSUME NEW S, ForgetLoads(S), snapshots' = snapshots
    PROVE  Promise!Next
<1>1. PICK T \in SUBSET Loads : T = S \cap Loads
  OBVIOUS
<1>2. Reply' = [x \in Loads |-> IF x \in T THEN 0 ELSE Reply[x]]
  BY <1>1 DEF ForgetLoads, Reply, ReplyOf, NoAnswer
<1>3. Promise!End(T)
  BY <1>2 DEF Promise!End, Promise!Waiting, Reply
<1> QED
  BY <1>3 DEF Promise!Next

LEMMA PromiseCommits ==
    ASSUME NEW t \in Tickers, NEW v \in Filings, answer' = answer,
           snapshots' = snapshots \cup {<<t, v>>}
    PROVE  Promise!Next
<1>1. Promise!Commit(t, v)
  BY DEF Promise!Commit
<1> QED
  BY <1>1 DEF Promise!Next

LEMMA PromiseStutters ==
    ASSUME answer' = answer, snapshots' = snapshots
    PROVE  UNCHANGED Promise!vars
  BY DEF Promise!vars

LEMMA PromiseLoadStep ==
    ASSUME TypeInv, CommittedInv, NEW x \in Loads, Start(x) \/ LoadStep(x)
    PROVE  [Promise!Next]_(Promise!vars)
<1>1. CASE Start(x)
  <2>1. snapshots' = snapshots /\ l1[x] \in Copy
    BY <1>1 DEF Start, storeVars, TypeInv, TypeOK
  <2>2. CASE IsCurrent(l1[x]) /\ Resolve(x, Ok(l1[x]))
    <3>1. Exists(l1[x])
      <4>1. ~Exists(NoCopy)
        BY DEF Exists, NoCopy
      <4> QED
        BY <2>2, <4>1 DEF IsCurrent, IsCurrentHeld, Hold, NoHeld
    <3>2. <<x[2], l1[x].ver>> \in snapshots
      BY <3>1 DEF CommittedInv, CachesHoldCommitted, Committed
    <3> QED
      BY <1>1, <2>1, <2>2, <3>1, <3>2, PromiseAnswers DEF Start, Resolve, Answered
  <2>3. CASE answer' = answer
    BY <2>1, <2>3, PromiseStutters
  <2> QED
    BY <1>1, <2>2, <2>3 DEF Start, Move
<1>2. CASE ReadRedis(x)
  <2>1. PICK remote \in {rfund[x[2]], NoCopy} :
           LET younger == /\ Exists(remote)
                          /\ Exists(stale[x].copy) => Hold(remote).age < stale[x].age
               held == IF younger THEN Hold(remote) ELSE stale[x]
           IN  \/ IsCurrentHeld(held) /\ Resolve(x, Ok(held.copy))
               \/ Resolve(x, Raise("rejected"))
               \/ Move(x, "negative")
    BY <1>2 DEF ReadRedis, Reads
  <2> DEFINE younger == /\ Exists(remote)
                        /\ Exists(stale[x].copy) => Hold(remote).age < stale[x].age
             held == IF younger THEN Hold(remote) ELSE stale[x]
  <2>2. snapshots' = snapshots
    BY <1>2 DEF ReadRedis, storeVars
  <2>3. remote \in Copy /\ Committed(x[2], remote)
    <3>1. NoCopy \in Copy /\ Committed(x[2], NoCopy)
      BY NoThings DEF Committed, Exists, NoCopy
    <3>2. rfund[x[2]] \in Copy /\ Committed(x[2], rfund[x[2]])
      BY TickerOfLoad DEF TypeInv, TypeOK, CommittedInv, CachesHoldCommitted
    <3> QED
      BY <3>1, <3>2
  <2>4. held.copy \in Copy /\ Committed(x[2], held.copy)
    <3>1. Hold(remote).copy \in Copy /\ Committed(x[2], Hold(remote).copy)
      BY <2>3, CopiesAreTyped, NoThings
         DEF Hold, NoHeld, NoCopy, Committed, Exists, TypeInv, TypeOK, StoreTypeOK
    <3>2. stale[x].copy \in Copy /\ Committed(x[2], stale[x].copy)
      BY DEF TypeInv, TypeOK, Held, CommittedInv, LoadsCarryCommitted, LoadCarriesCommitted
    <3> QED
      BY <3>1, <3>2
  <2> HIDE DEF held
  <2>5. CASE IsCurrentHeld(held) /\ Resolve(x, Ok(held.copy))
    <3>1. Exists(held.copy) /\ pc[x] \notin Answered
      BY <1>2, <2>5 DEF IsCurrentHeld, ReadRedis, Answered
    <3> QED
      BY <2>2, <2>4, <2>5, <3>1, PromiseAnswers DEF Committed, Resolve
  <2>6. CASE Resolve(x, Raise("rejected"))
    BY <1>2, <2>2, <2>6, PromiseFails DEF ReadRedis, Resolve, Raise, Answered
  <2>7. CASE Move(x, "negative")
    BY <2>2, <2>7, PromiseStutters DEF Move
  <2> QED
    BY <2>1, <2>5, <2>6, <2>7 DEF held
<1>3. CASE ReadNegative(x) \/ TryLock(x) \/ PollTimeout(x) \/ Release(x)
  <2>1. snapshots' = snapshots
    BY <1>3 DEF ReadNegative, TryLock, PollTimeout, Release, storeVars
  <2>2. CASE answer' = answer
    BY <2>1, <2>2, PromiseStutters
  <2>3. CASE ReadNegative(x) /\ Resolve(x, Raise("rejected"))
    BY <2>1, <2>3, PromiseFails DEF ReadNegative, Resolve, Raise, Answered
  <2> QED
    BY <1>3, <2>2, <2>3 DEF ReadNegative, TryLock, PollTimeout, Release, Goto, Move
<1>4. CASE Poll(x)
  <2>1. rfund[x[2]] \in Copy
    BY TickerOfLoad DEF TypeInv, TypeOK
  <2>2. Exists(rfund[x[2]])
    <3>1. ~Exists(NoCopy)
      BY DEF Exists, NoCopy
    <3>2. Exists(Hold(rfund[x[2]]).copy)
      BY <1>4 DEF Poll, IsCurrent, IsCurrentHeld
    <3> QED
      BY <3>1, <3>2 DEF Hold, NoHeld
  <2>3. <<x[2], rfund[x[2]].ver>> \in snapshots
    BY <2>2, TickerOfLoad DEF CommittedInv, CachesHoldCommitted, Committed
  <2> QED
    BY <1>4, <2>1, <2>2, <2>3, PromiseAnswers DEF Poll, Resolve, Answered, storeVars
<1>5. CASE ReadStore(x)
  <2>1. snapshots' = snapshots
    BY <1>5 DEF ReadStore, storeVars
  <2>2. CASE answer' = answer
    BY <2>1, <2>2, PromiseStutters
  <2>3. CASE FallBackOr(x, "storeError")
    BY <1>5, <2>1, <2>3, PromiseFallsBack DEF ReadStore, Answered
  <2> QED
    BY <1>5, <2>2, <2>3 DEF ReadStore, Goto, Move
<1>6. CASE Hydrate(x)
  <2>1. PICK copy \in Copy : copy.ver = row[x].ver /\ Leave(x, Ok(copy), "share")
    BY <1>6, HydrateServes
  <2>2. <<x[2], row[x].ver>> \in snapshots
    BY <1>6 DEF Hydrate, CommittedInv, LoadsCarryCommitted, LoadCarriesCommitted, IsStored
  <2>3. Exists(copy)
    BY <2>1, <2>2 DEF Exists, Filings, TypeInv, TypeOK, StoreTypeOK
  <2> QED
    BY <1>6, <2>1, <2>2, <2>3, PromiseAnswers DEF Hydrate, Answered, storeVars
<1>7. CASE Fetch(x)
  <2>1. snapshots' = snapshots
    BY <1>7 DEF Fetch, storeVars
  <2>2. CASE answer' = answer
    BY <2>1, <2>2, PromiseStutters
  <2>3. CASE FallBackOr(x, "providerError")
    BY <1>7, <2>1, <2>3, PromiseFallsBack DEF Fetch, Answered
  <2>4. CASE Leave(x, Rejection, "share") \/ Leave(x, Raise("unmapped"), "done")
    <3>1. /\ Rejection.kind = "rejected" /\ Raise("unmapped").kind = "unmapped"
          /\ pc[x] \notin Answered
      BY <1>7 DEF Rejection, Raise, Fetch, Answered
    <3> QED
      BY <2>1, <2>4, <3>1, PromiseFails
  <2> QED
    BY <1>7, <2>2, <2>3, <2>4 DEF Fetch, Move
<1>8. CASE Persist(x)
  <2>1. got[x] \in Filings
    BY <1>8, StoreAssumption DEF Persist, TypeInv, TypeOK, FetchedIsFiling, Filings
  <2>2. \/ snapshots' = snapshots /\ Resolve(x, Raise("storeError"))
        \/ snapshots' = snapshots \cup {<<x[2], got[x]>>} /\ Resolve(x, Raise("storeError"))
        \/ snapshots' = snapshots \cup {<<x[2], got[x]>>} /\ answer' = answer
    BY <1>8 DEF Persist, StoreTickerSnapshot, Goto, Move
  <2> QED
    BY <1>8, <2>1, <2>2, TickerOfLoad, PromiseFails, PromiseCommits
       DEF Persist, Resolve, Raise, Answered
<1>9. CASE Publish(x)
  <2>1. PICK copy \in Copy : copy.ver = got[x] /\ Leave(x, Ok(copy), "announce")
    BY <1>9, PublishServes
  <2>2. <<x[2], got[x]>> \in snapshots
    BY <1>9 DEF Publish, CommittedInv, LoadsCarryCommitted, LoadCarriesCommitted, IsStored
  <2>3. Exists(copy)
    BY <2>1, <2>2 DEF Exists, Filings, TypeInv, TypeOK, StoreTypeOK
  <2> QED
    BY <1>9, <2>1, <2>2, <2>3, PromiseAnswers DEF Publish, Answered, storeVars
<1>10. CASE Announce(x) \/ Share(x)
  BY <1>10, PromiseStutters DEF Announce, Share, Goto, Move, storeVars
<1>11. CASE Return(x)
  BY <1>11, PromiseEnds DEF Return, storeVars
<1> QED
  BY <1>1, <1>2, <1>3, <1>4, <1>5, <1>6, <1>7, <1>8, <1>9, <1>10, <1>11 DEF LoadStep

LEMMA PromiseStep == TypeInv /\ CommittedInv /\ [Next]_vars => [Promise!Next]_(Promise!vars)
<1> SUFFICES ASSUME TypeInv, CommittedInv, [Next]_vars PROVE [Promise!Next]_(Promise!vars)
  OBVIOUS
<1>1. CASE answer' = answer /\ snapshots' = snapshots
  BY <1>1, PromiseStutters
<1>2. ASSUME NEW x \in Loads, Start(x) \/ LoadStep(x) PROVE [Promise!Next]_(Promise!vars)
  BY <1>2, PromiseLoadStep
<1>3. ASSUME NEW t \in Tickers, RefreshPersist(t) PROVE [Promise!Next]_(Promise!vars)
  <2>1. answer' = answer
    BY <1>3 DEF RefreshPersist, Scheduled, loadVars
  <2>2. run[t].ver \in Filings
    BY <1>3, StoreAssumption DEF RefreshPersist, TypeInv, TypeOK, RunRow, FetchedIsFiling, Filings
  <2> QED
    BY <1>3, <2>1, <2>2, PromiseCommits, PromiseStutters DEF RefreshPersist, StoreTickerSnapshot
<1>4. ASSUME NEW i \in Instances, Crash(i) PROVE [Promise!Next]_(Promise!vars)
  BY <1>4, PromiseEnds DEF Crash, storeVars
<1> QED
  BY <1>1, <1>2, <1>3, <1>4
     DEF Next, vars, ClockAndProvider, Tick, NewFiling, Evict, RefreshBegin, RefreshStep,
         RefreshFetch, RefreshPublish, RefreshAnnounce, RefreshEnd, Scheduled, LeaseExpires,
         Corrupt, storeVars, loadVars

\* The cache-aside service implements its promise to callers: an answer is
\* given once, from what is committed by then, and stands until its request
\* ends.
THEOREM ImplementsPromise == Spec => PromiseSpec
<1>1. Init => TypeInv /\ CommittedInv /\ Promise!Init
  BY TypeInit, CommittedInit, PromiseInit
<1>2. TypeInv /\ CommittedInv /\ [Next]_vars => (TypeInv /\ CommittedInv)'
  BY TypeStep, CommittedStep
<1> QED
  BY <1>1, <1>2, PromiseStep, PTL DEF Spec, PromiseSpec, Promise!Spec

-----------------------------------------------------------------------------
(* How one step moves the loads.  The proofs about locks, answers and        *)
(* bootstraps below read the control of a load off these three lemmas.       *)

Resolved(x) == pc'[x] = LetsGo(x)

MovesFrom(x, place, to) == pc[x] = place /\ (Resolved(x) \/ pc'[x] \in to)

LoadMoves(x) ==
    \/ MovesFrom(x, "idle", {"redis"})
    \/ MovesFrom(x, "redis", {"negative"})
    \/ MovesFrom(x, "negative", {"lock"})
    \/ pc[x] = "lock" /\ pc'[x] \in {"store", "poll"}
    \/ MovesFrom(x, "poll", IF "poll" \in Hazards THEN {"store"} ELSE {})
    \/ MovesFrom(x, "store", {"hydrate", "fetch"})
    \/ pc[x] = "hydrate" /\ pc'[x] = "share"
    \/ MovesFrom(x, "fetch", {"persist", "share"})
    \/ pc[x] = "fetch" /\ pc'[x] = "done" /\ answer'[x].kind = "unmapped"
    \/ MovesFrom(x, "persist", {"publish"})
    \/ pc[x] = "publish" /\ pc'[x] = "announce"
    \/ MovesFrom(x, "announce", {}) /\ answer' = answer
    \/ MovesFrom(x, "share", {}) /\ answer' = answer
    \/ pc[x] = "release" /\ pc'[x] = "done"
    \/ pc[x] = "done" /\ pc'[x] = "idle"

LEMMA LeaveMoves ==
    ASSUME TypeInv, NEW x \in Loads, NEW a, NEW p, Leave(x, a, p)
    PROVE  /\ pc'[x] = p /\ answer'[x] = a
           /\ \A y \in Loads \ {x} : pc'[y] = pc[y] /\ answer'[y] = answer[y]
  BY DEF Leave, TypeInv, TypeOK

LEMMA ResolveMoves ==
    ASSUME TypeInv, NEW x \in Loads, NEW a, Resolve(x, a)
    PROVE  /\ Resolved(x) /\ answer'[x] = a
           /\ \A y \in Loads \ {x} : pc'[y] = pc[y] /\ answer'[y] = answer[y]
  BY LeaveMoves DEF Resolve, Resolved

LEMMA MoveMoves ==
    ASSUME TypeInv, NEW x \in Loads, NEW place, Move(x, place)
    PROVE  /\ pc'[x] = place /\ answer' = answer
           /\ \A y \in Loads \ {x} : pc'[y] = pc[y]
  BY DEF Move, TypeInv, TypeOK

LEMMA ReadRedisMoves ==
    ASSUME TypeInv, NEW x \in Loads, ReadRedis(x)
    PROVE  (\E a : Resolve(x, a)) \/ Move(x, "negative")
<1>1. PICK remote \in Reads(rfund[x[2]], NoCopy) :
         LET younger == /\ Exists(remote)
                        /\ Exists(stale[x].copy) => Hold(remote).age < stale[x].age
             held == IF younger THEN Hold(remote) ELSE stale[x]
         IN  \/ Resolve(x, Ok(held.copy))
             \/ Resolve(x, Raise("rejected"))
             \/ Move(x, "negative")
  BY DEF ReadRedis
<1> QED
  BY <1>1

\* Where the steps of a load take it, and that no other load moves.
LEMMA LoadStepMoves ==
    ASSUME TypeInv, NEW x \in Loads, Start(x) \/ LoadStep(x)
    PROVE  /\ LoadMoves(x)
           /\ \A y \in Loads \ {x} :
                 /\ pc'[y] = pc[y] /\ answer'[y] = answer[y]
                 /\ mine'[y] = mine[y] /\ born'[y] = born[y]
<1>1. CASE Start(x)
  <2>1. \A y \in Loads \ {x} : mine'[y] = mine[y] /\ born'[y] = born[y]
    BY <1>1 DEF Start, TypeInv, TypeOK
  <2> QED
    BY <1>1, <2>1, ResolveMoves, MoveMoves DEF Start, LoadMoves, MovesFrom
<1>2. CASE ReadRedis(x)
  <2>1. UNCHANGED <<mine, born>> /\ pc[x] = "redis"
    BY <1>2 DEF ReadRedis
  <2> QED
    BY <1>2, <2>1, ReadRedisMoves, ResolveMoves, MoveMoves DEF LoadMoves, MovesFrom
<1>3. CASE ReadNegative(x)
  BY <1>3, ResolveMoves, MoveMoves DEF ReadNegative, Goto, LoadMoves, MovesFrom
<1>4. CASE TryLock(x)
  <2>1. \A y \in Loads \ {x} : mine'[y] = mine[y] /\ born'[y] = born[y]
    BY <1>4 DEF TryLock, TypeInv, TypeOK
  <2>2. Move(x, "store") \/ Move(x, "poll")
    BY <1>4 DEF TryLock, Goto
  <2> QED
    BY <1>4, <2>1, <2>2, MoveMoves DEF TryLock, LoadMoves, MovesFrom
<1>5. CASE Poll(x) \/ PollTimeout(x)
  <2>1. UNCHANGED <<mine, born>> /\ pc[x] = "poll"
    BY <1>5 DEF Poll, PollTimeout
  <2> QED
    BY <1>5, <2>1, ResolveMoves, MoveMoves DEF Poll, PollTimeout, Goto, LoadMoves, MovesFrom
<1>6. CASE ReadStore(x)
  <2>1. UNCHANGED <<mine, born>> /\ pc[x] = "store"
    BY <1>6 DEF ReadStore
  <2>2. Move(x, "hydrate") \/ Move(x, "fetch") \/ \E a : Resolve(x, a)
    BY <1>6 DEF ReadStore, Goto, FallBackOr
  <2> QED
    BY <2>1, <2>2, ResolveMoves, MoveMoves DEF LoadMoves, MovesFrom
<1>7. CASE Hydrate(x) \/ Publish(x)
  <2>1. UNCHANGED <<mine, born>>
    BY <1>7 DEF Hydrate, Publish
  <2>2. \/ pc[x] = "hydrate" /\ \E a : Leave(x, a, "share")
        \/ pc[x] = "publish" /\ \E a : Leave(x, a, "announce")
    BY <1>7 DEF Hydrate, Publish
  <2> QED
    BY <2>1, <2>2, LeaveMoves DEF LoadMoves
<1>8. CASE Fetch(x)
  <2>1. UNCHANGED <<mine, born>> /\ pc[x] = "fetch"
    BY <1>8 DEF Fetch
  <2>2. \/ Move(x, "persist") \/ Leave(x, Rejection, "share")
        \/ Leave(x, Raise("unmapped"), "done")
        \/ \E a : Resolve(x, a)
    BY <1>8 DEF Fetch, FallBackOr
  <2>3. Raise("unmapped").kind = "unmapped"
    BY DEF Raise
  <2> QED
    BY <2>1, <2>2, <2>3, LeaveMoves, ResolveMoves, MoveMoves DEF LoadMoves, MovesFrom
<1>9. CASE Persist(x)
  <2>1. UNCHANGED <<mine, born>> /\ pc[x] = "persist"
    BY <1>9 DEF Persist
  <2>2. Move(x, "publish") \/ \E a : Resolve(x, a)
    BY <1>9 DEF Persist, Goto
  <2> QED
    BY <2>1, <2>2, ResolveMoves, MoveMoves DEF LoadMoves, MovesFrom
<1>10. CASE Release(x)
  BY <1>10, MoveMoves DEF Release, Goto, LoadMoves, MovesFrom
<1>11. CASE Return(x)
  BY <1>11 DEF Return, ForgetLoads, LoadMoves, MovesFrom, TypeInv, TypeOK
<1>12. CASE Announce(x) \/ Share(x)
  <2>1. UNCHANGED <<mine, born>> /\ pc[x] \in {"announce", "share"} /\ Move(x, LetsGo(x))
    BY <1>12 DEF Announce, Share, Goto
  <2> QED
    BY <2>1, MoveMoves DEF LoadMoves, MovesFrom, Resolved
<1> QED
  BY <1>1, <1>2, <1>3, <1>4, <1>5, <1>6, <1>7, <1>8, <1>9, <1>10, <1>11, <1>12 DEF LoadStep

\* What becomes of locks and tokens when a load moves.
TakesLock(x) ==
    /\ pc[x] = "lock" /\ pc'[x] = "store"
    /\ lock[x[2]] = Free /\ lock' = [lock EXCEPT ![x[2]] = x]
    /\ mine' = [mine EXCEPT ![x] = TRUE]

\* Redis does not answer: nothing happens to the lock, or nobody owns it.
MissesLock(x) ==
    /\ pc[x] = "lock" /\ pc'[x] = "store" /\ "redis" \in Hazards
    /\ \A t \in Tickers : lock'[t] # lock[t] => lock[t] = Free /\ lock'[t] = Orphan
    /\ mine' = mine

GivesLockUp(x) ==
    /\ pc[x] = "release" /\ pc'[x] = "done"
    /\ \A t \in Tickers : lock'[t] # lock[t] => lock[t] = x /\ lock'[t] \in {Free, Orphan}
    /\ lock'[x[2]] # x
    /\ mine' = mine

\* A load that is gone holds no lock, whether or not it released its token.
ForgetsLock(x) ==
    /\ pc[x] = "done" /\ pc'[x] = "idle"
    /\ \A t \in Tickers : lock'[t] # lock[t] => lock[t] = x /\ lock'[t] = Orphan
    /\ lock'[x[2]] # x
    /\ mine' = [y \in Loads |-> y # x /\ mine[y]]

LeavesLock(x) ==
    /\ pc[x] \notin {"release", "done"}
    /\ lock' = lock /\ mine' = mine
    /\ pc[x] = "lock" => pc'[x] = "poll"

LEMMA LoadStepLocks ==
    ASSUME TypeInv, NEW x \in Loads, Start(x) \/ LoadStep(x)
    PROVE  TakesLock(x) \/ MissesLock(x) \/ GivesLockUp(x) \/ ForgetsLock(x) \/ LeavesLock(x)
<1>1. CASE TryLock(x)
  <2>1. x[2] \in Tickers /\ pc[x] = "lock"
    BY <1>1, TickerOfLoad DEF TryLock
  <2>2. CASE Goto(x, "poll") /\ UNCHANGED <<lock, mine>>
    BY <2>1, <2>2, MoveMoves DEF Goto, LeavesLock
  <2>3. CASE /\ lock[x[2]] = Free /\ lock' = [lock EXCEPT ![x[2]] = x]
             /\ mine' = [mine EXCEPT ![x] = TRUE] /\ Goto(x, "store")
    BY <2>1, <2>3, MoveMoves DEF Goto, TakesLock
  <2>4. CASE "redis" \in Hazards /\ mine' = mine /\ lock' = lock /\ Goto(x, "store")
    BY <2>1, <2>4, MoveMoves DEF Goto, MissesLock
  <2>5. CASE /\ "redis" \in Hazards /\ mine' = mine /\ Goto(x, "store")
             /\ lock' = [lock EXCEPT ![x[2]] = IF @ = Free THEN Orphan ELSE @]
    <3>1. \A t \in Tickers : lock'[t] # lock[t] => lock[t] = Free /\ lock'[t] = Orphan
      BY <2>1, <2>5 DEF TypeInv, TypeOK
    <3> QED
      BY <2>1, <2>5, <3>1, MoveMoves DEF Goto, MissesLock
  <2> QED
    BY <1>1, <2>2, <2>3, <2>4, <2>5 DEF TryLock
<1>2. CASE Release(x)
  <2>1. x \notin {Free, Orphan} /\ x[2] \in Tickers
    BY TickerOfLoad, ServiceAssumption
  <2>2. /\ \A t \in Tickers : lock'[t] # lock[t] => lock[t] = x /\ lock'[t] \in {Free, Orphan}
        /\ lock'[x[2]] # x
    BY <1>2, <2>1 DEF Release, TypeInv, TypeOK
  <2> QED
    BY <1>2, <2>2, MoveMoves DEF Release, Goto, GivesLockUp
<1>3. CASE Return(x)
  <2>1. x # Orphan /\ x[2] \in Tickers
    BY TickerOfLoad, ServiceAssumption
  <2>2. /\ \A t \in Tickers : lock'[t] # lock[t] => lock[t] = x /\ lock'[t] = Orphan
        /\ lock'[x[2]] # x
    BY <1>3, <2>1 DEF Return, TypeInv, TypeOK
  <2> QED
    BY <1>3, <2>2 DEF Return, ForgetLoads, ForgetsLock
<1>4. CASE ~(TryLock(x) \/ Release(x) \/ Return(x))
  BY <1>4
     DEF LoadStep, Start, ReadRedis, ReadNegative, Poll, PollTimeout, ReadStore, Hydrate, Fetch,
         Persist, Publish, Announce, Share, LeavesLock
<1> QED
  BY <1>1, <1>2, <1>3, <1>4

\* Every other step leaves all loads where they are, or is the loss of an
\* instance.
Bystander ==
    UNCHANGED <<pc, mine, born, answer, stale, refused>>

LEMMA OtherSteps ==
    ASSUME TypeInv, [Next]_vars
    PROVE  \/ \E x \in Loads : Start(x) \/ LoadStep(x)
           \/ \E i \in Instances : Crash(i)
           \/ \E t \in Tickers : Bystander /\ LeaseExpires(t)
           \/ /\ Bystander /\ lock' = lock /\ UNCHANGED cacheVars
              /\ ClockAndProvider \/ UNCHANGED vars
           \/ Bystander /\ lock' = lock /\ \E x \in Loads : Evict(x)
           \/ Bystander /\ lock' = lock /\ UNCHANGED cacheVars /\ \E t \in Tickers : Corrupt(t)
           \/ /\ Bystander /\ lock' = lock /\ Scheduled
              /\ \/ \E t \in Tickers : RefreshStep(t)
                 \/ \E i \in Instances, t \in Tickers, d \in 0..MaxTime : RefreshBegin(i, t, d)
<1>1. CASE UNCHANGED vars
  BY <1>1 DEF vars, Bystander, cacheVars
<1>2. ASSUME NEW t \in Tickers, LeaseExpires(t) PROVE Bystander
  BY <1>2 DEF LeaseExpires, Bystander, loadVars
<1>3. CASE ClockAndProvider
  BY <1>3 DEF ClockAndProvider, Bystander, loadVars, cacheVars
<1>4. ASSUME NEW x \in Loads, Evict(x) PROVE Bystander /\ lock' = lock
  BY <1>4 DEF Evict, Bystander, loadVars
<1>5. ASSUME NEW t \in Tickers, Corrupt(t) PROVE Bystander /\ lock' = lock /\ UNCHANGED cacheVars
  BY <1>5 DEF Corrupt, Bystander, loadVars
<1>6. ASSUME NEW t \in Tickers, RefreshStep(t) PROVE Bystander /\ lock' = lock /\ Scheduled
  BY <1>6 DEF RefreshStep, RefreshFetch, RefreshPersist, RefreshPublish, RefreshAnnounce,
              RefreshEnd, Scheduled, loadVars, Bystander
<1>7. ASSUME NEW i \in Instances, NEW t \in Tickers, NEW d \in 0..MaxTime, RefreshBegin(i, t, d)
      PROVE  Bystander /\ lock' = lock /\ Scheduled
  BY <1>7 DEF RefreshBegin, Scheduled, loadVars, Bystander
<1> QED
  BY <1>1, <1>2, <1>3, <1>4, <1>5, <1>6, <1>7 DEF Next

-----------------------------------------------------------------------------
(* Locks.  A lock in a load's name is held by that load, which is before its *)
(* release or was ended by an exception of neither family.  While Redis      *)
(* answers, leases last, nothing crashes and no poll gives up, the converse  *)
(* holds too: a load past the lock is the one the lock names.                *)

Crashed(i) == {x \in Loads : x[1] = i}

LEMMA CrashMoves ==
    ASSUME TypeInv, NEW i, Crash(i)
    PROVE  /\ \A x \in Loads :
                 IF x \in Crashed(i) THEN pc'[x] = "idle" /\ ~mine'[x] /\ ~born'[x]
                 ELSE /\ pc'[x] = pc[x] /\ mine'[x] = mine[x] /\ born'[x] = born[x]
                      /\ answer'[x] = answer[x]
           /\ \A t \in Tickers :
                 lock'[t] = IF lock[t] \in Crashed(i) THEN Orphan ELSE lock[t]
  BY DEF Crash, Crashed, ForgetLoads, TypeInv, TypeOK

LEMMA LiveInit == Init => LocksAreLetGo
  BY ServiceAssumption DEF Init, LocksAreLetGo

\* How a load whose name is on a lock stands.
Holding == {"store", "hydrate", "fetch", "persist", "publish", "announce", "share", "release"}

HoldsOn(y) ==
    mine[y] /\ (pc[y] \in Holding \/ (pc[y] = "done" /\ answer[y].kind = "unmapped"))

LEMMA LocksName ==
    LocksAreLetGo <=> \A t \in Tickers : lock[t] \in Loads => lock[t][2] = t /\ HoldsOn(lock[t])
  BY DEF LocksAreLetGo, HoldsOn, Holding

LEMMA LiveLoadStep ==
    ASSUME TypeInv, LocksAreLetGo, NEW x \in Loads, Start(x) \/ LoadStep(x)
    PROVE  LocksAreLetGo'
<1> SUFFICES ASSUME NEW t \in Tickers, lock'[t] \in Loads
             PROVE  /\ lock'[t][2] = t
                    /\ mine'[lock'[t]]
                    /\ \/ pc'[lock'[t]] \in Holding
                       \/ pc'[lock'[t]] = "done" /\ answer'[lock'[t]].kind = "unmapped"
  BY DEF LocksAreLetGo, Holding
<1>0. \A y \in Loads \ {x} : answer'[y] = answer[y]
  BY LoadStepMoves
<1>1. LoadMoves(x) /\ \A y \in Loads \ {x} : pc'[y] = pc[y] /\ mine'[y] = mine[y]
  BY LoadStepMoves
<1>2. x[2] \in Tickers /\ Free \notin Loads /\ Orphan \notin Loads
  BY TickerOfLoad, ServiceAssumption
<1>3. mine \in [Loads -> BOOLEAN] /\ lock \in [Tickers -> Loads \cup {Free, Orphan}]
  BY DEF TypeInv, TypeOK
<1>4. CASE TakesLock(x)
  <2>1. CASE t = x[2]
    BY <1>2, <1>3, <1>4, <2>1 DEF TakesLock, Holding
  <2>2. CASE t # x[2]
    <3>1. lock'[t] = lock[t] /\ lock[t] # x
      BY <1>2, <1>3, <1>4, <2>2, LocksName DEF TakesLock
    <3> QED
      BY <1>0, <1>1, <3>1, LocksName DEF HoldsOn
  <2> QED
    BY <2>1, <2>2
<1>5. CASE MissesLock(x) \/ GivesLockUp(x) \/ ForgetsLock(x)
  <2>1. lock'[t] = lock[t]
    BY <1>2, <1>5 DEF MissesLock, GivesLockUp, ForgetsLock
  <2>2. lock[t] # x
    <3>1. lock[t] = x => t = x[2] /\ pc[x] # "lock"
      BY <2>1, LocksName DEF HoldsOn, Holding
    <3> QED
      BY <1>5, <2>1, <3>1 DEF MissesLock, GivesLockUp, ForgetsLock
  <2> QED
    BY <1>0, <1>1, <2>1, <2>2, LocksName DEF HoldsOn
<1>6. CASE LeavesLock(x)
  <2>1. lock'[t] = lock[t]
    BY <1>6 DEF LeavesLock
  <2>2. CASE lock[t] # x
    BY <1>0, <1>1, <2>1, <2>2, LocksName DEF HoldsOn
  <2>3. CASE lock[t] = x
    <3>1. mine[x] /\ t = x[2] /\ pc[x] \in Holding \cup {"done"}
      BY <2>3, LocksName DEF HoldsOn
    <3>2. mine'[x] /\ pc[x] \in Holding \ {"release"}
      BY <1>6, <3>1 DEF LeavesLock
    <3> QED
      BY <1>1, <2>1, <2>3, <3>1, <3>2 DEF LoadMoves, MovesFrom, Resolved, LetsGo, Holding
  <2> QED
    BY <2>2, <2>3
<1> QED
  BY <1>4, <1>5, <1>6, LoadStepLocks

LEMMA LiveStep == TypeInv /\ LocksAreLetGo /\ [Next]_vars => LocksAreLetGo'
<1> SUFFICES ASSUME TypeInv, LocksAreLetGo, [Next]_vars PROVE LocksAreLetGo'
  OBVIOUS
<1>1. ASSUME NEW i \in Instances, Crash(i) PROVE LocksAreLetGo'
  <2>1. \A t \in Tickers : lock'[t] \in Loads => lock'[t] = lock[t] /\ lock[t] \notin Crashed(i)
    BY <1>1, CrashMoves, ServiceAssumption
  <2>2. \A x \in Loads \ Crashed(i) :
           pc'[x] = pc[x] /\ mine'[x] = mine[x] /\ answer'[x] = answer[x]
    BY <1>1, CrashMoves
  <2> QED
    BY <2>1, <2>2 DEF LocksAreLetGo
<1>2. ASSUME NEW t \in Tickers, Bystander, LeaseExpires(t) PROVE LocksAreLetGo'
  <2>1. \A u \in Tickers : lock'[u] = lock[u] \/ lock'[u] = Free
    BY <1>2 DEF LeaseExpires, TypeInv, TypeOK
  <2> QED
    BY <1>2, <2>1, ServiceAssumption DEF Bystander, LocksAreLetGo
<1>3. CASE Bystander /\ lock' = lock
  BY <1>3 DEF Bystander, LocksAreLetGo
<1> QED
  BY <1>1, <1>2, <1>3, LiveLoadStep, OtherSteps

\* A load lets go of its lock on every path but one - through store and
\* provider errors, rejections, lost replies, expired leases and crashes, for
\* any number of instances: a lock in a load's name belongs to a load of that
\* ticker that still holds its token and is on its way, or to one that an
\* exception of neither handled family has just ended, whose lock stays until
\* its lease runs out.
THEOREM OnlyUnmappedErrorsKeepLocks == Spec => []LocksAreLetGo
<1> QED
  BY TypeInit, TypeStep, LiveInit, LiveStep, PTL DEF Spec

LEMMA LockStays ==
    ASSUME TypeInv, [Next]_vars, NEW t \in Tickers, NEW y \in Loads, lock[t] = y, lock'[t] # y
    PROVE  \/ pc[y] = "release" /\ pc'[y] = "done"
           \/ pc'[y] = "idle"
           \/ pc' = pc
<1>1. y # Free
  BY ServiceAssumption
<1>2. ASSUME NEW x \in Loads, Start(x) \/ LoadStep(x)
      PROVE  (pc[y] = "release" /\ pc'[y] = "done") \/ pc'[y] = "idle"
  <2>1. ~MissesLock(x) /\ ~LeavesLock(x)
    BY <1>1 DEF MissesLock, LeavesLock
  <2>2. ~TakesLock(x)
    BY <1>1 DEF TakesLock, TypeInv, TypeOK
  <2> QED
    BY <1>2, <2>1, <2>2, LoadStepLocks DEF GivesLockUp, ForgetsLock
<1>3. ASSUME NEW i \in Instances, Crash(i) PROVE pc'[y] = "idle"
  BY <1>3, CrashMoves
<1> QED
  BY <1>2, <1>3, OtherSteps DEF Bystander

\* No step of one load takes the lock of another: a lock leaves its holder by
\* the holder's release, the loss of its instance or the end of its lease.
THEOREM LocksAreNotStolen == Spec => LockIsNotStolen
<1>1. TypeInv /\ [Next]_vars
         => [\A t \in Tickers, y \in Loads :
               lock[t] = y /\ lock'[t] # y =>
                   \/ pc[y] = "release" /\ pc'[y] = "done"
                   \/ pc'[y] = "idle"
                   \/ pc' = pc]_vars
  BY LockStays
<1> QED
  BY <1>1, TypeInit, TypeStep, PTL DEF Spec, LockIsNotStolen

\* While Redis answers, leases outlive their loads, no instance is lost and no
\* poll reaches its deadline, whoever is past the lock holds it.
Sheltered == Hazards \subseteq {"provider", "store", "corrupt", "evict"}

BeforeLock == {"idle", "redis", "negative", "lock", "poll"}
PastLock == Holding

HolderInv ==
    Sheltered =>
        \A x \in Loads :
            /\ pc[x] \in PastLock => lock[x[2]] = x /\ mine[x]
            /\ pc[x] \in BeforeLock => ~mine[x]

LEMMA HolderInit == Init => HolderInv
  BY DEF Init, HolderInv, PastLock, Holding, BeforeLock

LEMMA HolderLoadStep ==
    ASSUME TypeInv, HolderInv, Sheltered, NEW x \in Loads, Start(x) \/ LoadStep(x)
    PROVE  HolderInv'
<1> SUFFICES ASSUME NEW y \in Loads
             PROVE  /\ pc'[y] \in PastLock => lock'[y[2]] = y /\ mine'[y]
                    /\ pc'[y] \in BeforeLock => ~mine'[y]
  BY DEF HolderInv
<1>1. LoadMoves(x) /\ \A z \in Loads \ {x} : pc'[z] = pc[z] /\ mine'[z] = mine[z]
  BY LoadStepMoves
<1>2. /\ "redis" \notin Hazards /\ "poll" \notin Hazards
      /\ x[2] \in Tickers /\ y[2] \in Tickers
      /\ mine \in [Loads -> BOOLEAN] /\ lock \in [Tickers -> Loads \cup {Free, Orphan}]
      /\ Free \notin Loads
  BY TickerOfLoad, ServiceAssumption DEF Sheltered, TypeInv, TypeOK
<1>3. /\ pc[y] \in PastLock => lock[y[2]] = y /\ mine[y]
      /\ pc[y] \in BeforeLock => ~mine[y]
      /\ pc[x] \in PastLock => lock[x[2]] = x /\ mine[x]
      /\ pc[x] \in BeforeLock => ~mine[x]
  BY DEF HolderInv
<1>4. CASE TakesLock(x)
  <2>1. CASE y = x
    BY <1>2, <1>4, <2>1 DEF TakesLock, BeforeLock
  <2>2. CASE y # x
    <3>1. pc'[y] \in PastLock => y[2] # x[2]
      BY <1>1, <1>2, <1>3, <1>4, <2>2 DEF TakesLock
    <3> QED
      BY <1>1, <1>2, <1>3, <1>4, <2>2, <3>1 DEF TakesLock
  <2> QED
    BY <2>1, <2>2
<1>5. CASE GivesLockUp(x)
  <2>1. CASE y = x
    BY <1>5, <2>1 DEF GivesLockUp, PastLock, Holding, BeforeLock
  <2>2. CASE y # x
    BY <1>1, <1>2, <1>3, <1>5, <2>2 DEF GivesLockUp
  <2> QED
    BY <2>1, <2>2
<1>6. CASE ForgetsLock(x)
  <2>1. CASE y = x
    BY <1>6, <2>1 DEF ForgetsLock, PastLock, Holding
  <2>2. CASE y # x
    BY <1>1, <1>2, <1>3, <1>6, <2>2 DEF ForgetsLock
  <2> QED
    BY <2>1, <2>2
<1>7. CASE LeavesLock(x)
  <2>1. CASE y # x
    BY <1>1, <1>2, <1>3, <1>7, <2>1 DEF LeavesLock
  <2>2. CASE y = x /\ pc[x] \in BeforeLock
    <3>1. mine'[x] = mine[x] /\ ~mine[x]
      BY <1>3, <1>7, <2>2 DEF LeavesLock, BeforeLock
    <3>2. pc'[x] \notin PastLock
      BY <1>1, <1>2, <1>7, <2>2, <3>1
         DEF LoadMoves, MovesFrom, Resolved, LetsGo, BeforeLock, PastLock, Holding, LeavesLock
    <3> QED
      BY <2>2, <3>1, <3>2
  <2>3. CASE y = x /\ pc[x] \in PastLock
    <3>1. lock'[x[2]] = x /\ mine'[x] /\ mine[x] /\ pc[x] # "release"
      BY <1>3, <1>7, <2>3 DEF LeavesLock, PastLock, Holding
    <3>2. pc'[x] \in PastLock \cup {"done"}
      BY <1>1, <2>3, <3>1 DEF LoadMoves, MovesFrom, Resolved, LetsGo, PastLock, Holding
    <3> QED
      BY <2>3, <3>1, <3>2 DEF PastLock, Holding, BeforeLock
  <2>4. pc[x] \in BeforeLock \cup PastLock
    BY <1>1, <1>7 DEF LoadMoves, MovesFrom, LeavesLock, BeforeLock, PastLock, Holding
  <2> QED
    BY <2>1, <2>2, <2>3, <2>4
<1> QED
  BY <1>2, <1>4, <1>5, <1>6, <1>7, LoadStepLocks DEF MissesLock

LEMMA HolderStep == TypeInv /\ HolderInv /\ [Next]_vars => HolderInv'
<1> SUFFICES ASSUME TypeInv, HolderInv, [Next]_vars, Sheltered PROVE HolderInv'
  BY DEF HolderInv
<1>1. CASE Bystander /\ lock' = lock
  BY <1>1 DEF Bystander, HolderInv
<1>2. \A i \in Instances : ~Crash(i)
  BY DEF Crash, Sheltered
<1>3. \A t \in Tickers : ~LeaseExpires(t)
  BY DEF LeaseExpires, Sheltered
<1> QED
  BY <1>1, <1>2, <1>3, HolderLoadStep, OtherSteps

\* fundamentals.py: with Redis answering, leases outliving their loads, no
\* instance lost and no poll reaching its deadline, a cold ticker is fetched by
\* one load of one instance at a time - whatever the provider and the store do.
THEOREM OneBootstrapAtATime == Spec => []BootstrapIsSingle
<1>1. HolderInv => BootstrapIsSingle
  BY DEF HolderInv, Sheltered, BootstrapIsSingle, PastLock, Holding
<1> QED
  BY <1>1, TypeInit, TypeStep, HolderInit, HolderStep, PTL DEF Spec

-----------------------------------------------------------------------------
(* What a customer is told.                                                  *)

\* Unless rows decay, no step takes a ticker's row away.
Rows == "corrupt" \notin Hazards => \A t \in Tickers : heads[t].sound

BornInv ==
    "corrupt" \notin Hazards =>
        \A x \in Loads :
            /\ born[x] => HasHead(x[2])
            /\ pc[x] \in {"fetch", "persist"} => ~born[x]

LEMMA RowsInit == Init => Rows /\ BornInv
  BY DEF Init, StoreInit, NoHead, Rows, BornInv

LEMMA RowsStay ==
    ASSUME TypeInv, Rows, [Next]_vars, "corrupt" \notin Hazards
    PROVE  Rows' /\ \A t \in Tickers : HasHead(t) => HasHead(t)'
<1> DEFINE Stay == \A t \in Tickers : heads'[t].sound /\ (HasHead(t) => HasHead(t)')
<1>1. CASE heads' = heads
  BY <1>1 DEF Rows, HasHead
<1>2. ASSUME NEW t \in Tickers, NEW v \in Filings, NEW s, StoreTickerSnapshot(t, v, s)
      PROVE  Stay
  <2>1. v # 0
    BY StoreAssumption DEF Filings
  <2> QED
    BY <1>2, <2>1 DEF StoreTickerSnapshot, Rows, HasHead, TypeInv, TypeOK, StoreTypeOK
<1>3. ASSUME NEW S, NEW s, MarkHeads(S, s) PROVE Stay
  <2>1. \A t \in Tickers : heads'[t].ver = heads[t].ver /\ heads'[t].sound = heads[t].sound
    BY <1>3 DEF MarkHeads, TypeInv, TypeOK, StoreTypeOK, HeadRow
  <2> QED
    BY <2>1 DEF Rows, HasHead
<1>4. ASSUME NEW x \in Loads, Start(x) \/ LoadStep(x) PROVE Stay
  <2>1. CASE Persist(x)
    <3>1. got[x] \in Filings /\ x[2] \in Tickers
      BY <2>1, TickerOfLoad, StoreAssumption DEF Persist, TypeInv, TypeOK, FetchedIsFiling, Filings
    <3> QED
      BY <1>1, <1>2, <2>1, <3>1 DEF Persist, Rows, HasHead
  <2>2. CASE ~Persist(x)
    BY <1>1, <1>4, <2>2
       DEF LoadStep, Start, ReadRedis, ReadNegative, TryLock, Poll, PollTimeout, ReadStore,
           Hydrate, Fetch, Publish, Announce, Share, Release, Return, storeVars, Rows, HasHead
  <2> QED
    BY <2>1, <2>2
<1>5. ASSUME NEW t \in Tickers, RefreshStep(t) PROVE Stay
  <2>1. CASE RefreshPersist(t)
    <3>1. run[t].ver \in Filings
      BY <2>1, StoreAssumption
         DEF RefreshPersist, TypeInv, TypeOK, RunRow, FetchedIsFiling, Filings
    <3> QED
      BY <1>1, <1>2, <2>1, <3>1 DEF RefreshPersist, Rows, HasHead
  <2>2. CASE RefreshFetch(t) \/ RefreshPublish(t) \/ RefreshAnnounce(t)
    BY <1>1, <2>2 DEF RefreshFetch, RefreshPublish, RefreshAnnounce, Rows, HasHead
  <2>3. CASE RefreshEnd(t)
    BY <1>1, <1>3, <2>3 DEF RefreshEnd, Rows, HasHead
  <2> QED
    BY <1>5, <2>1, <2>2, <2>3 DEF RefreshStep
<1>6. ASSUME NEW i \in Instances, NEW t \in Tickers, NEW d \in 0..MaxTime, RefreshBegin(i, t, d)
      PROVE  Stay
  BY <1>3, <1>6 DEF RefreshBegin
<1>7. CASE heads' # heads
  BY <1>4, <1>5, <1>6, <1>7
     DEF Next, vars, ClockAndProvider, Tick, NewFiling, Evict, LeaseExpires, Crash, Corrupt,
         storeVars, Rows
<1> QED
  BY <1>1, <1>7 DEF Rows

LEMMA BornStep == TypeInv /\ Rows /\ BornInv /\ [Next]_vars => BornInv'
<1> SUFFICES ASSUME TypeInv, Rows, BornInv, [Next]_vars, "corrupt" \notin Hazards,
                    NEW y \in Loads
             PROVE  /\ born'[y] => HasHead(y[2])'
                    /\ pc'[y] \in {"fetch", "persist"} => ~born'[y]
  BY DEF BornInv
<1>1. /\ HasHead(y[2]) => HasHead(y[2])'
      /\ born[y] => HasHead(y[2])
      /\ pc[y] \in {"fetch", "persist"} => ~born[y]
  BY RowsStay, TickerOfLoad DEF BornInv
<1>2. ASSUME NEW x \in Loads, Start(x) \/ LoadStep(x), x # y
      PROVE  pc'[y] = pc[y] /\ born'[y] = born[y]
  BY <1>2, LoadStepMoves
<1>3. CASE Start(y)
  <2>1. pc'[y] \notin {"fetch", "persist"}
    BY <1>3, ResolveMoves, MoveMoves DEF Start, Resolved, LetsGo
  <2> QED
    BY <1>1, <1>3, <2>1 DEF Start, TypeInv, TypeOK
<1>4. CASE LoadStep(y) /\ ~Return(y)
  <2>1. born' = born
    BY <1>4
       DEF LoadStep, ReadRedis, ReadNegative, TryLock, Poll, PollTimeout, ReadStore, Hydrate,
           Fetch, Persist, Publish, Announce, Share, Release
  <2>2. CASE pc[y] = "store" /\ pc'[y] = "fetch"
    <3>1. ReadStore(y)
      BY <1>4, <2>2
         DEF LoadStep, ReadRedis, ReadNegative, TryLock, Poll, PollTimeout, Hydrate, Fetch,
             Persist, Publish, Announce, Share, Release
    <3>2. heads[y[2]].sound
      BY TickerOfLoad DEF Rows
    <3>3. ~HasHead(y[2])
      BY <2>2, <3>1, <3>2, ResolveMoves, MoveMoves DEF ReadStore, FallBackOr, Resolved, LetsGo
    <3> QED
      BY <1>1, <2>1, <3>3
  <2>3. CASE ~(pc[y] = "store" /\ pc'[y] = "fetch")
    <3>1. LoadMoves(y)
      BY <1>4, LoadStepMoves
    <3>2. pc'[y] \in {"fetch", "persist"} => pc[y] \in {"fetch", "persist"}
      BY <2>3, <3>1 DEF LoadMoves, MovesFrom, Resolved, LetsGo
    <3> QED
      BY <1>1, <2>1, <3>2
  <2> QED
    BY <2>2, <2>3
<1>5. CASE Return(y)
  BY <1>5 DEF Return, ForgetLoads
<1>6. ASSUME NEW i \in Instances, Crash(i)
      PROVE  \/ ~born'[y]
             \/ pc'[y] = pc[y] /\ born'[y] = born[y]
  BY <1>6, CrashMoves
<1> QED
  BY <1>1, <1>2, <1>3, <1>4, <1>5, <1>6, OtherSteps DEF Bystander

\* ADR-007: a ticker the store could serve when a load began is never fetched
\* from the provider for a customer, whatever caches, locks and the store do
\* in between - as long as rows stay readable.
THEOREM StoreSparesTheProvider == Spec => []StoredTickerIsNotRefetched
<1>1. TypeInv /\ Rows /\ BornInv /\ [Next]_vars => (Rows /\ BornInv)'
  <2>1. TypeInv /\ Rows /\ [Next]_vars => Rows'
    BY RowsStay DEF Rows
  <2> QED
    BY <2>1, BornStep
<1>2. BornInv => StoredTickerIsNotRefetched
  BY DEF BornInv, StoredTickerIsNotRefetched
<1> QED
  BY <1>1, <1>2, TypeInit, TypeStep, RowsInit, PTL DEF Spec

\* How an answer comes about, read off the actions.
LEMMA NewAnswers ==
    ASSUME TypeInv, [Next]_vars, NEW x \in Loads, answer'[x] # answer[x], answer'[x] # NoAnswer
    PROVE  \/ Start(x) /\ IsCurrent(l1[x]) /\ answer'[x] = Ok(l1[x])
           \/ LoadStep(x) /\ ~Return(x) /\ ~Announce(x) /\ ~Share(x)
<1>1. ASSUME NEW y \in Loads, Start(y) \/ LoadStep(y) PROVE y = x
  BY <1>1, LoadStepMoves
<1>2. ASSUME NEW i \in Instances, Crash(i) PROVE FALSE
  BY <1>2 DEF Crash, ForgetLoads
<1>3. Start(x) \/ LoadStep(x)
  BY <1>1, <1>2, OtherSteps DEF Bystander
<1>4. CASE Start(x)
  BY <1>4, ResolveMoves, MoveMoves DEF Start
<1>5. ~Return(x) /\ ~Announce(x) /\ ~Share(x)
  BY DEF Return, ForgetLoads, Announce, Share, Goto, Move
<1> QED
  BY <1>3, <1>4, <1>5

\* A load is told "rejected" by its instance's memory, by Redis or by the
\* provider.
LEMMA NewRejections ==
    ASSUME TypeInv, [Next]_vars, NEW x \in Loads,
           answer'[x].kind = "rejected", answer'[x] # answer[x]
    PROVE  \/ /\ answer'[x] = Raise("rejected") /\ refused' = refused
              /\ \/ RemembersRejection(x)
                 \/ rneg[x[2]] # 0 /\ now - rneg[x[2]] < NegTtl
           \/ /\ answer'[x] = Rejection /\ refused' = [refused EXCEPT ![x[2]] = now]
<1>1. NoAnswer.kind = "none" /\ \A copy : Ok(copy).kind = "ok"
  BY DEF NoAnswer, Ok
<1>2. LoadStep(x) /\ ~Return(x) /\ ~Announce(x) /\ ~Share(x)
  BY <1>1, NewAnswers
<1>3. ~(Poll(x) \/ PollTimeout(x) \/ TryLock(x) \/ Hydrate(x) \/ Publish(x) \/ Release(x))
  BY <1>1, LeaveMoves, ResolveMoves, MoveMoves
     DEF Poll, PollTimeout, TryLock, Hydrate, Publish, Release, Goto
<1>4. \A kind : Raise(kind).kind = kind
  BY DEF Raise
<1>5. ASSUME NEW kind \in {"storeError", "providerError"} PROVE ~FallBackOr(x, kind)
  BY <1>1, <1>4, <1>5, ResolveMoves DEF FallBackOr
<1>6. ~ReadStore(x) /\ ~Persist(x)
  BY <1>1, <1>4, <1>5, ResolveMoves, MoveMoves DEF ReadStore, Persist, Goto
<1>7. CASE ReadRedis(x)
  <2>1. PICK remote \in Reads(rfund[x[2]], NoCopy) :
           LET younger == /\ Exists(remote)
                          /\ Exists(stale[x].copy) => Hold(remote).age < stale[x].age
               held == IF younger THEN Hold(remote) ELSE stale[x]
           IN  \/ Resolve(x, Ok(held.copy))
               \/ RemembersRejection(x) /\ Resolve(x, Raise("rejected"))
               \/ Move(x, "negative")
    BY <1>7 DEF ReadRedis
  <2>2. ~Move(x, "negative") /\ \A copy : ~Resolve(x, Ok(copy))
    BY <1>1, ResolveMoves, MoveMoves
  <2> QED
    BY <1>7, <2>1, <2>2, ResolveMoves DEF ReadRedis
<1>8. CASE ReadNegative(x)
  <2>1. PICK at \in {rneg[x[2]], 0} :
           \/ at # 0 /\ now - at < NegTtl /\ Resolve(x, Raise("rejected"))
           \/ Goto(x, "lock")
    BY <1>8 DEF ReadNegative, Reads
  <2>2. ~Goto(x, "lock")
    BY MoveMoves DEF Goto
  <2> QED
    BY <1>8, <2>1, <2>2, ResolveMoves DEF ReadNegative
<1>9. CASE Fetch(x)
  BY <1>4, <1>5, <1>9, MoveMoves, LeaveMoves DEF Fetch
<1> QED
  BY <1>2, <1>3, <1>6, <1>7, <1>8, <1>9 DEF LoadStep

\* Nothing remembered, or on its way to Redis, is later news than the
\* rejection itself.
RejectionInv ==
    /\ \A t \in Tickers : refused[t] <= now /\ rneg[t] <= refused[t]
    /\ \A x \in Loads : neg[x] <= refused[x[2]]
    /\ \A x \in Loads : answer[x].kind = "rejected" => answer[x].copy.at <= refused[x[2]]

LEMMA RejectionInit == Init => RejectionInv
<1> SUFFICES ASSUME Init PROVE RejectionInv
  OBVIOUS
<1>1. now \in Nat /\ refused = [t \in Tickers |-> 0] /\ rneg = [t \in Tickers |-> 0]
      /\ neg = [x \in Loads |-> 0]
  BY StoreAssumption DEF Init, StoreInit
<1>2. \A x \in Loads : answer[x].kind # "rejected"
  BY DEF Init, NoAnswer
<1> QED
  BY <1>1, <1>2, TickerOfLoad DEF RejectionInv

\* What a step does to the instants that are remembered.
Memories ==
    /\ \A t \in Tickers : refused[t] <= now /\ rneg[t] <= refused[t]
    /\ \A x \in Loads : neg[x] <= refused[x[2]]

LEMMA MemoriesStep ==
    ASSUME TypeInv, RejectionInv, [Next]_vars
    PROVE  Memories'
<1>1. /\ neg \in [Loads -> Nat] /\ rneg \in [Tickers -> Nat] /\ refused \in [Tickers -> Nat]
      /\ now \in Nat
  BY DEF TypeInv, TypeOK, StoreTypeOK
<1>0. Memories
  BY DEF Memories, RejectionInv
<1>2. ASSUME now' \in Nat, now <= now', UNCHANGED <<neg, rneg, refused>> PROVE Memories'
  BY <1>0, <1>1, <1>2 DEF Memories
<1>3. ASSUME NEW x \in Loads, NEW at \in Nat, neg' = [neg EXCEPT ![x] = at],
             at <= refused[x[2]], UNCHANGED <<now, rneg, refused>>
      PROVE  Memories'
  BY <1>0, <1>1, <1>3 DEF Memories
<1>4. ASSUME NEW x \in Loads PROVE x[2] \in Tickers /\ 0 <= refused[x[2]] /\ 0 \in Nat
  BY <1>1, TickerOfLoad
<1>5. ASSUME NEW x \in Loads, ReadRedis(x) PROVE Memories'
  <2>1. neg' = neg \/ neg' = [neg EXCEPT ![x] = 0]
    BY <1>5 DEF ReadRedis
  <2> QED
    BY <1>1, <1>2, <1>3, <1>4, <1>5, <2>1 DEF ReadRedis, storeVars
<1>6. ASSUME NEW x \in Loads, ReadNegative(x) PROVE Memories'
  <2>1. PICK at \in {rneg[x[2]], 0} : neg' = [neg EXCEPT ![x] = at] \/ neg' = neg
    BY <1>6 DEF ReadNegative, Reads
  <2>2. at \in Nat /\ at <= refused[x[2]]
    BY <1>0, <1>1, <1>4 DEF Memories
  <2> QED
    BY <1>1, <1>2, <1>3, <1>6, <2>1, <2>2 DEF ReadNegative, storeVars
<1>7. ASSUME NEW x \in Loads, Fetch(x) PROVE Memories'
  <2>1. now' = now /\ rneg' = rneg
    BY <1>7 DEF Fetch, storeVars
  <2>2. CASE UNCHANGED <<neg, refused>>
    BY <1>1, <1>2, <2>1, <2>2
  <2>3. CASE neg' = [neg EXCEPT ![x] = now] /\ refused' = [refused EXCEPT ![x[2]] = now]
    <3>1. ASSUME NEW t \in Tickers PROVE refused'[t] <= now' /\ rneg'[t] <= refused'[t]
      BY <1>0, <1>1, <1>4, <2>1, <2>3 DEF Memories
    <3>2. ASSUME NEW y \in Loads PROVE neg'[y] <= refused'[y[2]]
      BY <1>0, <1>1, <1>4, <2>3 DEF Memories
    <3> QED
      BY <3>1, <3>2 DEF Memories
  <2> QED
    BY <1>7, <2>2, <2>3 DEF Fetch
<1>8. ASSUME NEW x \in Loads, Share(x) PROVE Memories'
  <2>1. UNCHANGED <<now, neg, refused>>
    BY <1>8 DEF Share, storeVars
  <2>2. CASE rneg' = rneg
    BY <1>1, <1>2, <2>1, <2>2
  <2>3. CASE answer[x].kind = "rejected" /\ rneg' = [rneg EXCEPT ![x[2]] = answer[x].copy.at]
    <3>1. answer[x].copy.at <= refused[x[2]]
      BY <2>3 DEF RejectionInv
    <3> QED
      BY <1>0, <1>1, <1>4, <2>1, <2>3, <3>1 DEF Memories
  <2> QED
    BY <1>8, <2>2, <2>3, TellsCopies
<1>9. ASSUME NEW x \in Loads, Start(x) \/ LoadStep(x), ~ReadRedis(x), ~ReadNegative(x), ~Fetch(x),
             ~Share(x)
      PROVE  Memories'
  <2>1. UNCHANGED <<now, neg, rneg, refused>>
    BY <1>9
       DEF LoadStep, Start, TryLock, Poll, PollTimeout, ReadStore, Hydrate, Persist, Publish,
           Announce, Release, Return, storeVars, cacheVars
  <2> QED
    BY <1>1, <1>2, <2>1
<1>10. ASSUME NEW i \in Instances, Crash(i) PROVE Memories'
  <2>1. UNCHANGED <<now, rneg, refused>>
    BY <1>10 DEF Crash, storeVars
  <2>2. \A x \in Loads : neg'[x] = 0 \/ neg'[x] = neg[x]
    BY <1>10 DEF Crash
  <2> QED
    BY <1>0, <1>1, <1>4, <2>1, <2>2 DEF Memories
<1>11. ASSUME NEW x \in Loads, Evict(x), Bystander PROVE Memories'
  <2>1. UNCHANGED <<now, refused>>
    BY <1>11 DEF Evict, storeVars
  <2>2. \A t \in Tickers : rneg'[t] = 0 \/ rneg'[t] = rneg[t]
    BY <1>1, <1>11 DEF Evict
  <2>3. \A y \in Loads : neg'[y] = 0 \/ neg'[y] = neg[y]
    BY <1>1, <1>11 DEF Evict
  <2> QED
    BY <1>0, <1>1, <1>4, <2>1, <2>2, <2>3 DEF Memories
<1>12. CASE ClockAndProvider
  <2>1. UNCHANGED <<neg, rneg, refused>>
    BY <1>12 DEF ClockAndProvider, cacheVars
  <2>2. now' \in Nat /\ now <= now'
    BY <1>1, <1>12 DEF ClockAndProvider, Tick, NewFiling
  <2> QED
    BY <1>2, <2>1, <2>2
<1>13. CASE \/ UNCHANGED vars
            \/ Scheduled
            \/ \E t \in Tickers : LeaseExpires(t) \/ Corrupt(t)
  <2>1. UNCHANGED <<now, neg, rneg, refused>>
    BY <1>13 DEF vars, Scheduled, LeaseExpires, Corrupt, storeVars, cacheVars
  <2> QED
    BY <1>1, <1>2, <2>1
<1> QED
  BY <1>5, <1>6, <1>7, <1>8, <1>9, <1>10, <1>11, <1>12, <1>13, OtherSteps

\* The provider's last rejection only moves on, to the present.
LEMMA RefusedGrows ==
    ASSUME TypeInv, RejectionInv, [Next]_vars, NEW t \in Tickers
    PROVE  refused[t] <= refused'[t]
<1>1. refused \in [Tickers -> Nat] /\ now \in Nat /\ refused[t] <= now
  BY DEF TypeInv, TypeOK, StoreTypeOK, RejectionInv
<1>2. ASSUME NEW x \in Loads, Fetch(x) PROVE refused[t] <= refused'[t]
  <2>1. refused' = refused \/ refused' = [refused EXCEPT ![x[2]] = now]
    BY <1>2 DEF Fetch
  <2> QED
    BY <1>1, <2>1
<1>3. ASSUME NEW x \in Loads, Start(x) \/ LoadStep(x), ~Fetch(x) PROVE refused' = refused
  BY <1>3
     DEF LoadStep, Start, ReadRedis, ReadNegative, TryLock, Poll, PollTimeout, ReadStore, Hydrate,
         Persist, Publish, Announce, Share, Release, Return
<1>4. ASSUME NEW i \in Instances, Crash(i) PROVE refused' = refused
  BY <1>4 DEF Crash
<1> QED
  BY <1>1, <1>2, <1>3, <1>4, OtherSteps DEF Bystander

LEMMA RejectionStep == TypeInv /\ RejectionInv /\ [Next]_vars => RejectionInv'
<1> SUFFICES ASSUME TypeInv, RejectionInv, [Next]_vars PROVE RejectionInv'
  OBVIOUS
<1>1. now \in Nat /\ refused \in [Tickers -> Nat] /\ refused' \in [Tickers -> Nat]
  <2>1. TypeInv'
    BY TypeStep
  <2> QED
    BY <2>1 DEF TypeInv, TypeOK, StoreTypeOK
<1>2. ASSUME NEW x \in Loads, answer'[x].kind = "rejected"
      PROVE  answer'[x].copy.at <= refused'[x[2]]
  <2>1. x[2] \in Tickers
    BY TickerOfLoad
  <2>2. CASE answer'[x] = answer[x]
    <3>1. answer[x].copy.at <= refused[x[2]] /\ answer[x].copy.at \in Nat
      BY <1>2, <2>2 DEF RejectionInv, TypeInv, TypeOK, Answers, Copy
    <3> QED
      BY <1>1, <2>1, <2>2, <3>1, RefusedGrows
  <2>3. CASE answer'[x] # answer[x]
    <3>1. Raise("rejected").copy.at = 0 /\ Rejection.copy.at = now
      BY DEF Raise, Rejection, NoCopy
    <3> QED
      BY <1>1, <1>2, <2>1, <2>3, <3>1, NewRejections
  <2> QED
    BY <2>2, <2>3
<1> QED
  BY <1>2, MemoriesStep DEF Memories, RejectionInv

LEMMA RejectedInTime ==
    ASSUME TypeInv, RejectionInv, [Next]_vars, NEW x \in Loads,
           answer'[x].kind = "rejected", answer[x].kind # "rejected"
    PROVE  now - refused'[x[2]] < NegTtl
<1>1. /\ neg \in [Loads -> Nat] /\ rneg \in [Tickers -> Nat] /\ refused \in [Tickers -> Nat]
      /\ now \in Nat /\ NegTtl \in Nat \ {0} /\ x[2] \in Tickers
  BY TickerOfLoad, ServiceAssumption DEF TypeInv, TypeOK, StoreTypeOK
<1>2. neg[x] <= refused[x[2]] /\ rneg[x[2]] <= refused[x[2]]
  BY <1>1 DEF RejectionInv
<1>3. RemembersRejection(x) => now - neg[x] < NegTtl
  BY DEF RemembersRejection
<1> QED
  BY <1>1, <1>2, <1>3, NewRejections

\* A customer is told "rejected" only while the provider's own rejection is
\* younger than NegTtl: copying it between Redis and instances, evictions and
\* restarts never make a remembered rejection live longer.
THEOREM RejectionsAreForgotten == Spec => RejectionsExpire
<1>1. TypeInv /\ RejectionInv /\ [Next]_vars
         => [\A x \in Loads :
               /\ answer'[x].kind = "rejected"
               /\ answer[x].kind # "rejected"
               => now - refused'[x[2]] < NegTtl]_vars
  BY RejectedInTime
<1> QED
  BY <1>1, TypeInit, TypeStep, RejectionInit, RejectionStep, PTL DEF Spec, RejectionsExpire

\* A copy on hold was at least as old when it was read as its date says now.
HeldInv == \A x \in Loads : Exists(stale[x].copy) => stale[x].copy.at + stale[x].age <= now

LEMMA NothingHeld == ~Exists(NoCopy) /\ ~Exists(NoHeld.copy) /\ NoHeld.copy = NoCopy
  BY DEF Exists, NoCopy, NoHeld

LEMMA HoldAges ==
    ASSUME now \in Nat, NEW copy \in Copy
    PROVE  /\ Exists(Hold(copy).copy) <=> Exists(copy)
           /\ Exists(copy) => /\ Hold(copy).copy = copy
                              /\ Hold(copy).age = now - copy.at
                              /\ copy.at + Hold(copy).age = now
<1>1. CASE Exists(copy)
  <2>1. Hold(copy).copy = copy /\ Hold(copy).age = now - copy.at
    BY <1>1 DEF Hold
  <2>2. copy.at \in Nat
    BY DEF Copy
  <2> QED
    BY <1>1, <2>1, <2>2
<1>2. CASE ~Exists(copy)
  BY <1>2, NothingHeld DEF Hold
<1> QED
  BY <1>1, <1>2

LEMMA HeldInit == Init => HeldInv
  BY NothingHeld DEF Init, HeldInv

LEMMA HeldAlone ==
    ASSUME TypeInv, HeldInv, now' \in Nat, now <= now',
           \A x \in Loads : stale'[x] = stale[x] \/ stale'[x] = NoHeld
    PROVE  HeldInv'
<1> SUFFICES ASSUME NEW x \in Loads, Exists(stale'[x].copy)
             PROVE  stale'[x].copy.at + stale'[x].age <= now'
  BY DEF HeldInv, Exists
<1>1. stale'[x] = stale[x]
  BY NothingHeld
<1>2. stale[x].copy.at \in Nat /\ stale[x].age \in Int /\ now \in Nat
  BY DEF TypeInv, TypeOK, StoreTypeOK, Held, Copy
<1>3. stale[x].copy.at + stale[x].age <= now
  BY <1>1 DEF HeldInv
<1> QED
  BY <1>1, <1>2, <1>3

LEMMA HeldPut ==
    ASSUME TypeInv, HeldInv, now' = now, NEW x \in Loads, NEW held,
           stale' = [stale EXCEPT ![x] = held],
           Exists(held.copy) => held.copy.at + held.age <= now
    PROVE  HeldInv'
  BY DEF TypeInv, TypeOK, HeldInv, Exists

\* stale_base is the younger of what L1 and Redis hold.
LEMMA ReadRedisHolds ==
    ASSUME TypeInv, HeldInv, NEW x \in Loads, ReadRedis(x)
    PROVE  \E held \in Held :
              /\ Exists(held.copy) => held.copy.at + held.age <= now
              /\ \/ held = stale[x]
                 \/ Exists(held.copy) /\ held.copy.at + held.age = now
              /\ \/ IsCurrentHeld(held) /\ Resolve(x, Ok(held.copy))
                 \/ Resolve(x, Raise("rejected"))
                 \/ stale' = [stale EXCEPT ![x] = Fallback(held)] /\ Move(x, "negative")
<1>1. PICK remote \in {rfund[x[2]], NoCopy} :
         LET younger == /\ Exists(remote)
                        /\ Exists(stale[x].copy) => Hold(remote).age < stale[x].age
             held == IF younger THEN Hold(remote) ELSE stale[x]
         IN  \/ IsCurrentHeld(held) /\ Resolve(x, Ok(held.copy))
             \/ Resolve(x, Raise("rejected"))
             \/ stale' = [stale EXCEPT ![x] = Fallback(held)] /\ Move(x, "negative")
  BY DEF ReadRedis, Reads
<1> DEFINE younger == /\ Exists(remote)
                      /\ Exists(stale[x].copy) => Hold(remote).age < stale[x].age
           held == IF younger THEN Hold(remote) ELSE stale[x]
<1>2. remote \in Copy /\ now \in Nat
  BY TickerOfLoad, NoThings DEF TypeInv, TypeOK, StoreTypeOK
<1>3. CASE younger
  <2>1. /\ held = Hold(remote) /\ Hold(remote) \in Held
        /\ Exists(Hold(remote).copy) /\ Hold(remote).copy.at + Hold(remote).age = now
    BY <1>2, <1>3, HoldAges, CopiesAreTyped
  <2> HIDE DEF younger
  <2> QED
    BY <1>1, <1>2, <2>1 DEF younger
<1>4. CASE ~younger
  <2>1. held = stale[x] /\ stale[x] \in Held
    BY <1>4 DEF TypeInv, TypeOK
  <2>2. Exists(stale[x].copy) => stale[x].copy.at + stale[x].age <= now
    BY DEF HeldInv
  <2> HIDE DEF younger
  <2> QED
    BY <1>1, <2>1, <2>2 DEF younger
<1> QED
  BY <1>3, <1>4

LEMMA HeldStep == TypeInv /\ HeldInv /\ [Next]_vars => HeldInv'
<1> SUFFICES ASSUME TypeInv, HeldInv, [Next]_vars PROVE HeldInv'
  OBVIOUS
<1>1. now \in Nat /\ stale \in [Loads -> Held]
  BY DEF TypeInv, TypeOK, StoreTypeOK
<1>2. now' \in Nat /\ now <= now'
  <2>1. CASE ClockAndProvider
    BY <1>1, <2>1 DEF ClockAndProvider, Tick, NewFiling
  <2>2. CASE now' = now
    BY <1>1, <2>2
  <2> QED
    BY <2>1, <2>2
       DEF Next, vars, LoadStep, Start, ReadRedis, ReadNegative, TryLock, Poll, PollTimeout,
           ReadStore, Hydrate, Fetch, Persist, Publish, Announce, Share, Release, Return, Evict,
           RefreshBegin, RefreshStep, RefreshFetch, RefreshPersist, RefreshPublish,
           RefreshAnnounce, RefreshEnd, Scheduled, LeaseExpires, Corrupt, Crash, storeVars
<1>3. ASSUME NEW x \in Loads, Start(x) PROVE HeldInv'
  <2>1. l1[x] \in Copy /\ now' = now
    BY <1>3 DEF Start, storeVars, TypeInv, TypeOK
  <2>2. CASE \E a : Resolve(x, a)
    BY <1>1, <1>2, <2>2, HeldAlone DEF Resolve, Leave
  <2>3. CASE stale' = [stale EXCEPT ![x] = Hold(l1[x])]
    <3>1. Exists(Hold(l1[x]).copy) => Hold(l1[x]).copy.at + Hold(l1[x]).age <= now
      BY <1>1, <2>1, HoldAges
    <3> QED
      BY <2>1, <2>3, <3>1, HeldPut
  <2> QED
    BY <1>3, <2>2, <2>3 DEF Start
<1>4. ASSUME NEW x \in Loads, ReadRedis(x) PROVE HeldInv'
  <2>1. PICK held \in Held :
           /\ Exists(held.copy) => held.copy.at + held.age <= now
           /\ \/ \E a : Resolve(x, a)
              \/ stale' = [stale EXCEPT ![x] = Fallback(held)]
    BY <1>4, ReadRedisHolds
  <2>2. Exists(Fallback(held).copy) => Fallback(held).copy.at + Fallback(held).age <= now
    BY <2>1, NothingHeld DEF Fallback
  <2>3. CASE \E a : Resolve(x, a)
    BY <1>1, <1>2, <2>3, HeldAlone DEF Resolve, Leave
  <2>4. CASE stale' = [stale EXCEPT ![x] = Fallback(held)]
    <3>1. now' = now
      BY <1>4 DEF ReadRedis, storeVars
    <3> QED
      BY <2>2, <2>4, <3>1, HeldPut
  <2> QED
    BY <2>1, <2>3, <2>4
<1>5. ASSUME NEW x \in Loads, LoadStep(x), ~ReadRedis(x) PROVE HeldInv'
  <2>1. stale' = stale \/ stale' = [stale EXCEPT ![x] = NoHeld] \/ ForgetLoads({x})
    BY <1>5
       DEF LoadStep, ReadNegative, TryLock, Poll, PollTimeout, ReadStore, Hydrate, Fetch,
           Persist, Publish, Announce, Share, Release, Return, Goto, Resolve, Leave, FallBackOr
  <2> QED
    BY <1>1, <1>2, <2>1, HeldAlone DEF ForgetLoads
<1>6. ASSUME NEW i \in Instances, Crash(i) PROVE HeldInv'
  BY <1>2, <1>6, HeldAlone DEF Crash, ForgetLoads
<1>7. CASE Bystander
  BY <1>2, <1>7, HeldAlone DEF Bystander
<1> QED
  BY <1>3, <1>4, <1>5, <1>6, <1>7, OtherSteps

LEMMA BoundaryIsPast ==
    ASSUME NEW time \in Nat
    PROVE  LastRefreshBoundary(time) \in Nat /\ LastRefreshBoundary(time) <= time
<1>1. Day \in Nat \ {0}
  BY StoreAssumption
<1>2. (time \div Day) \in Nat /\ (time \div Day) * Day <= time
  BY <1>1
<1> QED
  BY <1>1, <1>2 DEF LastRefreshBoundary

LEMMA CurrentIsDated ==
    ASSUME now \in Nat, NEW copy \in Copy, IsCurrent(copy)
    PROVE  copy.at >= LastRefreshBoundary(now)
<1>1. Exists(copy)
  BY HoldAges DEF IsCurrent, IsCurrentHeld
<1>2. now - (now - copy.at) >= LastRefreshBoundary(now)
  BY <1>1, HoldAges DEF IsCurrent, IsCurrentHeld, IsFreshAge
<1>3. copy.at \in Nat /\ LastRefreshBoundary(now) \in Nat
  BY BoundaryIsPast DEF Copy
<1> QED
  BY <1>2, <1>3

LEMMA UnwarnedIsCurrent ==
    ASSUME TypeInv, HeldInv, [Next]_vars, NEW x \in Loads,
           answer'[x].kind = "ok", answer'[x] # answer[x], ~answer'[x].copy.warned
    PROVE  answer'[x].copy.at + Drift(x) >= LastRefreshBoundary(now)
<1>1. /\ NoAnswer.kind = "none"
      /\ \A copy : Ok(copy).kind = "ok" /\ Ok(copy).copy = copy
      /\ \A kind : Raise(kind).kind = kind
  BY DEF NoAnswer, Ok, Raise
<1>2. now \in Nat /\ LastRefreshBoundary(now) \in Nat /\ LastRefreshBoundary(now) <= now
  BY BoundaryIsPast DEF TypeInv, TypeOK, StoreTypeOK
<1>3. ASSUME NEW copy \in Copy, pc[x] # "redis", answer'[x] = Ok(copy),
             copy.at >= LastRefreshBoundary(now)
      PROVE  answer'[x].copy.at + Drift(x) >= LastRefreshBoundary(now)
  <2>1. Drift(x) = 0 /\ answer'[x].copy.at = copy.at
    BY <1>1, <1>3 DEF Drift
  <2>2. copy.at \in Nat
    BY DEF Copy
  <2> QED
    BY <1>2, <1>3, <2>1, <2>2
<1>4. CASE Start(x)
  <2>1. IsCurrent(l1[x]) /\ answer'[x] = Ok(l1[x]) /\ pc[x] # "redis"
    BY <1>1, <1>4, ResolveMoves, MoveMoves DEF Start
  <2>2. l1[x] \in Copy
    BY DEF TypeInv, TypeOK
  <2> QED
    BY <1>2, <1>3, <2>1, <2>2, CurrentIsDated
<1>5. CASE ReadRedis(x)
  <2>1. PICK held \in Held :
           /\ Exists(held.copy) => held.copy.at + held.age <= now
           /\ \/ held = stale[x]
              \/ Exists(held.copy) /\ held.copy.at + held.age = now
           /\ \/ IsCurrentHeld(held) /\ Resolve(x, Ok(held.copy))
              \/ Resolve(x, Raise("rejected"))
              \/ stale' = [stale EXCEPT ![x] = Fallback(held)] /\ Move(x, "negative")
    BY <1>5, ReadRedisHolds
  <2>2. IsCurrentHeld(held) /\ answer'[x] = Ok(held.copy)
    BY <1>1, <2>1, ResolveMoves, MoveMoves
  <2>3. Exists(held.copy) /\ now - held.age >= LastRefreshBoundary(now)
    BY <2>2 DEF IsCurrentHeld, IsFreshAge
  <2>4. held.copy.at \in Nat /\ held.age \in Int /\ stale[x].copy.at \in Nat /\ stale[x].age \in Int
    BY DEF Held, Copy, TypeInv, TypeOK
  <2>5. Drift(x) \in Int /\ Drift(x) >= 0
    BY <1>2, <2>4 DEF Drift, HeldInv
  <2>6. CASE held = stale[x]
    <3>1. Drift(x) = now - (held.copy.at + held.age)
      BY <1>5, <2>3, <2>6 DEF Drift, ReadRedis
    <3> QED
      BY <1>1, <1>2, <2>2, <2>3, <2>4, <3>1
  <2>7. CASE held.copy.at + held.age = now
    BY <1>1, <1>2, <2>2, <2>3, <2>4, <2>5, <2>7
  <2> QED
    BY <2>1, <2>6, <2>7
<1>6. CASE Poll(x)
  <2>1. IsCurrent(rfund[x[2]]) /\ answer'[x] = Ok(rfund[x[2]]) /\ pc[x] # "redis"
    BY <1>6, ResolveMoves DEF Poll
  <2>2. rfund[x[2]] \in Copy
    BY TickerOfLoad DEF TypeInv, TypeOK
  <2> QED
    BY <1>2, <1>3, <2>1, <2>2, CurrentIsDated
<1>7. CASE Hydrate(x)
  <2> DEFINE due == row[x].verified < LastRefreshBoundary(now)
             copy == [ver |-> row[x].ver, at |-> row[x].verified,
                      status |-> ServedStatus(row[x], due), warned |-> due]
  <2>1. answer'[x] = Ok(copy) /\ pc[x] # "redis"
    BY <1>7, LeaveMoves DEF Hydrate
  <2>2. row[x].verified \in Nat
    BY DEF TypeInv, TypeOK, HeadRow
  <2>3. answer'[x].copy.at = row[x].verified /\ answer'[x].copy.warned = due
    BY <1>1, <2>1
  <2>4. Drift(x) = 0
    BY <2>1 DEF Drift
  <2>5. CASE due
    BY <2>3, <2>5
  <2>6. CASE ~due
    BY <1>2, <2>2, <2>3, <2>4, <2>6
  <2> QED
    BY <2>5, <2>6
<1>8. CASE Publish(x)
  <2>1. answer'[x] = Ok(Published(got[x], "bootstrap_snapshot")) /\ pc[x] # "redis"
    BY <1>8, LeaveMoves DEF Publish
  <2>2. answer'[x].copy.at = now
    BY <1>1, <2>1 DEF Published
  <2>3. Drift(x) = 0
    BY <2>1 DEF Drift
  <2> QED
    BY <1>2, <2>2, <2>3
<1>9. ASSUME NEW kind \in {"storeError", "providerError"} PROVE ~FallBackOr(x, kind)
  <2>1. stale[x].copy \in Copy
    BY DEF TypeInv, TypeOK, Held
  <2>2. Warned(stale[x].copy).warned
    BY <2>1 DEF Warned, Copy
  <2> QED
    BY <1>1, <2>2, ResolveMoves DEF FallBackOr
<1>10. ~(ReadNegative(x) \/ TryLock(x) \/ PollTimeout(x) \/ ReadStore(x) \/ Fetch(x)
         \/ Persist(x) \/ Release(x))
  <2>1. Rejection.kind = "rejected"
    BY DEF Rejection
  <2> QED
    BY <1>1, <1>9, <2>1, LeaveMoves, ResolveMoves, MoveMoves
       DEF ReadNegative, TryLock, PollTimeout, ReadStore, Fetch, Persist, Release, Goto
<1> QED
  BY <1>1, <1>4, <1>5, <1>6, <1>7, <1>8, <1>10, NewAnswers DEF LoadStep

\* refresh_window.py: on none of the paths that produce an answer does a copy
\* dated before the last boundary go out without a warning.  Two slacks are the
\* code's own: stale_age does not grow while the load waits for Redis, and a
\* published copy is dated by its publication, after its verification
\* (CurrentCopiesAreVerified is what that leaves open).
THEOREM UnwarnedMeansCurrent == Spec => UnwarnedAnswersAreCurrent
<1>1. TypeInv /\ HeldInv /\ [Next]_vars
         => [\A x \in Loads :
               /\ answer'[x].kind = "ok"
               /\ answer'[x] # answer[x]
               /\ ~answer'[x].copy.warned
               => answer'[x].copy.at + Drift(x) >= LastRefreshBoundary(now)]_vars
  BY UnwarnedIsCurrent
<1> QED
  BY <1>1, TypeInit, TypeStep, HeldInit, HeldStep, PTL DEF Spec, UnwarnedAnswersAreCurrent

===========================================================================
