------------------------ MODULE DailyRefreshProofs ------------------------
(***************************************************************************)
(* What holds of the daily refresh for every set of tickers, every number  *)
(* of overlapping invocations, every horizon and every budget of faults    *)
(* and crashes: type correctness and the one-cycle-per-date rule; then the *)
(* ledger as evidence: a succeeded claim stands for a head verified in its *)
(* run, the counters and the verdict of a run are those of its claims, and *)
(* a head shown as being refreshed is owed a decision.                     *)
(***************************************************************************)
EXTENDS DailyRefresh, FiniteSetTheorems, TLAPS

\* Only a filing that exists is ever handed to the store.
FetchedIsFiling ==
    \A c \in Invocations, t \in Tickers :
        step[c][t] = "persist" => fetched[c][t] # 0

TypeInv == TypeOK /\ FetchedIsFiling

\* The database functions keep the store and the ledger well typed: every
\* manifest is a finite set of tickers and every version stored is a filing.
LEMMA TickersCount ==
    ASSUME NEW S, S \subseteq Tickers
    PROVE  Cardinality(S) \in Nat
  BY StoreAssumption, FS_Subset, FS_CardinalityType

LEMMA StoreTickerSnapshotType ==
    ASSUME StoreTypeOK, NEW t \in Tickers, NEW v \in Filings,
           NEW s \in DurableStatuses, StoreTickerSnapshot(t, v, s)
    PROVE  /\ snapshots' \subseteq Tickers \X Filings
           /\ heads' \in [Tickers -> HeadRow]
  BY StoreAssumption DEF StoreTypeOK, StoreTickerSnapshot, HeadRow, Filings

LEMMA MarkHeadsType ==
    ASSUME StoreTypeOK, NEW S, NEW s \in DurableStatuses, MarkHeads(S, s)
    PROVE  heads' \in [Tickers -> HeadRow]
  BY DEF StoreTypeOK, MarkHeads, HeadRow

LEMMA BeginRunType ==
    ASSUME TypeOK, NEW d \in Dates, BeginRun(d)
    PROVE  StoreTypeOK' /\ LedgerTypeOK'
<1> DEFINE manifest == {t \in Tickers : HasHead(t)}
<1>1. heads' \in [Tickers -> HeadRow]
  BY MarkHeadsType DEF BeginRun, TypeOK, DurableStatuses
<1>2. StoreTypeOK'
  BY <1>1 DEF BeginRun, TypeOK, StoreTypeOK
<1>3. Cardinality(manifest) \in Nat
  BY TickersCount
<1>4. runs' \in [Dates -> Run]
  BY <1>3 DEF BeginRun, TypeOK, StoreTypeOK, LedgerTypeOK, Run, NoRun, RunStatuses
<1>5. claims' \in [Dates -> [Tickers -> ClaimStatuses]]
  BY DEF BeginRun, TypeOK, LedgerTypeOK, ClaimStatuses
<1> QED
  BY <1>2, <1>4, <1>5 DEF LedgerTypeOK

LEMMA CompleteClaimType ==
    ASSUME TypeOK, NEW d \in Dates, NEW t \in Tickers,
           NEW s \in {"succeeded", "failed"}, CompleteClaim(d, t, s)
    PROVE  StoreTypeOK' /\ LedgerTypeOK'
<1>1. heads' \in [Tickers -> HeadRow]
  BY MarkHeadsType DEF CompleteClaim, TypeOK, DurableStatuses
<1>2. claims' \in [Dates -> [Tickers -> ClaimStatuses]]
  BY DEF CompleteClaim, TypeOK, LedgerTypeOK, ClaimStatuses
<1> QED
  BY <1>1, <1>2 DEF CompleteClaim, TypeOK, StoreTypeOK, LedgerTypeOK

LEMMA FinishRunType ==
    ASSUME TypeOK, NEW d \in Dates, FinishRun(d)
    PROVE  StoreTypeOK' /\ LedgerTypeOK'
<1>1. heads' \in [Tickers -> HeadRow]
  <2>1. ASSUME NEW t \in Tickers, NEW s \in DurableStatuses
        PROVE  heads[t] \in HeadRow /\ [heads[t] EXCEPT !.status = s] \in HeadRow
    BY <2>1 DEF TypeOK, StoreTypeOK, HeadRow
  <2>2. {"daily_refresh_failed", "daily_refresh_partial_failed"} \subseteq DurableStatuses
    BY DEF DurableStatuses
  <2> QED
    BY <2>1, <2>2 DEF FinishRun
<1>2. \A S : Cardinality(ClaimsIn(d, S)) \in Nat
  BY TickersCount DEF ClaimsIn
<1>3. RunOutcome(d) \in RunStatuses
  BY DEF RunOutcome, RunStatuses
<1>4. runs' \in [Dates -> Run]
  <2> DEFINE row == [runs[d] EXCEPT !.status = RunOutcome(d),
                                    !.succeeded = Cardinality(ClaimsIn(d, {"succeeded"})),
                                    !.failed = Cardinality(ClaimsIn(d, {"failed"}))]
  <2>1. runs[d] \in Run /\ runs \in [Dates -> Run]
    BY DEF TypeOK, LedgerTypeOK
  <2>2. row \in Run
    BY <1>2, <1>3, <2>1 DEF Run
  <2>3. runs' = [runs EXCEPT ![d] = row]
    BY DEF FinishRun
  <2> QED
    BY <2>1, <2>2, <2>3
<1> QED
  BY <1>1, <1>4 DEF FinishRun, TypeOK, StoreTypeOK, LedgerTypeOK

-----------------------------------------------------------------------------

LEMMA FirstDate == 0 \in Dates
<1>1. MaxTime \div Day \in Nat
  BY StoreAssumption
<1> QED
  BY <1>1 DEF Dates

LEMMA TypeInit == Init => TypeInv
  BY StoreAssumption, FirstDate
     DEF Init, StoreInit, LedgerInit, TypeInv, TypeOK, StoreTypeOK, LedgerTypeOK,
         FetchedIsFiling, HeadRow, NoHead, DurableStatuses, NoRun, Run, RunStatuses,
         ClaimStatuses, Idle, Steps

\* Where refresh_one bodies are after one of them moves, and after an
\* invocation leaves.
StepIsTyped == step \in [Invocations -> [Tickers -> Steps]]

LEMMA StepMoves ==
    ASSUME StepIsTyped, NEW c \in Invocations, NEW t \in Tickers, NEW s \in Steps,
           step' = [step EXCEPT ![c][t] = s]
    PROVE  /\ StepIsTyped'
           /\ \A e \in Invocations, u \in Tickers :
                 step'[e][u] = IF e = c /\ u = t THEN s ELSE step[e][u]
  BY DEF StepIsTyped

LEMMA InvocationLeaves ==
    ASSUME StepIsTyped, NEW c \in Invocations, Leave(c)
    PROVE  /\ StepIsTyped'
           /\ \A e \in Invocations, u \in Tickers :
                 step'[e][u] = IF e = c THEN "none" ELSE step[e][u]
  BY DEF StepIsTyped, Leave, Idle, Steps

LEMMA TypeStep == TypeInv /\ [Next]_vars => TypeInv'
<1> SUFFICES ASSUME TypeInv, [Next]_vars PROVE TypeInv'
  OBVIOUS
<1> USE DEF TypeInv
<1>1. CASE UNCHANGED vars
  BY <1>1 DEF vars, TypeOK, StoreTypeOK, LedgerTypeOK, FetchedIsFiling
<1>2. CASE Environment
  <2>1. StoreTypeOK'
    BY <1>2, StoreAssumption DEF Environment, Tick, NewFiling, TypeOK, StoreTypeOK
  <2> QED
    BY <1>2, <2>1
       DEF Environment, Tick, NewFiling, ledgerVars, runnerVars, TypeOK, LedgerTypeOK,
           FetchedIsFiling
<1>3. ASSUME NEW c \in Invocations, Deliver(c) PROVE TypeInv'
  BY <1>3 DEF Deliver, storeVars, ledgerVars, TypeOK, StoreTypeOK, LedgerTypeOK,
              FetchedIsFiling
<1>4. ASSUME NEW c \in Invocations, SkipDuplicate(c) PROVE TypeInv'
  BY <1>4 DEF SkipDuplicate, Leave, Idle, Steps, storeVars, ledgerVars, TypeOK,
              StoreTypeOK, LedgerTypeOK, FetchedIsFiling
<1>5. ASSUME NEW c \in Invocations, Begin(c) PROVE TypeInv'
  <2>1. StoreTypeOK' /\ LedgerTypeOK'
    BY <1>5, BeginRunType DEF Begin, TypeOK
  <2>2. /\ pc' \in [Invocations -> {"idle", "begin", "work"}]
        /\ date' \in [Invocations -> Dates]
        /\ fetched' \in [Invocations -> [Tickers -> 0..MaxFiling]]
    BY <1>5 DEF Begin, Leave, TypeOK
  <2>5. step' \in [Invocations -> [Tickers -> Steps]]
    <3>1. CASE Leave(c)
      BY <3>1, InvocationLeaves DEF StepIsTyped, TypeOK
    <3>2. CASE step' = [step EXCEPT ![c] =
                  [t \in Tickers |-> IF HasHead(t) THEN "queued" ELSE "none"]]
      BY <3>2 DEF HasHead, Steps, TypeOK
    <3> QED
      BY <1>5, <3>1, <3>2 DEF Begin
  <2>3. faults' \in Nat
    BY <1>5 DEF Begin, Fault, NoFault, TypeOK
  <2>4. FetchedIsFiling'
    <3>1. \A e \in Invocations, u \in Tickers :
             step'[e][u] = "persist" => step[e][u] = "persist"
      BY <1>5 DEF Begin, HasHead, Leave, Idle, TypeOK
    <3> QED
      BY <1>5, <3>1 DEF Begin, Leave, FetchedIsFiling
  <2> QED
    BY <1>5, <2>1, <2>2, <2>3, <2>4, <2>5 DEF Begin, TypeOK
<1>6. ASSUME NEW c \in Invocations, BeginFails(c) PROVE TypeInv'
  BY <1>6 DEF BeginFails, Leave, Idle, Steps, Fault, storeVars, ledgerVars, TypeOK,
              StoreTypeOK, LedgerTypeOK, FetchedIsFiling
<1>7. ASSUME NEW c \in Invocations, NEW t \in Tickers, StartTicker(c, t) PROVE TypeInv'
  <2>1. calls' \in [Dates -> [Tickers -> Nat]]
    BY <1>7 DEF StartTicker, TypeOK
  <2>2. step' \in [Invocations -> [Tickers -> Steps]]
    BY <1>7 DEF StartTicker, Steps, TypeOK
  <2>3. FetchedIsFiling'
    BY <1>7 DEF StartTicker, TypeOK, FetchedIsFiling
  <2> QED
    BY <1>7, <2>1, <2>2, <2>3
       DEF StartTicker, storeVars, ledgerVars, TypeOK, StoreTypeOK, LedgerTypeOK
<1>8. ASSUME NEW c \in Invocations, NEW t \in Tickers, Fetch(c, t) PROVE TypeInv'
  <2>1. step' \in [Invocations -> [Tickers -> Steps]]
    BY <1>8, StepMoves DEF Fetch, StepIsTyped, Steps, TypeOK
  <2>2. fetched' \in [Invocations -> [Tickers -> 0..MaxFiling]]
    <3>1. CASE UNCHANGED fetched
      BY <3>1 DEF TypeOK
    <3>2. CASE fetched' = [fetched EXCEPT ![c][t] = filing[t]]
      BY <3>2 DEF TypeOK, StoreTypeOK
    <3> QED
      BY <1>8, <3>1, <3>2 DEF Fetch
  <2>3. FetchedIsFiling'
    <3>1. CASE UNCHANGED fetched /\ step' = [step EXCEPT ![c][t] = "fail"]
      BY <3>1, StepMoves DEF StepIsTyped, Steps, TypeOK, FetchedIsFiling
    <3>2. CASE /\ filing[t] # 0
               /\ fetched' = [fetched EXCEPT ![c][t] = filing[t]]
               /\ step' = [step EXCEPT ![c][t] = "persist"]
      BY <3>2, StepMoves DEF StepIsTyped, Steps, TypeOK, FetchedIsFiling
    <3> QED
      BY <1>8, <3>1, <3>2 DEF Fetch
  <2> QED
    BY <1>8, <2>1, <2>2, <2>3
       DEF Fetch, storeVars, ledgerVars, TypeOK, StoreTypeOK, LedgerTypeOK
<1>9. ASSUME NEW c \in Invocations, NEW t \in Tickers, Persist(c, t) PROVE TypeInv'
  <2>1. fetched[c][t] \in Filings
    BY <1>9, StoreAssumption DEF Persist, TypeOK, FetchedIsFiling, Filings
  <2>2. /\ snapshots' \subseteq Tickers \X Filings
        /\ heads' \in [Tickers -> HeadRow]
    BY <1>9, <2>1, StoreTickerSnapshotType
       DEF Persist, TypeOK, StoreTypeOK, DurableStatuses
  <2>6. PICK s \in {"succeed", "fail"} : step' = [step EXCEPT ![c][t] = s]
    BY <1>9 DEF Persist
  <2>3. /\ step' \in [Invocations -> [Tickers -> Steps]]
        /\ \A e \in Invocations, u \in Tickers :
              step'[e][u] = "persist" => step[e][u] = "persist"
    <3>1. StepIsTyped /\ s \in Steps /\ s # "persist"
      BY DEF StepIsTyped, Steps, TypeOK
    <3>2. StepIsTyped'
      BY <2>6, <3>1 DEF StepIsTyped
    <3>3. ASSUME NEW e \in Invocations, NEW u \in Tickers, step'[e][u] = "persist"
          PROVE  step[e][u] = "persist"
      BY <2>6, <3>1, <3>3 DEF StepIsTyped
    <3> QED
      BY <3>2, <3>3 DEF StepIsTyped
  <2>5. FetchedIsFiling'
    BY <1>9, <2>3 DEF Persist, FetchedIsFiling
  <2>4. faults' \in Nat
    BY <1>9 DEF Persist, Fault, NoFault, TypeOK
  <2> QED
    BY <1>9, <2>2, <2>3, <2>4, <2>5
       DEF Persist, ledgerVars, TypeOK, StoreTypeOK, LedgerTypeOK
<1>10. ASSUME NEW c \in Invocations, NEW t \in Tickers, Complete(c, t) PROVE TypeInv'
  <2>1. date[c] \in Dates /\ ClaimStatus(c, t) \in {"succeeded", "failed"}
    BY DEF TypeOK, ClaimStatus
  <2>2. StoreTypeOK' /\ LedgerTypeOK'
    BY <1>10, <2>1, CompleteClaimType
       DEF Complete, storeVars, ledgerVars, TypeOK, StoreTypeOK, LedgerTypeOK
  <2>3. late' \subseteq Dates \X Tickers \X {"succeeded", "failed"}
    BY <1>10, <2>1 DEF Complete, TypeOK
  <2> QED
    BY <1>10, <2>2, <2>3 DEF Complete, Steps, Fault, NoFault, TypeOK, FetchedIsFiling
<1>11. ASSUME NEW d \in Dates, NEW t \in Tickers, NEW s \in {"succeeded", "failed"},
              CompleteLate(d, t, s)
       PROVE  TypeInv'
  BY <1>11, CompleteClaimType DEF CompleteLate, runnerVars, TypeOK, FetchedIsFiling
<1>12. ASSUME NEW c \in Invocations, Finish(c) PROVE TypeInv'
  <2>1. StoreTypeOK' /\ LedgerTypeOK'
    BY <1>12, FinishRunType
       DEF Finish, storeVars, ledgerVars, TypeOK, StoreTypeOK, LedgerTypeOK
  <2> QED
    BY <1>12, <2>1 DEF Finish, Leave, Idle, Steps, Fault, NoFault, TypeOK, FetchedIsFiling
<1>13. ASSUME NEW c \in Invocations, Crash(c) PROVE TypeInv'
  BY <1>13 DEF Crash, Leave, Idle, Steps, storeVars, ledgerVars, TypeOK, StoreTypeOK,
               LedgerTypeOK, FetchedIsFiling
<1>14. ASSUME NEW t \in Tickers, BootstrapFetch(t) PROVE TypeInv'
  BY <1>14, StoreAssumption
     DEF BootstrapFetch, runnerVars, storeVars, ledgerVars, TypeOK, StoreTypeOK,
         LedgerTypeOK, FetchedIsFiling, Filings
<1>15. ASSUME NEW t \in Tickers, NEW v \in Filings, BootstrapStore(t, v) PROVE TypeInv'
  <2>1. /\ snapshots' \subseteq Tickers \X Filings
        /\ heads' \in [Tickers -> HeadRow]
    BY <1>15, StoreTickerSnapshotType DEF BootstrapStore, TypeOK, DurableStatuses
  <2> QED
    BY <1>15, <2>1 DEF BootstrapStore, runnerVars, ledgerVars, TypeOK, StoreTypeOK,
                       LedgerTypeOK, FetchedIsFiling
<1> QED
  BY <1>1, <1>2, <1>3, <1>4, <1>5, <1>6, <1>7, <1>8, <1>9, <1>10, <1>11, <1>12, <1>13,
     <1>14, <1>15
     DEF Next, RunnerStep, RefreshOne

\* Every reachable state of the runner, the ledger and the store is well typed.
THEOREM TypeCorrect == Spec => []TypeOK
<1>1. Init => TypeInv
  BY TypeInit
<1>2. TypeInv /\ [Next]_vars => TypeInv'
  BY TypeStep
<1>3. TypeInv => TypeOK
  BY DEF TypeInv
<1> QED
  BY <1>1, <1>2, <1>3, PTL DEF Spec

-----------------------------------------------------------------------------
(* The discipline behind one cycle per date.  The insert on the date lets a *)
(* single invocation work on it; the invocation alone moves the date's      *)
(* tickers, claims and counters, and a completion it gave up on is the last *)
(* word that claim will ever get.                                           *)

Undecided == {"queued", "fetch", "persist", "succeed", "fail"}

RunIsOpenWhileWorking ==
    \A c \in Invocations : pc[c] = "work" => runs[date[c]].status = "running"

OneWorkerPerDate ==
    \A c, e \in Invocations :
        pc[c] = "work" /\ pc[e] = "work" /\ date[c] = date[e] => c = e

StepsNeedWork ==
    \A c \in Invocations, t \in Tickers : step[c][t] # "none" => pc[c] = "work"

UnopenedIsUntouched ==
    \A d \in Dates, t \in Tickers :
        runs[d].status = "none" => calls[d][t] = 0 /\ claims[d][t] = "none"

QueuedIsUnspent ==
    \A c \in Invocations, t \in Tickers :
        step[c][t] = "queued" => calls[date[c]][t] = 0

StartedIsSpent ==
    \A c \in Invocations, t \in Tickers :
        step[c][t] \notin {"none", "queued"} => calls[date[c]][t] > 0

UndecidedIsOwed ==
    \A c \in Invocations, t \in Tickers :
        step[c][t] \in Undecided => claims[date[c]][t] = "pending"

ClaimedIsWorked ==
    \A c \in Invocations, t \in Tickers :
        pc[c] = "work" /\ claims[date[c]][t] # "none" => step[c][t] # "none"

LateIsLastWord ==
    \A d \in Dates, t \in Tickers, s \in {"succeeded", "failed"} :
        <<d, t, s>> \in late =>
            /\ claims[d][t] = "pending"
            /\ calls[d][t] > 0
            /\ \A c \in Invocations :
                   pc[c] = "work" /\ date[c] = d => step[c][t] \notin Undecided
            /\ \A r \in {"succeeded", "failed"} : <<d, t, r>> \in late => r = s

Discipline ==
    /\ RunIsOpenWhileWorking
    /\ OneWorkerPerDate
    /\ StepsNeedWork
    /\ UnopenedIsUntouched
    /\ QueuedIsUnspent
    /\ StartedIsSpent
    /\ UndecidedIsOwed
    /\ ClaimedIsWorked
    /\ LateIsLastWord
    /\ OneCyclePerDate

CycleInv == TypeInv /\ Discipline

LEMMA DisciplineInit == Init => Discipline
  BY DEF Init, LedgerInit, NoRun, Idle, Discipline, RunIsOpenWhileWorking,
     OneWorkerPerDate, StepsNeedWork, UnopenedIsUntouched,
         QueuedIsUnspent, StartedIsSpent, UndecidedIsOwed, ClaimedIsWorked,
         LateIsLastWord, OneCyclePerDate,
         Undecided

\* Steps that move neither an invocation nor the ledger disturb nothing.
LEMMA DisciplineFrame ==
    ASSUME Discipline, UNCHANGED <<pc, date, step, runs, claims, late, calls>>
    PROVE  Discipline'
  BY DEF Discipline, RunIsOpenWhileWorking,
     OneWorkerPerDate, StepsNeedWork, UnopenedIsUntouched,
         QueuedIsUnspent, StartedIsSpent, UndecidedIsOwed, ClaimedIsWorked,
         LateIsLastWord, OneCyclePerDate

\* An invocation that enters or leaves without touching the ledger.
LEMMA DisciplineDeliver ==
    ASSUME TypeInv, Discipline, NEW c \in Invocations, Deliver(c)
    PROVE  Discipline'
<1>1. /\ step[c] = step'[c] /\ step' = step /\ UNCHANGED <<runs, claims, late, calls>>
      /\ pc[c] = "idle" /\ pc'[c] = "begin"
      /\ \A e \in Invocations : e # c => pc'[e] = pc[e] /\ date'[e] = date[e]
  BY DEF Deliver, TypeInv, TypeOK, ledgerVars
<1>2. \A t \in Tickers : step[c][t] = "none"
  BY <1>1 DEF Discipline, StepsNeedWork
<1> QED
  BY <1>1, <1>2 DEF Discipline, RunIsOpenWhileWorking,
     OneWorkerPerDate, StepsNeedWork, UnopenedIsUntouched,
         QueuedIsUnspent, StartedIsSpent, UndecidedIsOwed, ClaimedIsWorked,
         LateIsLastWord, OneCyclePerDate,
                    Undecided

LEMMA DisciplineLeave ==
    ASSUME TypeInv, Discipline, NEW c \in Invocations, Leave(c),
           UNCHANGED <<runs, claims, late, calls>>
    PROVE  Discipline'
<1>1. /\ \A e \in Invocations : pc'[e] = IF e = c THEN "idle" ELSE pc[e]
      /\ date' = date
  BY DEF Leave, TypeInv, TypeOK
<1>2. \A e \in Invocations, u \in Tickers :
         step'[e][u] = IF e = c THEN "none" ELSE step[e][u]
  BY InvocationLeaves DEF TypeInv, TypeOK, StepIsTyped
<1> QED
  BY <1>1, <1>2 DEF Discipline, RunIsOpenWhileWorking,
     OneWorkerPerDate, StepsNeedWork, UnopenedIsUntouched,
         QueuedIsUnspent, StartedIsSpent, UndecidedIsOwed, ClaimedIsWorked,
         LateIsLastWord, OneCyclePerDate,
                    Undecided

\* Opening a run: the date had no row, so nothing was spent, claimed or owed
\* on it and nobody was working on it.
LEMMA DisciplineBegin ==
    ASSUME TypeInv, Discipline, NEW c \in Invocations, Begin(c)
    PROVE  Discipline'
<1> DEFINE d == date[c]
<1>1. d \in Dates /\ runs[d].status = "none" /\ pc[c] = "begin"
  BY DEF Begin, BeginRun, AlreadyClaimed, TypeInv, TypeOK
<1>2. /\ \A x \in Dates : runs'[x].status = IF x = d THEN "running" ELSE runs[x].status
      /\ \A x \in Dates, t \in Tickers :
            claims'[x][t] = IF x = d THEN IF HasHead(t) THEN "pending" ELSE "none"
                            ELSE claims[x][t]
  BY <1>1 DEF Begin, BeginRun, HasHead, NoRun, TypeInv, TypeOK, LedgerTypeOK
<1>3. UNCHANGED <<late, calls, date>>
  BY DEF Begin, Leave
<1>4. /\ \A t \in Tickers : step[c][t] = "none" /\ calls[d][t] = 0
      /\ \A e \in Invocations : pc[e] = "work" => date[e] # d
      /\ \A t \in Tickers, s \in {"succeeded", "failed"} : <<d, t, s>> \notin late
  BY <1>1 DEF Discipline, RunIsOpenWhileWorking, StepsNeedWork, UnopenedIsUntouched,
              LateIsLastWord
<1>7. \A e \in Invocations : date[e] \in Dates
  BY DEF TypeInv, TypeOK
<1>8. \A t \in Tickers : HasHead(t) \in BOOLEAN
  BY DEF HasHead
<1>5. CASE Leave(c)
  <2>1. \A e \in Invocations : pc'[e] = IF e = c THEN "idle" ELSE pc[e]
    BY <1>5 DEF Leave, TypeInv, TypeOK
  <2>2. \A e \in Invocations, u \in Tickers : step'[e][u] = step[e][u]
    BY <1>4, <1>5, InvocationLeaves DEF TypeInv, TypeOK, StepIsTyped
  <2>3. RunIsOpenWhileWorking' /\ OneWorkerPerDate' /\ StepsNeedWork'
    BY <1>1, <1>2, <1>3, <1>4, <1>7, <2>1, <2>2
       DEF Discipline, RunIsOpenWhileWorking, OneWorkerPerDate, StepsNeedWork
  <2>4. UnopenedIsUntouched' /\ OneCyclePerDate'
    BY <1>1, <1>2, <1>3 DEF Discipline, UnopenedIsUntouched, OneCyclePerDate
  <2>5. QueuedIsUnspent' /\ StartedIsSpent'
    BY <1>3, <1>4, <1>7, <2>2 DEF Discipline, QueuedIsUnspent, StartedIsSpent
  <2>6. UndecidedIsOwed'
    BY <1>2, <1>3, <1>4, <1>7, <2>1, <2>2
       DEF Discipline, UndecidedIsOwed, StepsNeedWork, Undecided
  <2>7. ClaimedIsWorked'
    BY <1>2, <1>3, <1>4, <1>7, <2>1, <2>2 DEF Discipline, ClaimedIsWorked
  <2>8. LateIsLastWord'
    BY <1>2, <1>3, <1>4, <1>7, <2>1, <2>2 DEF Discipline, LateIsLastWord, Undecided
  <2> QED
    BY <2>3, <2>4, <2>5, <2>6, <2>7, <2>8 DEF Discipline
<1>6. CASE /\ pc' = [pc EXCEPT ![c] = "work"]
           /\ step' = [step EXCEPT ![c] =
                 [t \in Tickers |-> IF HasHead(t) THEN "queued" ELSE "none"]]
  <2>1. \A e \in Invocations : pc'[e] = IF e = c THEN "work" ELSE pc[e]
    BY <1>6 DEF TypeInv, TypeOK
  <2>2. \A e \in Invocations, u \in Tickers :
           step'[e][u] = IF e = c THEN IF HasHead(u) THEN "queued" ELSE "none"
                         ELSE step[e][u]
    BY <1>6 DEF HasHead, TypeInv, TypeOK
  <2>3. RunIsOpenWhileWorking' /\ OneWorkerPerDate' /\ StepsNeedWork'
    BY <1>1, <1>2, <1>3, <1>4, <1>7, <1>8, <2>1, <2>2
       DEF Discipline, RunIsOpenWhileWorking, OneWorkerPerDate, StepsNeedWork
  <2>4. UnopenedIsUntouched' /\ OneCyclePerDate'
    BY <1>1, <1>2, <1>3 DEF Discipline, UnopenedIsUntouched, OneCyclePerDate
  <2>5. QueuedIsUnspent' /\ StartedIsSpent'
    BY <1>3, <1>4, <1>7, <1>8, <2>2 DEF Discipline, QueuedIsUnspent, StartedIsSpent
  <2>6. UndecidedIsOwed'
    BY <1>2, <1>3, <1>4, <1>7, <1>8, <2>1, <2>2
       DEF Discipline, UndecidedIsOwed, StepsNeedWork, Undecided
  <2>7. ClaimedIsWorked'
    BY <1>2, <1>3, <1>4, <1>7, <1>8, <2>1, <2>2 DEF Discipline, ClaimedIsWorked
  <2>8. LateIsLastWord'
    BY <1>2, <1>3, <1>4, <1>7, <1>8, <2>1, <2>2 DEF Discipline, LateIsLastWord, Undecided
  <2> QED
    BY <2>3, <2>4, <2>5, <2>6, <2>7, <2>8 DEF Discipline
<1> QED
  BY <1>5, <1>6 DEF Begin

\* Entering the semaphore spends the cycle of a claim nobody has spent.
LEMMA DisciplineStart ==
    ASSUME TypeInv, Discipline, NEW c \in Invocations, NEW t \in Tickers,
           StartTicker(c, t)
    PROVE  Discipline'
<1>1. \A e \in Invocations, u \in Tickers :
         step'[e][u] = IF e = c /\ u = t THEN "fetch" ELSE step[e][u]
  BY DEF StartTicker, TypeInv, TypeOK
<1>2. /\ date[c] \in Dates
      /\ calls[date[c]][t] = 0
      /\ step[c][t] = "queued"
      /\ pc[c] = "work"
  BY DEF StartTicker, Discipline, QueuedIsUnspent, StepsNeedWork, TypeInv, TypeOK
<1>3. \A x \in Dates, u \in Tickers :
         calls'[x][u] = IF x = date[c] /\ u = t THEN 1 ELSE calls[x][u]
  BY <1>2 DEF StartTicker, TypeInv, TypeOK
<1>4. UNCHANGED <<pc, date, runs, claims, late>>
  BY DEF StartTicker, ledgerVars
<1>5. \A e \in Invocations : date[e] \in Dates
  BY DEF TypeInv, TypeOK
<1> QED
  BY <1>1, <1>2, <1>3, <1>4, <1>5 DEF Discipline, RunIsOpenWhileWorking,
     OneWorkerPerDate, StepsNeedWork, UnopenedIsUntouched,
         QueuedIsUnspent, StartedIsSpent, UndecidedIsOwed, ClaimedIsWorked,
         LateIsLastWord, OneCyclePerDate,
                    Undecided

\* A cycle that fetches or persists stays undecided.
LEMMA DisciplineWithin ==
    ASSUME TypeInv, Discipline, NEW c \in Invocations, NEW t \in Tickers,
           NEW s \in {"persist", "succeed", "fail"},
           step[c][t] \in {"fetch", "persist"},
           step' = [step EXCEPT ![c][t] = s],
           UNCHANGED <<pc, date, runs, claims, late, calls>>
    PROVE  Discipline'
<1>1. \A e \in Invocations, u \in Tickers :
         step'[e][u] = IF e = c /\ u = t THEN s ELSE step[e][u]
  BY DEF TypeInv, TypeOK
<1> QED
  BY <1>1 DEF Discipline, RunIsOpenWhileWorking,
     OneWorkerPerDate, StepsNeedWork, UnopenedIsUntouched,
         QueuedIsUnspent, StartedIsSpent, UndecidedIsOwed, ClaimedIsWorked,
         LateIsLastWord, OneCyclePerDate,
              Undecided

\* refresh_one ends: it decided the claim, lost the call, or left it late.
LEMMA DisciplineComplete ==
    ASSUME TypeInv, Discipline, NEW c \in Invocations, NEW t \in Tickers,
           Complete(c, t)
    PROVE  Discipline'
<1> DEFINE d == date[c]
           v == ClaimStatus(c, t)
<1>1. /\ \A e \in Invocations : date[e] \in Dates
      /\ v \in {"succeeded", "failed"}
  BY DEF TypeInv, TypeOK, ClaimStatus
<1>2. /\ \A e \in Invocations, u \in Tickers :
            step'[e][u] = IF e = c /\ u = t THEN "done" ELSE step[e][u]
      /\ UNCHANGED <<pc, date, calls>>
  BY DEF Complete, TypeInv, TypeOK
<1>3. runs' = runs
  BY DEF Complete, CompleteClaim, ledgerVars
<1>4. /\ pc[c] = "work" /\ step[c][t] \in Undecided
      /\ claims[d][t] = "pending" /\ calls[d][t] > 0
      /\ \A s \in {"succeeded", "failed"} : <<d, t, s>> \notin late
  BY <1>1 DEF Complete, Discipline, StepsNeedWork, UndecidedIsOwed, StartedIsSpent,
              LateIsLastWord, Undecided
<1>5. /\ RunIsOpenWhileWorking' /\ OneWorkerPerDate' /\ StepsNeedWork'
      /\ QueuedIsUnspent' /\ StartedIsSpent' /\ OneCyclePerDate'
  BY <1>2, <1>3, <1>4
     DEF Discipline, RunIsOpenWhileWorking, OneWorkerPerDate, StepsNeedWork,
         QueuedIsUnspent, StartedIsSpent, OneCyclePerDate
<1>6. CASE claims' = [claims EXCEPT ![d][t] = v] /\ UNCHANGED late
  <2>1. \A x \in Dates, u \in Tickers :
           claims'[x][u] = IF x = d /\ u = t THEN v ELSE claims[x][u]
    BY <1>1, <1>6 DEF TypeInv, TypeOK, LedgerTypeOK
  <2>2. UnopenedIsUntouched'
    BY <1>2, <1>3, <1>4, <2>1 DEF Discipline, UnopenedIsUntouched
  <2>3. UndecidedIsOwed' /\ ClaimedIsWorked'
    BY <1>1, <1>2, <1>4, <2>1
       DEF Discipline, UndecidedIsOwed, ClaimedIsWorked, OneWorkerPerDate, StepsNeedWork,
           Undecided
  <2>4. LateIsLastWord'
    BY <1>2, <1>4, <1>6, <2>1 DEF Discipline, LateIsLastWord, Undecided
  <2> QED
    BY <1>5, <2>2, <2>3, <2>4 DEF Discipline
<1>7. CASE UNCHANGED <<claims, late>>
  BY <1>2, <1>3, <1>5, <1>7
     DEF Discipline, UnopenedIsUntouched, UndecidedIsOwed, ClaimedIsWorked,
         LateIsLastWord, Undecided
<1>8. CASE UNCHANGED claims /\ late' = late \cup {<<d, t, v>>}
  <2>1. UnopenedIsUntouched' /\ UndecidedIsOwed' /\ ClaimedIsWorked'
    BY <1>2, <1>3, <1>8
       DEF Discipline, UnopenedIsUntouched, UndecidedIsOwed, ClaimedIsWorked, Undecided
  <2>2. LateIsLastWord'
    BY <1>1, <1>2, <1>4, <1>8
       DEF Discipline, LateIsLastWord, OneWorkerPerDate, Undecided
  <2> QED
    BY <1>5, <2>1, <2>2 DEF Discipline
<1> QED
  BY <1>6, <1>7, <1>8 DEF Complete, CompleteClaim, ledgerVars

LEMMA DisciplineCompleteLate ==
    ASSUME TypeInv, Discipline, NEW d \in Dates, NEW t \in Tickers,
           NEW v \in {"succeeded", "failed"}, CompleteLate(d, t, v)
    PROVE  Discipline'
<1>1. /\ \A x \in Dates, u \in Tickers :
            claims'[x][u] = IF x = d /\ u = t THEN v ELSE claims[x][u]
      /\ UNCHANGED <<pc, date, step, runs, calls>>
      /\ late' = late \ {<<d, t, v>>}
  BY DEF CompleteLate, CompleteClaim, runnerVars, TypeInv, TypeOK, LedgerTypeOK
<1>2. /\ claims[d][t] = "pending"
      /\ \A c \in Invocations :
            pc[c] = "work" /\ date[c] = d => step[c][t] \notin Undecided
      /\ \A r \in {"succeeded", "failed"} : <<d, t, r>> \in late => r = v
  BY DEF CompleteLate, Discipline, LateIsLastWord
<1>3. /\ RunIsOpenWhileWorking' /\ OneWorkerPerDate' /\ StepsNeedWork'
      /\ QueuedIsUnspent' /\ StartedIsSpent' /\ OneCyclePerDate'
  BY <1>1
     DEF Discipline, RunIsOpenWhileWorking, OneWorkerPerDate, StepsNeedWork,
         QueuedIsUnspent, StartedIsSpent, OneCyclePerDate
<1>4. UnopenedIsUntouched'
  BY <1>1, <1>2 DEF Discipline, UnopenedIsUntouched
<1>7. \A c \in Invocations : date[c] \in Dates
  BY DEF TypeInv, TypeOK
<1>5. UndecidedIsOwed' /\ ClaimedIsWorked'
  BY <1>1, <1>2, <1>7
     DEF Discipline, UndecidedIsOwed, ClaimedIsWorked, StepsNeedWork, Undecided
<1>6. LateIsLastWord'
  BY <1>1, <1>2 DEF Discipline, LateIsLastWord, Undecided
<1> QED
  BY <1>3, <1>4, <1>5, <1>6 DEF Discipline

\* The date's only worker closes the run and leaves.
LEMMA DisciplineFinish ==
    ASSUME TypeInv, Discipline, NEW c \in Invocations, Finish(c)
    PROVE  Discipline'
<1> DEFINE d == date[c]
<1>1. /\ \A e \in Invocations : pc'[e] = IF e = c THEN "idle" ELSE pc[e]
      /\ UNCHANGED <<date, claims, late, calls>>
      /\ pc[c] = "work" /\ d \in Dates
  BY DEF Finish, FinishRun, Leave, ledgerVars, TypeInv, TypeOK
<1>2. \A e \in Invocations, u \in Tickers :
         step'[e][u] = IF e = c THEN "none" ELSE step[e][u]
  BY InvocationLeaves DEF Finish, TypeInv, TypeOK, StepIsTyped
<1>3. \A x \in Dates :
         /\ x # d => runs'[x].status = runs[x].status
         /\ runs'[x].status = "none" <=> runs[x].status = "none"
  <2>1. RunOutcome(d) # "none" /\ runs[d].status = "running"
    BY <1>1 DEF RunOutcome, Discipline, RunIsOpenWhileWorking
  <2>2. CASE UNCHANGED runs
    BY <2>2
  <2>3. CASE FinishRun(d)
    BY <2>1, <2>3, <1>1 DEF FinishRun, TypeInv, TypeOK, LedgerTypeOK, Run
  <2> QED
    BY <2>2, <2>3 DEF Finish, ledgerVars
<1>4. \A e \in Invocations : date[e] \in Dates
  BY DEF TypeInv, TypeOK
<1>5. RunIsOpenWhileWorking' /\ OneWorkerPerDate' /\ StepsNeedWork'
  BY <1>1, <1>2, <1>3, <1>4
     DEF Discipline, RunIsOpenWhileWorking, OneWorkerPerDate, StepsNeedWork
<1>6. /\ UnopenedIsUntouched' /\ QueuedIsUnspent' /\ StartedIsSpent'
      /\ UndecidedIsOwed' /\ OneCyclePerDate'
  BY <1>1, <1>2, <1>3
     DEF Discipline, UnopenedIsUntouched, QueuedIsUnspent, StartedIsSpent,
         UndecidedIsOwed, OneCyclePerDate, Undecided
<1>7. ClaimedIsWorked' /\ LateIsLastWord'
  BY <1>1, <1>2 DEF Discipline, ClaimedIsWorked, LateIsLastWord, Undecided
<1> QED
  BY <1>5, <1>6, <1>7 DEF Discipline

LEMMA DisciplineStep == CycleInv /\ [Next]_vars => CycleInv'
<1> SUFFICES ASSUME TypeInv, Discipline, [Next]_vars PROVE Discipline'
  BY TypeStep DEF CycleInv
<1>1. CASE UNCHANGED vars
  BY <1>1, DisciplineFrame DEF vars
<1>2. CASE Environment
  BY <1>2, DisciplineFrame DEF Environment, ledgerVars, runnerVars
<1>3. ASSUME NEW c \in Invocations, Deliver(c) PROVE Discipline'
  BY <1>3, DisciplineDeliver
<1>4. ASSUME NEW c \in Invocations, SkipDuplicate(c) \/ BeginFails(c) \/ Crash(c)
      PROVE  Discipline'
  BY <1>4, DisciplineLeave DEF SkipDuplicate, BeginFails, Crash, ledgerVars
<1>5. ASSUME NEW c \in Invocations, Begin(c) PROVE Discipline'
  BY <1>5, DisciplineBegin
<1>6. ASSUME NEW c \in Invocations, NEW t \in Tickers, StartTicker(c, t)
      PROVE  Discipline'
  BY <1>6, DisciplineStart
<1>7. ASSUME NEW c \in Invocations, NEW t \in Tickers, Fetch(c, t) \/ Persist(c, t)
      PROVE  Discipline'
  <2>1. PICK s \in {"persist", "succeed", "fail"} : step' = [step EXCEPT ![c][t] = s]
    BY <1>7 DEF Fetch, Persist
  <2> QED
    BY <1>7, <2>1, DisciplineWithin DEF Fetch, Persist, ledgerVars
<1>8. ASSUME NEW c \in Invocations, NEW t \in Tickers, Complete(c, t) PROVE Discipline'
  BY <1>8, DisciplineComplete
<1>9. ASSUME NEW d \in Dates, NEW t \in Tickers, NEW s \in {"succeeded", "failed"},
             CompleteLate(d, t, s)
      PROVE  Discipline'
  BY <1>9, DisciplineCompleteLate
<1>10. ASSUME NEW c \in Invocations, Finish(c) PROVE Discipline'
  BY <1>10, DisciplineFinish
<1>11. ASSUME NEW t \in Tickers, BootstrapFetch(t) PROVE Discipline'
  BY <1>11, DisciplineFrame DEF BootstrapFetch, ledgerVars, runnerVars
<1>12. ASSUME NEW t \in Tickers, NEW v \in Filings, BootstrapStore(t, v)
       PROVE  Discipline'
  BY <1>12, DisciplineFrame DEF BootstrapStore, ledgerVars, runnerVars
<1> QED
  BY <1>1, <1>2, <1>3, <1>4, <1>5, <1>6, <1>7, <1>8, <1>9, <1>10, <1>11, <1>12
     DEF Next, RunnerStep, RefreshOne

\* The invariant holds of every reachable state.
THEOREM CycleInvariant == Spec => []CycleInv
<1>1. Init => CycleInv
  BY TypeInit, DisciplineInit DEF CycleInv
<1> QED
  BY <1>1, DisciplineStep, PTL DEF Spec

\* ADR-007: however the cron request is duplicated, delayed, cut short or left
\* without a reply, no ticker is fetched twice for an Eastern date.
THEOREM OneCycle == Spec => []OneCyclePerDate
<1>1. CycleInv => OneCyclePerDate
  BY DEF CycleInv, Discipline
<1> QED
  BY <1>1, CycleInvariant, PTL

-----------------------------------------------------------------------------
(* Claims as evidence, and the daily cycle as an implementation of          *)
(* RefreshCycle.  Both follow from what each step does to the ledger as the *)
(* invariant lets it be seen: per date and ticker.                          *)

\* What completes a claim always finds it pending, its cycle spent.
LEMMA CompletionFindsPending ==
    ASSUME TypeInv, Discipline, NEW c \in Invocations, NEW t \in Tickers,
           step[c][t] \in {"succeed", "fail"}
    PROVE  claims[date[c]][t] = "pending" /\ calls[date[c]][t] > 0
  BY DEF Discipline, UndecidedIsOwed, StartedIsSpent, Undecided

\* The steps that touch the ledger or spend a cycle; every other step leaves
\* both alone.
LEMMA LedgerSteps ==
    ASSUME [Next]_vars
    PROVE  \/ UNCHANGED <<runs, claims, calls>>
           \/ \E c \in Invocations : Begin(c)
           \/ \E c \in Invocations, t \in Tickers : StartTicker(c, t)
           \/ \E c \in Invocations, t \in Tickers :
                 Complete(c, t) /\ CompleteClaim(date[c], t, ClaimStatus(c, t))
           \/ \E d \in Dates, t \in Tickers, s \in {"succeeded", "failed"} :
                 CompleteLate(d, t, s)
           \/ \E c \in Invocations : Finish(c) /\ FinishRun(date[c])
<1> DEFINE Aside == UNCHANGED <<runs, claims, calls>>
<1>1. UNCHANGED vars => Aside
  BY DEF vars, ledgerVars
<1>2. Environment => Aside
  BY DEF Environment, ledgerVars
<1>3. ASSUME NEW c \in Invocations
      PROVE  Deliver(c) \/ Crash(c) \/ SkipDuplicate(c) \/ BeginFails(c) => Aside
  BY DEF Deliver, Crash, SkipDuplicate, BeginFails, ledgerVars
<1>4. ASSUME NEW c \in Invocations, NEW t \in Tickers
      PROVE  Fetch(c, t) \/ Persist(c, t) => Aside
  BY DEF Fetch, Persist, ledgerVars
<1>5. ASSUME NEW c \in Invocations, NEW t \in Tickers, Complete(c, t)
      PROVE  Aside \/ CompleteClaim(date[c], t, ClaimStatus(c, t))
  BY <1>5 DEF Complete, ledgerVars
<1>6. ASSUME NEW c \in Invocations, Finish(c)
      PROVE  Aside \/ FinishRun(date[c])
  BY <1>6 DEF Finish, ledgerVars
<1>7. ASSUME NEW t \in Tickers, NEW v \in Filings
      PROVE  BootstrapFetch(t) \/ BootstrapStore(t, v) => Aside
  BY DEF BootstrapFetch, BootstrapStore, ledgerVars
<1>8. (\E t \in Tickers : BootstrapFetch(t)) => Aside
  BY DEF BootstrapFetch, ledgerVars
<1> QED
  <2> HIDE DEF Aside
  <2>1. ASSUME NEW c \in Invocations, RunnerStep(c)
        PROVE  \/ Aside
               \/ Begin(c)
               \/ \E t \in Tickers : StartTicker(c, t)
               \/ \E t \in Tickers :
                     Complete(c, t) /\ CompleteClaim(date[c], t, ClaimStatus(c, t))
               \/ Finish(c) /\ FinishRun(date[c])
    BY <2>1, <1>3, <1>4, <1>5, <1>6 DEF RunnerStep, RefreshOne
  <2>2. \/ Aside
        \/ \E c \in Invocations : RunnerStep(c)
        \/ \E d \in Dates, t \in Tickers, s \in {"succeeded", "failed"} :
              CompleteLate(d, t, s)
    <3>1. (\E t \in Tickers, v \in Filings : BootstrapStore(t, v)) => Aside
      BY <1>7
    <3>2. Next \/ UNCHANGED vars
      OBVIOUS
    <3> QED
      BY <1>1, <1>2, <1>3, <1>8, <3>1, <3>2 DEF Next
  <2> QED
    BY <2>1, <2>2 DEF Aside

LEMMA ClaimsStep ==
    ASSUME CycleInv, [Next]_vars,
           NEW d \in Dates, NEW t \in Tickers, claims[d][t] \in {"succeeded", "failed"}
    PROVE  claims'[d][t] = claims[d][t]
<1> USE DEF CycleInv
<1>1. CASE UNCHANGED claims
  BY <1>1
<1>2. ASSUME NEW c \in Invocations, Begin(c) PROVE claims'[d][t] = claims[d][t]
  <2>1. date[c] # d
    BY <1>2 DEF Begin, BeginRun, AlreadyClaimed, Discipline, UnopenedIsUntouched
  <2> QED
    BY <1>2, <2>1 DEF Begin, BeginRun, TypeInv, TypeOK, LedgerTypeOK
<1>3. ASSUME NEW c \in Invocations, NEW u \in Tickers, Complete(c, u)
      PROVE  claims'[d][t] = claims[d][t]
  <2>1. claims[date[c]][u] = "pending"
    BY <1>3, CompletionFindsPending DEF Complete
  <2>2. CASE claims' = [claims EXCEPT ![date[c]][u] = ClaimStatus(c, u)]
    BY <2>1, <2>2 DEF TypeInv, TypeOK, LedgerTypeOK
  <2> QED
    BY <1>3, <2>2 DEF Complete, CompleteClaim, ledgerVars
<1>4. ASSUME NEW e \in Dates, NEW u \in Tickers, NEW s \in {"succeeded", "failed"},
             CompleteLate(e, u, s)
      PROVE  claims'[d][t] = claims[d][t]
  <2>1. claims[e][u] = "pending"
    BY <1>4 DEF CompleteLate, Discipline, LateIsLastWord
  <2> QED
    BY <1>4, <2>1 DEF CompleteLate, CompleteClaim, TypeInv, TypeOK, LedgerTypeOK
<1> QED
  BY <1>1, <1>2, <1>3, <1>4, LedgerSteps DEF StartTicker, FinishRun, ledgerVars

\* No retry, duplicate or late completion rewrites a decided claim.
THEOREM DecidedIsFinal == Spec => DecidedClaimsAreFinal
<1>1. CycleInv /\ [Next]_vars =>
         [\A d \in Dates, t \in Tickers :
             claims[d][t] \in {"succeeded", "failed"} =>
                 claims'[d][t] = claims[d][t]]_vars
  BY ClaimsStep
<1> QED
  BY <1>1, CycleInvariant, PTL DEF Spec, DecidedClaimsAreFinal

\* What RefreshCycle sees of a state.
CycleRun == [d \in Dates |-> runs[d].status]
CycleSpent == [d \in Dates |-> {t \in Tickers : calls[d][t] > 0}]

LEMMA CycleInit == Init => Cycle!Init
  BY DEF Init, LedgerInit, NoRun, Cycle!Init

LEMMA CycleOpens ==
    ASSUME CycleInv, NEW c \in Invocations, Begin(c)
    PROVE  \E d \in Dates, manifest \in SUBSET Tickers : Cycle!Open(d, manifest)
<1>7. PICK d \in Dates : d = date[c]
  BY DEF CycleInv, TypeInv, TypeOK
<1>6. PICK manifest \in SUBSET Tickers : manifest = {t \in Tickers : HasHead(t)}
  OBVIOUS
<1>1. CycleRun[d] = "none" /\ UNCHANGED calls
  BY <1>7 DEF Begin, BeginRun, AlreadyClaimed, CycleInv, TypeInv, TypeOK, CycleRun
<1>2. CycleRun' = [CycleRun EXCEPT ![d] = "running"]
  BY <1>1, <1>7 DEF Begin, BeginRun, CycleRun, NoRun, CycleInv, TypeInv, TypeOK, LedgerTypeOK
<1>3. claims' = [claims EXCEPT ![d] =
         [t \in Tickers |-> IF t \in manifest THEN "pending" ELSE "none"]]
  BY <1>6, <1>7 DEF Begin, BeginRun
<1>4. CycleSpent' = CycleSpent
  BY <1>1 DEF CycleSpent
<1>5. Cycle!Open(d, manifest)
  BY <1>1, <1>2, <1>3, <1>4 DEF Cycle!Open, CycleRun, CycleSpent
<1> QED
  BY <1>5

LEMMA CycleSpends ==
    ASSUME CycleInv, NEW c \in Invocations, NEW t \in Tickers, StartTicker(c, t)
    PROVE  \E d \in Dates : Cycle!Spend(d, t)
<1> DEFINE d == date[c]
<1>1. /\ d \in Dates /\ runs[d].status = "running" /\ claims[d][t] = "pending"
      /\ calls[d][t] = 0
  BY DEF StartTicker, CycleInv, TypeInv, TypeOK, Discipline, RunIsOpenWhileWorking,
         StepsNeedWork, QueuedIsUnspent, UndecidedIsOwed, Undecided
<1>2. /\ UNCHANGED <<runs, claims>>
      /\ \A x \in Dates, u \in Tickers :
            calls'[x][u] = IF x = d /\ u = t THEN 1 ELSE calls[x][u]
  BY <1>1 DEF StartTicker, ledgerVars, CycleInv, TypeInv, TypeOK
<1>3. CycleSpent' = [CycleSpent EXCEPT ![d] = @ \cup {t}]
  <2>1. ASSUME NEW x \in Dates
        PROVE  {u \in Tickers : calls'[x][u] > 0} =
                   IF x = d THEN {u \in Tickers : calls[x][u] > 0} \cup {t}
                   ELSE {u \in Tickers : calls[x][u] > 0}
    <3>1. \A u \in Tickers :
             calls'[x][u] > 0 <=> calls[x][u] > 0 \/ (x = d /\ u = t)
      BY <1>1, <1>2
    <3> QED
      BY <3>1
  <2> QED
    BY <1>1, <2>1 DEF CycleSpent
<1>4. CycleRun' = CycleRun
  BY <1>2 DEF CycleRun
<1>5. CycleRun[d] = "running" /\ t \notin CycleSpent[d]
  BY <1>1 DEF CycleRun, CycleSpent
<1> QED
  BY <1>1, <1>2, <1>3, <1>4, <1>5 DEF Cycle!Spend, CycleRun, CycleSpent

LEMMA CycleDecides ==
    ASSUME CycleInv, NEW d \in Dates, NEW t \in Tickers,
           NEW v \in {"succeeded", "failed"}, CompleteClaim(d, t, v), UNCHANGED calls,
           claims[d][t] = "pending", calls[d][t] > 0
    PROVE  Cycle!Decide(d, t, v)
<1>1. t \in CycleSpent[d] /\ CycleSpent' = CycleSpent /\ CycleRun' = CycleRun
  BY DEF CompleteClaim, CycleSpent, CycleRun
<1> QED
  BY <1>1 DEF CompleteClaim, Cycle!Decide, CycleSpent, CycleRun

LEMMA CycleCloses ==
    ASSUME CycleInv, NEW c \in Invocations, Finish(c), FinishRun(date[c])
    PROVE  \E d \in Dates, s \in {"succeeded", "partial_failed", "failed"} :
               Cycle!Close(d, s)
<1>7. PICK d \in Dates : d = date[c]
  BY DEF CycleInv, TypeInv, TypeOK
<1>8. PICK s \in {"succeeded", "partial_failed", "failed"} : s = RunOutcome(d)
  BY DEF RunOutcome
<1> DEFINE manifest == {t \in Tickers : claims[d][t] # "none"}
<1>1. pc[c] = "work" /\ runs[d].status = "running"
  BY <1>7 DEF Finish, CycleInv, TypeInv, TypeOK, Discipline, RunIsOpenWhileWorking
<1>2. manifest \subseteq CycleSpent[d]
  BY <1>1, <1>7 DEF Finish, CycleInv, Discipline, ClaimedIsWorked, StartedIsSpent, CycleSpent
<1>3. /\ s = "succeeded" => \A t \in manifest : claims[d][t] = "succeeded"
      /\ s = "failed" => \A t \in manifest : claims[d][t] = "failed"
  BY <1>8 DEF RunOutcome, ClaimsIn, CycleInv, TypeInv, TypeOK, LedgerTypeOK,
              ClaimStatuses
<1>4. CycleRun[d] = "running" /\ CycleRun' = [CycleRun EXCEPT ![d] = s]
  BY <1>1, <1>7, <1>8 DEF FinishRun, CycleRun, CycleInv, TypeInv, TypeOK, LedgerTypeOK, Run
<1>5. claims' = claims /\ CycleSpent' = CycleSpent
  BY DEF Finish, FinishRun, CycleSpent
<1>6. Cycle!Close(d, s)
  BY <1>2, <1>3, <1>4, <1>5 DEF Cycle!Close, CycleRun, CycleSpent
<1> QED
  BY <1>6

LEMMA CycleStep == CycleInv /\ [Next]_vars => [Cycle!Next]_(Cycle!vars)
<1> SUFFICES ASSUME CycleInv, [Next]_vars PROVE [Cycle!Next]_(Cycle!vars)
  OBVIOUS
<1>1. CASE UNCHANGED <<runs, claims, calls>>
  BY <1>1 DEF Cycle!vars
<1>2. ASSUME NEW c \in Invocations, Begin(c) PROVE Cycle!Next
  BY <1>2, CycleOpens DEF Cycle!Next
<1>3. ASSUME NEW c \in Invocations, NEW t \in Tickers, StartTicker(c, t)
      PROVE  Cycle!Next
  BY <1>3, CycleSpends DEF Cycle!Next
<1>4. ASSUME NEW c \in Invocations, NEW t \in Tickers, Complete(c, t),
             CompleteClaim(date[c], t, ClaimStatus(c, t))
      PROVE  Cycle!Next
  <2>1. /\ date[c] \in Dates /\ ClaimStatus(c, t) \in {"succeeded", "failed"}
        /\ claims[date[c]][t] = "pending" /\ calls[date[c]][t] > 0
    BY <1>4, CompletionFindsPending
       DEF Complete, ClaimStatus, CycleInv, TypeInv, TypeOK
  <2>2. Cycle!Decide(date[c], t, ClaimStatus(c, t))
    BY <1>4, <2>1, CycleDecides DEF Complete
  <2> QED
    BY <2>1, <2>2 DEF Cycle!Next
<1>5. ASSUME NEW d \in Dates, NEW t \in Tickers, NEW s \in {"succeeded", "failed"},
             CompleteLate(d, t, s)
      PROVE  Cycle!Next
  <2>1. claims[d][t] = "pending" /\ calls[d][t] > 0
    BY <1>5 DEF CompleteLate, CycleInv, Discipline, LateIsLastWord
  <2>2. Cycle!Decide(d, t, s)
    BY <1>5, <2>1, CycleDecides DEF CompleteLate
  <2> QED
    BY <2>2 DEF Cycle!Next
<1>6. ASSUME NEW c \in Invocations, Finish(c), FinishRun(date[c]) PROVE Cycle!Next
  BY <1>6, CycleCloses DEF Cycle!Next
<1> QED
  BY <1>1, <1>2, <1>3, <1>4, <1>5, <1>6, LedgerSteps

\* The runner over the ledger implements the daily cycle of ADR-007: every
\* step opens, spends, decides or closes once, or changes nothing of it.
THEOREM ImplementsCycle == Spec => CycleSpec
<1>1. Init => Cycle!Init
  BY CycleInit
<1> QED
  BY <1>1, CycleStep, CycleInvariant, PTL DEF Spec, CycleSpec, Cycle!Spec

-----------------------------------------------------------------------------
(* A run and its claims, date by date.                                      *)

\* begin_refresh_run opens the run with a claim for each ticker.
Opened(d) ==
    /\ runs[d].status = "none"
    /\ runs'[d] = [NoRun EXCEPT !.status = "running", !.started = now,
                                !.total = Cardinality(Claimed(d)')]

\* finish_refresh_run takes counters and verdict from the claims.
Closed(d) ==
    /\ UNCHANGED claims
    /\ runs'[d] = [runs[d] EXCEPT !.status = RunOutcome(d),
                                  !.succeeded = Cardinality(ClaimsIn(d, {"succeeded"})),
                                  !.failed = Cardinality(ClaimsIn(d, {"failed"}))]

Kept(d) == runs'[d] = runs[d] /\ Claimed(d)' = Claimed(d)

LEMMA CompletionKeeps ==
    ASSUME TypeInv, NEW e \in Dates, NEW u \in Tickers,
           NEW s \in {"succeeded", "failed"}, CompleteClaim(e, u, s),
           NEW d \in Dates
    PROVE  Kept(d)
<1>1. \A t \in Tickers :
         claims'[d][t] = IF d = e /\ t = u THEN s ELSE claims[d][t]
  BY DEF CompleteClaim, TypeInv, TypeOK, LedgerTypeOK
<1>2. runs' = runs /\ claims[e][u] # "none"
  BY DEF CompleteClaim
<1> QED
  BY <1>1, <1>2 DEF Kept, Claimed

LEMMA RunStep ==
    ASSUME CycleInv, [Next]_vars, NEW d \in Dates
    PROVE  Kept(d) \/ Opened(d) \/ Closed(d)
<1> USE DEF CycleInv
<1>0. \A c \in Invocations : date[c] \in Dates
  BY DEF TypeInv, TypeOK
<1>1. CASE UNCHANGED <<runs, claims, calls>>
  BY <1>1 DEF Kept, Claimed
<1>2. ASSUME NEW c \in Invocations, Begin(c)
      PROVE  Kept(d) \/ Opened(d)
  <2> DEFINE manifest == {t \in Tickers : HasHead(t)}
  <2>1. /\ runs' = [runs EXCEPT ![date[c]] =
               [NoRun EXCEPT !.status = "running", !.started = now,
                             !.total = Cardinality(manifest)]]
        /\ claims' = [claims EXCEPT ![date[c]] =
               [t \in Tickers |-> IF t \in manifest THEN "pending" ELSE "none"]]
        /\ runs[date[c]].status = "none"
    BY <1>2 DEF Begin, BeginRun, AlreadyClaimed
  <2>2. CASE d = date[c]
    <3>1. Claimed(d)' = manifest
      BY <2>1, <2>2 DEF Claimed, TypeInv, TypeOK, LedgerTypeOK
    <3>2. runs'[d] = [NoRun EXCEPT !.status = "running", !.started = now,
                                   !.total = Cardinality(manifest)]
      BY <2>1, <2>2 DEF TypeInv, TypeOK, LedgerTypeOK
    <3> QED
      BY <2>1, <2>2, <3>1, <3>2 DEF Opened
  <2>3. CASE d # date[c]
    BY <2>1, <2>3 DEF Kept, Claimed, TypeInv, TypeOK, LedgerTypeOK
  <2> QED
    BY <2>2, <2>3
<1>3. ASSUME NEW c \in Invocations, NEW t \in Tickers, StartTicker(c, t)
      PROVE  Kept(d)
  BY <1>3 DEF StartTicker, ledgerVars, Kept, Claimed
<1>4. ASSUME NEW c \in Invocations, NEW t \in Tickers,
             CompleteClaim(date[c], t, ClaimStatus(c, t))
      PROVE  Kept(d)
  BY <1>0, <1>4, CompletionKeeps DEF ClaimStatus
<1>5. ASSUME NEW e \in Dates, NEW t \in Tickers, NEW s \in {"succeeded", "failed"},
             CompleteLate(e, t, s)
      PROVE  Kept(d)
  BY <1>5, CompletionKeeps DEF CompleteLate
<1>6. ASSUME NEW c \in Invocations, FinishRun(date[c])
      PROVE  Kept(d) \/ Closed(d)
  <2>1. CASE d = date[c]
    BY <1>6, <2>1 DEF FinishRun, Closed, TypeInv, TypeOK, LedgerTypeOK
  <2>2. CASE d # date[c]
    BY <1>6, <2>2 DEF FinishRun, Kept, Claimed, TypeInv, TypeOK, LedgerTypeOK
  <2> QED
    BY <2>1, <2>2
<1> QED
  BY <1>1, <1>2, <1>3, <1>4, <1>5, <1>6, LedgerSteps

-----------------------------------------------------------------------------
(* The verdict.                                                             *)

LEMMA VerdictStep ==
    CycleInv /\ SucceededRunIsComplete /\ [Next]_vars => SucceededRunIsComplete'
<1> SUFFICES ASSUME CycleInv, SucceededRunIsComplete, [Next]_vars,
                    NEW d \in Dates, runs'[d].status = "succeeded",
                    NEW t \in Tickers, t \in Claimed(d)'
             PROVE  claims'[d][t] = "succeeded"
  BY DEF SucceededRunIsComplete, Claimed
<1>1. CASE Kept(d)
  <2>1. claims[d][t] = "succeeded"
    BY <1>1 DEF Kept, SucceededRunIsComplete
  <2> QED
    BY <2>1, ClaimsStep
<1>2. CASE Opened(d)
  BY <1>2 DEF Opened, NoRun
<1>3. CASE Closed(d)
  <2>1. RunOutcome(d) = "succeeded"
    BY <1>3 DEF Closed, CycleInv, TypeInv, TypeOK, LedgerTypeOK, Run
  <2>2. claims[d][t] \notin {"pending", "failed"}
    BY <2>1 DEF RunOutcome, ClaimsIn
  <2>3. claims[d][t] \in ClaimStatuses /\ claims[d][t] # "none"
    BY <1>3 DEF Closed, Claimed, CycleInv, TypeInv, TypeOK, LedgerTypeOK
  <2> QED
    BY <1>3, <2>2, <2>3 DEF Closed, ClaimStatuses
<1> QED
  BY <1>1, <1>2, <1>3, RunStep

\* A run that reports success has no ticker it did not process, also when its
\* completions were lost or came late.
THEOREM SuccessIsComplete == Spec => []SucceededRunIsComplete
<1>1. Init => SucceededRunIsComplete
  BY DEF Init, LedgerInit, NoRun, SucceededRunIsComplete
<1> QED
  BY <1>1, VerdictStep, CycleInvariant, PTL DEF Spec

-----------------------------------------------------------------------------
(* The counters.                                                            *)

\* Decided claims are never taken back, so a count of them only grows.
LEMMA DecidedOnlyGrow ==
    ASSUME CycleInv, [Next]_vars, NEW d \in Dates, NEW s \in {"succeeded", "failed"}
    PROVE  Cardinality(ClaimsIn(d, {s})) <= Cardinality(ClaimsIn(d, {s})')
<1>1. ClaimsIn(d, {s}) \subseteq ClaimsIn(d, {s})'
  BY ClaimsStep DEF ClaimsIn
<1>2. ClaimsIn(d, {s})' \subseteq Tickers
  BY DEF ClaimsIn
<1>3. IsFiniteSet(ClaimsIn(d, {s})')
  BY <1>2, StoreAssumption, FS_Subset
<1> QED
  BY <1>1, <1>3, FS_Subset

LEMMA CountersStep ==
    CycleInv /\ CountersReconcile /\ [Next]_vars => CountersReconcile'
<1> SUFFICES ASSUME CycleInv, CountersReconcile, [Next]_vars, NEW d \in Dates
             PROVE  /\ runs'[d].total = Cardinality(Claimed(d)')
                    /\ runs'[d].succeeded <= Cardinality(ClaimsIn(d, {"succeeded"})')
                    /\ runs'[d].failed <= Cardinality(ClaimsIn(d, {"failed"})')
  BY DEF CountersReconcile, Claimed, ClaimsIn
<1>1. \A s \in {"succeeded", "failed"} :
         /\ Cardinality(ClaimsIn(d, {s})) \in Nat
         /\ Cardinality(ClaimsIn(d, {s})') \in Nat
  <2>1. ASSUME NEW s \in {"succeeded", "failed"}
        PROVE  ClaimsIn(d, {s}) \subseteq Tickers /\ ClaimsIn(d, {s})' \subseteq Tickers
    BY DEF ClaimsIn
  <2> QED
    BY <2>1, TickersCount
<1>2. /\ Cardinality(ClaimsIn(d, {"succeeded"})) <= Cardinality(ClaimsIn(d, {"succeeded"})')
      /\ Cardinality(ClaimsIn(d, {"failed"})) <= Cardinality(ClaimsIn(d, {"failed"})')
  BY DecidedOnlyGrow
<1>3. /\ runs[d] \in Run
      /\ runs[d].total = Cardinality(Claimed(d))
      /\ runs[d].succeeded <= Cardinality(ClaimsIn(d, {"succeeded"}))
      /\ runs[d].failed <= Cardinality(ClaimsIn(d, {"failed"}))
  BY DEF CycleInv, TypeInv, TypeOK, LedgerTypeOK, CountersReconcile
<1>4. CASE Kept(d)
  BY <1>1, <1>2, <1>3, <1>4 DEF Kept, Run
<1>5. CASE Opened(d)
  BY <1>1, <1>5 DEF Opened, NoRun
<1>6. CASE Closed(d)
  <2>1. Claimed(d)' = Claimed(d)
    BY <1>6 DEF Closed, Claimed
  <2> QED
    BY <1>1, <1>2, <1>3, <1>6, <2>1 DEF Closed, Run
<1> QED
  BY <1>4, <1>5, <1>6, RunStep

\* The counters of a run never claim more than its rows show, and its total is
\* the manifest it opened with.
THEOREM CountersAgree == Spec => []CountersReconcile
<1>1. Init => CountersReconcile
  <2> SUFFICES ASSUME Init, NEW d \in Dates
               PROVE  /\ runs[d].total = Cardinality(Claimed(d))
                      /\ runs[d].succeeded <= Cardinality(ClaimsIn(d, {"succeeded"}))
                      /\ runs[d].failed <= Cardinality(ClaimsIn(d, {"failed"}))
    BY DEF CountersReconcile
  <2>1. Claimed(d) = {} /\ ClaimsIn(d, {"succeeded"}) = {} /\ ClaimsIn(d, {"failed"}) = {}
    BY DEF Init, LedgerInit, Claimed, ClaimsIn
  <2>2. runs[d] = NoRun
    BY DEF Init, LedgerInit
  <2>3. Cardinality({}) = 0
    BY FS_EmptySet
  <2> QED
    BY <2>1, <2>2, <2>3 DEF NoRun
<1> QED
  BY <1>1, CountersStep, CycleInvariant, PTL DEF Spec

-----------------------------------------------------------------------------
(* What the heads show.  A completion that reports success is under way      *)
(* from the durable write on, in the runner or timed out and still to come.  *)

Succeeding(d, t) ==
    \/ \E c \in Invocations : date[c] = d /\ step[c][t] = "succeed"
    \/ <<d, t, "succeeded">> \in late

\* A succeeding completion is owed for a date whose claim is pending.
LEMMA SucceedingIsPending ==
    ASSUME Discipline, NEW d \in Dates, NEW t \in Tickers, Succeeding(d, t)
    PROVE  claims[d][t] = "pending"
  BY DEF Discipline, Succeeding, UndecidedIsOwed, LateIsLastWord, Undecided

\* A completion comes under way by a durable write only, which stamps the head.
LEMMA SucceedingStarts ==
    ASSUME CycleInv, [Next]_vars, NEW d \in Dates, NEW t \in Tickers,
           ~Succeeding(d, t), Succeeding(d, t)'
    PROVE  /\ heads'[t].verified = now /\ heads'[t].status = "current_as_of_daily_refresh"
           /\ UNCHANGED <<now, runs, claims>>
<1> USE DEF CycleInv
<1>1. ASSUME UNCHANGED <<date, step, late>> PROVE FALSE
  BY <1>1 DEF Succeeding
<1>2. ASSUME NEW c \in Invocations, Leave(c), UNCHANGED late PROVE FALSE
  <2>1. \A e \in Invocations, u \in Tickers :
           step'[e][u] = IF e = c THEN "none" ELSE step[e][u]
    BY <1>2, InvocationLeaves DEF TypeInv, TypeOK, StepIsTyped
  <2> QED
    BY <1>2, <2>1 DEF Leave, Succeeding
<1>3. ASSUME NEW c \in Invocations, Deliver(c) PROVE FALSE
  <2>1. \A e \in Invocations : e # c => date'[e] = date[e]
    BY <1>3 DEF Deliver, TypeInv, TypeOK
  <2>2. \A u \in Tickers : step[c][u] = "none"
    BY <1>3 DEF Deliver, Discipline, StepsNeedWork
  <2> QED
    BY <1>3, <2>1, <2>2 DEF Deliver, Succeeding
<1>4. ASSUME NEW c \in Invocations, Begin(c) PROVE FALSE
  <2>1. CASE step' = [step EXCEPT ![c] =
                 [u \in Tickers |-> IF HasHead(u) THEN "queued" ELSE "none"]]
    <3>1. \A e \in Invocations : step'[e][t] = "succeed" => step[e][t] = "succeed"
      BY <2>1 DEF TypeInv, TypeOK
    <3>2. UNCHANGED late
      BY <1>4 DEF Begin
    <3>3. CASE UNCHANGED date
      BY <3>1, <3>2, <3>3 DEF Succeeding
    <3> QED
      BY <1>2, <1>4, <3>3 DEF Begin
  <2> QED
    BY <1>2, <1>4, <2>1 DEF Begin
<1>5. ASSUME NEW c \in Invocations, NEW u \in Tickers, NEW s \in Steps \ {"succeed"},
             step' = [step EXCEPT ![c][u] = s], UNCHANGED <<date, late>>
      PROVE  FALSE
  BY <1>5 DEF Succeeding, TypeInv, TypeOK
<1>6. ASSUME NEW c \in Invocations, NEW u \in Tickers, Persist(c, u)
      PROVE  /\ heads'[t].verified = now /\ heads'[t].status = "current_as_of_daily_refresh"
             /\ UNCHANGED <<now, runs, claims>>
  <2>1. UNCHANGED <<date, late, now, runs, claims>>
    BY <1>6 DEF Persist, ledgerVars
  <2>2. CASE step' = [step EXCEPT ![c][u] = "fail"]
    BY <1>5, <2>1, <2>2 DEF Steps
  <2>3. CASE /\ step' = [step EXCEPT ![c][u] = "succeed"]
             /\ StoreTickerSnapshot(u, fetched[c][u], "current_as_of_daily_refresh")
    <3>1. t = u
      BY <2>1, <2>3 DEF Succeeding, TypeInv, TypeOK
    <3> QED
      BY <2>1, <2>3, <3>1 DEF StoreTickerSnapshot, TypeInv, TypeOK, StoreTypeOK
  <2> QED
    BY <1>6, <2>2, <2>3 DEF Persist
<1>7. ASSUME NEW c \in Invocations, NEW u \in Tickers, Complete(c, u) PROVE FALSE
  <2>1. UNCHANGED date /\ step' = [step EXCEPT ![c][u] = "done"]
    BY <1>7 DEF Complete
  <2>2. \A e \in Invocations, v \in Tickers :
           step'[e][v] = "succeed" => step[e][v] = "succeed"
    BY <2>1 DEF TypeInv, TypeOK
  <2>3. CASE UNCHANGED late
    BY <1>5, <2>1, <2>3 DEF Steps
  <2>4. CASE late' = late \cup {<<date[c], u, ClaimStatus(c, u)>>}
    <3>1. <<d, t, "succeeded">> \in late'
      BY <2>1, <2>2 DEF Succeeding
    <3>2. d = date[c] /\ t = u /\ ClaimStatus(c, u) = "succeeded"
      BY <2>4, <3>1 DEF Succeeding
    <3> QED
      BY <3>2 DEF ClaimStatus, Succeeding
  <2> QED
    BY <1>7, <2>3, <2>4 DEF Complete
<1>8. ASSUME NEW e \in Dates, NEW u \in Tickers, NEW s \in {"succeeded", "failed"},
             CompleteLate(e, u, s)
      PROVE  FALSE
  BY <1>8 DEF CompleteLate, runnerVars, Succeeding
<1>9. ASSUME NEW c \in Invocations, NEW u \in Tickers, StartTicker(c, u) \/ Fetch(c, u)
      PROVE  FALSE
  <2>1. PICK s \in Steps \ {"succeed"} : step' = [step EXCEPT ![c][u] = s]
    BY <1>9 DEF StartTicker, Fetch, Steps
  <2> QED
    BY <1>5, <1>9, <2>1 DEF StartTicker, Fetch
<1>10. ASSUME NEW c \in Invocations,
              SkipDuplicate(c) \/ BeginFails(c) \/ Finish(c) \/ Crash(c)
       PROVE  FALSE
  BY <1>2, <1>10 DEF SkipDuplicate, BeginFails, Finish, Crash
<1>11. ASSUME Environment \/ UNCHANGED vars PROVE FALSE
  BY <1>1, <1>11 DEF Environment, runnerVars, vars
<1>12. ASSUME NEW u \in Tickers, BootstrapFetch(u) PROVE FALSE
  BY <1>1, <1>12 DEF BootstrapFetch, runnerVars
<1>13. ASSUME NEW u \in Tickers, NEW v \in Filings, BootstrapStore(u, v) PROVE FALSE
  BY <1>1, <1>13 DEF BootstrapStore, runnerVars
<1> QED
  BY <1>3, <1>4, <1>6, <1>7, <1>8, <1>9, <1>10, <1>11, <1>12, <1>13
     DEF Next, RunnerStep, RefreshOne

\* A claim becomes succeeded by a completion that was under way.
LEMMA SuccessWasUnderWay ==
    ASSUME CycleInv, [Next]_vars, NEW d \in Dates, NEW t \in Tickers,
           claims'[d][t] = "succeeded"
    PROVE  claims[d][t] = "succeeded" \/ Succeeding(d, t)
<1> USE DEF CycleInv
<1>1. CASE UNCHANGED claims
  BY <1>1
<1>2. ASSUME NEW c \in Invocations, Begin(c) PROVE claims[d][t] = "succeeded"
  BY <1>2 DEF Begin, BeginRun, TypeInv, TypeOK, LedgerTypeOK
<1>3. ASSUME NEW e \in Dates, NEW u \in Tickers, NEW s \in {"succeeded", "failed"},
             CompleteClaim(e, u, s), s = "succeeded" => Succeeding(e, u)
      PROVE  claims[d][t] = "succeeded" \/ Succeeding(d, t)
  BY <1>3 DEF CompleteClaim, TypeInv, TypeOK, LedgerTypeOK
<1>4. ASSUME NEW c \in Invocations, NEW u \in Tickers,
             Complete(c, u), CompleteClaim(date[c], u, ClaimStatus(c, u))
      PROVE  claims[d][t] = "succeeded" \/ Succeeding(d, t)
  <2>1. ClaimStatus(c, u) = "succeeded" => Succeeding(date[c], u)
    BY DEF ClaimStatus, Succeeding
  <2>2. date[c] \in Dates /\ ClaimStatus(c, u) \in {"succeeded", "failed"}
    BY DEF ClaimStatus, TypeInv, TypeOK
  <2> QED
    BY <1>3, <1>4, <2>1, <2>2
<1>5. ASSUME NEW e \in Dates, NEW u \in Tickers, NEW s \in {"succeeded", "failed"},
             CompleteLate(e, u, s)
      PROVE  claims[d][t] = "succeeded" \/ Succeeding(d, t)
  BY <1>3, <1>5 DEF CompleteLate, Succeeding
<1> QED
  BY <1>1, <1>2, <1>4, <1>5, LedgerSteps DEF StartTicker, FinishRun, ledgerVars

\* Only the environment moves the clock, and only forward.
LEMMA ClockStep == ASSUME TypeInv, [Next]_vars PROVE now <= now'
<1>1. now \in Nat
  BY DEF TypeInv, TypeOK, StoreTypeOK
<1>2. CASE Environment
  BY <1>1, <1>2 DEF Environment, Tick, NewFiling
<1>3. ASSUME NEW c \in Invocations,
             Deliver(c) \/ Crash(c) \/ SkipDuplicate(c) \/ BeginFails(c)
      PROVE  UNCHANGED now
  BY <1>3 DEF Deliver, Crash, SkipDuplicate, BeginFails, storeVars
<1>4. ASSUME NEW c \in Invocations, NEW u \in Tickers, RefreshOne(c, u)
      PROVE  UNCHANGED now
  BY <1>4 DEF RefreshOne, StartTicker, Fetch, Persist, Complete, CompleteClaim, storeVars
<1>5. ASSUME NEW c \in Invocations, Begin(c) \/ Finish(c) PROVE UNCHANGED now
  BY <1>5 DEF Begin, BeginRun, Finish, FinishRun, storeVars
<1>6. ASSUME NEW d \in Dates, NEW u \in Tickers, NEW s \in {"succeeded", "failed"},
             CompleteLate(d, u, s)
      PROVE  UNCHANGED now
  BY <1>6 DEF CompleteLate, CompleteClaim
<1>7. ASSUME NEW u \in Tickers, BootstrapFetch(u) PROVE UNCHANGED now
  BY <1>7 DEF BootstrapFetch, storeVars
<1>8. ASSUME NEW u \in Tickers, NEW v \in Filings, BootstrapStore(u, v) PROVE UNCHANGED now
  BY <1>8 DEF BootstrapStore
<1>9. CASE UNCHANGED vars
  BY <1>1, <1>9 DEF vars
<1> QED
  BY <1>1, <1>2, <1>3, <1>4, <1>5, <1>6, <1>7, <1>8, <1>9 DEF Next, RunnerStep

\* A head is stamped with the clock or keeps its stamp.
LEMMA HeadsStep ==
    ASSUME CycleInv, [Next]_vars, NEW t \in Tickers
    PROVE  heads'[t].verified \in {heads[t].verified, now} /\ now <= now'
<1> USE DEF CycleInv, TypeInv, TypeOK, StoreTypeOK
<1>1. ASSUME UNCHANGED <<now, heads>>
      PROVE  heads'[t].verified \in {heads[t].verified, now} /\ now <= now'
  BY <1>1
<1>2. ASSUME NEW S, NEW s, MarkHeads(S, s) PROVE heads'[t].verified = heads[t].verified
  BY <1>2 DEF MarkHeads, HeadRow
<1>3. ASSUME NEW u \in Tickers, NEW v, NEW s, StoreTickerSnapshot(u, v, s)
      PROVE  heads'[t].verified \in {heads[t].verified, now}
  BY <1>3 DEF StoreTickerSnapshot
<1>4. ASSUME NEW d, CompleteClaim(d, t, "failed") \/ BeginRun(d)
      PROVE  heads'[t].verified = heads[t].verified
  BY <1>2, <1>4 DEF CompleteClaim, BeginRun
<1>5. ASSUME NEW d, FinishRun(d) PROVE heads'[t].verified = heads[t].verified
  BY <1>5 DEF FinishRun, HeadRow
<1>6. ASSUME NEW c \in Invocations, Deliver(c) \/ Crash(c) \/ SkipDuplicate(c) \/ BeginFails(c)
      PROVE  UNCHANGED <<now, heads>>
  BY <1>6 DEF Deliver, Crash, SkipDuplicate, BeginFails, storeVars
<1>7. ASSUME NEW c \in Invocations, NEW u \in Tickers, RefreshOne(c, u)
      PROVE  heads'[t].verified \in {heads[t].verified, now} /\ now' = now
  <2>1. CASE StartTicker(c, u) \/ Fetch(c, u)
    BY <2>1 DEF StartTicker, Fetch, storeVars
  <2>2. CASE Persist(c, u)
    BY <1>3, <2>2 DEF Persist
  <2>3. CASE Complete(c, u)
    BY <1>2, <2>3 DEF Complete, CompleteClaim, storeVars
  <2> QED
    BY <1>7, <2>1, <2>2, <2>3 DEF RefreshOne
<1>8. ASSUME NEW c \in Invocations, Begin(c) \/ Finish(c)
      PROVE  heads'[t].verified = heads[t].verified /\ now' = now
  BY <1>4, <1>5, <1>8 DEF Begin, BeginRun, Finish, FinishRun, storeVars
<1>9. ASSUME NEW d \in Dates, NEW u \in Tickers, NEW s \in {"succeeded", "failed"},
             CompleteLate(d, u, s)
      PROVE  heads'[t].verified = heads[t].verified /\ now' = now
  BY <1>2, <1>9 DEF CompleteLate, CompleteClaim
<1>10. ASSUME NEW u \in Tickers, BootstrapFetch(u) PROVE UNCHANGED <<now, heads>>
  BY <1>10 DEF BootstrapFetch, storeVars
<1>11. ASSUME NEW u \in Tickers, NEW v \in Filings, BootstrapStore(u, v)
       PROVE  heads'[t].verified \in {heads[t].verified, now} /\ now' = now
  BY <1>3, <1>11 DEF BootstrapStore
<1>12. CASE Environment
  BY <1>12 DEF Environment, Tick, NewFiling
<1>13. CASE UNCHANGED vars
  BY <1>13 DEF vars
<1> QED
  BY <1>1, <1>6, <1>7, <1>8, <1>9, <1>10, <1>11, <1>12, <1>13 DEF Next, RunnerStep

-----------------------------------------------------------------------------
(* Verified inside the run.                                                  *)

VerifiedInv ==
    /\ \A t \in Tickers : heads[t].verified <= now
    /\ \A d \in Dates : runs[d].started <= now
    /\ \A d \in Dates, t \in Tickers :
           claims[d][t] = "succeeded" \/ Succeeding(d, t) =>
               heads[t].verified >= runs[d].started

LEMMA Numbers ==
    ASSUME TypeInv, NEW d \in Dates, NEW t \in Tickers
    PROVE  now \in Nat /\ heads[t].verified \in Nat /\ runs[d].started \in Nat
  BY DEF TypeInv, TypeOK, StoreTypeOK, LedgerTypeOK, HeadRow, Run

LEMMA StartedStep ==
    ASSUME CycleInv, [Next]_vars, NEW d \in Dates
    PROVE  runs'[d].started = runs[d].started \/ (Opened(d) /\ runs'[d].started = now)
<1>1. runs[d] \in Run
  BY DEF CycleInv, TypeInv, TypeOK, LedgerTypeOK
<1> QED
  BY <1>1, RunStep DEF Kept, Opened, Closed, NoRun, Run

LEMMA VerifiedStep == CycleInv /\ VerifiedInv /\ [Next]_vars => VerifiedInv'
<1> SUFFICES ASSUME CycleInv, VerifiedInv, [Next]_vars PROVE VerifiedInv'
  OBVIOUS
<1>1. TypeInv /\ Discipline /\ TypeInv'
  BY TypeStep DEF CycleInv
<1>2. ASSUME NEW t \in Tickers PROVE heads'[t].verified <= now'
  <2>1. now \in Nat /\ now' \in Nat /\ heads[t].verified \in Nat
    BY <1>1, FirstDate, Numbers DEF TypeInv, TypeOK, StoreTypeOK
  <2>2. heads[t].verified <= now
    BY DEF VerifiedInv
  <2> QED
    BY <2>1, <2>2, HeadsStep
<1>3. ASSUME NEW d \in Dates PROVE runs'[d].started <= now'
  <2>1. now <= now' /\ now \in Nat /\ now' \in Nat /\ runs[d].started \in Nat
    <3>1. now \in Nat /\ now' \in Nat /\ runs[d].started \in Nat
      BY <1>1 DEF TypeInv, TypeOK, StoreTypeOK, LedgerTypeOK, Run
    <3> QED
      BY <1>1, <3>1, ClockStep
  <2> QED
    BY <2>1, StartedStep DEF VerifiedInv
<1>4. ASSUME NEW d \in Dates, NEW t \in Tickers,
             claims'[d][t] = "succeeded" \/ Succeeding(d, t)'
      PROVE  heads'[t].verified >= runs'[d].started
  <2>1. CASE ~Succeeding(d, t) /\ Succeeding(d, t)'
    BY <1>1, <2>1, SucceedingStarts, Numbers DEF VerifiedInv
  <2>2. CASE claims[d][t] = "succeeded" \/ Succeeding(d, t)
    <3>1. ~Opened(d)
      BY <1>1, <2>2, SucceedingIsPending DEF Opened, Discipline, UnopenedIsUntouched
    <3>2. runs'[d].started = runs[d].started
      BY <3>1, StartedStep
    <3>3. heads[t].verified >= runs[d].started /\ now >= runs[d].started
      BY <2>2, <1>1, Numbers DEF VerifiedInv
    <3> QED
      BY <3>2, <3>3, HeadsStep
  <2> QED
    BY <1>4, <2>1, <2>2, SuccessWasUnderWay
<1> QED
  BY <1>2, <1>3, <1>4 DEF VerifiedInv, Succeeding

\* A claim that ended succeeded stands for a head verified since its run began.
THEOREM SuccessIsVerified == Spec => []SucceededClaimIsVerified
<1>1. Init => VerifiedInv
  BY StoreAssumption DEF Init, StoreInit, LedgerInit, NoHead, NoRun, VerifiedInv, Succeeding, Idle
<1>2. VerifiedInv => SucceededClaimIsVerified
  BY DEF VerifiedInv, SucceededClaimIsVerified
<1> QED
  BY <1>1, <1>2, VerifiedStep, CycleInvariant, PTL DEF Spec

-----------------------------------------------------------------------------
(* Heads shown as being refreshed.                                           *)

\* What RunningHeadIsOwed needs to be inductive: the decision that is owed is
\* not one that is on its way and would leave the head as it is.
Owed(d, t) ==
    claims[d][t] = "pending" /\ runs[d].status = "running" /\ ~Succeeding(d, t)

OwedInv ==
    \A t \in Tickers :
        heads[t].status = "daily_refresh_running" => \E d \in Dates : Owed(d, t)

\* A decision that is owed stays so, comes with the durable write of a success,
\* or is shown on the head.
LEMMA OwedStep ==
    ASSUME CycleInv, [Next]_vars, NEW d \in Dates, NEW t \in Tickers, Owed(d, t)
    PROVE  Owed(d, t)' \/ heads'[t].status # "daily_refresh_running"
<1> USE DEF CycleInv
<1>1. CASE Succeeding(d, t)'
  BY <1>1, SucceedingStarts DEF Owed
<1>2. ASSUME UNCHANGED <<runs, claims>>
      PROVE  claims'[d][t] = "pending" /\ runs'[d].status = "running"
  BY <1>2 DEF Owed
<1>3. ASSUME NEW c \in Invocations, Begin(c)
      PROVE  claims'[d][t] = "pending" /\ runs'[d].status = "running"
  <2>1. date[c] # d
    BY <1>3 DEF Begin, BeginRun, AlreadyClaimed, Owed
  <2> QED
    BY <1>3, <2>1 DEF Begin, BeginRun, Owed, TypeInv, TypeOK, LedgerTypeOK
<1>4. ASSUME NEW e \in Dates, NEW u \in Tickers, NEW s \in {"succeeded", "failed"},
             CompleteClaim(e, u, s), s = "succeeded" => Succeeding(e, u)
      PROVE  \/ claims'[d][t] = "pending" /\ runs'[d].status = "running"
             \/ heads'[t].status # "daily_refresh_running"
  <2>1. CASE d = e /\ t = u
    <3>1. s = "failed"
      BY <1>4, <2>1 DEF Owed
    <3>2. heads'[t] = [heads[t] EXCEPT !.status = "daily_refresh_failed"]
      BY <1>4, <2>1, <3>1 DEF CompleteClaim, MarkHeads
    <3> QED
      BY <3>2 DEF TypeInv, TypeOK, StoreTypeOK, HeadRow
  <2>2. CASE ~(d = e /\ t = u)
    BY <1>4, <2>2 DEF CompleteClaim, Owed, TypeInv, TypeOK, LedgerTypeOK
  <2> QED
    BY <2>1, <2>2
<1>5. ASSUME NEW c \in Invocations, NEW u \in Tickers,
             Complete(c, u), CompleteClaim(date[c], u, ClaimStatus(c, u))
      PROVE  \/ claims'[d][t] = "pending" /\ runs'[d].status = "running"
             \/ heads'[t].status # "daily_refresh_running"
  <2>1. ClaimStatus(c, u) = "succeeded" => Succeeding(date[c], u)
    BY DEF ClaimStatus, Succeeding
  <2>2. date[c] \in Dates /\ ClaimStatus(c, u) \in {"succeeded", "failed"}
    BY DEF ClaimStatus, TypeInv, TypeOK
  <2> QED
    BY <1>4, <1>5, <2>1, <2>2
<1>6. ASSUME NEW e \in Dates, NEW u \in Tickers, NEW s \in {"succeeded", "failed"},
             CompleteLate(e, u, s)
      PROVE  \/ claims'[d][t] = "pending" /\ runs'[d].status = "running"
             \/ heads'[t].status # "daily_refresh_running"
  BY <1>4, <1>6 DEF CompleteLate, Succeeding
<1>7. ASSUME NEW c \in Invocations, FinishRun(date[c])
      PROVE  \/ claims'[d][t] = "pending" /\ runs'[d].status = "running"
             \/ heads'[t].status # "daily_refresh_running"
  <2>1. CASE d = date[c]
    BY <1>7, <2>1 DEF FinishRun, Owed, TypeInv, TypeOK, StoreTypeOK, HeadRow
  <2>2. CASE d # date[c]
    BY <1>7, <2>2 DEF FinishRun, Owed, TypeInv, TypeOK, LedgerTypeOK
  <2> QED
    BY <2>1, <2>2
<1>8. \/ claims'[d][t] = "pending" /\ runs'[d].status = "running"
      \/ heads'[t].status # "daily_refresh_running"
  BY <1>2, <1>3, <1>5, <1>6, <1>7, LedgerSteps DEF StartTicker, ledgerVars
<1> QED
  BY <1>1, <1>8 DEF Owed, Succeeding

\* A head comes to be shown as being refreshed by the opening of a run.
LEMMA RunningStarts ==
    ASSUME CycleInv, [Next]_vars, NEW t \in Tickers,
           heads'[t].status = "daily_refresh_running"
    PROVE  \/ heads[t].status = "daily_refresh_running"
           \/ \E c \in Invocations : Begin(c) /\ HasHead(t)
<1> USE DEF CycleInv, TypeInv, TypeOK, StoreTypeOK
<1> DEFINE Shown == heads[t].status = "daily_refresh_running"
<1>1. ASSUME UNCHANGED heads PROVE Shown
  BY <1>1
<1>2. ASSUME NEW S, NEW s \in DurableStatuses \ {"daily_refresh_running"}, MarkHeads(S, s)
      PROVE  Shown
  BY <1>2 DEF MarkHeads, HeadRow
<1>3. ASSUME NEW u \in Tickers, NEW v, NEW s \in DurableStatuses \ {"daily_refresh_running"},
             StoreTickerSnapshot(u, v, s)
      PROVE  Shown
  BY <1>3 DEF StoreTickerSnapshot
<1>4. ASSUME NEW c \in Invocations, Begin(c) PROVE Shown \/ HasHead(t)
  BY <1>4 DEF Begin, BeginRun, MarkHeads
<1>5. ASSUME NEW d, FinishRun(d) PROVE Shown
  BY <1>5 DEF FinishRun, HeadRow
<1>6. ASSUME NEW d, NEW u, NEW s, CompleteClaim(d, u, s) PROVE Shown
  BY <1>2, <1>6 DEF CompleteClaim, DurableStatuses
<1>7. ASSUME NEW c \in Invocations,
             Deliver(c) \/ Crash(c) \/ SkipDuplicate(c) \/ BeginFails(c)
      PROVE  UNCHANGED heads
  BY <1>7 DEF Deliver, Crash, SkipDuplicate, BeginFails, storeVars
<1>8. ASSUME NEW c \in Invocations, NEW u \in Tickers, RefreshOne(c, u) PROVE Shown
  <2>1. CASE StartTicker(c, u) \/ Fetch(c, u)
    BY <1>1, <2>1 DEF StartTicker, Fetch, storeVars
  <2>2. CASE Persist(c, u)
    BY <1>1, <1>3, <2>2 DEF Persist, DurableStatuses
  <2>3. CASE Complete(c, u)
    BY <1>1, <1>6, <2>3 DEF Complete, storeVars
  <2> QED
    BY <1>8, <2>1, <2>2, <2>3 DEF RefreshOne
<1>9. ASSUME NEW c \in Invocations, Finish(c) PROVE Shown
  BY <1>1, <1>5, <1>9 DEF Finish, storeVars
<1>10. ASSUME NEW d \in Dates, NEW u \in Tickers, NEW s \in {"succeeded", "failed"},
              CompleteLate(d, u, s)
       PROVE  Shown
  BY <1>6, <1>10 DEF CompleteLate
<1>11. ASSUME NEW u \in Tickers, BootstrapFetch(u) PROVE UNCHANGED heads
  BY <1>11 DEF BootstrapFetch, storeVars
<1>12. ASSUME NEW u \in Tickers, NEW v \in Filings, BootstrapStore(u, v) PROVE Shown
  BY <1>3, <1>12 DEF BootstrapStore, DurableStatuses
<1>13. ASSUME Environment \/ UNCHANGED vars PROVE UNCHANGED heads
  BY <1>13 DEF Environment, Tick, NewFiling, vars
<1> HIDE DEF CycleInv, TypeInv, TypeOK, StoreTypeOK, Shown
<1>14. Shown \/ \E c \in Invocations : Begin(c) /\ HasHead(t)
  BY <1>1, <1>4, <1>7, <1>8, <1>9, <1>10, <1>11, <1>12, <1>13 DEF Next, RunnerStep
<1> QED
  BY <1>14 DEF Shown

LEMMA OwedInvStep == CycleInv /\ OwedInv /\ [Next]_vars => OwedInv'
<1> SUFFICES ASSUME CycleInv, OwedInv, [Next]_vars, NEW t \in Tickers,
                    heads'[t].status = "daily_refresh_running"
             PROVE  \E d \in Dates : Owed(d, t)'
  BY DEF OwedInv, Owed, Succeeding
<1>1. CASE heads[t].status = "daily_refresh_running"
  BY <1>1, OwedStep DEF OwedInv
<1>2. ASSUME NEW c \in Invocations, Begin(c), HasHead(t)
      PROVE  \E d \in Dates : Owed(d, t)'
  <2>1. PICK d \in Dates : d = date[c]
    BY DEF CycleInv, TypeInv, TypeOK
  <2>2. /\ runs[d].status = "none" /\ claims[d][t] = "none"
        /\ claims'[d][t] = "pending" /\ runs'[d].status = "running"
    BY <1>2, <2>1
       DEF Begin, BeginRun, AlreadyClaimed, NoRun, CycleInv, Discipline,
           UnopenedIsUntouched, TypeInv, TypeOK, LedgerTypeOK
  <2>3. ~Succeeding(d, t)
    BY <2>2, SucceedingIsPending DEF CycleInv
  <2>4. ~Succeeding(d, t)'
    BY <2>2, <2>3, SucceedingStarts
  <2> QED
    BY <2>2, <2>4 DEF Owed, Succeeding
<1> QED
  BY <1>1, <1>2, RunningStarts

\* A head is shown as being refreshed only while a run that is not closed owes
\* it a decision, whatever was lost, late or killed.
THEOREM RunningIsOwed == Spec => []RunningHeadIsOwed
<1>1. Init => OwedInv
  BY DEF Init, StoreInit, NoHead, OwedInv
<1>2. OwedInv => RunningHeadIsOwed
  BY DEF OwedInv, Owed, RunningHeadIsOwed
<1> QED
  BY <1>1, <1>2, OwedInvStep, CycleInvariant, PTL DEF Spec

===========================================================================
