------------------------ MODULE MeteredRequestsProofs ------------------------
(***************************************************************************)
(* Theorems about MeteredRequests, for any keys, calls, requests and quota. *)
(*                                                                         *)
(* MeterInv adds to the invariant of Accounts what a request knows at each *)
(* of its awaits, and that ledger and counter agree.  That a barred request *)
(* stays out rests on AccountsInv: a revoked key is frozen, and a secret    *)
(* waiting to be written was never the secret of a key before, so a PATCH   *)
(* can not make a replaced secret valid again.                             *)
(***************************************************************************)
EXTENDS MeteredRequests, AccountsProofs, FiniteSetTheorems

\* What is known of a request, at each place.
RequestOK(r) ==
    /\ at[r] = "idle" => ~barred[r]
    /\ at[r] # "idle" => presented[r] \in stored
    /\ at[r] # "done" => response[r] = 0
    /\ at[r] \in {"idle", "auth", "mark", "quota"} => usage[r] = NoUsage /\ built[r] = 0
    /\ at[r] = "auth" /\ barred[r] => ~Usable(presented[r][1], presented[r][2])
    /\ at[r] \in {"mark", "quota", "serve", "finalize"} => ~barred[r]
    /\ at[r] = "serve" => built[r] = 0
    /\ at[r] = "finalize" => built[r] = 404
    /\ at[r] \in {"serve", "finalize"} => usage[r].status = Null

\* What the ledger says of it.
RowTold(r) ==
    /\ at[r] = "serve" \/ built[r] # 0 =>
           usage[r].consumed /\ usage[r].key = presented[r][1]
    /\ response[r] = 429 => usage[r].status = 429
    /\ response[r] = 200 => usage[r].status = Null
    /\ usage[r].status = 404 => built[r] = 404
    /\ usage[r].consumed => usage[r].status # 429
    /\ barred[r] => ~usage[r].consumed /\ built[r] = 0

MeterInv ==
    /\ AccountsInv
    /\ TypeOK
    /\ LedgerMatchesCounter
    /\ AdmittedWithinQuota
    /\ \A r \in Requests : RequestOK(r) /\ RowTold(r)

\* A step of r touches no other request, and of the accounts only the faults.
OnlyRequest(r) ==
    /\ UNCHANGED <<customers, keys, audit, stored, overtaken, drawn, place, op, secret, reply>>
    /\ faults' \in Nat
    /\ \A e \in Requests : e # r =>
          /\ at'[e] = at[e] /\ presented'[e] = presented[e] /\ barred'[e] = barred[e]
          /\ window'[e] = window[e]
          /\ built'[e] = built[e] /\ response'[e] = response[e] /\ usage'[e] = usage[e]

-----------------------------------------------------------------------------

LEMMA FaultsAlone ==
    ASSUME AccountsInv, faults' \in Nat,
           UNCHANGED <<customers, keys, audit, stored, overtaken, drawn, place, op, secret, reply>>
    PROVE  AccountsInv'
<1>1. AccountsTypeOK' /\ TableOK'
  BY DEF AccountsInv, AccountsTypeOK, TableOK, RowOK
<1>2. FreshSecrets' /\ AuditSound'
  BY DEF AccountsInv, FreshSecrets, AuditSound
<1>3. ASSUME NEW c \in Calls PROVE CallOK(c)' /\ Landed(c)' /\ Told(c)'
  <2>1. CallOK(c) /\ Landed(c) /\ Told(c)
    BY DEF AccountsInv
  <2>2. CallOK(c)'
    BY <2>1 DEF CallOK
  <2>3. Landed(c)'
    BY <2>1 DEF Landed
  <2>4. Told(c)'
    BY <2>1 DEF Told, Event
  <2> QED
    BY <2>2, <2>3, <2>4
<1> QED
  BY <1>1, <1>2, <1>3 DEF AccountsInv

\* A step of r keeps the invariant for every other request.
LEMMA RequestsCarry ==
    ASSUME MeterInv, NEW r \in Requests, OnlyRequest(r), TypeOK',
           LedgerMatchesCounter', AdmittedWithinQuota',
           RequestOK(r)', RowTold(r)'
    PROVE  MeterInv'
<1>1. AccountsInv'
  BY FaultsAlone DEF MeterInv, OnlyRequest
<1>2. ASSUME NEW e \in Requests, e # r PROVE RequestOK(e)' /\ RowTold(e)'
  <2>1. /\ at'[e] = at[e] /\ presented'[e] = presented[e] /\ barred'[e] = barred[e]
        /\ built'[e] = built[e] /\ response'[e] = response[e] /\ usage'[e] = usage[e]
        /\ UNCHANGED <<keys, stored>>
    BY <1>2 DEF OnlyRequest
  <2>2. RequestOK(e) /\ RowTold(e)
    BY DEF MeterInv
  <2>3. RequestOK(e)'
    BY <2>1, <2>2 DEF RequestOK, Usable
  <2>4. RowTold(e)'
    BY <2>1, <2>2 DEF RowTold
  <2> QED
    BY <2>3, <2>4
<1> QED
  BY <1>1, <1>2 DEF MeterInv

\* Ledger and counter are untouched by a step that changes no row's key or
\* decision, and the window of no request that has a row.
LEMMA LedgerCarries ==
    ASSUME LedgerMatchesCounter, AdmittedWithinQuota, UNCHANGED counter,
           \A e \in Requests : /\ usage'[e].key = usage[e].key
                               /\ usage'[e].consumed = usage[e].consumed
                               /\ window'[e] = window[e] \/ usage[e].key = None
    PROVE  LedgerMatchesCounter' /\ AdmittedWithinQuota'
<1>1. ASSUME NEW k \in Keys, NEW d \in Days
      PROVE  Rows(k, d)' = Rows(k, d) /\ Admitted(k, d)' = Admitted(k, d)
  BY AccountsAssumption DEF Rows, Admitted
<1> QED
  BY <1>1 DEF LedgerMatchesCounter, AdmittedWithinQuota

LEMMA RequestsAreTyped ==
    ASSUME TypeOK, NEW r \in Requests
    PROVE  /\ at[r] \in {"idle", "auth", "mark", "quota", "serve", "finalize", "done"}
           /\ usage[r] \in UsageRow
           /\ usage[r].key \in Keys \cup {None} /\ window[r] \in Days
           /\ usage[r].status \in {Null, 404, 429} /\ usage[r].consumed \in BOOLEAN
           /\ presented[r] \in (Keys \cup {None}) \X Nat
           /\ barred[r] \in BOOLEAN /\ built[r] \in {0, 200, 404}
           /\ response[r] \in {0, 200, 401, 404, 429, 500, 503}
<1>1. /\ at[r] \in {"idle", "auth", "mark", "quota", "serve", "finalize", "done"}
      /\ usage[r] \in UsageRow /\ window[r] \in Days
      /\ presented[r] \in (Keys \cup {None}) \X Nat
      /\ barred[r] \in BOOLEAN /\ built[r] \in {0, 200, 404}
      /\ response[r] \in {0, 200, 401, 404, 429, 500, 503}
  BY DEF TypeOK
<1> QED
  BY <1>1 DEF UsageRow

\* Proceed and Respond move one request.
LEMMA RequestMoves ==
    ASSUME TypeOK, NEW r \in Requests,
           NEW p \in {"auth", "mark", "quota", "serve", "finalize", "done"},
           NEW a \in {0, 200, 401, 404, 429, 500, 503},
           \/ Proceed(r, p) /\ a = response[r]
           \/ Respond(r, a) /\ p = "done"
    PROVE  /\ at' \in [Requests -> {"idle", "auth", "mark", "quota", "serve", "finalize", "done"}]
           /\ response' \in [Requests -> {0, 200, 401, 404, 429, 500, 503}]
           /\ at'[r] = p /\ response'[r] = a
           /\ \A e \in Requests : e # r => at'[e] = at[e] /\ response'[e] = response[e]
           /\ window' \in [Requests -> Days]
           /\ \A e \in Requests : e # r => window'[e] = window[e]
           /\ p # "quota" => window' = window
<1>1. /\ at \in [Requests -> {"idle", "auth", "mark", "quota", "serve", "finalize", "done"}]
      /\ response \in [Requests -> {0, 200, 401, 404, 429, 500, 503}]
  BY DEF TypeOK
<1>2. at' = [at EXCEPT ![r] = p]
  BY DEF Proceed, Respond
<1>3. response' = [response EXCEPT ![r] = a]
  BY <1>1 DEF Proceed, Respond
<1>4. \/ window' = window
      \/ window' = [window EXCEPT ![r] = day] /\ p = "quota"
  <2>1. CASE Proceed(r, p)
    BY <2>1 DEF Proceed
  <2>2. CASE Respond(r, a)
    BY <2>2 DEF Respond
  <2> QED
    BY <2>1, <2>2
<1>5. window \in [Requests -> Days] /\ day \in Days
  BY DEF TypeOK
<1>6. /\ window' \in [Requests -> Days]
      /\ \A e \in Requests : e # r => window'[e] = window[e]
  BY <1>4, <1>5
<1>7. /\ at'[r] = p /\ response'[r] = a
      /\ \A e \in Requests : e # r => at'[e] = at[e] /\ response'[e] = response[e]
  BY <1>1, <1>2, <1>3
<1>8. /\ at' \in [Requests -> {"idle", "auth", "mark", "quota", "serve", "finalize", "done"}]
      /\ response' \in [Requests -> {0, 200, 401, 404, 429, 500, 503}]
  BY <1>1, <1>2, <1>3
<1> QED
  BY <1>4, <1>6, <1>7, <1>8

LEMMA MeterFaults ==
    ASSUME TypeOK, Fault \/ NoFault
    PROVE  faults' \in Nat
  BY FaultsAreTyped DEF TypeOK

-----------------------------------------------------------------------------

LEMMA MeterInit == Init => MeterInv
<1> SUFFICES ASSUME Init PROVE MeterInv
  OBVIOUS
<1> USE DEF Init
<1>1. AccountsInv
  BY InitInv
<1>2. TypeOK
  <2>1. NoUsage \in UsageRow
    BY MeteringAssumption DEF NoUsage, UsageRow, Days, Null
  <2>2. day \in Days /\ usage \in [Requests -> UsageRow]
    BY <2>1, MeteringAssumption DEF Days
  <2> QED
    BY <1>1, <2>2 DEF TypeOK, AccountsInv
<1>3. ASSUME NEW k \in Keys, NEW d \in Days PROVE Rows(k, d) = {} /\ Admitted(k, d) = {}
  BY AccountsAssumption DEF Rows, Admitted, NoUsage
<1>4. LedgerMatchesCounter /\ AdmittedWithinQuota
  <2>1. Cardinality({}) = 0 /\ 0 <= Quota
    BY FS_EmptySet, MeteringAssumption
  <2>2. \A k \in Keys, d \in Days : counter[k][d] = 0
    OBVIOUS
  <2>3. ASSUME NEW k \in Keys, NEW d \in Days
        PROVE  /\ counter[k][d] = Cardinality(Rows(k, d))
               /\ Cardinality(Admitted(k, d)) <= Quota
    <3>1. Rows(k, d) = {} /\ Admitted(k, d) = {}
      BY <1>3
    <3> QED
      BY <2>1, <2>2, <3>1
  <2> QED
    BY <2>3 DEF LedgerMatchesCounter, AdmittedWithinQuota
<1>5. ASSUME NEW r \in Requests PROVE RequestOK(r) /\ RowTold(r)
  BY DEF RequestOK, RowTold, NoUsage, Null
<1> QED
  BY <1>1, <1>2, <1>4, <1>5 DEF MeterInv

-----------------------------------------------------------------------------
(* Steps of the accounts, seen by the requests.                             *)

LEMMA StoredGrows ==
    ASSUME NEW c \in Calls, CallStep(c)
    PROVE  stored \subseteq stored'
<1>1. CASE Insert(c)
  BY <1>1 DEF Insert
<1>2. CASE Patch(c)
  BY <1>2 DEF Patch
<1>3. CASE ~Insert(c) /\ ~Patch(c)
  BY <1>3 DEF CallStep, Arrive, Context, List, Lookup, Signup, Welcome, Audit, Usage, tableVars
<1> QED
  BY <1>1, <1>2, <1>3

\* No call makes a revoked key or a replaced secret valid again.
LEMMA BarredForGood ==
    ASSUME AccountsInv, NEW c \in Calls, CallStep(c), NEW k \in Keys, NEW s,
           <<k, s>> \in stored, ~Usable(k, s)
    PROVE  ~Usable(k, s)'
<1>1. CASE keys'[k] = keys[k]
  BY <1>1 DEF Usable
<1>2. CASE keys'[k] # keys[k]
  <2>1. AccountsTypeOK /\ TableOK /\ CallOK(c) /\ FreshSecrets /\ s \in Nat
    BY DEF AccountsInv, AccountsTypeOK
  <2>2. ~keys[k].revoked
    BY <1>2, KeySteps
  <2>3. keys[k].owner # None
    BY <2>1 DEF TableOK, RowOK
  <2>4. keys[k].secret # s
    BY <2>2, <2>3 DEF Usable
  <2>5. Patch(c)
    <3>1. Insert(c) \/ Patch(c)
      BY <1>2 DEF CallStep, Arrive, Context, List, Lookup, Signup, Welcome, Audit, Usage, tableVars
    <3>2. ASSUME Insert(c) PROVE FALSE
      BY <1>2, <2>1, <2>3, <3>2 DEF Insert, Owned, AccountsTypeOK
    <3> QED
      BY <3>1, <3>2
  <2>6. k = op[c].key /\ keys'[k] = Patched(c)
    BY <1>2, <2>1, <2>5 DEF Patch, AccountsTypeOK
  <2>7. keys[k] \in KeyRow /\ op[c].kind \in {"revoke", "rotate", "rename"}
    BY <2>1, <2>5, RowsAreTyped DEF CallOK, Patch
  <2>8. CASE op[c].kind = "rotate"
    <3>1. Patched(c).secret = secret[c]
      BY <2>6, <2>7, <2>8 DEF Patched, KeyRow
    <3>2. <<k, secret[c]>> \notin stored
      BY <2>1, <2>5, <2>8 DEF FreshSecrets, CallOK, Patch
    <3> QED
      BY <2>6, <3>1, <3>2 DEF Usable
  <2>9. CASE op[c].kind # "rotate"
    <3>1. Patched(c).secret = keys[k].secret
      BY <2>6, <2>7, <2>9 DEF Patched, KeyRow
    <3> QED
      BY <2>4, <2>6, <3>1 DEF Usable
  <2> QED
    BY <2>8, <2>9
<1> QED
  BY <1>1, <1>2

LEMMA AccountsStepInv ==
    ASSUME MeterInv, NEW c \in Calls, CallStep(c), UNCHANGED <<meterVars, requestVars>>
    PROVE  MeterInv'
<1> USE DEF meterVars, requestVars
<1>1. AccountsInv /\ AccountsInv'
  BY StepInv DEF MeterInv, AccountsNext
<1>2. TypeOK'
  BY <1>1 DEF MeterInv, TypeOK, AccountsInv
<1>3. LedgerMatchesCounter' /\ AdmittedWithinQuota'
  BY LedgerCarries DEF MeterInv
<1>4. ASSUME NEW r \in Requests PROVE RequestOK(r)' /\ RowTold(r)'
  <2>1. RequestOK(r) /\ RowTold(r)
    BY DEF MeterInv
  <2>2. at[r] # "idle" => presented[r] \in stored'
    BY <2>1, StoredGrows DEF RequestOK
  <2>3. at[r] = "auth" /\ barred[r] => ~Usable(presented[r][1], presented[r][2])'
    <3> SUFFICES ASSUME at[r] = "auth", barred[r]
                 PROVE  ~Usable(presented[r][1], presented[r][2])'
      OBVIOUS
    <3>1. PICK k \in Keys, s \in Nat : presented[r] = <<k, s>>
      BY <1>1, <2>1 DEF RequestOK, AccountsInv, AccountsTypeOK
    <3>2. <<k, s>> \in stored /\ ~Usable(k, s)
      BY <2>1, <3>1 DEF RequestOK
    <3>3. ~Usable(k, s)'
      BY <1>1, <3>2, BarredForGood
    <3> QED
      BY <3>1, <3>3 DEF Usable
  <2>4. RequestOK(r)'
    BY <2>1, <2>2, <2>3 DEF RequestOK
  <2>5. RowTold(r)'
    BY <2>1 DEF RowTold
  <2> QED
    BY <2>4, <2>5
<1> QED
  BY <1>1, <1>2, <1>3, <1>4 DEF MeterInv

-----------------------------------------------------------------------------
(* Steps of a request.                                                      *)

\* A step of r that leaves its row and everything else of it but its place and
\* response.
LEMMA RequestMoveInv ==
    ASSUME MeterInv, NEW r \in Requests,
           UNCHANGED <<tableVars, drawn, place, op, secret, reply, meterVars, presented,
                       barred, built>>,
           Fault \/ NoFault,
           \/ /\ Proceed(r, "mark") \/ Proceed(r, "quota")
              /\ at[r] \in {"auth", "mark"}
              /\ at[r] = "auth" => Usable(presented[r][1], presented[r][2])
           \/ Proceed(r, "done") /\ at[r] # "idle"
           \/ /\ at[r] # "idle"
              /\ \/ \E a \in {401, 500, 503} : Respond(r, a)
                 \/ at[r] = "finalize" /\ Respond(r, 404)
    PROVE  MeterInv'
<1> USE DEF tableVars, meterVars
<1>1. TypeOK /\ RequestOK(r) /\ RowTold(r) /\ AccountsInv
  BY DEF MeterInv
<1>2. PICK p \in {"mark", "quota", "done"}, a \in {0, 200, 401, 404, 429, 500, 503} :
         /\ \/ Proceed(r, p) /\ a = response[r]
            \/ Respond(r, a) /\ p = "done"
         /\ p \in {"mark", "quota"} =>
               /\ a = response[r] /\ at[r] \in {"auth", "mark"}
               /\ at[r] = "auth" => Usable(presented[r][1], presented[r][2])
         /\ a \in {401, 404, 500, 503} \/ a = response[r]
         /\ at[r] # "idle"
  <2>1. response[r] \in {0, 200, 401, 404, 429, 500, 503}
    BY <1>1, RequestsAreTyped
  <2>2. CASE \E p \in {"mark", "quota", "done"} : Proceed(r, p)
    BY <2>1, <2>2 DEF Proceed
  <2>3. CASE \E a \in {401, 404, 500, 503} : Respond(r, a)
    BY <2>3
  <2> QED
    BY <2>2, <2>3
<1>3. /\ at' \in [Requests -> {"idle", "auth", "mark", "quota", "serve", "finalize", "done"}]
      /\ response' \in [Requests -> {0, 200, 401, 404, 429, 500, 503}]
      /\ at'[r] = p /\ response'[r] = a
      /\ \A e \in Requests : e # r => at'[e] = at[e] /\ response'[e] = response[e]
      /\ window' \in [Requests -> Days]
      /\ \A e \in Requests : e # r => window'[e] = window[e]
      /\ window' = window \/ p = "quota"
  BY <1>1, <1>2, RequestMoves
<1>4. faults' \in Nat
  BY <1>1, MeterFaults
<1>5. AccountsTypeOK'
  BY <1>1, <1>4, FaultsAlone DEF AccountsInv
<1>6. TypeOK'
  BY <1>1, <1>3, <1>5 DEF TypeOK
<1>7. OnlyRequest(r)
  BY <1>3, <1>4 DEF OnlyRequest
<1>8. LedgerMatchesCounter' /\ AdmittedWithinQuota'
  <2>1. window' = window \/ usage[r].key = None
    BY <1>1, <1>2, <1>3 DEF RequestOK, NoUsage
  <2> QED
    BY <1>7, <2>1, LedgerCarries DEF MeterInv, OnlyRequest
<1>9. RequestOK(r)'
  BY <1>1, <1>2, <1>3 DEF RequestOK
<1>10. RowTold(r)'
  BY <1>1, <1>2, <1>3 DEF RowTold
<1> QED
  BY <1>6, <1>7, <1>8, <1>9, <1>10, RequestsCarry

LEMMA ArriveRequestInv ==
    ASSUME MeterInv, NEW r \in Requests, NEW k \in Keys, NEW s \in 0..drawn,
           ArriveRequest(r, k, s)
    PROVE  MeterInv'
<1> USE DEF ArriveRequest, accountVars, meterVars
<1>1. TypeOK /\ RequestOK(r) /\ RowTold(r) /\ AccountsInv /\ drawn \in Nat
  BY DEF MeterInv, TypeOK, AccountsTypeOK
<1>2. /\ at' \in [Requests -> {"idle", "auth", "mark", "quota", "serve", "finalize", "done"}]
      /\ response' = response /\ window' = window /\ at'[r] = "auth"
      /\ \A e \in Requests : e # r => at'[e] = at[e]
  BY <1>1 DEF TypeOK, Proceed
<1>3. /\ presented' \in [Requests -> (Keys \cup {None}) \X Nat]
      /\ presented'[r] = <<k, s>>
      /\ \A e \in Requests : e # r => presented'[e] = presented[e]
  BY <1>1 DEF TypeOK
<1>4. /\ barred' \in [Requests -> BOOLEAN]
      /\ barred'[r] = ~Usable(k, s)
      /\ \A e \in Requests : e # r => barred'[e] = barred[e]
  <2>1. Usable(k, s) \in BOOLEAN
    BY <1>1, RowsAreTyped DEF Usable, TypeOK
  <2> QED
    BY <1>1, <2>1 DEF TypeOK
<1>5. faults' \in Nat
  BY <1>1 DEF TypeOK, AccountsTypeOK
<1>6. AccountsTypeOK'
  BY <1>1, <1>5, FaultsAlone DEF AccountsInv
<1>7. TypeOK'
  BY <1>1, <1>2, <1>3, <1>4, <1>6 DEF TypeOK
<1>8. OnlyRequest(r)
  BY <1>2, <1>3, <1>4, <1>5 DEF OnlyRequest
<1>9. LedgerMatchesCounter' /\ AdmittedWithinQuota'
  BY <1>2, LedgerCarries DEF MeterInv
<1>10. RequestOK(r)'
  <2>1. ~Usable(k, s) => ~Usable(presented[r][1], presented[r][2])'
    <3>1. presented'[r][1] = k /\ presented'[r][2] = s /\ keys' = keys
      BY <1>3
    <3> QED
      BY <3>1 DEF Usable
  <2>2. /\ usage'[r] = NoUsage /\ built'[r] = 0 /\ response'[r] = 0
        /\ presented'[r] \in stored'
    BY <1>1, <1>2, <1>3 DEF RequestOK
  <2> QED
    BY <1>2, <1>3, <1>4, <2>1, <2>2 DEF RequestOK, Usable
<1>11. RowTold(r)'
  <2>1. usage'[r] = NoUsage /\ built'[r] = 0 /\ response'[r] = 0
    BY <1>1, <1>2 DEF RequestOK
  <2> QED
    BY <1>2, <2>1 DEF RowTold, NoUsage, Null
<1> QED
  BY <1>7, <1>8, <1>9, <1>10, <1>11, RequestsCarry

LEMMA AuthenticateInv ==
    ASSUME MeterInv, NEW r \in Requests, Authenticate(r)
    PROVE  MeterInv'
  BY RequestMoveInv DEF Authenticate, StorageError, TransportError

LEMMA MarkUsedInv ==
    ASSUME MeterInv, NEW r \in Requests, MarkUsed(r)
    PROVE  MeterInv'
  BY RequestMoveInv DEF MarkUsed, TransportError

LEMMA KilledInv ==
    ASSUME MeterInv, NEW r \in Requests, Killed(r)
    PROVE  MeterInv'
  BY RequestMoveInv DEF Killed

\* The row is written with the count: one more row under its key and window.
LEMMA ChargeLedger ==
    ASSUME TypeOK, LedgerMatchesCounter, AdmittedWithinQuota,
           NEW r \in Requests, NEW k \in Keys, usage[r] = NoUsage,
           Charge(r, k), UNCHANGED window
    PROVE  LedgerMatchesCounter' /\ AdmittedWithinQuota'
<1> PICK w \in Days : w = window[r] /\ w = window'[r]
  BY DEF TypeOK
<1> DEFINE row == [key |-> k, status |-> IF WithinQuota(r, k) THEN Null ELSE 429,
                   consumed |-> WithinQuota(r, k)]
<1>1. /\ usage' = [usage EXCEPT ![r] = row] /\ counter' = [counter EXCEPT ![k][w] = @ + 1]
      /\ w \in Days /\ counter \in [Keys -> [Days -> Nat]] /\ usage \in [Requests -> UsageRow]
      /\ k # None
  BY AccountsAssumption DEF Charge, TypeOK
<1>2. /\ row.key = k /\ row.consumed = WithinQuota(r, k)
      /\ usage'[r] = row /\ \A e \in Requests : e # r => usage'[e] = usage[e]
  BY <1>1
<1> HIDE DEF row
<1>3. /\ counter'[k][w] = counter[k][w] + 1
      /\ \A j \in Keys, d \in Days : j # k \/ d # w => counter'[j][d] = counter[j][d]
  BY <1>1
<1>4. ASSUME NEW j \in Keys, NEW d \in Days
      PROVE  /\ IsFiniteSet(Rows(j, d)) /\ IsFiniteSet(Admitted(j, d))
             /\ r \notin Rows(j, d) /\ r \notin Admitted(j, d)
             /\ Cardinality(Admitted(j, d)) <= Cardinality(Rows(j, d))
             /\ Cardinality(Admitted(j, d)) \in Nat
  <2>1. Rows(j, d) \subseteq Requests /\ Admitted(j, d) \subseteq Rows(j, d)
    BY DEF Rows, Admitted
  <2>2. r \notin Rows(j, d)
    BY AccountsAssumption DEF Rows, NoUsage
  <2>3. IsFiniteSet(Rows(j, d))
    BY <2>1, FS_Subset, MeteringAssumption
  <2> QED
    BY <2>1, <2>2, <2>3, FS_Subset, FS_CardinalityType
<1>5. /\ Rows(k, w)' = Rows(k, w) \cup {r}
      /\ \A j \in Keys, d \in Days : j # k \/ d # w => Rows(j, d)' = Rows(j, d)
  <2>1. usage'[r].key = k /\ window'[r] = w
    BY <1>2
  <2>2. ASSUME NEW j \in Keys, NEW d \in Days
        PROVE  Rows(j, d)' = Rows(j, d) \cup (IF j = k /\ d = w THEN {r} ELSE {})
    BY <1>2, <1>4, <2>1 DEF Rows
  <2>3. Rows(k, w)' = Rows(k, w) \cup {r}
    BY <1>1, <1>2, <2>1 DEF Rows
  <2> QED
    BY <2>2, <2>3
<1>6. /\ WithinQuota(r, k) => Admitted(k, w)' = Admitted(k, w) \cup {r}
      /\ ~WithinQuota(r, k) => Admitted(k, w)' = Admitted(k, w)
      /\ \A j \in Keys, d \in Days : j # k \/ d # w => Admitted(j, d)' = Admitted(j, d)
  <2>1. usage'[r].consumed = WithinQuota(r, k)
    BY <1>2
  <2>2. ASSUME NEW j \in Keys, NEW d \in Days, j # k \/ d # w
        PROVE  Admitted(j, d)' = Admitted(j, d)
    <3>1. Rows(j, d)' = Rows(j, d) /\ Rows(j, d) \subseteq Requests /\ r \notin Rows(j, d)
      BY <1>4, <1>5, <2>2 DEF Rows
    <3>2. \A e \in Rows(j, d) : usage'[e] = usage[e]
      BY <1>2, <3>1
    <3>3. Admitted(j, d)' = {e \in Rows(j, d)' : usage'[e].consumed}
      BY DEF Admitted
    <3>4. Admitted(j, d)' = {e \in Rows(j, d) : usage[e].consumed}
      BY <3>1, <3>2, <3>3
    <3> QED
      BY <3>4 DEF Admitted
  <2>3. /\ WithinQuota(r, k) => Admitted(k, w)' = Admitted(k, w) \cup {r}
        /\ ~WithinQuota(r, k) => Admitted(k, w)' = Admitted(k, w)
    <3>1. /\ Rows(k, w)' = Rows(k, w) \cup {r}
          /\ Rows(k, w) \subseteq Requests /\ r \notin Rows(k, w)
      BY <1>1, <1>4, <1>5 DEF Rows
    <3>2. \A e \in Rows(k, w) : usage'[e] = usage[e]
      BY <1>2, <3>1
    <3>3. Admitted(k, w)' = {e \in Rows(k, w)' : usage'[e].consumed}
      BY <1>1, <1>2 DEF Admitted, Rows
    <3>4. Admitted(k, w)' = {e \in Rows(k, w) : usage[e].consumed}
                                \cup {e \in {r} : usage'[e].consumed}
      BY <3>1, <3>2, <3>3
    <3> QED
      BY <2>1, <3>4 DEF Admitted
  <2> QED
    BY <2>2, <2>3
<1>7. ASSUME NEW j \in Keys, NEW d \in Days
      PROVE  counter'[j][d] = Cardinality(Rows(j, d)')
  <2>1. counter[j][d] = Cardinality(Rows(j, d))
    BY DEF LedgerMatchesCounter
  <2>2. CASE j = k /\ d = w
    <3>1. Cardinality(Rows(k, w) \cup {r}) = Cardinality(Rows(k, w)) + 1
      BY <1>1, <1>4, FS_AddElement
    <3> QED
      BY <1>3, <1>5, <2>1, <2>2, <3>1
  <2>3. CASE j # k \/ d # w
    BY <1>3, <1>5, <2>1, <2>3
  <2> QED
    BY <2>2, <2>3
<1>8. ASSUME NEW j \in Keys, NEW d \in Days
      PROVE  Cardinality(Admitted(j, d)') <= Quota
  <2>1. Cardinality(Admitted(j, d)) <= Quota
    BY DEF AdmittedWithinQuota
  <2>2. CASE j = k /\ d = w /\ WithinQuota(r, k)
    <3>1. Cardinality(Admitted(k, w) \cup {r}) = Cardinality(Admitted(k, w)) + 1
      BY <1>1, <1>4, FS_AddElement
    <3>2. counter[k][w] = Cardinality(Rows(k, w)) /\ counter[k][w] \in Nat
      BY <1>1 DEF LedgerMatchesCounter
    <3>3. counter[k][w] + 1 <= Quota
      BY <2>2 DEF WithinQuota
    <3>4. /\ Cardinality(Admitted(k, w)) <= Cardinality(Rows(k, w))
          /\ Cardinality(Admitted(k, w)) \in Nat
      BY <1>1, <1>4
    <3>5. Cardinality(Admitted(k, w)) + 1 <= Quota
      BY <3>2, <3>3, <3>4, MeteringAssumption
    <3> QED
      BY <1>6, <2>2, <3>1, <3>5
  <2>3. CASE ~(j = k /\ d = w /\ WithinQuota(r, k))
    BY <1>6, <2>1, <2>3
  <2> QED
    BY <2>2, <2>3
<1> QED
  BY <1>7, <1>8 DEF LedgerMatchesCounter, AdmittedWithinQuota

LEMMA ConsumeInv ==
    ASSUME MeterInv, NEW r \in Requests, Consume(r)
    PROVE  MeterInv'
<1> USE DEF tableVars
<1>1. /\ TypeOK /\ RequestOK(r) /\ RowTold(r) /\ AccountsInv /\ at[r] = "quota"
      /\ LedgerMatchesCounter /\ AdmittedWithinQuota
  BY DEF MeterInv, Consume
<1>2. CASE (StorageError(r) \/ TransportError(r)) /\ UNCHANGED <<counter, usage>>
  BY <1>1, <1>2, RequestMoveInv DEF Consume, StorageError, TransportError, meterVars
<1>3. ASSUME Charge(r, presented[r][1]),
             \/ NoFault /\ WithinQuota(r, presented[r][1]) /\ Proceed(r, "serve")
             \/ NoFault /\ ~WithinQuota(r, presented[r][1]) /\ Respond(r, 429)
             \/ StorageError(r)
             \/ TransportError(r)
      PROVE  MeterInv'
  <2> PICK k \in Keys : k = presented[r][1]
    BY <1>1 DEF RequestOK, AccountsInv, AccountsTypeOK
  <2> DEFINE row == [key |-> k,
                     status |-> IF WithinQuota(r, k) THEN Null ELSE 429,
                     consumed |-> WithinQuota(r, k)]
  <2>1. /\ usage[r] = NoUsage /\ built[r] = 0 /\ response[r] = 0 /\ ~barred[r]
        /\ presented[r] \in stored
    BY <1>1 DEF RequestOK
  <2>2. /\ UNCHANGED <<customers, keys, audit, stored, overtaken, drawn, place, op, secret, reply,
                       day, presented, barred, built>>
        /\ faults' \in Nat
    BY <1>1, <1>3, MeterFaults DEF Consume, StorageError, TransportError
  <2>3. /\ WithinQuota(r, k) \in BOOLEAN /\ row \in UsageRow
        /\ row.key = k /\ row.consumed = WithinQuota(r, k)
        /\ row.status = IF WithinQuota(r, k) THEN Null ELSE 429
    <3>1. WithinQuota(r, k) \in BOOLEAN
      BY <1>1 DEF WithinQuota, TypeOK
    <3> QED
      BY <3>1 DEF UsageRow
  <2>4. /\ usage' = [usage EXCEPT ![r] = row] /\ counter' = [counter EXCEPT ![k][window[r]] = @ + 1]
        /\ usage \in [Requests -> UsageRow] /\ counter \in [Keys -> [Days -> Nat]]
        /\ window[r] \in Days
    BY <1>1, <1>3 DEF Charge, TypeOK
  <2>5. /\ usage' \in [Requests -> UsageRow] /\ usage'[r] = row
        /\ \A e \in Requests : e # r => usage'[e] = usage[e]
    <3> HIDE DEF row
    <3> QED
      BY <2>3, <2>4
  <2>6. counter' \in [Keys -> [Days -> Nat]]
    BY <2>4
  <2>7. PICK p \in {"serve", "done"}, a \in {0, 200, 401, 404, 429, 500, 503} :
           /\ \/ Proceed(r, p) /\ a = response[r]
              \/ Respond(r, a) /\ p = "done"
           /\ p = "serve" => WithinQuota(r, k) /\ a = 0
           /\ a # 200
           /\ a = 429 => ~WithinQuota(r, k)
    <3>1. CASE WithinQuota(r, k) /\ Proceed(r, "serve")
      BY <2>1, <3>1
    <3>2. CASE ~WithinQuota(r, k) /\ Respond(r, 429)
      BY <3>2
    <3>3. CASE Respond(r, 500) \/ Respond(r, 503)
      BY <3>3
    <3> QED
      BY <1>3, <3>1, <3>2, <3>3 DEF StorageError, TransportError
  <2>8. /\ at' \in [Requests -> {"idle", "auth", "mark", "quota", "serve", "finalize", "done"}]
        /\ response' \in [Requests -> {0, 200, 401, 404, 429, 500, 503}]
        /\ at'[r] = p /\ response'[r] = a
        /\ \A e \in Requests : e # r => at'[e] = at[e] /\ response'[e] = response[e]
        /\ window' = window
    BY <1>1, <2>7, RequestMoves
  <2> HIDE DEF row
  <2>9. AccountsTypeOK'
    BY <1>1, <2>2, FaultsAlone DEF AccountsInv
  <2>10. TypeOK'
    BY <1>1, <2>2, <2>5, <2>6, <2>8, <2>9 DEF TypeOK
  <2>11. OnlyRequest(r)
    BY <2>2, <2>5, <2>8 DEF OnlyRequest
  <2>12. LedgerMatchesCounter' /\ AdmittedWithinQuota'
    BY <1>1, <1>3, <2>1, <2>8, ChargeLedger
  <2>13. RequestOK(r)'
    BY <2>1, <2>2, <2>3, <2>5, <2>7, <2>8 DEF RequestOK
  <2>14. RowTold(r)'
    <3>1. usage'[r].key = presented'[r][1] /\ usage'[r].consumed = WithinQuota(r, k)
      BY <2>2, <2>3, <2>5
    <3>2. usage'[r].status = IF WithinQuota(r, k) THEN Null ELSE 429
      BY <2>3, <2>5
    <3>3. built'[r] = 0 /\ ~barred'[r]
      BY <2>1, <2>2
    <3> QED
      BY <2>3, <2>7, <2>8, <3>1, <3>2, <3>3 DEF RowTold, Null
  <2> QED
    BY <2>10, <2>11, <2>12, <2>13, <2>14, RequestsCarry
<1> QED
  BY <1>2, <1>3 DEF Consume

LEMMA ServeInv ==
    ASSUME MeterInv, NEW r \in Requests, Serve(r)
    PROVE  MeterInv'
<1> USE DEF accountVars, meterVars
<1>1. TypeOK /\ RequestOK(r) /\ RowTold(r) /\ AccountsInv /\ at[r] = "serve"
  BY DEF MeterInv, Serve
<1>2. PICK p \in {"finalize", "done"}, a \in {0, 200, 500}, b \in {0, 200, 404} :
         /\ \/ Proceed(r, p) /\ a = response[r]
            \/ Respond(r, a) /\ p = "done"
         /\ built' = [built EXCEPT ![r] = b]
         /\ p = "finalize" <=> b = 404
         /\ p = "finalize" <=> a = 0
  <2>1. built[r] = 0 /\ response[r] = 0 /\ built \in [Requests -> {0, 200, 404}]
    BY <1>1 DEF RequestOK, TypeOK
  <2>2. CASE Respond(r, 200) /\ built' = [built EXCEPT ![r] = 200]
    BY <2>2
  <2>3. CASE Proceed(r, "finalize") /\ built' = [built EXCEPT ![r] = 404]
    BY <2>1, <2>3
  <2>4. CASE Respond(r, 500) /\ UNCHANGED built
    <3>1. built' = [built EXCEPT ![r] = 0] /\ Respond(r, 500)
      BY <2>1, <2>4
    <3> QED
      BY <3>1
  <2> QED
    BY <2>2, <2>3, <2>4 DEF Serve
<1>3. /\ at' \in [Requests -> {"idle", "auth", "mark", "quota", "serve", "finalize", "done"}]
      /\ response' \in [Requests -> {0, 200, 401, 404, 429, 500, 503}]
      /\ at'[r] = p /\ response'[r] = a
      /\ \A e \in Requests : e # r => at'[e] = at[e] /\ response'[e] = response[e]
      /\ window' = window
  BY <1>1, <1>2, RequestMoves
<1>4. /\ built' \in [Requests -> {0, 200, 404}] /\ built'[r] = b
      /\ \A e \in Requests : e # r => built'[e] = built[e]
  BY <1>1, <1>2 DEF TypeOK
<1>5. UNCHANGED <<accountVars, meterVars, presented, barred>> /\ faults' \in Nat
  BY <1>1 DEF Serve, TypeOK, AccountsTypeOK
<1>6. AccountsTypeOK'
  BY <1>1, <1>5, FaultsAlone DEF AccountsInv
<1>7. TypeOK'
  BY <1>1, <1>3, <1>4, <1>5, <1>6 DEF TypeOK
<1>8. OnlyRequest(r)
  BY <1>3, <1>4, <1>5 DEF OnlyRequest
<1>9. LedgerMatchesCounter' /\ AdmittedWithinQuota'
  BY <1>3, <1>5, LedgerCarries DEF MeterInv
<1>10. RequestOK(r)'
  BY <1>1, <1>2, <1>3, <1>4, <1>5 DEF RequestOK
<1>11. RowTold(r)'
  BY <1>1, <1>2, <1>3, <1>4, <1>5 DEF RowTold, RequestOK, Null
<1> QED
  BY <1>7, <1>8, <1>9, <1>10, <1>11, RequestsCarry

LEMMA FinalizeInv ==
    ASSUME MeterInv, NEW r \in Requests, Finalize(r)
    PROVE  MeterInv'
<1> USE DEF tableVars
<1>1. TypeOK /\ RequestOK(r) /\ RowTold(r) /\ AccountsInv /\ at[r] = "finalize" /\ built[r] = 404
  BY DEF MeterInv, Finalize, RequestOK
<1>2. Fault \/ NoFault
  BY DEF Finalize, TransportError
<1>3. PICK a \in {404, 500} : Respond(r, a)
  BY <1>1 DEF Finalize, TransportError
<1>4. /\ UNCHANGED <<customers, keys, audit, stored, overtaken, drawn, place, op, secret, reply,
                     day, counter, presented, barred, built>>
      /\ faults' \in Nat
  BY <1>1, <1>2, MeterFaults DEF Finalize
<1>5. CASE UNCHANGED usage
  BY <1>1, <1>2, <1>3, <1>4, <1>5, RequestMoveInv DEF meterVars
<1>6. CASE SetStatus(r)
  <2> DEFINE row == [usage[r] EXCEPT !.status = 404]
  <2>1. usage[r] \in UsageRow /\ usage[r].status = Null
    BY <1>1, RequestsAreTyped DEF RequestOK
  <2>2. /\ row \in UsageRow /\ row.status = 404 /\ row.key = usage[r].key
        /\ row.consumed = usage[r].consumed
    BY <2>1 DEF UsageRow
  <2>3. usage' = [usage EXCEPT ![r] = row] /\ usage \in [Requests -> UsageRow]
    BY <1>1, <1>6, <2>1 DEF SetStatus, TypeOK
  <2> HIDE DEF row
  <2>4. /\ usage' \in [Requests -> UsageRow] /\ usage'[r] = row
        /\ \A e \in Requests : e # r => usage'[e] = usage[e]
    BY <2>2, <2>3
  <2>5. /\ at' \in [Requests -> {"idle", "auth", "mark", "quota", "serve", "finalize", "done"}]
        /\ response' \in [Requests -> {0, 200, 401, 404, 429, 500, 503}]
        /\ at'[r] = "done" /\ response'[r] = a
        /\ \A e \in Requests : e # r => at'[e] = at[e] /\ response'[e] = response[e]
        /\ window' = window
    BY <1>1, <1>3, RequestMoves
  <2>6. AccountsTypeOK'
    BY <1>1, <1>4, FaultsAlone DEF AccountsInv
  <2>7. TypeOK'
    BY <1>1, <1>4, <2>4, <2>5, <2>6 DEF TypeOK
  <2>8. OnlyRequest(r)
    BY <1>4, <2>4, <2>5 DEF OnlyRequest
  <2>9. LedgerMatchesCounter' /\ AdmittedWithinQuota'
    <3>1. \A e \in Requests : /\ usage'[e].key = usage[e].key
                              /\ usage'[e].consumed = usage[e].consumed
      BY <2>2, <2>4
    <3> QED
      BY <1>4, <2>5, <3>1, LedgerCarries DEF MeterInv
  <2>10. RequestOK(r)'
    BY <1>1, <1>4, <2>5 DEF RequestOK
  <2>11. RowTold(r)'
    BY <1>1, <1>3, <1>4, <2>2, <2>4, <2>5 DEF RowTold, Null
  <2> QED
    BY <2>7, <2>8, <2>9, <2>10, <2>11, RequestsCarry
<1> QED
  BY <1>5, <1>6 DEF Finalize

LEMMA NextDayInv ==
    ASSUME MeterInv, NextDay
    PROVE  MeterInv'
<1> USE DEF NextDay, accountVars, requestVars
<1>1. AccountsInv /\ TypeOK
  BY DEF MeterInv
<1>2. AccountsInv'
  BY <1>1, FaultsAlone DEF TypeOK, AccountsTypeOK
<1>3. TypeOK'
  <2>1. day' \in Days
    BY <1>1, MeteringAssumption DEF TypeOK, Days
  <2> QED
    BY <1>1, <1>2, <2>1 DEF TypeOK, AccountsInv
<1>4. LedgerMatchesCounter' /\ AdmittedWithinQuota'
  BY LedgerCarries DEF MeterInv
<1>5. ASSUME NEW r \in Requests PROVE RequestOK(r)' /\ RowTold(r)'
  <2>1. RequestOK(r) /\ RowTold(r)
    BY DEF MeterInv
  <2> QED
    BY <2>1 DEF RequestOK, RowTold, Usable
<1> QED
  BY <1>2, <1>3, <1>4, <1>5 DEF MeterInv

LEMMA MeterStutters ==
    ASSUME MeterInv, UNCHANGED vars
    PROVE  MeterInv'
<1> USE DEF vars
<1>1. AccountsInv'
  BY FaultsAlone DEF MeterInv, TypeOK, AccountsTypeOK
<1>2. TypeOK'
  BY <1>1 DEF MeterInv, TypeOK, AccountsInv
<1>3. LedgerMatchesCounter' /\ AdmittedWithinQuota'
  BY LedgerCarries DEF MeterInv
<1>4. ASSUME NEW r \in Requests PROVE RequestOK(r)' /\ RowTold(r)'
  <2>1. RequestOK(r) /\ RowTold(r)
    BY DEF MeterInv
  <2> QED
    BY <2>1 DEF RequestOK, RowTold, Usable
<1> QED
  BY <1>1, <1>2, <1>3, <1>4 DEF MeterInv

-----------------------------------------------------------------------------

\* The inductive invariant of metering.
THEOREM MeteringInvariant == Spec => []MeterInv
<1>1. ASSUME MeterInv, Next PROVE MeterInv'
  <2>1. ASSUME NEW r \in Requests, RequestStep(r) PROVE MeterInv'
    BY <1>1, <2>1, ArriveRequestInv, AuthenticateInv, MarkUsedInv, ConsumeInv, ServeInv,
       FinalizeInv, KilledInv DEF RequestStep
  <2>2. CASE AccountsNext /\ UNCHANGED <<meterVars, requestVars>>
    BY <1>1, <2>2, AccountsStepInv DEF AccountsNext
  <2> QED
    BY <1>1, <2>1, <2>2, NextDayInv DEF Next
<1>2. MeterInv /\ [Next]_vars => MeterInv'
  BY <1>1, MeterStutters
<1> QED
  BY MeterInit, <1>2, PTL DEF Spec

\* Type correctness, for any keys, calls, requests, quota and days.
THEOREM MeteringTypeCorrect == Spec => []TypeOK
<1>1. MeterInv => TypeOK
  BY DEF MeterInv
<1> QED
  BY MeteringInvariant, <1>1, PTL

\* No key is admitted beyond its quota in a window, whatever overlaps or is lost.
THEOREM QuotaHolds == Spec => []AdmittedWithinQuota
<1>1. MeterInv => AdmittedWithinQuota
  BY DEF MeterInv
<1> QED
  BY MeteringInvariant, <1>1, PTL

\* The counter of a key and window is the number of ledger rows of the key
\* whose requests were charged in the window, on whichever day they were written.
THEOREM LedgerAgrees == Spec => []LedgerMatchesCounter
<1>1. MeterInv => LedgerMatchesCounter
  BY DEF MeterInv
<1> QED
  BY MeteringInvariant, <1>1, PTL

\* The route runs only for a request billed to the key it presented.
THEOREM NothingServedUnbilled == Spec => []ServedIsBilled
<1>1. MeterInv => ServedIsBilled
  BY DEF MeterInv, RowTold, ServedIsBilled
<1> QED
  BY MeteringInvariant, <1>1, PTL

\* The ledger never contradicts the response the caller got.
THEOREM LedgerIsTruthful == Spec => []LedgerTellsTheOutcome
<1>1. MeterInv => LedgerTellsTheOutcome
  BY DEF MeterInv, RowTold, LedgerTellsTheOutcome
<1> QED
  BY MeteringInvariant, <1>1, PTL

\* A key revoked, or a secret replaced, before a request arrived is never
\* admitted and gets nothing from the route.
THEOREM BarredStayOut == Spec => []BarredKeysStayOut
<1>1. MeterInv => BarredKeysStayOut
  BY DEF MeterInv, RowTold, BarredKeysStayOut
<1> QED
  BY MeteringInvariant, <1>1, PTL

=============================================================================
