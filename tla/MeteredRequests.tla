-------------------------- MODULE MeteredRequests --------------------------
(***************************************************************************)
(* Valuation requests behind an API key and a daily quota: the _request_id *)
(* middleware of app/api.py, SupabaseAPIKeyAuthenticator, and the metering *)
(* functions of supabase/migrations/005_p3_metered_quota.sql, while        *)
(* customers change their keys (Accounts).                                 *)
(*                                                                         *)
(* A database access ends in one of three ways: it answers; it answers an  *)
(* HTTP error or something unusable, which the client raises as            *)
(* SupabaseError; or it ends in a transport error (a timeout, a lost       *)
(* connection), which is an exception of httpx and no SupabaseError.       *)
(* After an error it may have taken effect or not.  Of what the valuation  *)
(* route computes only the status is kept: 200, or a mapped error, for     *)
(* which 404 stands.                                                       *)
(***************************************************************************)
EXTENDS Accounts

CONSTANTS
    Requests,   \* valuation requests; each has a request_id of its own
    Quota,      \* daily_quota of a key
    MaxDay      \* bound: last UTC day of the observation

ASSUME MeteringAssumption ==
    /\ IsFiniteSet(Requests)
    /\ Quota \in Nat \ {0}
    /\ MaxDay \in Nat

VARIABLES
    day,        \* the UTC day
    counter,    \* daily_quota_counters, per key and day
    usage,      \* usage_events, per request
    at,         \* where each request is
    presented,  \* the <<key, secret>> it presents
    window,     \* the UTC date its metering call was sent with
    barred,     \* history: its key was revoked or replaced when it arrived
    built,      \* the status the middleware has built a response with, 0 if none
    response    \* the status the caller got, 0 if none

meterVars == <<day, counter, usage>>
requestVars == <<at, presented, window, barred, built, response>>
vars == <<customers, keys, audit, stored, overtaken, drawn, place, op, secret, reply, faults,
          day, counter, usage, at, presented, window, barred, built, response>>

Days == 0..MaxDay

\* usage_events.status_code: NULL is an admitted request whose status nobody
\* recorded.
Null == 0
\* recorded_at, the database's clock, decides nothing and is left out.
UsageRow == [key : Keys \cup {None}, status : {Null, 404, 429}, consumed : BOOLEAN]
NoUsage == [key |-> None, status |-> Null, consumed |-> FALSE]

\* The rows of a key by the window their requests were charged in: no column
\* says so, a row on either side of midnight may belong to either day.
Rows(k, d) == {r \in Requests : usage[r].key = k /\ window[r] = d}
Admitted(k, d) == {r \in Rows(k, d) : usage[r].consumed}

Init ==
    /\ AccountsInit
    /\ day = 0
    /\ counter = [k \in Keys |-> [d \in Days |-> 0]]
    /\ usage = [r \in Requests |-> NoUsage]
    /\ at = [r \in Requests |-> "idle"]
    /\ presented = [r \in Requests |-> <<None, 0>>]
    /\ window = [r \in Requests |-> 0]
    /\ barred = [r \in Requests |-> FALSE]
    /\ built = [r \in Requests |-> 0]
    /\ response = [r \in Requests |-> 0]

-----------------------------------------------------------------------------
(* Steps of a request.                                                      *)

\* The metering call is sent with the UTC date its client reads first; the
\* database may execute it after midnight.
Proceed(r, where) ==
    /\ at' = [at EXCEPT ![r] = where]
    /\ window' = IF where = "quota" THEN [window EXCEPT ![r] = day] ELSE window
    /\ UNCHANGED response

Respond(r, status) ==
    /\ at' = [at EXCEPT ![r] = "done"]
    /\ response' = [response EXCEPT ![r] = status]
    /\ UNCHANGED window

\* An httpx exception is caught by nobody: the platform answers 500.
TransportError(r) == Fault /\ Respond(r, 500)

\* A SupabaseError in front of the route fails closed.
StorageError(r) == Fault /\ Respond(r, 503)

Usable(k, s) == keys[k].owner # None /\ keys[k].secret = s /\ ~keys[k].revoked

\* A request arrives with a key its customer was once handed.
ArriveRequest(r, k, s) ==
    /\ at[r] = "idle"
    /\ <<k, s>> \in stored
    /\ presented' = [presented EXCEPT ![r] = <<k, s>>]
    /\ barred' = [barred EXCEPT ![r] = ~Usable(k, s)]
    /\ Proceed(r, "auth")
    /\ UNCHANGED <<accountVars, meterVars, built>>

\* Faulty variant: a revoked key is refused, a replaced secret is not.
AuthenticateByPrefix(r) ==
    /\ at[r] = "auth"
    /\ \/ /\ NoFault
          /\ IF keys[presented[r][1]].revoked
             THEN Respond(r, 401)
             ELSE Proceed(r, "mark") \/ Proceed(r, "quota")
       \/ StorageError(r) \/ TransportError(r)
    /\ UNCHANGED <<tableVars, drawn, place, op, secret, reply, meterVars, presented,
                   barred, built>>

\* authenticate: one row decides, and a lookup answered 4xx reads as no row.
\* The first use of a key in an interval is also recorded on it.
Authenticate(r) ==
    /\ at[r] = "auth"
    /\ \/ /\ NoFault
          /\ IF Usable(presented[r][1], presented[r][2])
             THEN Proceed(r, "mark") \/ Proceed(r, "quota")
             ELSE Respond(r, 401)
       \/ Fault /\ Respond(r, 401)
       \/ StorageError(r)
       \/ TransportError(r)
    /\ UNCHANGED <<tableVars, drawn, place, op, secret, reply, meterVars, presented,
                   barred, built>>

\* mark_key_used: only a SupabaseError is suppressed.
MarkUsed(r) ==
    /\ at[r] = "mark"
    /\ \/ Proceed(r, "quota") /\ (NoFault \/ Fault)
       \/ TransportError(r)
    /\ UNCHANGED <<tableVars, drawn, place, op, secret, reply, meterVars, presented,
                   barred, built>>

\* Faulty variants: the decision on the count before this request; no row for
\* a rejected request; a row that does not say it was rejected.
WithinQuotaBefore(r, k) == counter[k][window[r]] <= Quota
ChargeAdmitted(r, k) ==
    /\ counter' = [counter EXCEPT ![k][window[r]] = @ + 1]
    /\ usage' = [usage EXCEPT ![r] =
           IF counter[k][window[r]] < Quota
           THEN [key |-> k, status |-> Null, consumed |-> TRUE]
           ELSE @]
ChargeUnmarked(r, k) ==
    /\ counter' = [counter EXCEPT ![k][window[r]] = @ + 1]
    /\ usage' = [usage EXCEPT ![r] =
           [key |-> k, status |-> Null, consumed |-> counter[k][window[r]] < Quota]]

\* The decision is made on the incremented count of the request's window.
WithinQuota(r, k) == counter[k][window[r]] + 1 <= Quota

\* consume_daily_quota_and_record: the count and the row, in one transaction.
Charge(r, k) ==
    /\ counter' = [counter EXCEPT ![k][window[r]] = @ + 1]
    /\ usage' = [usage EXCEPT ![r] =
           [key |-> k,
            status |-> IF WithinQuota(r, k) THEN Null ELSE 429,
            consumed |-> WithinQuota(r, k)]]

\* Faulty variant: a metering call that fails lets the request pass.
ConsumeFailOpen(r) ==
    LET k == presented[r][1] IN
    /\ at[r] = "quota"
    /\ \/ /\ Charge(r, k)
          /\ NoFault
          /\ IF WithinQuota(r, k) THEN Proceed(r, "serve") ELSE Respond(r, 429)
       \/ Fault /\ Proceed(r, "serve") /\ UNCHANGED <<counter, usage>>
    /\ UNCHANGED <<tableVars, drawn, place, op, secret, reply, day, presented, barred, built>>

\* The quota stage: admitted, over quota, or the metering call went wrong -
\* and then the request is refused although it may have been charged.
Consume(r) ==
    LET k == presented[r][1] IN
    /\ at[r] = "quota"
    /\ \/ /\ Charge(r, k)
          /\ \/ NoFault /\ WithinQuota(r, k) /\ Proceed(r, "serve")
             \/ NoFault /\ ~WithinQuota(r, k) /\ Respond(r, 429)
             \/ StorageError(r)
             \/ TransportError(r)
       \/ (StorageError(r) \/ TransportError(r)) /\ UNCHANGED <<counter, usage>>
    /\ UNCHANGED <<tableVars, drawn, place, op, secret, reply, day, presented, barred, built>>

\* call_next: the route answers 200 or a mapped error, or an exception nobody
\* maps leaves the middleware.
Serve(r) ==
    /\ at[r] = "serve"
    /\ \/ Respond(r, 200) /\ built' = [built EXCEPT ![r] = 200]
       \/ Proceed(r, "finalize") /\ built' = [built EXCEPT ![r] = 404]
       \/ Respond(r, 500) /\ UNCHANGED built
    /\ UNCHANGED <<accountVars, meterVars, presented, barred>>

\* finalize_usage_event: the status of this request's row, if it has none.
SetStatus(r) ==
    usage' = [usage EXCEPT ![r].status = IF @ = Null THEN built[r] ELSE @]

\* Only a SupabaseError of the correction is suppressed.
Finalize(r) ==
    /\ at[r] = "finalize"
    /\ \/ SetStatus(r) /\ NoFault /\ Respond(r, built[r])
       \/ /\ SetStatus(r) \/ UNCHANGED usage
          /\ (Fault /\ Respond(r, built[r])) \/ TransportError(r)
    /\ UNCHANGED <<tableVars, drawn, place, op, secret, reply, day, counter, presented,
                   barred, built>>

\* The instance is killed: the caller gets no response.
Killed(r) ==
    /\ at[r] \notin {"idle", "done"}
    /\ Fault
    /\ Proceed(r, "done")
    /\ UNCHANGED <<tableVars, drawn, place, op, secret, reply, meterVars, presented,
                   barred, built>>

RequestStep(r) ==
    \/ \E k \in Keys, s \in 0..drawn : ArriveRequest(r, k, s)
    \/ Authenticate(r)
    \/ MarkUsed(r)
    \/ Consume(r)
    \/ Serve(r)
    \/ Finalize(r)
    \/ Killed(r)

\* Midnight UTC.
NextDay ==
    /\ day < MaxDay
    /\ day' = day + 1
    /\ UNCHANGED <<accountVars, counter, usage, requestVars>>

Next ==
    \/ AccountsNext /\ UNCHANGED <<meterVars, requestVars>>
    \/ \E r \in Requests : RequestStep(r)
    \/ NextDay

Spec == Init /\ [][Next]_vars

-----------------------------------------------------------------------------

TypeOK ==
    /\ AccountsTypeOK
    /\ day \in Days
    /\ counter \in [Keys -> [Days -> Nat]]
    /\ usage \in [Requests -> UsageRow]
    /\ at \in [Requests -> {"idle", "auth", "mark", "quota", "serve", "finalize", "done"}]
    /\ presented \in [Requests -> (Keys \cup {None}) \X Nat]
    /\ window \in [Requests -> Days]
    /\ barred \in [Requests -> BOOLEAN]
    /\ built \in [Requests -> {0, 200, 404}]
    /\ response \in [Requests -> {0, 200, 401, 404, 429, 500, 503}]

\* A key is never admitted in a window more often than its daily quota, however
\* its requests overlap, on whichever side of midnight they are executed, and
\* whatever becomes of them or of the key's secret.
AdmittedWithinQuota ==
    \A k \in Keys, d \in Days : Cardinality(Admitted(k, d)) <= Quota

\* 005 migration: "billing and the ledger cannot disagree" - every increment
\* of the counter has the row of a request that was charged in its window,
\* rejected requests and lost replies included, also when the transaction is
\* executed on the day after the window.
LedgerMatchesCounter ==
    \A k \in Keys, d \in Days : counter[k][d] = Cardinality(Rows(k, d))

\* api.py: "never serve a valuation we couldn't meter" - the route runs only
\* for a request the ledger shows as billed to the key it presented.
ServedIsBilled ==
    \A r \in Requests :
        at[r] = "serve" \/ built[r] # 0 =>
            usage[r].consumed /\ usage[r].key = presented[r][1]

\* 005 migration: the ledger's status is the caller's, where it says one; an
\* admitted row without a status is a 200 or a request that died.
LedgerTellsTheOutcome ==
    \A r \in Requests :
        /\ response[r] = 429 => usage[r].status = 429
        /\ response[r] = 200 => usage[r].status = Null
        /\ usage[r].status = 404 => built[r] = 404
        /\ usage[r].consumed => usage[r].status # 429

\* A revoked key, or a secret that was replaced, before the request arrived
\* buys nothing: neither an admission nor an answer from the route.
BarredKeysStayOut ==
    \A r \in Requests : barred[r] => ~usage[r].consumed /\ built[r] = 0

\* api.py: "the response is already built and the request is already billed,
\* so a failed correction must not change what the caller gets".
BuiltResponseStands ==
    \A r \in Requests : built[r] # 0 /\ response[r] # 0 => response[r] = built[r]

=============================================================================
