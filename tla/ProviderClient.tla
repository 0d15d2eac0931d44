---------------------------- MODULE ProviderClient ----------------------------
(***************************************************************************)
(* The statement provider's client (app/providers/fmp.py): one ticker's    *)
(* endpoints are requested at once, through a semaphore shared by every    *)
(* fetch of the instance, each request with its own retries, while the     *)
(* provider goes on publishing to one endpoint after another.              *)
(*                                                                         *)
(* A fetch is fetch_fundamentals followed by normalize_fmp_fundamentals,   *)
(* which run without an await between the last answer and the outcome.     *)
(* asyncio.gather hands the first failure to the fetch and lets the other  *)
(* requests run on.  A request that succeeds also hands its payload to the *)
(* raw sink, whose failures are suppressed and change nothing here.        *)
(***************************************************************************)
EXTENDS StatementSelection

CONSTANTS
    Fetches,     \* calls of fetch_fundamentals for the ticker
    Lookups,     \* calls of fetch_profile on the same client
    Slots,       \* provider_concurrency
    MaxRetries,  \* retries after the first attempt of a request
    Limit,       \* STATEMENT_FETCH_LIMIT: records of a list an answer holds
    Shapes,      \* kinds of records the provider publishes
    Histories,   \* shapes an endpoint may have published at first, newest first
    Profiles,    \* company profiles
    MaxChanges,  \* bound: what the provider publishes or restates
    MaxFaults    \* bound: answers that are not a payload

Endpoints == Statements \cup {"profile"}

Calls == (Fetches \X Endpoints) \cup (Lookups \X {"profile"})

ASSUME ClientAssumption ==
    /\ Slots \in Nat \ {0}
    /\ MaxRetries \in Nat
    /\ Limit \in Nat \ {0}
    /\ MaxChanges \in Nat
    /\ MaxFaults \in Nat
    /\ Fetches \cap Lookups = {}
    /\ Statements # {} /\ IsFiniteSet(Statements) /\ "profile" \notin Statements
    /\ Shapes \subseteq [annual : BOOLEAN, year : 0..2, currency : STRING, sound : BOOLEAN]
    /\ Histories \subseteq Seq(Shapes)

VARIABLES
    filed,    \* provider: the records of each endpoint, newest first
    profile,  \* provider: the company's profile
    changes,  \* provider: what it published or restated so far
    call,     \* each request: the await it is at, its attempt, its payload
    fetch,    \* each fetch: not begun, running, or how it ended
    free,     \* slots of the semaphore
    faults,   \* answers that were not a payload
    owed,     \* history: what could be selected when the fetch began
    known     \* history: the newest annual date listed when the fetch began

providerVars == <<filed, profile, changes>>
clientVars   == <<call, fetch, free, faults>>
begun        == <<owed, known>>
vars         == <<providerVars, clientVars, begun>>

Ready   == Refused("ready")
Running == Refused("running")

Unasked == [at |-> "none", attempt |-> 0, payload |-> <<>>]

Rejections == {"ticker_not_found", "ticker_not_covered", "unsupported_sector"}

Answered(s) == SubSeq(filed[s], 1, IF Len(filed[s]) < Limit THEN Len(filed[s]) ELSE Limit)

Newest(dates) == IF dates = {} THEN 0 ELSE Max(dates)

(* A shape leaves the fiscal year out, names it, or names the next one. *)
Record(shape, date, accepted) ==
    [annual |-> shape.annual, date |-> date,
     year |-> IF shape.year = 0 THEN NoYear ELSE date + shape.year - 1,
     currency |-> shape.currency, sound |-> shape.sound, accepted |-> accepted]

(* Periods are numbered from the first on. *)
Listed(shapes) ==
    [i \in DOMAIN shapes |-> Record(shapes[i], Len(shapes) - i + 1, 1)]

Init ==
    /\ filed \in [Statements -> {Listed(history) : history \in Histories}]
    /\ \A s, t \in Statements : Len(filed[s]) <= Len(filed[t]) + 1
    /\ profile \in Profiles
    /\ changes = 0
    /\ call = [c \in Calls |-> Unasked]
    /\ fetch = [f \in Fetches \cup Lookups |-> Ready]
    /\ free = Slots
    /\ faults = 0
    /\ owed = [f \in Fetches |-> Ready]
    /\ known = [f \in Fetches |-> 0]

-----------------------------------------------------------------------------
(* The provider *)

NewestFiled(s) == IF filed[s] = <<>> THEN 0 ELSE filed[s][1].date

Change ==
    /\ changes < MaxChanges
    /\ changes' = changes + 1

(* Statements of a period appear one endpoint after another. *)
Publish(s, shape) ==
    LET date == NewestFiled(s) + 1
    IN  /\ Change
        /\ \A t \in Statements : NewestFiled(t) >= date - 1
        /\ filed' = [filed EXCEPT ![s] = <<Record(shape, date, 1)>> \o @]
        /\ UNCHANGED <<profile, clientVars, begun>>

(* A restatement of the newest period, listed before or after the original. *)
Restated == \E s \in Statements : \E i \in DOMAIN filed[s] : filed[s][i].accepted > 1

Restate(s) ==
    /\ Change
    /\ ~ Restated
    /\ filed[s] # <<>>
    /\ LET again == [filed[s][1] EXCEPT !.accepted = 2]
       IN  \E place \in {0, 1} :
              filed' = [filed EXCEPT ![s] =
                          SubSeq(@, 1, place) \o <<again>> \o SubSeq(@, place + 1, Len(@))]
    /\ UNCHANGED <<profile, clientVars, begun>>

-----------------------------------------------------------------------------
(* The client *)

Fail(f, kind) == fetch' = [fetch EXCEPT ![f] = IF @ = Running THEN Refused(kind) ELSE @]

Move(c, at) == call' = [call EXCEPT ![c].at = at]

(* fetch_fundamentals, up to the gather.  A cached profile saves its call. *)
Begin(f, override) ==
    /\ fetch[f] = Ready
    /\ fetch' = [fetch EXCEPT ![f] = Running]
    /\ call' = [c \in Calls |->
                  IF c[1] # f THEN call[c]
                  ELSE IF c[2] = "profile" /\ override
                  THEN [Unasked EXCEPT !.at = "done"]
                  ELSE [Unasked EXCEPT !.at = "queued"]]
    /\ LET lists == [s \in Statements |-> Answered(s)]
           valid == ValidDates(lists, profile)
       IN  /\ owed' = [owed EXCEPT ![f] =
                         IF valid = {} THEN Ready ELSE Selected(lists, Max(valid))]
           /\ known' = [known EXCEPT ![f] =
                          Newest(UNION {AnnualDates(lists[s]) : s \in Statements})]
    /\ UNCHANGED <<providerVars, free, faults>>

(* fetch_profile. *)
LookUp(f) ==
    /\ fetch[f] = Ready
    /\ fetch' = [fetch EXCEPT ![f] = Running]
    /\ Move(<<f, "profile">>, "queued")
    /\ UNCHANGED <<providerVars, free, faults, begun>>

(* A slot of the semaphore is taken for the time of one HTTP request. *)
Send(c) ==
    /\ call[c].at = "queued"
    /\ free > 0
    /\ free' = free - 1
    /\ Move(c, "sent")
    /\ UNCHANGED <<providerVars, fetch, faults, begun>>

(* A payload; it is dropped when its fetch has failed already. *)
Payload(c) ==
    /\ call[c].at = "sent"
    /\ free' = free + 1
    /\ call' = [call EXCEPT ![c].at = "done",
                            ![c].payload = IF c[2] \in Statements /\ fetch[c[1]] = Running
                                           THEN Answered(c[2]) ELSE <<>>]
    /\ UNCHANGED <<providerVars, fetch, faults, begun>>

(* Faulty variant: a request that fails keeps its slot. *)
TransientKeepingSlot(c) ==
    /\ call[c].at = "sent"
    /\ faults < MaxFaults
    /\ faults' = faults + 1
    /\ IF call[c].attempt < MaxRetries
       THEN Move(c, "asleep") /\ UNCHANGED fetch
       ELSE Move(c, "failed") /\ Fail(c[1], "provider_error")
    /\ UNCHANGED <<providerVars, free, begun>>

(* A transport error, 429 or 5xx: after a delay the request is repeated, as *)
(* often as retries are left.                                               *)
Transient(c) ==
    /\ call[c].at = "sent"
    /\ faults < MaxFaults
    /\ faults' = faults + 1
    /\ free' = free + 1
    /\ IF call[c].attempt < MaxRetries
       THEN Move(c, "asleep") /\ UNCHANGED fetch
       ELSE Move(c, "failed") /\ Fail(c[1], "provider_error")
    /\ UNCHANGED <<providerVars, begun>>

Refusals == {"ticker_not_found", "ticker_not_covered", "provider_error", "unmapped"}

(* Answers that are not repeated: the symbol is unknown (404) or outside    *)
(* the plan (402); the key is rejected, the status unsupported or the body  *)
(* not JSON; or it is one the client has no error of its own for: a         *)
(* redirect, or a body that cannot be decoded, raise through it.            *)
Final(c, kind) ==
    /\ call[c].at = "sent"
    /\ faults < MaxFaults
    /\ faults' = faults + 1
    /\ free' = free + 1
    /\ Move(c, kind)
    /\ Fail(c[1], kind)
    /\ UNCHANGED <<providerVars, begun>>

(* The delay ends.  It was slept outside the semaphore. *)
Wake(c) ==
    /\ call[c].at = "asleep"
    /\ call' = [call EXCEPT ![c].at = "queued", ![c].attempt = @ + 1]
    /\ UNCHANGED <<providerVars, fetch, free, faults, begun>>

(* The gather returns: payloads are looked at in the order of the endpoints *)
(* (an empty list means an unknown ticker), then normalized.                *)
Collect(f) ==
    /\ fetch[f] = Running
    /\ \A e \in Endpoints : call[<<f, e>>].at = "done"
    /\ LET lists == [s \in Statements |-> call[<<f, s>>].payload]
       IN  fetch' = [fetch EXCEPT ![f] =
                       IF \E s \in Statements : lists[s] = <<>>
                       THEN Refused("ticker_not_found")
                       ELSE Normalize(lists, profile)]
    /\ call' = [c \in Calls |-> IF c[1] = f THEN Unasked ELSE call[c]]
    /\ UNCHANGED <<providerVars, free, faults, begun>>

LookedUp(f) ==
    /\ fetch[f] = Running
    /\ call[<<f, "profile">>].at = "done"
    /\ fetch' = [fetch EXCEPT ![f] = Outcome("ok", 0, 0, FALSE)]
    /\ UNCHANGED <<providerVars, call, free, faults, begun>>

CallStep(c) ==
    \/ Send(c)
    \/ Payload(c)
    \/ Transient(c)
    \/ \E kind \in Refusals : Final(c, kind)
    \/ Wake(c)

ClientStep ==
    \/ \E c \in Calls : CallStep(c)
    \/ \E f \in Fetches : Collect(f)
    \/ \E f \in Lookups : LookedUp(f)

Next ==
    \/ \E s \in Statements, shape \in Shapes : Publish(s, shape)
    \/ \E s \in Statements : Restate(s)
    \/ \E f \in Fetches, override \in BOOLEAN : Begin(f, override)
    \/ \E f \in Lookups : LookUp(f)
    \/ ClientStep

Spec == Init /\ [][Next]_vars

(* The event loop goes on: every request is answered or times out, every   *)
(* delay ends.                                                              *)
FairSpec == Spec /\ WF_vars(ClientStep)

-----------------------------------------------------------------------------
Ended(f) == fetch[f] \notin {Ready, Running}

(* The provider itself refused one of the fetch's requests. *)
TurnedAway(f) ==
    \E e \in Endpoints :
        call[<<f, e>>].at \in {"ticker_not_found", "ticker_not_covered"}

(* What could be selected when a fetch began is not lost by reading the     *)
(* endpoints at different times: whatever is published meanwhile, the fetch *)
(* selects that filing of that period, or a newer one (fmp.py               *)
(* fetch_fundamentals, normalization.py _select_latest_complete_statements).*)
(* And an answer the service remembers as a rejection is the provider's     *)
(* word or the sector gate's, never an outage or a period half published.   *)
FetchKeepsUp ==
    \A f \in Fetches :
        Ended(f) /\ owed[f] # Ready =>
            \/ fetch[f].date > owed[f].date
            \/ fetch[f].date = owed[f].date /\ fetch[f].accepted >= owed[f].accepted
            \/ fetch[f].kind \in {"provider_error", "unmapped"}
            \/ fetch[f].kind = "unsupported_sector" /\ profile.financial
            \/ fetch[f].kind \in Rejections /\ TurnedAway(f)

(* An answer without the warning about a newer, incomplete period is the    *)
(* newest annual period any endpoint listed when the fetch began            *)
(* (normalization.py:184).                                                  *)
UnflaggedIsNewest ==
    \A f \in Fetches :
        fetch[f].kind = "ok" /\ ~ fetch[f].flagged => fetch[f].date >= known[f]

(* A fetch ends, although its requests wait for the slots of requests whose *)
(* own fetch has failed long ago (fmp.py:175).                              *)
EveryFetchEnds == []<>(\A f \in Fetches \cup Lookups : fetch[f] # Running)

=============================================================================
