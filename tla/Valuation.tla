------------------------------ MODULE Valuation ------------------------------
(***************************************************************************)
(* GET /v1/valuations/{ticker} (get_valuation of app/api.py): the          *)
(* statements and the live price, asked for at the same time, and the      *)
(* telemetry (app/observability.py) of the calls that took.                *)
(*                                                                         *)
(* Statements come from a load that requests share (get_base_financials);  *)
(* what it does is in Fundamentals, here it receives answers of FMP and    *)
(* ends.  A load is named by the request that began it.  It runs in a copy *)
(* of that request's context, so what it counts goes into the bag of that  *)
(* request, whoever waits for it.  The first error of a fetch ends it and  *)
(* leaves its other calls running (ProviderClient): they may be answered   *)
(* when the load is over, and the request gone.                            *)
(***************************************************************************)
EXTENDS Integers

CONSTANTS
    Requests,   \* valuation requests of one instance, for one ticker
    Nobody,
    MaxCalls,   \* bound: answers of FMP a load receives
    MaxLeavers, \* bound: requests cancelled by a client that disconnects
    MaxOddities \* bound: quotes that raise what load_quote does not expect

ASSUME ValuationAssumption ==
    /\ Nobody \notin Requests
    /\ MaxCalls \in Nat
    /\ MaxLeavers \in Nat
    /\ MaxOddities \in Nat

VARIABLES
    request,  \* each request: where it is, the load it awaits, its quote, its reply
    inflight, \* _inflight: the load of the ticker
    load,     \* each load: none, running, or how it ended
    bag,      \* telemetry of each request: fmp_calls and finnhub_calls
    line,     \* what the access line and the metrics took from the bag
    received, \* history: answers to the quote, and to the load while it ran
    strays,   \* history: answers to the load after it was over
    leavers,
    oddities

valuationVars == <<request, inflight, load, bag, line, received, strays, leavers, oddities>>

Services == {"fmp", "finnhub"}
NoCalls == [service \in Services |-> 0]

NoRequest == [at |-> "idle", awaits |-> Nobody, quote |-> "none", reply |-> "none"]

ValuationInit ==
    /\ request = [r \in Requests |-> NoRequest]
    /\ inflight = Nobody
    /\ load = [r \in Requests |-> "none"]
    /\ bag = [r \in Requests |-> NoCalls]
    /\ line = [r \in Requests |-> NoCalls]
    /\ received = [r \in Requests |-> NoCalls]
    /\ strays = [r \in Requests |-> 0]
    /\ leavers = 0
    /\ oddities = 0

-----------------------------------------------------------------------------

\* outbound_counter: the hook of httpx sees an answer, not a call that had none.
Counted(r, service) == bag' = [bag EXCEPT ![r][service] = @ + 1]

\* telemetry_scope opens; gather starts both lookups.  get_base_financials
\* joins the load of the ticker or begins one.
Arrive(r) ==
    /\ request[r].at = "idle"
    /\ request' = [request EXCEPT ![r].at = "gathering", ![r].quote = "asked",
                       ![r].awaits = IF inflight = Nobody THEN r ELSE inflight]
    /\ IF inflight = Nobody
       THEN inflight' = r /\ load' = [load EXCEPT ![r] = "running"]
       ELSE UNCHANGED <<inflight, load>>
    /\ UNCHANGED <<bag, line, received, strays, leavers, oddities>>

\* A call of the load of r is answered by FMP.
LoadCall(r) ==
    /\ load[r] # "none"
    /\ bag[r]["fmp"] < MaxCalls
    /\ Counted(r, "fmp")
    /\ IF load[r] = "running"
       THEN received' = [received EXCEPT ![r]["fmp"] = @ + 1] /\ UNCHANGED strays
       ELSE strays' = [strays EXCEPT ![r] = @ + 1] /\ UNCHANGED received
    /\ UNCHANGED <<request, inflight, load, line, leavers, oddities>>

\* The task of the load is done, with statements or with an error, and leaves
\* _inflight.
LoadEnds(r) ==
    /\ load[r] = "running"
    /\ \E outcome \in {"statements", "error"} : load' = [load EXCEPT ![r] = outcome]
    /\ inflight' = IF inflight = r THEN Nobody ELSE inflight
    /\ UNCHANGED <<request, bag, line, received, strays, leavers, oddities>>

Quoted(r, quote) == request' = [request EXCEPT ![r].quote = quote]

QuoteAnswered(r) ==
    /\ received' = [received EXCEPT ![r]["finnhub"] = @ + 1]
    /\ Counted(r, "finnhub")

\* load_quote: one attempt of fetch_quote.  ProviderError and NormalizationError
\* become a warning, as does a price that is not configured; a body that cannot
\* be decoded raises something else.
Quote(r) ==
    /\ request[r].at = "gathering" /\ request[r].quote = "asked"
    /\ \/ \E quote \in {"live", "absent"} : Quoted(r, quote) /\ QuoteAnswered(r)
          /\ UNCHANGED oddities
       \/ Quoted(r, "absent") /\ UNCHANGED <<received, bag, oddities>>
       \/ /\ oddities < MaxOddities
          /\ oddities' = oddities + 1
          /\ Quoted(r, "raised") /\ QuoteAnswered(r)
    /\ UNCHANGED <<inflight, load, line, strays, leavers>>

\* compute_dcf refuses assumptions, or statements, it cannot value.
Computed(r) == {request[r].quote, "refused"}

\* Faulty variant: a missing price fails the valuation.
RepliesNeedingQuote(r) ==
    CASE request[r].quote = "raised" -> {"crash"}
      [] load[request[r].awaits] = "error" \/ request[r].quote = "absent" -> {"error"}
      [] OTHER -> Computed(r)

\* The quote's error, which should not be, comes before that of the statements.
Replies(r) == CASE request[r].quote = "raised" -> {"crash"}
                [] load[request[r].awaits] = "error" -> {"error"}
                [] OTHER -> Computed(r)

Replied(r, reply) == request' = [request EXCEPT ![r].at = "replied", ![r].reply = reply]

\* Faulty variant: the first error ends the gathering.
GatherFirstError(r) ==
    /\ request[r].at = "gathering"
    /\ \/ request[r].quote = "raised" /\ Replied(r, "crash")
       \/ load[request[r].awaits] = "error" /\ Replied(r, "error")
       \/ /\ load[request[r].awaits] = "statements" /\ request[r].quote \in {"live", "absent"}
          /\ \E reply \in Computed(r) : Replied(r, reply)
    /\ UNCHANGED <<inflight, load, bag, line, received, strays, leavers, oddities>>

\* Both lookups are over, whatever became of them, before either is looked at.
Gather(r) ==
    /\ request[r].at = "gathering"
    /\ load[request[r].awaits] # "running" /\ request[r].quote # "asked"
    /\ \E reply \in Replies(r) : Replied(r, reply)
    /\ UNCHANGED <<inflight, load, bag, line, received, strays, leavers, oddities>>

\* _log_finished, once the inner middleware is through: the bag as it is now
\* goes into the metrics and into the access line.
LogFinished(r) ==
    /\ request[r].at = "replied"
    /\ request' = [request EXCEPT ![r].at = "logged"]
    /\ line' = [line EXCEPT ![r] = bag[r]]
    /\ UNCHANGED <<inflight, load, bag, received, strays, leavers, oddities>>

\* The client disconnects and the request is cancelled, its quote with it; the
\* load is shielded.  A cancellation is no Exception: there is no line.
Leave(r) ==
    /\ request[r].at \in {"gathering", "replied"}
    /\ leavers < MaxLeavers
    /\ leavers' = leavers + 1
    /\ request' = [request EXCEPT ![r].at = "left"]
    /\ UNCHANGED <<inflight, load, bag, line, received, strays, oddities>>

ValuationNext ==
    \E r \in Requests :
        Arrive(r) \/ LoadCall(r) \/ LoadEnds(r) \/ Quote(r) \/ Gather(r) \/ LogFinished(r) \/ Leave(r)

ValuationSpec == ValuationInit /\ [][ValuationNext]_valuationVars

-----------------------------------------------------------------------------

ValuationTypeOK ==
    /\ request \in [Requests -> [at : {"idle", "gathering", "replied", "logged", "left"},
                                 awaits : Requests \cup {Nobody},
                                 quote : {"none", "asked", "live", "absent", "raised"},
                                 reply : {"none", "live", "absent", "refused", "error", "crash"}]]
    /\ inflight \in Requests \cup {Nobody}
    /\ load \in [Requests -> {"none", "running", "statements", "error"}]
    /\ bag \in [Requests -> [Services -> Nat]]
    /\ line \in [Requests -> [Services -> Nat]]
    /\ received \in [Requests -> [Services -> Nat]]
    /\ strays \in [Requests -> Nat]
    /\ leavers \in Nat /\ oddities \in Nat

\* "The code that makes them" says how many calls a request made
\* (observability.py:12): the line of a request counts every answer to its
\* quote and to the load it began once, and none of a load it only joined - also
\* when the error of one lookup is known before the other is over.  Of the
\* answers that came after the load was over it has those that were in time.
CallsAreReportedOnce ==
    \A r \in Requests : request[r].at = "logged" =>
        /\ line[r]["finnhub"] = received[r]["finnhub"]
        /\ line[r]["fmp"] \in received[r]["fmp"] .. received[r]["fmp"] + strays[r]

\* "A price failure is a warning, not an error" (api.py:1287): requests that
\* shared a load both have its statements to value or both report its error,
\* whatever came of their quotes - but for the error load_quote does not expect.
SharersAgree ==
    \A q, r \in Requests :
        /\ request[q].awaits = request[r].awaits
        /\ {request[q].reply, request[r].reply} \cap {"none", "crash"} = {}
        => (request[q].reply = "error" <=> request[r].reply = "error")

=============================================================================
