---------------------------- MODULE EvidenceProofs ----------------------------
(***************************************************************************)
(* Theorems about the valuation and the statements it is computed from:    *)
(* the telemetry of concurrent valuations (Valuation), and the client that *)
(* reads the provider's endpoints one after another (ProviderClient).      *)
(*                                                                         *)
(* The valuation's part rests on ValuationInv: the flights under way and    *)
(* those who wait for them, with each request's bag of calls the sum of     *)
(* what its loads did.                                                     *)
(*                                                                         *)
(* The client's part follows one filing through the provider's lists: a    *)
(* record is only ever added, of the newest date, so what an answer could  *)
(* show when a fetch began is still shown by every later answer, or only   *)
(* newer records are (ReachInv); and while its period is within what an    *)
(* answer shows, the filing itself is (KeepInv).                           *)
(***************************************************************************)
EXTENDS Evidence, FiniteSetTheorems, SequenceTheorems, WellFoundedInduction, TLAPS

-----------------------------------------------------------------------------
(* The valuation: flights, their followers and their calls.                *)

Visit == [at : {"idle", "gathering", "replied", "logged", "left"},
          awaits : Requests \cup {Nobody},
          quote : {"none", "asked", "live", "absent", "raised"},
          reply : {"none", "live", "absent", "refused", "error", "crash"}]

Tally == [Services -> Nat]

Over(r) == load[r] \in {"statements", "error"}

\* A request and the load it awaits: the load is one that was begun, nobody
\* begins a load after joining one, and who replied has waited for its end.
AwaitsOK(r) ==
    /\ request[r].at = "idle" => request[r] = NoRequest /\ load[r] = "none"
    /\ request[r].at # "idle" =>
           /\ request[r].awaits \in Requests /\ load[request[r].awaits] # "none"
           /\ request[r].awaits # r => load[r] = "none"
           /\ request[r].quote # "none"
    /\ request[r].at \in {"replied", "logged"} => Over(request[r].awaits)
    /\ request[r].reply # "none" => Over(request[r].awaits)
    /\ request[r].reply \notin {"none", "crash"} =>
           (request[r].reply = "error" <=> load[request[r].awaits] = "error")

\* The bag holds the answers, and the line those of the bag that were in time.
BagOK(r) ==
    /\ bag[r]["fmp"] = received[r]["fmp"] + strays[r]
    /\ bag[r]["finnhub"] = received[r]["finnhub"]
    /\ request[r].at = "logged" =>
           /\ line[r]["finnhub"] = received[r]["finnhub"]
           /\ received[r]["fmp"] <= line[r]["fmp"] /\ line[r]["fmp"] <= bag[r]["fmp"]

ValuationInv ==
    /\ ValuationTypeOK
    /\ inflight # Nobody => load[inflight] = "running"
    /\ \A r \in Requests : AwaitsOK(r) /\ BagOK(r)

LEMMA RequestIsTyped ==
    ASSUME ValuationTypeOK, NEW r \in Requests
    PROVE  /\ request[r] \in Visit /\ request \in [Requests -> Visit]
           /\ bag[r] \in Tally /\ received[r] \in Tally /\ line[r] \in Tally
           /\ bag \in [Requests -> Tally] /\ received \in [Requests -> Tally]
           /\ line \in [Requests -> Tally] /\ strays \in [Requests -> Nat]
           /\ bag[r]["fmp"] \in Nat /\ bag[r]["finnhub"] \in Nat
           /\ received[r]["fmp"] \in Nat /\ received[r]["finnhub"] \in Nat
           /\ line[r]["fmp"] \in Nat /\ line[r]["finnhub"] \in Nat
           /\ strays[r] \in Nat /\ "fmp" \in Services /\ "finnhub" \in Services
BY DEF ValuationTypeOK, Visit, Tally, Services

LEMMA ValuationInitInv == ValuationInit => ValuationInv
<1> SUFFICES ASSUME ValuationInit PROVE ValuationInv
  OBVIOUS
<1>1. /\ NoRequest \in Visit /\ NoRequest.at = "idle" /\ NoRequest.reply = "none"
      /\ NoCalls \in Tally /\ NoCalls["fmp"] = 0 /\ NoCalls["finnhub"] = 0
  BY DEF NoRequest, Visit, NoCalls, Tally, Services
<1>2. ValuationTypeOK
  BY <1>1 DEF ValuationInit, ValuationTypeOK, Visit, Tally
<1>3. \A r \in Requests : AwaitsOK(r) /\ BagOK(r)
  BY <1>1 DEF ValuationInit, AwaitsOK, BagOK
<1> QED
  BY <1>2, <1>3 DEF ValuationInv, ValuationInit

\* A tally with one more answer.
More(t, service) == [t EXCEPT ![service] = t[service] + 1]

LEMMA MoreIsATally ==
    ASSUME NEW t \in Tally
    PROVE  /\ More(t, "fmp") \in Tally /\ More(t, "fmp")["fmp"] = t["fmp"] + 1
           /\ More(t, "fmp")["finnhub"] = t["finnhub"]
           /\ More(t, "finnhub") \in Tally /\ More(t, "finnhub")["finnhub"] = t["finnhub"] + 1
           /\ More(t, "finnhub")["fmp"] = t["fmp"]
BY DEF More, Tally, Services

\* What a step changes of the request that takes it.
LEMMA FieldStep ==
    ASSUME ValuationTypeOK, NEW r \in Requests, NEW n \in Visit,
           request' = [request EXCEPT ![r] = n]
    PROVE  /\ request' \in [Requests -> Visit] /\ request'[r] = n
           /\ \A q \in Requests : q # r => request'[q] = request[q]
BY RequestIsTyped

\* Loads begin and end, in that order; a step that leaves them alone, and the
\* tallies, has only its own request to answer for.
LEMMA RequestStep ==
    ASSUME ValuationInv, NEW r \in Requests, NEW n \in Visit,
           request' = [request EXCEPT ![r] = n],
           UNCHANGED <<inflight, load, bag, line, received, strays>>,
           leavers' \in Nat, oddities' \in Nat,
           n.awaits = request[r].awaits, request[r].at # "idle", n.at \notin {"idle", "logged"},
           n.quote # "none",
           n.at = "replied" => Over(n.awaits),
           n.reply # "none" => Over(n.awaits),
           n.reply \notin {"none", "crash"} => (n.reply = "error" <=> load[n.awaits] = "error")
    PROVE  ValuationInv'
<1>1. /\ request' \in [Requests -> Visit] /\ request'[r] = n
      /\ \A q \in Requests : q # r => request'[q] = request[q]
  BY FieldStep DEF ValuationInv
<1>2. ValuationTypeOK'
  BY <1>1 DEF ValuationInv, ValuationTypeOK, Visit
<1>3. ASSUME NEW q \in Requests PROVE AwaitsOK(q)' /\ BagOK(q)'
  <2>1. AwaitsOK(q) /\ BagOK(q) /\ AwaitsOK(r) /\ BagOK(r)
    BY DEF ValuationInv
  <2>2. CASE q = r
    BY <1>1, <2>1, <2>2 DEF AwaitsOK, BagOK, Over
  <2>3. CASE q # r
    <3>1. request'[q] = request[q]
      BY <1>1, <2>3
    <3> QED
      BY <2>1, <3>1 DEF AwaitsOK, BagOK, Over
  <2> QED
    BY <2>2, <2>3
<1> QED
  BY <1>2, <1>3 DEF ValuationInv

LEMMA ArriveInv ==
    ASSUME ValuationInv, NEW r \in Requests, Arrive(r)
    PROVE  ValuationInv'
<1> DEFINE w == IF inflight = Nobody THEN r ELSE inflight
           m == [request[r] EXCEPT !.at = "gathering"]
           o == [m EXCEPT !.quote = "asked"]
           n == [o EXCEPT !.awaits = w]
<1>1. /\ request[r] \in Visit /\ request \in [Requests -> Visit] /\ request[r].at = "idle"
      /\ UNCHANGED <<bag, line, received, strays, leavers, oddities>>
      /\ AwaitsOK(r) /\ BagOK(r) /\ inflight \in Requests \cup {Nobody}
      /\ load \in [Requests -> {"none", "running", "statements", "error"}]
  BY RequestIsTyped DEF Arrive, ValuationInv, ValuationTypeOK
<1>2. request[r].reply = "none" /\ load[r] = "none"
  BY <1>1 DEF AwaitsOK, NoRequest
<1>3. w \in Requests
  BY <1>1
<1>4. request' = [request EXCEPT ![r] = n]
  <2>1. request' = [request EXCEPT ![r].at = "gathering", ![r].quote = "asked", ![r].awaits = w]
    BY DEF Arrive
  <2> HIDE DEF w
  <2> QED
    BY <1>1, <2>1
<1>5. \/ inflight = Nobody /\ w = r /\ inflight' = r /\ load' = [load EXCEPT ![r] = "running"]
      \/ inflight # Nobody /\ w = inflight /\ UNCHANGED <<inflight, load>>
  BY DEF Arrive
<1> HIDE DEF w
<1>6. m \in Visit /\ m.at = "gathering" /\ m.reply = "none"
  BY <1>1, <1>2 DEF Visit
<1> HIDE DEF m
<1>7. o \in Visit /\ o.at = "gathering" /\ o.reply = "none" /\ o.quote = "asked"
  BY <1>6 DEF Visit
<1> HIDE DEF o
<1>8. n \in Visit /\ n.at = "gathering" /\ n.reply = "none" /\ n.quote = "asked" /\ n.awaits = w
  BY <1>3, <1>7 DEF Visit
<1> HIDE DEF n
<1>9. /\ request' \in [Requests -> Visit] /\ request'[r] = n
      /\ \A q \in Requests : q # r => request'[q] = request[q]
  BY <1>4, <1>8, FieldStep DEF ValuationInv
<1>10. /\ load' \in [Requests -> {"none", "running", "statements", "error"}]
       /\ \A q \in Requests : load[q] # "none" => load'[q] = load[q]
       /\ \A q \in Requests : q # r => load'[q] = load[q]
       /\ inflight' \in Requests \cup {Nobody}
       /\ load'[w] # "none" /\ (w # r => load'[r] = "none")
       /\ inflight' # Nobody => load'[inflight'] = "running"
  <2>1. CASE inflight = Nobody /\ w = r /\ inflight' = r /\ load' = [load EXCEPT ![r] = "running"]
    BY <1>1, <1>2, <2>1
  <2>2. CASE inflight # Nobody /\ w = inflight /\ UNCHANGED <<inflight, load>>
    BY <1>1, <1>2, <2>2 DEF ValuationInv
  <2> QED
    BY <1>5, <2>1, <2>2
<1>11. ValuationTypeOK'
  BY <1>1, <1>9, <1>10 DEF ValuationInv, ValuationTypeOK, Visit
<1>12. ASSUME NEW q \in Requests PROVE AwaitsOK(q)' /\ BagOK(q)'
  <2>1. AwaitsOK(q) /\ BagOK(q)
    BY DEF ValuationInv
  <2>2. CASE q = r
    BY <1>1, <1>3, <1>8, <1>9, <1>10, <2>1, <2>2 DEF AwaitsOK, BagOK, Over
  <2>3. CASE q # r
    <3>1. /\ request'[q] = request[q] /\ load'[q] = load[q]
          /\ bag'[q] = bag[q] /\ received'[q] = received[q] /\ strays'[q] = strays[q]
          /\ line'[q] = line[q]
      BY <1>1, <1>9, <1>10, <2>3
    <3>2. request[q].at # "idle" \/ request[q].reply # "none" =>
            load'[request[q].awaits] = load[request[q].awaits]
      BY <1>10, <2>1 DEF AwaitsOK, NoRequest
    <3>3. AwaitsOK(q)'
      <4>1. CASE request[q].at = "idle"
        BY <2>1, <3>1, <4>1 DEF AwaitsOK, Over, NoRequest
      <4>2. CASE request[q].at # "idle"
        <5>1. load'[request[q].awaits] = load[request[q].awaits]
          BY <3>2, <4>2
        <5> QED
          BY <2>1, <3>1, <4>2, <5>1 DEF AwaitsOK, Over
      <4> QED
        BY <4>1, <4>2
    <3> QED
      BY <2>1, <3>1, <3>3 DEF BagOK
  <2> QED
    BY <2>2, <2>3
<1> QED
  BY <1>10, <1>11, <1>12 DEF ValuationInv

LEMMA LoadCallInv ==
    ASSUME ValuationInv, NEW r \in Requests, LoadCall(r)
    PROVE  ValuationInv'
<1>1. /\ UNCHANGED <<request, inflight, load, line, leavers, oddities>>
      /\ bag' = [bag EXCEPT ![r]["fmp"] = @ + 1] /\ load[r] # "none"
  BY DEF LoadCall, Counted
<1>2. /\ bag \in [Requests -> Tally] /\ received \in [Requests -> Tally]
      /\ strays \in [Requests -> Nat] /\ "fmp" \in Services /\ "finnhub" \in Services
      /\ line \in [Requests -> Tally]
  BY RequestIsTyped DEF ValuationInv
<1>3. /\ bag' \in [Requests -> Tally] /\ bag'[r]["fmp"] = bag[r]["fmp"] + 1
      /\ bag'[r]["finnhub"] = bag[r]["finnhub"]
      /\ \A q \in Requests : q # r => bag'[q] = bag[q]
  <2>1. bag' = [bag EXCEPT ![r] = More(bag[r], "fmp")]
    BY <1>1 DEF More
  <2> QED
    BY <1>2, <2>1, MoreIsATally
<1>4. \/ load[r] = "running" /\ received' = [received EXCEPT ![r]["fmp"] = @ + 1]
         /\ UNCHANGED strays
      \/ load[r] # "running" /\ strays' = [strays EXCEPT ![r] = @ + 1] /\ UNCHANGED received
  BY DEF LoadCall
<1>5. /\ received' \in [Requests -> Tally] /\ strays' \in [Requests -> Nat]
      /\ received'[r]["finnhub"] = received[r]["finnhub"]
      /\ received'[r]["fmp"] + strays'[r] = received[r]["fmp"] + strays[r] + 1
      /\ load[r] # "running" => received'[r]["fmp"] = received[r]["fmp"]
      /\ \A q \in Requests : q # r => received'[q] = received[q] /\ strays'[q] = strays[q]
  <2>0. received[r]["fmp"] \in Nat /\ strays[r] \in Nat
    BY RequestIsTyped DEF ValuationInv
  <2>1. CASE load[r] = "running" /\ received' = [received EXCEPT ![r]["fmp"] = @ + 1]
             /\ UNCHANGED strays
    <3>1. /\ received' \in [Requests -> Tally] /\ received'[r]["fmp"] = received[r]["fmp"] + 1
          /\ received'[r]["finnhub"] = received[r]["finnhub"]
          /\ \A q \in Requests : q # r => received'[q] = received[q]
      <4>1. received' = [received EXCEPT ![r] = More(received[r], "fmp")]
        BY <2>1 DEF More
      <4> QED
        BY <1>2, <4>1, MoreIsATally
    <3> QED
      BY <1>2, <2>0, <2>1, <3>1
  <2>2. CASE load[r] # "running" /\ strays' = [strays EXCEPT ![r] = @ + 1] /\ UNCHANGED received
    BY <1>2, <2>0, <2>2
  <2> QED
    BY <1>4, <2>1, <2>2
<1>6. ValuationTypeOK'
  BY <1>1, <1>3, <1>5 DEF ValuationInv, ValuationTypeOK, Tally
<1>7. ASSUME NEW q \in Requests PROVE AwaitsOK(q)' /\ BagOK(q)'
  <2>1. AwaitsOK(q) /\ BagOK(q)
    BY DEF ValuationInv
  <2>2. AwaitsOK(q)'
    BY <1>1, <2>1 DEF AwaitsOK, Over
  <2>3. BagOK(q)'
    <3>1. CASE q # r
      BY <1>1, <1>3, <1>5, <2>1, <3>1 DEF BagOK
    <3>2. CASE q = r
      <4>1. /\ bag[r]["fmp"] \in Nat /\ received[r]["fmp"] \in Nat /\ strays[r] \in Nat
            /\ line[r]["fmp"] \in Nat
        BY RequestIsTyped DEF ValuationInv
      <4>2. bag'[r]["fmp"] = received'[r]["fmp"] + strays'[r]
        BY <1>3, <1>5, <2>1, <3>2 DEF BagOK
      <4>3. bag'[r]["finnhub"] = received'[r]["finnhub"]
        BY <1>3, <1>5, <2>1, <3>2 DEF BagOK
      <4>4. ASSUME request[r].at = "logged"
            PROVE  /\ line[r]["finnhub"] = received'[r]["finnhub"]
                   /\ received'[r]["fmp"] <= line[r]["fmp"] /\ line[r]["fmp"] <= bag'[r]["fmp"]
        <5>1. load[r] # "running"
          BY <1>1, <2>1, <3>2, <4>4 DEF AwaitsOK, Over
        <5>2. /\ line[r]["finnhub"] = received[r]["finnhub"]
              /\ received[r]["fmp"] <= line[r]["fmp"] /\ line[r]["fmp"] <= bag[r]["fmp"]
          BY <2>1, <3>2, <4>4 DEF BagOK
        <5>3. line[r]["fmp"] <= bag[r]["fmp"] + 1
          BY <4>1, <5>2
        <5> QED
          BY <1>3, <1>5, <5>1, <5>2, <5>3
      <4> QED
        BY <1>1, <3>2, <4>2, <4>3, <4>4 DEF BagOK
    <3> QED
      BY <3>1, <3>2
  <2> QED
    BY <2>2, <2>3
<1> QED
  BY <1>1, <1>6, <1>7 DEF ValuationInv

LEMMA LoadEndsInv ==
    ASSUME ValuationInv, NEW r \in Requests, LoadEnds(r)
    PROVE  ValuationInv'
<1>1. /\ load[r] = "running"
      /\ UNCHANGED <<request, bag, line, received, strays, leavers, oddities>>
      /\ inflight' = IF inflight = r THEN Nobody ELSE inflight
      /\ load \in [Requests -> {"none", "running", "statements", "error"}]
      /\ inflight \in Requests \cup {Nobody}
  BY DEF LoadEnds, ValuationInv, ValuationTypeOK
<1>2. PICK outcome \in {"statements", "error"} : load' = [load EXCEPT ![r] = outcome]
  BY DEF LoadEnds
<1>3. /\ load' \in [Requests -> {"none", "running", "statements", "error"}]
      /\ load'[r] = outcome /\ \A q \in Requests : q # r => load'[q] = load[q]
  BY <1>1, <1>2
<1>4. inflight' \in Requests \cup {Nobody} /\ (inflight' # Nobody => load'[inflight'] = "running")
  BY <1>1, <1>3 DEF ValuationInv
<1>5. ValuationTypeOK'
  BY <1>1, <1>3, <1>4 DEF ValuationInv, ValuationTypeOK
<1>6. ASSUME NEW q \in Requests PROVE AwaitsOK(q)' /\ BagOK(q)'
  <2>1. AwaitsOK(q) /\ BagOK(q)
    BY DEF ValuationInv
  <2>2. BagOK(q)'
    BY <1>1, <2>1 DEF BagOK
  <2>3. \A w \in Requests : /\ load[w] = "none" <=> load'[w] = "none"
                            /\ Over(w) => load'[w] = load[w]
    BY <1>1, <1>3 DEF Over
  <2>4. CASE request[q].at = "idle"
    <3>1. request[q] = NoRequest /\ load[q] = "none" /\ load'[q] = "none"
      BY <2>1, <2>3, <2>4 DEF AwaitsOK
    <3>2. NoRequest.at = "idle" /\ NoRequest.reply = "none"
      BY DEF NoRequest
    <3>3. AwaitsOK(q)'
      BY <1>1, <3>1, <3>2 DEF AwaitsOK
    <3> QED
      BY <2>2, <3>3
  <2>5. CASE request[q].at # "idle"
    <3>1. request[q].awaits \in Requests
      BY <2>1, <2>5 DEF AwaitsOK
    <3> QED
      BY <1>1, <2>1, <2>2, <2>3, <2>5, <3>1 DEF AwaitsOK, Over
  <2> QED
    BY <2>2, <2>4, <2>5
<1> QED
  BY <1>4, <1>5, <1>6 DEF ValuationInv

LEMMA QuoteInv ==
    ASSUME ValuationInv, NEW r \in Requests, Quote(r)
    PROVE  ValuationInv'
<1>1. /\ request[r].at = "gathering" /\ UNCHANGED <<inflight, load, line, strays, leavers>>
      /\ request[r] \in Visit /\ request \in [Requests -> Visit] /\ oddities \in Nat
      /\ AwaitsOK(r)
  BY RequestIsTyped DEF Quote, ValuationInv, ValuationTypeOK
<1>2. PICK quote \in {"live", "absent", "raised"} : Quoted(r, quote)
  BY DEF Quote
<1>3. \/ QuoteAnswered(r) \/ UNCHANGED <<received, bag>>
  BY DEF Quote
<1>4. oddities' \in Nat
  BY <1>1 DEF Quote
<1> DEFINE n == [request[r] EXCEPT !.quote = quote]
<1>5. /\ n \in Visit /\ n.at = "gathering" /\ n.awaits = request[r].awaits /\ n.quote = quote
      /\ n.reply = request[r].reply /\ request' = [request EXCEPT ![r] = n]
  BY <1>1, <1>2 DEF Visit, Quoted
<1> HIDE DEF n
<1>6. /\ request' \in [Requests -> Visit] /\ request'[r] = n
      /\ \A q \in Requests : q # r => request'[q] = request[q]
  BY <1>5, FieldStep DEF ValuationInv
<1>7. /\ bag \in [Requests -> Tally] /\ received \in [Requests -> Tally]
      /\ bag[r] \in Tally /\ received[r] \in Tally
      /\ bag[r]["finnhub"] = received[r]["finnhub"]
      /\ bag[r]["fmp"] = received[r]["fmp"] + strays[r]
  BY RequestIsTyped DEF ValuationInv, BagOK
<1>8. /\ bag' \in [Requests -> Tally] /\ received' \in [Requests -> Tally]
      /\ bag'[r]["finnhub"] = received'[r]["finnhub"]
      /\ bag'[r]["fmp"] = bag[r]["fmp"] /\ received'[r]["fmp"] = received[r]["fmp"]
      /\ \A q \in Requests : q # r => bag'[q] = bag[q] /\ received'[q] = received[q]
  <2>1. CASE QuoteAnswered(r)
    <3>1. /\ bag' = [bag EXCEPT ![r] = More(bag[r], "finnhub")]
          /\ received' = [received EXCEPT ![r] = More(received[r], "finnhub")]
      BY <2>1 DEF QuoteAnswered, Counted, More
    <3>2. bag'[r] = More(bag[r], "finnhub") /\ received'[r] = More(received[r], "finnhub")
      BY <1>7, <3>1
    <3> QED
      BY <1>7, <3>1, <3>2, MoreIsATally
  <2>2. CASE UNCHANGED <<received, bag>>
    BY <1>7, <2>2
  <2> QED
    BY <1>3, <2>1, <2>2
<1>9. ValuationTypeOK'
  BY <1>1, <1>4, <1>6, <1>8 DEF ValuationInv, ValuationTypeOK, Visit, Tally
<1>10. ASSUME NEW q \in Requests PROVE AwaitsOK(q)' /\ BagOK(q)'
  <2>1. AwaitsOK(q) /\ BagOK(q)
    BY DEF ValuationInv
  <2>2. CASE q = r
    <3>1. AwaitsOK(q)'
      BY <1>1, <1>5, <1>6, <2>1, <2>2 DEF AwaitsOK, Over
    <3>2. BagOK(q)'
      BY <1>1, <1>5, <1>6, <1>7, <1>8, <2>2 DEF BagOK
    <3> QED
      BY <3>1, <3>2
  <2>3. CASE q # r
    <3>1. /\ request'[q] = request[q] /\ bag'[q] = bag[q] /\ received'[q] = received[q]
          /\ strays'[q] = strays[q] /\ line'[q] = line[q]
      BY <1>1, <1>6, <1>8, <2>3
    <3> QED
      BY <1>1, <2>1, <3>1 DEF AwaitsOK, BagOK, Over
  <2> QED
    BY <2>2, <2>3
<1> QED
  BY <1>1, <1>9, <1>10 DEF ValuationInv

LEMMA GatherInv ==
    ASSUME ValuationInv, NEW r \in Requests, Gather(r)
    PROVE  ValuationInv'
<1>1. /\ request[r].at = "gathering" /\ load[request[r].awaits] # "running"
      /\ request[r].quote # "asked"
      /\ UNCHANGED <<inflight, load, bag, line, received, strays, leavers, oddities>>
      /\ request[r] \in Visit /\ request \in [Requests -> Visit]
      /\ oddities' \in Nat /\ leavers' \in Nat /\ AwaitsOK(r)
      /\ load \in [Requests -> {"none", "running", "statements", "error"}]
  BY RequestIsTyped DEF Gather, ValuationInv, ValuationTypeOK
<1>2. PICK reply \in Replies(r) : Replied(r, reply)
  BY DEF Gather
<1>3. request[r].awaits \in Requests /\ Over(request[r].awaits) /\ request[r].quote # "none"
  BY <1>1 DEF AwaitsOK, Over
<1>4. request[r].quote \in {"live", "absent", "raised"}
  BY <1>1, <1>3 DEF Visit
<1>5. /\ reply \in {"live", "absent", "refused", "error", "crash"}
      /\ reply # "crash" => (reply = "error" <=> load[request[r].awaits] = "error")
  BY <1>2, <1>4 DEF Replies, Computed
<1> DEFINE m == [request[r] EXCEPT !.at = "replied"]
           n == [m EXCEPT !.reply = reply]
<1>6. request' = [request EXCEPT ![r] = n]
  BY <1>1, <1>2 DEF Replied
<1>7. m \in Visit /\ m.at = "replied" /\ m.awaits = request[r].awaits /\ m.quote = request[r].quote
  BY <1>1 DEF Visit
<1> HIDE DEF m
<1>8. /\ n \in Visit /\ n.at = "replied" /\ n.awaits = request[r].awaits
      /\ n.quote = request[r].quote /\ n.reply = reply
  BY <1>5, <1>7 DEF Visit
<1> HIDE DEF n
<1> QED
  BY <1>1, <1>3, <1>5, <1>6, <1>8, RequestStep

LEMMA LeaveInv ==
    ASSUME ValuationInv, NEW r \in Requests, Leave(r)
    PROVE  ValuationInv'
<1>1. /\ request[r].at \in {"gathering", "replied"}
      /\ UNCHANGED <<inflight, load, bag, line, received, strays, oddities>>
      /\ request[r] \in Visit /\ request \in [Requests -> Visit]
      /\ oddities' \in Nat /\ leavers' \in Nat /\ AwaitsOK(r)
  BY RequestIsTyped DEF Leave, ValuationInv, ValuationTypeOK
<1> DEFINE n == [request[r] EXCEPT !.at = "left"]
<1>2. /\ n \in Visit /\ n.at = "left" /\ n.awaits = request[r].awaits
      /\ n.quote = request[r].quote /\ n.reply = request[r].reply
      /\ request' = [request EXCEPT ![r] = n]
  BY <1>1 DEF Visit, Leave
<1> HIDE DEF n
<1> QED
  BY <1>1, <1>2, RequestStep DEF AwaitsOK

LEMMA LogFinishedInv ==
    ASSUME ValuationInv, NEW r \in Requests, LogFinished(r)
    PROVE  ValuationInv'
<1>1. /\ request[r].at = "replied"
      /\ UNCHANGED <<inflight, load, bag, received, strays, leavers, oddities>>
      /\ line' = [line EXCEPT ![r] = bag[r]]
      /\ request[r] \in Visit /\ request \in [Requests -> Visit]
      /\ AwaitsOK(r) /\ BagOK(r) /\ bag[r] \in Tally /\ line \in [Requests -> Tally]
  BY RequestIsTyped DEF LogFinished, ValuationInv, ValuationTypeOK
<1> DEFINE n == [request[r] EXCEPT !.at = "logged"]
<1>2. /\ n \in Visit /\ n.at = "logged" /\ n.awaits = request[r].awaits
      /\ n.quote = request[r].quote /\ n.reply = request[r].reply
      /\ request' = [request EXCEPT ![r] = n]
  BY <1>1 DEF Visit, LogFinished
<1> HIDE DEF n
<1>3. /\ request' \in [Requests -> Visit] /\ request'[r] = n
      /\ \A q \in Requests : q # r => request'[q] = request[q]
  BY <1>2, FieldStep DEF ValuationInv
<1>4. /\ line' \in [Requests -> Tally] /\ line'[r] = bag[r]
      /\ \A q \in Requests : q # r => line'[q] = line[q]
  BY <1>1
<1>5. ValuationTypeOK'
  BY <1>1, <1>3, <1>4 DEF ValuationInv, ValuationTypeOK, Visit, Tally
<1>6. ASSUME NEW q \in Requests PROVE AwaitsOK(q)' /\ BagOK(q)'
  <2>1. AwaitsOK(q) /\ BagOK(q)
    BY DEF ValuationInv
  <2>2. CASE q = r
    <3>1. AwaitsOK(q)'
      BY <1>1, <1>2, <1>3, <2>2 DEF AwaitsOK, Over
    <3>2. bag[r]["fmp"] \in Nat /\ received[r]["fmp"] \in Nat /\ strays[r] \in Nat
      BY RequestIsTyped DEF ValuationInv
    <3>3. bag[r]["fmp"] = received[r]["fmp"] + strays[r] /\ bag[r]["finnhub"] = received[r]["finnhub"]
      BY <1>1 DEF BagOK
    <3>4. received[r]["fmp"] <= bag[r]["fmp"] /\ bag[r]["fmp"] <= bag[r]["fmp"]
      BY <3>2, <3>3
    <3>5. BagOK(q)'
      BY <1>1, <1>4, <2>2, <3>3, <3>4 DEF BagOK
    <3> QED
      BY <3>1, <3>5
  <2>3. CASE q # r
    <3>1. request'[q] = request[q] /\ line'[q] = line[q]
      BY <1>3, <1>4, <2>3
    <3> QED
      BY <1>1, <2>1, <3>1 DEF AwaitsOK, BagOK, Over
  <2> QED
    BY <2>2, <2>3
<1> QED
  BY <1>1, <1>5, <1>6 DEF ValuationInv

LEMMA ValuationStepInv == ValuationInv /\ [ValuationNext]_valuationVars => ValuationInv'
<1> SUFFICES ASSUME ValuationInv, [ValuationNext]_valuationVars PROVE ValuationInv'
  OBVIOUS
<1>1. CASE ValuationNext
  BY <1>1, ArriveInv, LoadCallInv, LoadEndsInv, QuoteInv, GatherInv, LogFinishedInv, LeaveInv
     DEF ValuationNext
<1>2. CASE UNCHANGED valuationVars
  BY <1>2 DEF valuationVars, ValuationInv, ValuationTypeOK, AwaitsOK, BagOK, Over
<1> QED
  BY <1>1, <1>2

LEMMA ValuationInvariant == EvidenceSpec => []ValuationInv
<1>1. EvidenceInit => ValuationInv
  BY ValuationInitInv DEF EvidenceInit
<1>2. [EvidenceNext]_evidenceVars => [ValuationNext]_valuationVars
  BY DEF EvidenceNext, ClientTurn, evidenceVars
<1> QED
  BY <1>1, <1>2, ValuationStepInv, PTL DEF EvidenceSpec

\* The access line of a request counts every answer to its quote and to the
\* load it began exactly once, and none of a load it joined (observability.py,
\* the contexts of api.py's gather).
THEOREM EveryCallIsReportedOnce == EvidenceSpec => []CallsAreReportedOnce
<1>1. ValuationInv => CallsAreReportedOnce
  <2> SUFFICES ASSUME ValuationInv, NEW r \in Requests, request[r].at = "logged"
               PROVE  /\ line[r]["finnhub"] = received[r]["finnhub"]
                      /\ line[r]["fmp"] \in received[r]["fmp"] .. received[r]["fmp"] + strays[r]
    BY DEF CallsAreReportedOnce
  <2>1. BagOK(r) /\ line[r]["fmp"] \in Nat /\ received[r]["fmp"] \in Nat /\ strays[r] \in Nat
    BY RequestIsTyped DEF ValuationInv
  <2>2. /\ line[r]["finnhub"] = received[r]["finnhub"]
        /\ received[r]["fmp"] <= line[r]["fmp"]
        /\ line[r]["fmp"] <= received[r]["fmp"] + strays[r]
    BY <2>1 DEF BagOK
  <2> QED
    BY <2>1, <2>2
<1> QED
  BY <1>1, ValuationInvariant, PTL

\* Requests that shared a load agree on whether it gave statements to value,
\* whatever came of their quotes (api.py:1287).
THEOREM ThoseWhoShareAgree == EvidenceSpec => []SharersAgree
<1>1. ValuationInv => SharersAgree
  <2> SUFFICES ASSUME ValuationInv, NEW q \in Requests, NEW r \in Requests,
                      request[q].awaits = request[r].awaits,
                      {request[q].reply, request[r].reply} \cap {"none", "crash"} = {}
               PROVE  request[q].reply = "error" <=> request[r].reply = "error"
    BY DEF SharersAgree
  <2>1. request[q].reply \notin {"none", "crash"} /\ request[r].reply \notin {"none", "crash"}
    OBVIOUS
  <2>2. AwaitsOK(q) /\ AwaitsOK(r)
    BY DEF ValuationInv
  <2> QED
    BY <2>1, <2>2 DEF AwaitsOK
<1> QED
  BY <1>1, ValuationInvariant, PTL

-----------------------------------------------------------------------------
(* The largest of a finite set of numbers.                                 *)

\* A finite set of numbers that is not empty has a largest one.
LEMMA MaxIsLargest ==
    ASSUME NEW S \in SUBSET Nat, IsFiniteSet(S), S # {}
    PROVE  Max(S) \in S /\ \A y \in S : Max(S) >= y
<1> DEFINE Above(x) == {y \in S : y > x}
           T == {Above(x) : x \in S}
           R == StrictSubsetOrdering(S)
<1>1. T \subseteq FiniteSubsetsOf(S)
  <2> SUFFICES ASSUME NEW x \in S PROVE Above(x) \in FiniteSubsetsOf(S)
    OBVIOUS
  <2>1. Above(x) \in SUBSET S
    OBVIOUS
  <2>2. IsFiniteSet(Above(x))
    BY <2>1, FS_Subset
  <2> QED
    BY <2>1, <2>2 DEF FiniteSubsetsOf
<1>2. T # {}
  OBVIOUS
<1>3. IsWellFoundedOn(R, FiniteSubsetsOf(S))
  BY FS_StrictSubsetOrderingWellFounded
<1>4. \E A \in T : \A B \in T : ~ (<<B, A>> \in R)
  <2> HIDE DEF T, R
  <2> QED
    BY <1>1, <1>2, <1>3, WFMin
<1>5. PICK x \in S : \A B \in T : ~ (<<B, Above(x)>> \in R)
  BY <1>4
<1>6. \A y \in S : x >= y
  <2> SUFFICES ASSUME NEW y \in S, y > x PROVE FALSE
    OBVIOUS
  <2>0. x \in Nat /\ y \in Nat
    OBVIOUS
  <2>1. Above(y) \in T /\ Above(y) \subseteq Above(x) /\ y \in Above(x) /\ y \notin Above(y)
    <3>1. y \in Above(x) /\ y \notin Above(y)
      BY <2>0
    <3>2. ASSUME NEW z \in Above(y) PROVE z \in Above(x)
      BY <2>0
    <3> QED
      BY <3>1, <3>2
  <2>2. Above(y) \in SUBSET S /\ Above(x) \in SUBSET S
    OBVIOUS
  <2>3. <<Above(y), Above(x)>> \in R
    BY <2>1, <2>2 DEF StrictSubsetOrdering
  <2> QED
    BY <1>5, <2>1, <2>3
<1> QED
  BY <1>6 DEF Max

-----------------------------------------------------------------------------
(* Lists of records, and what is added to them.                            *)

Rec == [annual : BOOLEAN, date : Nat, year : Nat, currency : STRING, sound : BOOLEAN,
        accepted : Nat]

Sorted(list) == \A i, j \in 1..Len(list) : i <= j => list[i].date >= list[j].date

\* What an answer holds of an endpoint's list.
Front(list) == SubSeq(list, 1, IF Len(list) < Limit THEN Len(list) ELSE Limit)

\* No record that an answer leaves out was of the date k, or all it has are as new.
Reaches(list, k) ==
    /\ list # <<>>
    /\ \/ k \in AnnualDates(list)
       \/ \A i \in 1..Len(list) : list[i].date >= k

\* A list with one record more, after the p newest ones.
Inserted(list, more, p, n) ==
    /\ p \in 0..Len(list)
    /\ Len(more) = Len(list) + 1
    /\ \A i \in 1..Len(more) :
          more[i] = IF i <= p THEN list[i] ELSE IF i = p + 1 THEN n ELSE list[i - 1]

LEMMA InAnnualDates ==
    ASSUME NEW S, NEW list \in Seq(S), NEW k
    PROVE  k \in AnnualDates(list) <=> \E i \in 1..Len(list) : list[i].annual /\ list[i].date = k
<1>1. DOMAIN list = 1..Len(list)
  OBVIOUS
<1> QED
  BY <1>1 DEF AnnualDates

LEMMA FrontIsPrefix ==
    ASSUME NEW list \in Seq(Rec)
    PROVE  /\ Front(list) \in Seq(Rec)
           /\ Len(Front(list)) = IF Len(list) < Limit THEN Len(list) ELSE Limit
           /\ \A i \in 1..Len(Front(list)) : Front(list)[i] = list[i]
<1> DEFINE m == IF Len(list) < Limit THEN Len(list) ELSE Limit
<1>1. Limit \in Nat /\ Limit >= 1 /\ Len(list) \in Nat
  BY ClientAssumption
<1>2. m \in Nat /\ m <= Len(list) /\ m <= Limit
  BY <1>1
<1>3. \A i \in 1..m : list[i] \in Rec
  BY <1>1, <1>2
<1> HIDE DEF m
<1>4. /\ SubSeq(list, 1, m) \in Seq(Rec)
      /\ Len(SubSeq(list, 1, m)) = IF 1 <= m THEN m - 1 + 1 ELSE 0
      /\ \A i \in 1..(m - 1 + 1) : SubSeq(list, 1, m)[i] = list[1 + i - 1]
  BY <1>2, <1>3, SubSeqProperties
<1>5. Len(SubSeq(list, 1, m)) = m
  BY <1>2, <1>4
<1>6. \A i \in 1..m : SubSeq(list, 1, m)[i] = list[i]
  BY <1>2, <1>4
<1> QED
  BY <1>4, <1>5, <1>6 DEF Front, m

LEMMA ListsGrowAtFront ==
    ASSUME NEW list \in Seq(Rec), NEW n \in Rec
    PROVE  /\ <<n>> \o list \in Seq(Rec) /\ Inserted(list, <<n>> \o list, 0, n)
<1> DEFINE u == <<n>>
<1>1. u \in Seq(Rec) /\ Len(u) = 1 /\ u[1] = n /\ Len(list) \in Nat
  OBVIOUS
<1> HIDE DEF u
<1>2. /\ u \o list \in Seq(Rec) /\ Len(u \o list) = Len(u) + Len(list)
      /\ \A i \in 1..(Len(u) + Len(list)) :
            (u \o list)[i] = IF i <= Len(u) THEN u[i] ELSE list[i - Len(u)]
  BY <1>1, ConcatProperties
<1>3. Len(u \o list) = Len(list) + 1
  BY <1>1, <1>2
<1>4. ASSUME NEW i \in 1..(Len(list) + 1)
      PROVE  (u \o list)[i] = IF i <= 0 THEN list[i] ELSE IF i = 0 + 1 THEN n ELSE list[i - 1]
  <2>1. (u \o list)[i] = IF i <= 1 THEN u[i] ELSE list[i - 1]
    BY <1>1, <1>2
  <2>2. CASE i = 1
    BY <1>1, <2>1, <2>2
  <2>3. CASE i # 1
    BY <1>1, <2>1, <2>3
  <2> QED
    BY <2>2, <2>3
<1>5. Inserted(list, u \o list, 0, n)
  BY <1>1, <1>3, <1>4 DEF Inserted
<1> QED
  BY <1>2, <1>5 DEF u

LEMMA ListsGrowWithin ==
    ASSUME NEW list \in Seq(Rec), NEW n \in Rec, NEW p \in 0..Len(list)
    PROVE  LET more == SubSeq(list, 1, p) \o <<n>> \o SubSeq(list, p + 1, Len(list))
           IN  more \in Seq(Rec) /\ Inserted(list, more, p, n)
<1> DEFINE a == SubSeq(list, 1, p)
           u == <<n>>
           b == SubSeq(list, p + 1, Len(list))
           l == Len(list)
<1>1. u \in Seq(Rec) /\ Len(u) = 1 /\ u[1] = n /\ l \in Nat /\ p \in Nat /\ p <= l
  OBVIOUS
<1>2. /\ a \in Seq(Rec) /\ Len(a) = p /\ \A i \in 1..p : a[i] = list[i]
  <2>1. \A i \in 1..p : list[i] \in Rec
    BY <1>1
  <2>2. /\ a \in Seq(Rec) /\ Len(a) = IF 1 <= p THEN p - 1 + 1 ELSE 0
        /\ \A i \in 1..(p - 1 + 1) : a[i] = list[1 + i - 1]
    BY <1>1, <2>1, SubSeqProperties
  <2> HIDE DEF a
  <2> QED
    BY <1>1, <2>2
<1>3. /\ b \in Seq(Rec) /\ Len(b) = l - p /\ \A i \in 1..(l - p) : b[i] = list[p + i]
  <2>1. \A i \in (p + 1)..l : list[i] \in Rec
    BY <1>1
  <2>2. /\ b \in Seq(Rec) /\ Len(b) = IF p + 1 <= l THEN l - (p + 1) + 1 ELSE 0
        /\ \A i \in 1..(l - (p + 1) + 1) : b[i] = list[p + 1 + i - 1]
    BY <1>1, <2>1, SubSeqProperties
  <2> HIDE DEF b, l
  <2> QED
    BY <1>1, <2>2
<1> HIDE DEF a, b, u, l
<1>4. /\ a \o u \in Seq(Rec) /\ Len(a \o u) = p + 1
      /\ \A i \in 1..(p + 1) : (a \o u)[i] = IF i <= p THEN list[i] ELSE n
  <2>1. /\ a \o u \in Seq(Rec) /\ Len(a \o u) = Len(a) + Len(u)
        /\ \A i \in 1..(Len(a) + Len(u)) :
              (a \o u)[i] = IF i <= Len(a) THEN a[i] ELSE u[i - Len(a)]
    BY <1>1, <1>2, ConcatProperties
  <2>2. ASSUME NEW i \in 1..(p + 1) PROVE (a \o u)[i] = IF i <= p THEN list[i] ELSE n
    <3>1. (a \o u)[i] = IF i <= p THEN a[i] ELSE u[i - p]
      BY <1>1, <1>2, <2>1
    <3>2. CASE i <= p
      BY <1>1, <1>2, <3>1, <3>2
    <3>3. CASE ~(i <= p)
      BY <1>1, <3>1, <3>3
    <3> QED
      BY <3>2, <3>3
  <2> QED
    BY <1>1, <1>2, <2>1, <2>2
<1> DEFINE c == a \o u
<1> HIDE DEF c
<1>5. /\ c \o b \in Seq(Rec) /\ Len(c \o b) = l + 1
      /\ \A i \in 1..(l + 1) : (c \o b)[i] = IF i <= p THEN list[i]
                                             ELSE IF i = p + 1 THEN n ELSE list[i - 1]
  <2>0. c \in Seq(Rec) /\ Len(c) = p + 1 /\ \A i \in 1..(p + 1) : c[i] = IF i <= p THEN list[i] ELSE n
    BY <1>4 DEF c
  <2>1. /\ c \o b \in Seq(Rec) /\ Len(c \o b) = Len(c) + Len(b)
        /\ \A i \in 1..(Len(c) + Len(b)) :
              (c \o b)[i] = IF i <= Len(c) THEN c[i] ELSE b[i - Len(c)]
    BY <1>3, <2>0, ConcatProperties
  <2>2. Len(c) + Len(b) = l + 1
    BY <1>1, <1>3, <2>0
  <2>3. ASSUME NEW i \in 1..(l + 1)
        PROVE  (c \o b)[i] = IF i <= p THEN list[i] ELSE IF i = p + 1 THEN n ELSE list[i - 1]
    <3>1. (c \o b)[i] = IF i <= p + 1 THEN c[i] ELSE b[i - (p + 1)]
      BY <2>0, <2>1, <2>2
    <3>2. CASE i <= p + 1
      BY <1>1, <2>0, <3>1, <3>2
    <3>3. CASE ~(i <= p + 1)
      <4>1. i - (p + 1) \in 1..(l - p) /\ p + (i - (p + 1)) = i - 1
        BY <1>1, <3>3
      <4> QED
        BY <1>1, <1>3, <3>1, <3>3, <4>1
    <3> QED
      BY <3>2, <3>3
  <2> QED
    BY <2>1, <2>2, <2>3
<1>6. Inserted(list, c \o b, p, n)
  BY <1>1, <1>5 DEF Inserted, l
<1> QED
  BY <1>5, <1>6 DEF a, b, c, u, l

LEMMA DatesAreNumbers ==
    ASSUME NEW list \in Seq(Rec)
    PROVE  \A k \in 1..Len(list) : list[k] \in Rec /\ list[k].date \in Nat
<1>1. \A k \in 1..Len(list) : list[k] \in Rec
  OBVIOUS
<1>2. \A r \in Rec : r.date \in Nat
  BY DEF Rec
<1> QED
  BY <1>1, <1>2

\* The record that is added is of the newest date.
AddsNewest(list, more, p, n) ==
    /\ Inserted(list, more, p, n)
    /\ \A i \in 1..Len(list) : n.date >= list[i].date
    /\ \A i \in 1..p : list[i].date >= n.date

\* Where the records of a list are in the longer one.
Places(list, more, p, n) ==
    /\ p \in Nat /\ p <= Len(list) /\ Len(list) \in Nat /\ Len(more) = Len(list) + 1
    /\ p + 1 \in 1..Len(more) /\ more[p + 1] = n
    /\ \A i \in 1..Len(list) : i <= p => i \in 1..Len(more) /\ more[i] = list[i]
    /\ \A i \in 1..Len(list) : i > p => i + 1 \in 1..Len(more) /\ more[i + 1] = list[i]
    /\ \A j \in 1..Len(more) : \/ j <= p /\ j \in 1..Len(list) /\ more[j] = list[j]
                               \/ j = p + 1 /\ more[j] = n
                               \/ /\ j > p + 1 /\ j - 1 \in 1..Len(list)
                                  /\ more[j] = list[j - 1]

LEMMA InsertedPlaces ==
    ASSUME NEW list \in Seq(Rec), NEW more \in Seq(Rec), NEW p, NEW n,
           Inserted(list, more, p, n)
    PROVE  Places(list, more, p, n)
<1>1. /\ p \in Nat /\ p <= Len(list) /\ Len(list) \in Nat /\ Len(more) = Len(list) + 1
      /\ \A i \in 1..Len(more) :
            more[i] = IF i <= p THEN list[i] ELSE IF i = p + 1 THEN n ELSE list[i - 1]
  BY DEF Inserted
<1> DEFINE l == Len(list)
<1> HIDE DEF l
<1>2. l \in Nat /\ p <= l /\ Len(more) = l + 1
  BY <1>1 DEF l
<1>3. p + 1 \in 1..Len(more) /\ more[p + 1] = n
  BY <1>1, <1>2
<1>4. \A i \in 1..l : i <= p => i \in 1..Len(more) /\ more[i] = list[i]
  BY <1>1, <1>2
<1>5. ASSUME NEW i \in 1..l, i > p PROVE i + 1 \in 1..Len(more) /\ more[i + 1] = list[i]
  <2>1. i + 1 \in 1..(l + 1) /\ ~(i + 1 <= p) /\ i + 1 # p + 1 /\ (i + 1) - 1 = i
    BY <1>1, <1>2, <1>5
  <2> QED
    BY <1>1, <1>2, <2>1
<1>6. ASSUME NEW j \in 1..Len(more)
      PROVE  \/ j <= p /\ j \in 1..l /\ more[j] = list[j]
             \/ j = p + 1 /\ more[j] = n
             \/ j > p + 1 /\ j - 1 \in 1..l /\ more[j] = list[j - 1]
  BY <1>1, <1>2
<1> QED
  BY <1>1, <1>3, <1>4, <1>5, <1>6 DEF l, Places

LEMMA StaysSorted ==
    ASSUME NEW list \in Seq(Rec), NEW more \in Seq(Rec), NEW p, NEW n \in Rec, Sorted(list),
           AddsNewest(list, more, p, n)
    PROVE  Sorted(more)
<1> SUFFICES ASSUME NEW i \in 1..Len(more), NEW j \in 1..Len(more), i <= j
             PROVE  more[i].date >= more[j].date
  BY DEF Sorted
<1>1. Inserted(list, more, p, n)
  BY DEF AddsNewest
<1>0. Places(list, more, p, n)
  BY <1>1, InsertedPlaces
<1>2. /\ \/ i <= p /\ i \in 1..Len(list) /\ more[i] = list[i]
         \/ i = p + 1 /\ more[i] = n
         \/ i > p + 1 /\ i - 1 \in 1..Len(list) /\ more[i] = list[i - 1]
      /\ \/ j <= p /\ j \in 1..Len(list) /\ more[j] = list[j]
         \/ j = p + 1 /\ more[j] = n
         \/ j > p + 1 /\ j - 1 \in 1..Len(list) /\ more[j] = list[j - 1]
  BY <1>0 DEF Places
<1>3. n.date \in Nat /\ \A k \in 1..Len(list) : list[k].date \in Nat
  BY DatesAreNumbers DEF Rec
<1>4. CASE i <= p
  <2>1. i \in 1..Len(list) /\ more[i] = list[i] /\ list[i].date >= n.date
    BY <1>0, <1>2, <1>4 DEF AddsNewest, Places
  <2>2. CASE j <= p
    BY <1>0, <1>2, <2>1, <2>2 DEF Sorted, Places
  <2>3. CASE j = p + 1
    BY <1>0, <1>2, <2>1, <2>3 DEF Places
  <2>4. CASE j > p + 1
    <3>1. i <= j - 1 /\ j - 1 \in 1..Len(list) /\ more[j] = list[j - 1]
      BY <1>0, <1>2, <1>4, <2>4 DEF Places
    <3> QED
      BY <2>1, <3>1 DEF Sorted
  <2> QED
    BY <1>0, <1>2, <2>2, <2>3, <2>4 DEF Places
<1>5. CASE i = p + 1
  <2>1. CASE j = p + 1
    BY <1>0, <1>2, <1>3, <1>5, <2>1 DEF Places
  <2>2. CASE j > p + 1
    BY <1>0, <1>2, <1>5, <2>2 DEF AddsNewest, Places
  <2> QED
    BY <1>0, <1>2, <1>5, <2>1, <2>2 DEF Places
<1>6. CASE i > p + 1
  <2>1. /\ j - 1 \in 1..Len(list) /\ more[j] = list[j - 1]
        /\ i - 1 \in 1..Len(list) /\ more[i] = list[i - 1] /\ i - 1 <= j - 1
    BY <1>0, <1>2, <1>6 DEF Places
  <2> QED
    BY <2>1 DEF Sorted
<1> QED
  BY <1>0, <1>2, <1>4, <1>5, <1>6 DEF Places

\* What an answer reaches it still does after an addition: what falls out of it
\* is older than what is left.
LEMMA ReachesFurther ==
    ASSUME NEW list \in Seq(Rec), NEW more \in Seq(Rec), NEW p, NEW n \in Rec, Sorted(list),
           AddsNewest(list, more, p, n), NEW k \in Nat, Reaches(Front(list), k)
    PROVE  Reaches(Front(more), k)
<1> DEFINE A == Front(list)
           B == Front(more)
<1>1. /\ A \in Seq(Rec) /\ Len(A) = (IF Len(list) < Limit THEN Len(list) ELSE Limit)
      /\ \A i \in 1..Len(A) : A[i] = list[i]
      /\ B \in Seq(Rec) /\ Len(B) = (IF Len(more) < Limit THEN Len(more) ELSE Limit)
      /\ \A i \in 1..Len(B) : B[i] = more[i]
  BY FrontIsPrefix
<1>2. Inserted(list, more, p, n) /\ Limit \in Nat /\ Limit >= 1
  BY ClientAssumption DEF AddsNewest
<1>3. Places(list, more, p, n)
  BY <1>2, InsertedPlaces
<1>4. n.date \in Nat /\ \A i \in 1..Len(list) : list[i].date \in Nat
  BY DatesAreNumbers DEF Rec
<1> HIDE DEF A, B
<1>5. Reaches(A, k)
  BY DEF A
<1>6. B # <<>> /\ Len(A) \in Nat /\ Len(B) \in Nat /\ Len(A) <= Len(list) /\ Len(A) >= 1
  <2>1. Len(B) >= 1 /\ Len(A) \in Nat /\ Len(B) \in Nat /\ Len(A) <= Len(list)
    BY <1>1, <1>2, <1>3 DEF Places
  <2>2. A # <<>>
    BY <1>5 DEF Reaches
  <2>3. Len(A) # 0
    BY <1>1, <2>2
  <2> QED
    BY <2>1, <2>3
\* all that is left is as new as k, when all that an answer held up to i is
<1>7. ASSUME NEW m \in 1..Len(list), \A i \in 1..m : list[i].date >= k, Len(B) <= m + 1
      PROVE  \A j \in 1..Len(B) : B[j].date >= k
  <2> SUFFICES ASSUME NEW j \in 1..Len(B) PROVE B[j].date >= k
    OBVIOUS
  <2>0. Len(B) <= Len(more)
    BY <1>1, <1>2, <1>3 DEF Places
  <2>1. j \in 1..Len(more) /\ B[j] = more[j]
    BY <1>1, <1>3, <1>6, <2>0 DEF Places
  <2>2. n.date >= list[1].date /\ list[1].date >= k /\ 1 \in 1..Len(list)
    BY <1>3, <1>7 DEF AddsNewest, Places
  <2>3. n.date >= k
    BY <1>4, <2>2
  <2>4. CASE j = p + 1
    BY <1>3, <2>1, <2>3, <2>4 DEF Places
  <2>5. CASE j > p + 1
    <3>1. j - 1 \in 1..m /\ more[j] = list[j - 1]
      BY <1>3, <1>7, <2>1, <2>5 DEF Places
    <3> QED
      BY <1>7, <2>1, <3>1
  <2>6. CASE j <= p
    <3>1. j \in 1..Len(list) /\ more[j] = list[j] /\ list[j].date >= n.date
      BY <1>3, <2>1, <2>6 DEF AddsNewest, Places
    <3> QED
      BY <1>4, <2>1, <2>3, <3>1
  <2> QED
    BY <1>3, <2>1, <2>4, <2>5, <2>6 DEF Places
<1>8. CASE \A i \in 1..Len(A) : A[i].date >= k
  <2>1. \A i \in 1..Len(A) : list[i].date >= k
    BY <1>1, <1>8
  <2>2. Len(B) <= Len(A) + 1 /\ Len(A) \in 1..Len(list)
    BY <1>1, <1>2, <1>3, <1>6 DEF Places
  <2>3. \A j \in 1..Len(B) : B[j].date >= k
    BY <1>7, <2>1, <2>2
  <2> QED
    BY <1>6, <2>3 DEF Reaches, B
<1>9. CASE k \in AnnualDates(A)
  <2>1. PICK i \in 1..Len(A) : A[i].annual /\ A[i].date = k
    BY <1>1, <1>9, InAnnualDates
  <2>2. i \in 1..Len(list) /\ list[i].annual /\ list[i].date = k
    BY <1>1, <1>3, <1>6, <2>1 DEF Places
  <2>3. ASSUME NEW j \in 1..Len(B), more[j] = list[i] PROVE Reaches(Front(more), k)
    <3>1. B[j].annual /\ B[j].date = k
      BY <1>1, <2>2, <2>3
    <3>2. k \in AnnualDates(B)
      BY <1>1, <3>1, InAnnualDates
    <3> QED
      BY <1>6, <3>2 DEF Reaches, B
  <2>4. CASE i <= p
    <3>1. i \in 1..Len(more) /\ more[i] = list[i] /\ i <= Limit
      BY <1>1, <1>2, <1>3, <2>1, <2>2, <2>4 DEF Places
    <3>2. i \in 1..Len(B)
      BY <1>1, <1>2, <1>3, <3>1 DEF Places
    <3> QED
      BY <2>3, <3>1, <3>2
  <2>5. CASE i > p /\ i + 1 <= Len(B)
    <3>0. more[i + 1] = list[i]
      BY <1>3, <2>2, <2>5 DEF Places
    <3>1. i + 1 \in 1..Len(B)
      <4>1. i \in Nat /\ i + 1 <= Len(B)
        BY <2>5, <2>2
      <4> QED
        BY <1>6, <4>1
    <3> QED
      BY <2>3, <3>0, <3>1
  <2>6. CASE ~(i + 1 <= Len(B))
    <3>1. \A h \in 1..i : list[h].date >= k
      <4> SUFFICES ASSUME NEW h \in 1..i PROVE list[h].date >= k
        OBVIOUS
      <4>1. h \in 1..Len(list) /\ h <= i
        BY <1>3, <2>2 DEF Places
      <4> QED
        BY <2>2, <4>1 DEF Sorted
    <3>2. Len(B) <= i + 1
      BY <1>6, <2>2, <2>6
    <3>3. \A j \in 1..Len(B) : B[j].date >= k
      BY <1>7, <2>2, <3>1, <3>2
    <3> QED
      BY <1>6, <3>3 DEF Reaches, B
  <2>7. i \in Nat
    BY <2>1
  <2> QED
    BY <1>3, <2>4, <2>5, <2>6, <2>7 DEF Places
<1> QED
  BY <1>5, <1>8, <1>9 DEF Reaches

-----------------------------------------------------------------------------
(* The provider only adds to its lists.                                    *)

\* A restated record differs from the original in its filing rank only.
Twins(r, q) == r.year = q.year /\ r.currency = q.currency /\ r.annual = q.annual

PeriodsAgree(list) ==
    \A i, j \in 1..Len(list) : list[i].date = list[j].date => Twins(list[i], list[j])

Grows(list, more) ==
    \E p, n : /\ n \in Rec
              /\ AddsNewest(list, more, p, n)
              /\ \A i \in 1..Len(list) : list[i].date = n.date => Twins(list[i], n)

FiledOK ==
    /\ filed \in [Statements -> Seq(Rec)]
    /\ \A s \in Statements : Sorted(filed[s]) /\ PeriodsAgree(filed[s])

LEMMA RecordIsRec ==
    ASSUME NEW shape \in Shapes, NEW date \in Nat, NEW accepted \in Nat
    PROVE  /\ Record(shape, date, accepted) \in Rec
           /\ Record(shape, date, accepted).date = date
<1>1. shape \in [annual : BOOLEAN, year : 0..2, currency : STRING, sound : BOOLEAN]
  BY ClientAssumption
<1> DEFINE year == IF shape.year = 0 THEN NoYear ELSE date + shape.year - 1
<1>2. year \in Nat
  <2>1. shape.year \in 0..2
    BY <1>1
  <2> QED
    BY <2>1 DEF NoYear
<1> HIDE DEF year
<1>3. [annual |-> shape.annual, date |-> date, year |-> year, currency |-> shape.currency,
       sound |-> shape.sound, accepted |-> accepted] \in Rec
  BY <1>1, <1>2 DEF Rec
<1> QED
  BY <1>3 DEF Record, year

LEMMA ListedIsSorted ==
    ASSUME NEW shapes \in Histories
    PROVE  /\ Listed(shapes) \in Seq(Rec) /\ Len(Listed(shapes)) = Len(shapes)
           /\ \A i \in 1..Len(shapes) : Listed(shapes)[i] = Record(shapes[i], Len(shapes) - i + 1, 1)
           /\ Sorted(Listed(shapes)) /\ PeriodsAgree(Listed(shapes))
<1> DEFINE l == Len(shapes)
           F == [i \in 1..l |-> Record(shapes[i], l - i + 1, 1)]
<1>1. shapes \in Seq(Shapes) /\ l \in Nat /\ DOMAIN shapes = 1..l
  BY ClientAssumption
<1>2. \A i \in 1..l : shapes[i] \in Shapes
  BY <1>1
<1>3. Listed(shapes) = F
  BY <1>1 DEF Listed
<1> HIDE DEF l
<1>4. ASSUME NEW i \in 1..l
      PROVE  F[i] \in Rec /\ F[i].date = l - i + 1 /\ F[i] = Record(shapes[i], l - i + 1, 1)
  <2>1. l - i + 1 \in Nat /\ 1 \in Nat
    BY <1>1
  <2> QED
    BY <1>2, <2>1, RecordIsRec
<1>5. F \in Seq(Rec) /\ Len(F) = l
  <2>1. F \in [1..l -> Rec]
    BY <1>4
  <2> HIDE DEF F
  <2> QED
    BY <1>1, <2>1
<1>6. Sorted(F)
  <2> SUFFICES ASSUME NEW i \in 1..l, NEW j \in 1..l, i <= j PROVE F[i].date >= F[j].date
    BY <1>5 DEF Sorted
  <2>1. l - i + 1 >= l - j + 1
    BY <1>1
  <2> QED
    BY <1>4, <2>1
<1>7. PeriodsAgree(F)
  <2> SUFFICES ASSUME NEW i \in 1..l, NEW j \in 1..l, F[i].date = F[j].date
               PROVE  Twins(F[i], F[j])
    BY <1>5 DEF PeriodsAgree
  <2>1. i = j
    BY <1>1, <1>4
  <2> QED
    BY <2>1 DEF Twins
<1> HIDE DEF F
<1> QED
  BY <1>3, <1>4, <1>5, <1>6, <1>7 DEF l

LEMMA FiledAtFirst ==
    ASSUME Init PROVE FiledOK
<1>1. filed \in [Statements -> {Listed(history) : history \in Histories}]
  BY DEF Init
<1>2. ASSUME NEW s \in Statements
      PROVE  filed[s] \in Seq(Rec) /\ Sorted(filed[s]) /\ PeriodsAgree(filed[s])
  <2> DEFINE X == {Listed(history) : history \in Histories}
  <2>1. filed[s] \in X
    <3> HIDE DEF X
    <3>1. filed \in [Statements -> X]
      BY <1>1 DEF X
    <3> QED
      BY <3>1
  <2>2. PICK history \in Histories : filed[s] = Listed(history)
    BY <2>1
  <2>3. /\ Listed(history) \in Seq(Rec) /\ Sorted(Listed(history))
        /\ PeriodsAgree(Listed(history))
    BY ListedIsSorted
  <2> QED
    BY <2>2, <2>3
<1>3. DOMAIN filed = Statements /\ filed = [s \in Statements |-> filed[s]]
  BY <1>1
<1> QED
  BY <1>2, <1>3 DEF FiledOK

LEMMA PublishGrows ==
    ASSUME FiledOK, NEW s \in Statements, NEW shape \in Shapes, Publish(s, shape)
    PROVE  \E more \in Seq(Rec) : /\ Grows(filed[s], more)
                                  /\ filed' = [filed EXCEPT ![s] = more]
<1> DEFINE list == filed[s]
           n == Record(shape, NewestFiled(s) + 1, 1)
           more == <<n>> \o list
<1>1. list \in Seq(Rec) /\ Sorted(list) /\ Len(list) \in Nat
  BY DEF FiledOK
<1>2. \A i \in 1..Len(list) : NewestFiled(s) >= list[i].date /\ list[i].date \in Nat
  <2> SUFFICES ASSUME NEW i \in 1..Len(list)
               PROVE  NewestFiled(s) >= list[i].date /\ list[i].date \in Nat
    OBVIOUS
  <2>1. 1 \in 1..Len(list) /\ 1 <= i
    BY <1>1
  <2>2. list # <<>>
    OBVIOUS
  <2>3. NewestFiled(s) = list[1].date
    BY <2>2 DEF NewestFiled
  <2>4. list[1].date >= list[i].date
    BY <1>1, <2>1 DEF Sorted
  <2> QED
    BY <1>1, <2>3, <2>4, DatesAreNumbers
<1>3. NewestFiled(s) \in Nat
  <2>1. CASE list = <<>>
    BY <2>1 DEF NewestFiled
  <2>2. CASE list # <<>>
    <3>1. 1 \in 1..Len(list)
      BY <1>1, <2>2
    <3>2. list[1].date \in Nat
      BY <1>1, <3>1, DatesAreNumbers
    <3> QED
      BY <2>2, <3>2 DEF NewestFiled
  <2> QED
    BY <2>1, <2>2
<1>4. n \in Rec /\ n.date = NewestFiled(s) + 1
  BY <1>3, RecordIsRec
<1>5. filed' = [filed EXCEPT ![s] = more]
  BY DEF Publish
<1> HIDE DEF n, list
<1>6. more \in Seq(Rec) /\ Inserted(list, more, 0, n)
  BY <1>1, <1>4, ListsGrowAtFront
<1>7. \A i \in 1..Len(list) : n.date >= list[i].date
  BY <1>2, <1>3, <1>4
<1>8. \A i \in 1..0 : list[i].date >= n.date
  OBVIOUS
<1>81. \A i \in 1..Len(list) : list[i].date # n.date
  BY <1>2, <1>3, <1>4
<1>9. Grows(list, more)
  BY <1>4, <1>6, <1>7, <1>8, <1>81 DEF Grows, AddsNewest
<1> QED
  BY <1>5, <1>6, <1>9 DEF list

LEMMA RestateGrows ==
    ASSUME FiledOK, NEW s \in Statements, Restate(s)
    PROVE  \E more \in Seq(Rec) : /\ Grows(filed[s], more)
                                  /\ filed' = [filed EXCEPT ![s] = more]
<1> DEFINE list == filed[s]
           n == [list[1] EXCEPT !.accepted = 2]
           Longer(p) == SubSeq(list, 1, p) \o <<n>> \o SubSeq(list, p + 1, Len(list))
<1>1. list \in Seq(Rec) /\ Sorted(list) /\ Len(list) \in Nat /\ list # <<>>
  BY DEF FiledOK, Restate
<1>2. PICK p \in {0, 1} : filed' = [filed EXCEPT ![s] = Longer(p)]
  BY DEF Restate
<1>3. 1 \in 1..Len(list) /\ p \in 0..Len(list)
  BY <1>1
<1>4. list[1] \in Rec
  BY <1>1, <1>3
<1>5. n \in Rec /\ n.date = list[1].date /\ n.date \in Nat /\ Twins(list[1], n)
  BY <1>4 DEF Rec, Twins
<1>51. PeriodsAgree(list)
  BY DEF FiledOK
<1> HIDE DEF n, list
<1>6. Longer(p) \in Seq(Rec) /\ Inserted(list, Longer(p), p, n)
  BY <1>1, <1>3, <1>5, ListsGrowWithin
<1>7. \A i \in 1..Len(list) : n.date >= list[i].date
  BY <1>1, <1>3, <1>5 DEF Sorted
<1>8. \A i \in 1..p : list[i].date >= n.date
  <2> SUFFICES ASSUME NEW i \in 1..p PROVE list[i].date >= n.date
    OBVIOUS
  <2>1. i = 1
    BY <1>2
  <2> QED
    BY <1>5, <2>1
<1>81. \A i \in 1..Len(list) : list[i].date = n.date => Twins(list[i], n)
  BY <1>3, <1>5, <1>51 DEF PeriodsAgree, Twins
<1>9. Grows(list, Longer(p))
  BY <1>5, <1>6, <1>7, <1>8, <1>81 DEF Grows, AddsNewest
<1> QED
  BY <1>2, <1>6, <1>9 DEF list

LEMMA GrownStaysSorted ==
    ASSUME NEW list \in Seq(Rec), NEW more \in Seq(Rec), Sorted(list), Grows(list, more)
    PROVE  Sorted(more)
BY StaysSorted DEF Grows

LEMMA GrownPeriodsAgree ==
    ASSUME NEW list \in Seq(Rec), NEW more \in Seq(Rec), PeriodsAgree(list), Grows(list, more)
    PROVE  PeriodsAgree(more)
<1>1. PICK p, n : /\ n \in Rec
                  /\ AddsNewest(list, more, p, n)
                  /\ \A i \in 1..Len(list) : list[i].date = n.date => Twins(list[i], n)
  BY DEF Grows
<1>2. Places(list, more, p, n)
  BY <1>1, InsertedPlaces DEF AddsNewest
<1>3. \A j \in 1..Len(more) : more[j] = n \/ \E i \in 1..Len(list) : more[j] = list[i]
  BY <1>2 DEF Places
<1> SUFFICES ASSUME NEW g \in 1..Len(more), NEW h \in 1..Len(more), more[g].date = more[h].date
             PROVE  Twins(more[g], more[h])
  BY DEF PeriodsAgree
<1>4. CASE more[g] = n
  BY <1>1, <1>3, <1>4 DEF Twins
<1>5. CASE more[h] = n
  BY <1>1, <1>3, <1>5 DEF Twins
<1>6. ASSUME NEW i \in 1..Len(list), NEW j \in 1..Len(list), more[g] = list[i], more[h] = list[j]
      PROVE  Twins(more[g], more[h])
  BY <1>6 DEF PeriodsAgree
<1> QED
  BY <1>3, <1>4, <1>5, <1>6

LEMMA GrownReaches ==
    ASSUME NEW list \in Seq(Rec), NEW more \in Seq(Rec), Sorted(list), Grows(list, more),
           NEW k \in Nat, Reaches(Front(list), k)
    PROVE  Reaches(Front(more), k)
BY ReachesFurther DEF Grows

\* What the provider's steps do to its lists.
ProviderStep ==
    \/ UNCHANGED <<filed, changes>>
    \/ /\ changes < MaxChanges /\ changes' = changes + 1
       /\ \E s \in Statements : \E more \in Seq(Rec) :
             Grows(filed[s], more) /\ filed' = [filed EXCEPT ![s] = more]

LEMMA ListsOnlyGrow ==
    ASSUME FiledOK, [Next]_vars
    PROVE  ProviderStep
<1>1. CASE \E s \in Statements, shape \in Shapes : Publish(s, shape)
  BY <1>1, PublishGrows DEF ProviderStep, Publish, Change
<1>2. CASE \E s \in Statements : Restate(s)
  BY <1>2, RestateGrows DEF ProviderStep, Restate, Change
<1>3. CASE UNCHANGED vars
  BY <1>3 DEF vars, providerVars, ProviderStep
<1>4. CASE \E f \in Fetches, override \in BOOLEAN : Begin(f, override)
  BY <1>4 DEF Begin, providerVars, ProviderStep
<1>5. CASE \E f \in Lookups : LookUp(f)
  BY <1>5 DEF LookUp, providerVars, ProviderStep
<1>6. CASE ClientStep
  BY <1>6 DEF ClientStep, CallStep, Send, Payload, Transient, Final, Wake, Collect, LookedUp,
     providerVars, ProviderStep
<1> QED
  BY <1>1, <1>2, <1>3, <1>4, <1>5, <1>6 DEF Next

LEMMA FiledStaysOK ==
    ASSUME FiledOK, [Next]_vars
    PROVE  FiledOK'
<1>1. CASE UNCHANGED filed
  BY <1>1 DEF FiledOK, Sorted, PeriodsAgree, Twins
<1>2. ASSUME NEW s \in Statements, NEW more \in Seq(Rec), Grows(filed[s], more),
             filed' = [filed EXCEPT ![s] = more]
      PROVE  FiledOK'
  <2>1. filed' \in [Statements -> Seq(Rec)]
    BY <1>2 DEF FiledOK
  <2>2. Sorted(more) /\ PeriodsAgree(more)
    BY <1>2, GrownStaysSorted, GrownPeriodsAgree DEF FiledOK
  <2>3. ASSUME NEW t \in Statements PROVE Sorted(filed'[t]) /\ PeriodsAgree(filed'[t])
    BY <1>2, <2>2 DEF FiledOK
  <2> QED
    BY <2>1, <2>3 DEF FiledOK, Sorted, PeriodsAgree, Twins
<1> QED
  BY <1>1, <1>2, ListsOnlyGrow DEF ProviderStep

-----------------------------------------------------------------------------
(* What a request's steps do, and what a fetch sees of the others.         *)

Payloads == Seq(Rec)

CallPlaces == {"none", "queued", "sent", "asleep", "done", "failed",
               "ticker_not_found", "ticker_not_covered", "provider_error", "unmapped"}

CallState == [at : CallPlaces, attempt : Nat, payload : Payloads]

CallsTyped == call \in [Calls -> CallState]

FetchesTyped ==
    /\ fetch = [f \in Fetches \cup Lookups |-> fetch[f]]
    /\ owed = [f \in Fetches |-> owed[f]]
    /\ known = [f \in Fetches |-> known[f]]


LEMMA AnswersAreFronts == \A s \in Statements : Answered(s) = Front(filed[s])
BY DEF Answered, Front

LEMMA AnswersAreTyped ==
    ASSUME FiledOK, NEW s \in Statements PROVE Answered(s) \in Seq(Rec)
BY AnswersAreFronts, FrontIsPrefix DEF FiledOK

LEMMA UnaskedIsTyped == Unasked \in CallState
<1>1. <<>> \in Payloads
  BY DEF Payloads
<1> QED
  BY <1>1 DEF Unasked, CallState, CallPlaces

\* One call is moved, the others stay.
CallSet(c, new) ==
    /\ new \in CallState
    /\ call' = [d \in Calls |-> IF d = c THEN new ELSE call[d]]

LEMMA MoveSets ==
    ASSUME CallsTyped, NEW c \in Calls, NEW x \in CallPlaces, Move(c, x)
    PROVE  CallSet(c, [call[c] EXCEPT !.at = x])
<1>1. call[c] \in CallState
  BY DEF CallsTyped
<1>2. [call[c] EXCEPT !.at = x] \in CallState
  BY <1>1 DEF CallState
<1>3. call' = [d \in Calls |-> IF d = c THEN [call[c] EXCEPT !.at = x] ELSE call[d]]
  BY DEF Move, CallsTyped
<1> QED
  BY <1>2, <1>3 DEF CallSet

\* What a step of a request does to it and to its fetch.
CallStepDoes(c, new) ==
    /\ CallSet(c, new)
    /\ call[c].at \in {"queued", "sent", "asleep"}
    /\ UNCHANGED <<providerVars, begun>>
    /\ \/ /\ new.at \in {"sent", "asleep", "queued"}
          /\ UNCHANGED fetch
       \/ /\ new.at = "done"
          /\ new.payload = IF c[2] \in Statements /\ fetch[c[1]] = Running
                           THEN Answered(c[2]) ELSE <<>>
          /\ UNCHANGED fetch
       \/ /\ new.at = "failed"
          /\ Fail(c[1], "provider_error")
       \/ /\ new.at \in Refusals
          /\ Fail(c[1], new.at)

LEMMA SendDoes ==
    ASSUME CallsTyped, NEW c \in Calls, Send(c)
    PROVE  \E new : CallStepDoes(c, new)
<1> DEFINE new == [call[c] EXCEPT !.at = "sent"]
<1>1. call[c] \in CallState
  BY DEF CallsTyped
<1>2. CallSet(c, new)
  BY MoveSets DEF Send, CallPlaces
<1>3. new.at = "sent"
  BY <1>1 DEF CallState
<1> HIDE DEF new
<1>4. CallStepDoes(c, new)
  BY <1>2, <1>3 DEF CallStepDoes, Send
<1> QED
  BY <1>4

LEMMA PayloadDoes ==
    ASSUME FiledOK, CallsTyped, NEW c \in Calls, Payload(c)
    PROVE  \E new : CallStepDoes(c, new)
<1> DEFINE pay == IF c[2] \in Statements /\ fetch[c[1]] = Running THEN Answered(c[2]) ELSE <<>>
           mid == [call[c] EXCEPT !.at = "done"]
           new == [mid EXCEPT !.payload = pay]
<1>1. call[c] \in CallState
  BY DEF CallsTyped
<1>2. pay \in Payloads
  <2>1. <<>> \in Payloads
    BY DEF Payloads
  <2> QED
    BY <2>1, AnswersAreTyped DEF Payloads
<1>3. call' = [call EXCEPT ![c].at = "done", ![c].payload = pay]
  BY DEF Payload
<1> HIDE DEF pay
<1>4. mid \in CallState /\ mid.at = "done"
  BY <1>1 DEF CallState, CallPlaces
<1>5. call' = [d \in Calls |-> IF d = c THEN new ELSE call[d]]
  BY <1>3 DEF CallsTyped
<1> HIDE DEF mid
<1>6. new \in CallState /\ new.at = "done" /\ new.payload = pay
  BY <1>2, <1>4 DEF CallState
<1> HIDE DEF new
<1>7. CallStepDoes(c, new)
  BY <1>5, <1>6 DEF CallStepDoes, CallSet, Payload, pay
<1> QED
  BY <1>7

LEMMA TransientDoes ==
    ASSUME CallsTyped, NEW c \in Calls, Transient(c)
    PROVE  \E new : CallStepDoes(c, new)
<1>1. call[c] \in CallState
  BY DEF CallsTyped
<1>2. CASE call[c].attempt < MaxRetries
  <2> DEFINE new == [call[c] EXCEPT !.at = "asleep"]
  <2>1. CallSet(c, new)
    BY <1>2, MoveSets DEF Transient, CallPlaces
  <2>2. new.at = "asleep"
    BY <1>1 DEF CallState
  <2> HIDE DEF new
  <2>3. CallStepDoes(c, new)
    BY <1>2, <2>1, <2>2 DEF CallStepDoes, Transient
  <2> QED
    BY <2>3
<1>3. CASE ~(call[c].attempt < MaxRetries)
  <2> DEFINE new == [call[c] EXCEPT !.at = "failed"]
  <2>1. CallSet(c, new)
    BY <1>3, MoveSets DEF Transient, CallPlaces
  <2>2. new.at = "failed"
    BY <1>1 DEF CallState
  <2> HIDE DEF new
  <2>3. CallStepDoes(c, new)
    BY <1>3, <2>1, <2>2 DEF CallStepDoes, Transient
  <2> QED
    BY <2>3
<1> QED
  BY <1>2, <1>3

LEMMA FinalDoes ==
    ASSUME CallsTyped, NEW c \in Calls, NEW kind \in Refusals, Final(c, kind)
    PROVE  \E new : CallStepDoes(c, new)
<1> DEFINE new == [call[c] EXCEPT !.at = kind]
<1>1. call[c] \in CallState /\ kind \in CallPlaces
  BY DEF CallsTyped, Refusals, CallPlaces
<1>2. CallSet(c, new)
  BY <1>1, MoveSets DEF Final
<1>3. new.at = kind
  BY <1>1 DEF CallState
<1> HIDE DEF new
<1>4. CallStepDoes(c, new)
  BY <1>2, <1>3 DEF CallStepDoes, Final
<1> QED
  BY <1>4

LEMMA WakeDoes ==
    ASSUME CallsTyped, NEW c \in Calls, Wake(c)
    PROVE  \E new : CallStepDoes(c, new)
<1> DEFINE mid == [call[c] EXCEPT !.at = "queued"]
           new == [mid EXCEPT !.attempt = @ + 1]
<1>1. call[c] \in CallState
  BY DEF CallsTyped
<1>2. call' = [call EXCEPT ![c].at = "queued", ![c].attempt = @ + 1]
  BY DEF Wake
<1>3. mid \in CallState /\ mid.at = "queued"
  BY <1>1 DEF CallState, CallPlaces
<1>4. call' = [d \in Calls |-> IF d = c THEN new ELSE call[d]]
  BY <1>2 DEF CallsTyped
<1> HIDE DEF mid
<1>5. new \in CallState /\ new.at = "queued"
  BY <1>3 DEF CallState
<1> HIDE DEF new
<1>6. CallStepDoes(c, new)
  BY <1>4, <1>5 DEF CallStepDoes, CallSet, Wake
<1> QED
  BY <1>6

LEMMA CallStepsDo ==
    ASSUME FiledOK, CallsTyped, NEW c \in Calls, CallStep(c)
    PROVE  \E new : CallStepDoes(c, new)
<1>1. CASE \E kind \in Refusals : Final(c, kind)
  BY <1>1, FinalDoes DEF Refusals
<1> QED
  BY <1>1, SendDoes, PayloadDoes, TransientDoes, WakeDoes DEF CallStep

\* What a step that neither begins nor collects a fetch does to it.
FetchGoesOn(f) ==
    \/ fetch'[f] = fetch[f]
    \/ fetch[f] = Running /\ fetch'[f] = Refused("provider_error")
    \/ /\ fetch[f] = Running
       /\ \E e \in Endpoints : /\ call'[<<f, e>>].at \in Refusals
                               /\ fetch'[f] = Refused(call'[<<f, e>>].at)

Carries(f) ==
    \A s \in Statements :
        call'[<<f, s>>].at = "done" =>
            \/ /\ call[<<f, s>>].at = "done"
               /\ call'[<<f, s>>].payload = call[<<f, s>>].payload
            \/ call'[<<f, s>>].payload = Answered(s)
            \/ fetch[f] # Running

KeepsRefusals(f) ==
    \A e \in Endpoints :
        call[<<f, e>>].at \in Refusals => call'[<<f, e>>].at = call[<<f, e>>].at

Steady(f) ==
    /\ known'[f] = known[f] /\ owed'[f] = owed[f]
    /\ FetchGoesOn(f) /\ Carries(f) /\ KeepsRefusals(f)

LEMMA RequestsAreCalls ==
    /\ \A f \in Fetches, e \in Endpoints : <<f, e>> \in Calls /\ f \notin Lookups
    /\ \A f \in Fetches, s \in Statements : <<f, s>> \in Calls /\ s \in Endpoints
    /\ \A f \in Lookups : <<f, "profile">> \in Calls
    /\ \A c \in Calls : \/ /\ c[1] \in Fetches /\ c[2] \in Endpoints
                           /\ c = <<c[1], c[2]>>
                        \/ c[1] \in Lookups /\ c[2] = "profile" /\ c = <<c[1], c[2]>>
BY ClientAssumption DEF Calls, Endpoints

LEMMA UntouchedIsSteady ==
    ASSUME NEW f \in Fetches, known'[f] = known[f], owed'[f] = owed[f], fetch'[f] = fetch[f],
           \A e \in Endpoints : call'[<<f, e>>] = call[<<f, e>>]
    PROVE  Steady(f)
BY RequestsAreCalls DEF Steady, FetchGoesOn, Carries, KeepsRefusals

LEMMA CallStepIsSteady ==
    ASSUME CallsTyped, FetchesTyped, NEW c \in Calls, NEW new, CallStepDoes(c, new),
           NEW f \in Fetches
    PROVE  Steady(f)
<1>1. known'[f] = known[f] /\ owed'[f] = owed[f]
  BY DEF CallStepDoes, begun
<1>2. \A d \in Calls : call'[d] = IF d = c THEN new ELSE call[d]
  BY DEF CallStepDoes, CallSet
<1>3. call[c].at \notin Refusals /\ call[c].at # "done"
  BY DEF CallStepDoes, Refusals
<1>4. CASE c[1] = f
  <2>1. c = <<f, c[2]>> /\ c[2] \in Endpoints
    <3>1. f \notin Lookups
      BY ClientAssumption
    <3>2. \/ c[1] \in Fetches /\ c[2] \in Endpoints /\ c = <<c[1], c[2]>>
          \/ c[1] \in Lookups
      BY RequestsAreCalls
    <3> QED
      BY <1>4, <3>1, <3>2
  <2>2. call'[<<f, c[2]>>] = new
    BY <1>2, <2>1
  <2>3. FetchGoesOn(f)
    <3>1. CASE UNCHANGED fetch
      BY <3>1 DEF FetchGoesOn
    <3>2. ASSUME NEW kind, Fail(f, kind) 
          PROVE  fetch'[f] = fetch[f] \/ (fetch[f] = Running /\ fetch'[f] = Refused(kind))
      <4>1. f \in DOMAIN fetch
        BY DEF FetchesTyped
      <4> QED
        BY <3>2, <4>1 DEF Fail
    <3>3. CASE Fail(c[1], "provider_error")
      BY <1>4, <3>2, <3>3 DEF FetchGoesOn
    <3>4. CASE new.at \in Refusals /\ Fail(c[1], new.at)
      <4>1. fetch'[f] = fetch[f] \/ (fetch[f] = Running /\ fetch'[f] = Refused(new.at))
        BY <1>4, <3>2, <3>4
      <4> QED
        BY <2>1, <2>2, <3>4, <4>1 DEF FetchGoesOn
    <3> QED
      BY <3>1, <3>3, <3>4 DEF CallStepDoes
  <2>4. Carries(f)
    <3> SUFFICES ASSUME NEW s \in Statements, call'[<<f, s>>].at = "done", fetch[f] = Running
                 PROVE  \/ /\ call[<<f, s>>].at = "done"
                           /\ call'[<<f, s>>].payload = call[<<f, s>>].payload
                        \/ call'[<<f, s>>].payload = Answered(s)
      BY DEF Carries
    <3>1. <<f, s>> \in Calls
      BY RequestsAreCalls
    <3>2. CASE <<f, s>> = c
      <4>1. c[1] = f /\ c[2] = s /\ call'[<<f, s>>] = new
        BY <1>2, <3>1, <3>2
      <4>2. new.payload = Answered(s)
        BY <4>1 DEF CallStepDoes, Refusals
      <4> QED
        BY <4>1, <4>2
    <3>3. CASE <<f, s>> # c
      BY <1>2, <3>1, <3>3
    <3> QED
      BY <3>2, <3>3
  <2>5. KeepsRefusals(f)
    BY <1>2, <1>3, RequestsAreCalls DEF KeepsRefusals
  <2> QED
    BY <1>1, <2>3, <2>4, <2>5 DEF Steady
<1>5. CASE c[1] # f
  <2>1. \A e \in Endpoints : call'[<<f, e>>] = call[<<f, e>>]
    <3> SUFFICES ASSUME NEW e \in Endpoints PROVE call'[<<f, e>>] = call[<<f, e>>]
      OBVIOUS
    <3>1. <<f, e>> \in Calls /\ <<f, e>>[1] = f
      BY RequestsAreCalls
    <3> QED
      BY <1>2, <1>5, <3>1
  <2>2. fetch'[f] = fetch[f]
    <3>1. ASSUME NEW kind, Fail(c[1], kind) PROVE fetch'[f] = fetch[f]
      BY <1>5, <3>1 DEF Fail, FetchesTyped
    <3> QED
      BY <3>1 DEF CallStepDoes
  <2> QED
    BY <1>1, <2>1, <2>2, UntouchedIsSteady
<1> QED
  BY <1>4, <1>5

LEMMA FetchControl ==
    ASSUME FiledOK, CallsTyped, FetchesTyped, [Next]_vars, NEW f \in Fetches
    PROVE  \/ \E override \in BOOLEAN : Begin(f, override)
           \/ Collect(f)
           \/ Steady(f)
<1>1. CASE \E s \in Statements, shape \in Shapes : Publish(s, shape)
  BY <1>1, UntouchedIsSteady DEF Publish, clientVars, begun
<1>2. CASE \E s \in Statements : Restate(s)
  BY <1>2, UntouchedIsSteady DEF Restate, clientVars, begun
<1>3. CASE UNCHANGED vars
  BY <1>3, UntouchedIsSteady DEF vars, clientVars, begun
<1>4. ASSUME NEW g \in Fetches, NEW override \in BOOLEAN, Begin(g, override), g # f
      PROVE  Steady(f)
  <2>1. \A e \in Endpoints : call'[<<f, e>>] = call[<<f, e>>]
    <3> SUFFICES ASSUME NEW e \in Endpoints PROVE call'[<<f, e>>] = call[<<f, e>>]
      OBVIOUS
    <3>1. <<f, e>> \in Calls /\ <<f, e>>[1] = f
      BY RequestsAreCalls
    <3> QED
      BY <1>4, <3>1 DEF Begin
  <2>2. known'[f] = known[f] /\ owed'[f] = owed[f] /\ fetch'[f] = fetch[f]
    BY <1>4 DEF Begin, FetchesTyped
  <2> QED
    BY <2>1, <2>2, UntouchedIsSteady
<1>5. ASSUME NEW g \in Lookups, LookUp(g) PROVE Steady(f)
  <2>0. g # f
    BY ClientAssumption
  <2>1. \A e \in Endpoints : call'[<<f, e>>] = call[<<f, e>>]
    <3> SUFFICES ASSUME NEW e \in Endpoints PROVE call'[<<f, e>>] = call[<<f, e>>]
      OBVIOUS
    <3>1. <<f, e>> \in Calls /\ <<f, e>> # <<g, "profile">>
      BY <2>0, RequestsAreCalls
    <3> QED
      BY <1>5, <3>1 DEF LookUp, Move, CallsTyped
  <2>2. known'[f] = known[f] /\ owed'[f] = owed[f] /\ fetch'[f] = fetch[f]
    BY <1>5, <2>0 DEF LookUp, FetchesTyped, begun
  <2> QED
    BY <2>1, <2>2, UntouchedIsSteady
<1>6. ASSUME NEW c \in Calls, CallStep(c) PROVE Steady(f)
  BY <1>6, CallStepsDo, CallStepIsSteady
<1>7. ASSUME NEW g \in Fetches, Collect(g), g # f PROVE Steady(f)
  <2>1. \A e \in Endpoints : call'[<<f, e>>] = call[<<f, e>>]
    <3> SUFFICES ASSUME NEW e \in Endpoints PROVE call'[<<f, e>>] = call[<<f, e>>]
      OBVIOUS
    <3>1. <<f, e>> \in Calls /\ <<f, e>>[1] = f
      BY RequestsAreCalls
    <3> QED
      BY <1>7, <3>1 DEF Collect
  <2>2. known'[f] = known[f] /\ owed'[f] = owed[f] /\ fetch'[f] = fetch[f]
    BY <1>7 DEF Collect, FetchesTyped, begun
  <2> QED
    BY <2>1, <2>2, UntouchedIsSteady
<1>8. ASSUME NEW g \in Lookups, LookedUp(g) PROVE Steady(f)
  <2>0. g # f
    BY ClientAssumption
  <2>1. known'[f] = known[f] /\ owed'[f] = owed[f] /\ fetch'[f] = fetch[f] /\ call' = call
    BY <1>8, <2>0 DEF LookedUp, FetchesTyped, begun
  <2> QED
    BY <2>1, UntouchedIsSteady
<1>9. CASE ClientStep
  BY <1>6, <1>7, <1>8, <1>9 DEF ClientStep
<1> QED
  BY <1>1, <1>2, <1>3, <1>4, <1>5, <1>9 DEF Next

LEMMA CallsStayTyped ==
    ASSUME FiledOK, CallsTyped, [Next]_vars
    PROVE  CallsTyped'
<1>1. CASE UNCHANGED call
  BY <1>1 DEF CallsTyped
<1>2. ASSUME NEW c, NEW new, CallSet(c, new) PROVE CallsTyped'
  BY <1>2 DEF CallSet, CallsTyped
<1>3. ASSUME NEW f, NEW override, Begin(f, override) PROVE CallsTyped'
  <2>1. [Unasked EXCEPT !.at = "done"] \in CallState /\ [Unasked EXCEPT !.at = "queued"] \in CallState
    BY UnaskedIsTyped DEF CallState, CallPlaces
  <2>2. call' = [c \in Calls |->
                  IF c[1] # f THEN call[c]
                  ELSE IF c[2] = "profile" /\ override
                  THEN [Unasked EXCEPT !.at = "done"]
                  ELSE [Unasked EXCEPT !.at = "queued"]]
    BY <1>3 DEF Begin
  <2>3. ASSUME NEW a \in CallState, NEW b \in CallState,
               call' = [c \in Calls |-> IF c[1] # f THEN call[c]
                                        ELSE IF c[2] = "profile" /\ override THEN a ELSE b]
        PROVE  CallsTyped'
    BY <2>3 DEF CallsTyped
  <2> QED
    BY <2>1, <2>2, <2>3
<1>4. ASSUME NEW f \in Lookups, LookUp(f) PROVE CallsTyped'
  <2>1. <<f, "profile">> \in Calls /\ "queued" \in CallPlaces
    BY RequestsAreCalls DEF CallPlaces
  <2> QED
    BY <1>2, <1>4, <2>1, MoveSets DEF LookUp
<1>5. ASSUME NEW c \in Calls, CallStep(c) PROVE CallsTyped'
  <2>1. PICK new : CallStepDoes(c, new)
    BY <1>5, CallStepsDo
  <2> QED
    BY <1>2, <2>1 DEF CallStepDoes
<1>6. ASSUME NEW f, Collect(f) PROVE CallsTyped'
  <2>1. call' = [c \in Calls |-> IF c[1] = f THEN Unasked ELSE call[c]]
    BY <1>6 DEF Collect
  <2> QED
    BY <2>1, UnaskedIsTyped DEF CallsTyped
<1>7. CASE \/ \E s \in Statements, shape \in Shapes : Publish(s, shape)
           \/ \E s \in Statements : Restate(s)
           \/ \E f \in Lookups : LookedUp(f)
           \/ UNCHANGED vars
  BY <1>1, <1>7 DEF Publish, Restate, LookedUp, clientVars, vars
<1> QED
  BY <1>3, <1>4, <1>5, <1>6, <1>7 DEF Next, ClientStep

LEMMA FetchesStayTyped ==
    ASSUME FetchesTyped, [Next]_vars
    PROVE  FetchesTyped'
BY DEF FetchesTyped, Next, vars, Publish, Restate, Begin, LookUp, ClientStep, CallStep, Send,
   Payload, Transient, Final, Wake, Collect, LookedUp, Fail, providerVars, clientVars, begun

LEMMA TypedAtFirst ==
    ASSUME Init PROVE CallsTyped /\ FetchesTyped
<1>1. call = [c \in Calls |-> Unasked]
  BY DEF Init
<1>2. CallsTyped
  BY <1>1, UnaskedIsTyped DEF CallsTyped
<1>3. FetchesTyped
  BY DEF Init, FetchesTyped
<1> QED
  BY <1>2, <1>3

-----------------------------------------------------------------------------
(* The dates of finite lists.                                              *)

Lists == [Statements -> Seq(Rec)]

DatesOf(lists) == UNION {AnnualDates(lists[s]) : s \in Statements}

LEMMA AnnualDatesAreFinite ==
    ASSUME NEW list \in Seq(Rec)
    PROVE  AnnualDates(list) \subseteq Nat /\ IsFiniteSet(AnnualDates(list))
<1> DEFINE D == {j \in 1..Len(list) : list[j].annual}
           T == AnnualDates(list)
           F == [j \in D |-> list[j].date]
<1>1. IsFiniteSet(D)
  <2>1. IsFiniteSet(1..Len(list))
    BY FS_Interval
  <2>2. D \subseteq 1..Len(list)
    OBVIOUS
  <2> QED
    BY <2>1, <2>2, FS_Subset
<1>2. \A k : k \in T <=> \E i \in D : list[i].date = k
  BY InAnnualDates
<1>3. F \in Surjection(D, T)
  <2> HIDE DEF T
  <2>1. \A i \in D : list[i].date \in T
    BY <1>2
  <2>2. F \in [D -> T]
    BY <2>1
  <2>3. \A t \in T : \E i \in D : F[i] = t
    BY <1>2
  <2> QED
    BY <2>2, <2>3 DEF Surjection
<1>4. IsFiniteSet(T)
  BY <1>1, <1>3, FS_Surjection
<1>5. ASSUME NEW k \in T PROVE k \in Nat
  BY <1>2, DatesAreNumbers
<1> QED
  BY <1>4, <1>5

LEMMA AllDatesAreFinite ==
    ASSUME NEW lists \in Lists
    PROVE  DatesOf(lists) \subseteq Nat /\ IsFiniteSet(DatesOf(lists))
<1> DEFINE T == {AnnualDates(lists[s]) : s \in Statements}
           F == [s \in Statements |-> AnnualDates(lists[s])]
<1>1. F \in Surjection(Statements, T)
  BY DEF Surjection
<1>2. IsFiniteSet(T)
  BY <1>1, FS_Surjection, ClientAssumption
<1>3. \A A \in T : A \subseteq Nat /\ IsFiniteSet(A)
  BY AnnualDatesAreFinite DEF Lists
<1>4. IsFiniteSet(UNION T)
  <2> HIDE DEF T
  <2> QED
    BY <1>2, <1>3, FS_UNION
<1> QED
  BY <1>3, <1>4 DEF DatesOf

LEMMA LatestIsValid ==
    ASSUME NEW lists \in Lists, NEW p, ValidDates(lists, p) # {}
    PROVE  /\ Max(ValidDates(lists, p)) \in ValidDates(lists, p)
           /\ Max(ValidDates(lists, p)) \in Nat
           /\ \A d \in ValidDates(lists, p) : Max(ValidDates(lists, p)) >= d
           /\ Max(ValidDates(lists, p)) \in DatesOf(lists)
           /\ \A s \in Statements : Max(ValidDates(lists, p)) \in AnnualDates(lists[s])
<1> DEFINE V == ValidDates(lists, p)
<1>1. V \subseteq DatesOf(lists)
  BY DEF ValidDates, CompatibleDates, DatesOf
<1>2. V \subseteq Nat /\ IsFiniteSet(V)
  BY <1>1, AllDatesAreFinite, FS_Subset
<1>3. \A d \in V : \A s \in Statements : d \in AnnualDates(lists[s])
  BY DEF ValidDates, CompatibleDates
<1> HIDE DEF V
<1>4. V # {}
  BY DEF V
<1>5. Max(V) \in V /\ \A d \in V : Max(V) >= d
  BY <1>2, <1>4, MaxIsLargest
<1> QED
  BY <1>1, <1>2, <1>3, <1>5 DEF V

LEMMA NewestIsLargest ==
    ASSUME NEW lists \in Lists
    PROVE  /\ Newest(DatesOf(lists)) \in Nat
           /\ Newest(DatesOf(lists)) # 0 => Newest(DatesOf(lists)) \in DatesOf(lists)
<1> DEFINE T == DatesOf(lists)
<1>1. T \subseteq Nat /\ IsFiniteSet(T)
  BY AllDatesAreFinite
<1> HIDE DEF T
<1>2. T # {} => Max(T) \in T
  BY <1>1, MaxIsLargest
<1>3. Newest(T) = IF T = {} THEN 0 ELSE Max(T)
  BY DEF Newest
<1> QED
  BY <1>1, <1>2, <1>3 DEF T

LEMMA UnflaggedReaches ==
    ASSUME NEW lists \in Lists, NEW s \in Statements, NEW k \in Nat, Reaches(lists[s], k),
           NEW d \in Nat, d \in AnnualDates(lists[s]), NewerDates(lists, d) = {}
    PROVE  d >= k
<1>1. lists[s] \in Seq(Rec)
  BY DEF Lists
<1>2. CASE k \in AnnualDates(lists[s])
  <2>1. k \in UNION {AnnualDates(lists[t]) : t \in Statements}
    BY <1>2
  <2>2. ~(k > d)
    BY <2>1 DEF NewerDates
  <2> QED
    BY <2>2
<1>3. CASE \A i \in 1..Len(lists[s]) : lists[s][i].date >= k
  <2>1. PICK i \in 1..Len(lists[s]) : lists[s][i].date = d
    BY <1>1, InAnnualDates
  <2> QED
    BY <1>3, <2>1
<1> QED
  BY <1>2, <1>3 DEF Reaches

LEMMA NormalizedIsNewest ==
    ASSUME NEW lists \in Lists, NEW p, NEW s \in Statements, NEW k \in Nat,
           k # 0 => Reaches(lists[s], k),
           Normalize(lists, p).kind = "ok", ~Normalize(lists, p).flagged
    PROVE  Normalize(lists, p).date >= k
<1> DEFINE V == ValidDates(lists, p)
           d == Max(V)
<1>1. /\ V # {} /\ Normalize(lists, p) = Selected(lists, d)
  BY DEF Normalize, Refused, Outcome, Selected
<1>2. d \in Nat /\ d \in AnnualDates(lists[s])
  BY <1>1, LatestIsValid
<1> HIDE DEF d
<1>3. Normalize(lists, p).date = d /\ NewerDates(lists, d) = {}
  <2> DEFINE newer == NewerDates(lists, d)
  <2>1. Normalize(lists, p) = [kind |-> "ok", date |-> d, accepted |-> AcceptedAt(lists, d),
                               flagged |-> newer # {}]
    BY <1>1 DEF Selected, Outcome, d
  <2> HIDE DEF newer
  <2>2. Normalize(lists, p).date = d /\ Normalize(lists, p).flagged = (newer # {})
    BY <2>1
  <2>3. newer = {}
    BY <2>2
  <2> QED
    BY <2>2, <2>3 DEF newer
<1>4. d >= k
  <2>1. CASE k = 0
    BY <1>2, <2>1
  <2>2. CASE k # 0
    BY <1>2, <1>3, <2>2, UnflaggedReaches
  <2> QED
    BY <2>1, <2>2
<1> QED
  BY <1>3, <1>4

-----------------------------------------------------------------------------
(* The newest period is reached.                                           *)

\* What a fetch has not lost of what was newest when it began.
FetchReaches(f) ==
    /\ known[f] \in Nat
    /\ fetch[f] = Running /\ known[f] # 0 =>
          \E s \in Statements :
             /\ Reaches(Front(filed[s]), known[f])
             /\ call[<<f, s>>].at = "done" => Reaches(call[<<f, s>>].payload, known[f])
    /\ fetch[f].kind = "ok" /\ ~ fetch[f].flagged => fetch[f].date >= known[f]

ReachInv ==
    /\ FiledOK
    /\ CallsTyped
    /\ FetchesTyped
    /\ \A f \in Fetches : FetchReaches(f)

LEMMA OutcomesDiffer ==
    /\ Ready # Running /\ Ready.kind # "ok" /\ Running.kind # "ok"
    /\ \A kind \in Refusals : Refused(kind).kind # "ok" /\ Refused(kind) # Running
BY DEF Ready, Running, Refused, Outcome, Refusals

LEMMA AnswersAreLists ==
    ASSUME FiledOK
    PROVE  [s \in Statements |-> Answered(s)] \in Lists
BY AnswersAreTyped DEF Lists

LEMMA ReachedStays ==
    ASSUME FiledOK, [Next]_vars, NEW s \in Statements, NEW k \in Nat, Reaches(Front(filed[s]), k)
    PROVE  Reaches(Front(filed'[s]), k)
<1>1. CASE UNCHANGED filed
  BY <1>1
<1>2. ASSUME NEW t \in Statements, NEW more \in Seq(Rec), Grows(filed[t], more),
             filed' = [filed EXCEPT ![t] = more]
      PROVE  Reaches(Front(filed'[s]), k)
  <2>1. CASE s = t
    <3>1. filed[s] \in Seq(Rec) /\ Sorted(filed[s])
      BY DEF FiledOK
    <3>2. filed'[s] = more
      BY <1>2, <2>1 DEF FiledOK
    <3>3. Reaches(Front(more), k)
      BY <1>2, <2>1, <3>1, GrownReaches
    <3> QED
      BY <3>2, <3>3
  <2>2. CASE s # t
    BY <1>2, <2>2 DEF FiledOK
  <2> QED
    BY <2>1, <2>2
<1> QED
  BY <1>1, <1>2, ListsOnlyGrow DEF ProviderStep

LEMMA BeginReaches ==
    ASSUME FiledOK, CallsTyped, FetchesTyped, NEW f \in Fetches,
           NEW override \in BOOLEAN, Begin(f, override)
    PROVE  FetchReaches(f)'
<1> DEFINE lists == [s \in Statements |-> Answered(s)]
           k == Newest(DatesOf(lists))
<1>1. lists \in Lists
  BY AnswersAreLists
<1>2. k \in Nat /\ (k # 0 => k \in DatesOf(lists))
  BY <1>1, NewestIsLargest
<1>3. known'[f] = k
  <2>1. known' = [known EXCEPT ![f] = k]
    BY DEF Begin, DatesOf
  <2> QED
    BY <2>1 DEF FetchesTyped
<1>4. fetch'[f] = Running /\ filed' = filed
  BY DEF Begin, FetchesTyped, providerVars
<1>5. \A s \in Statements : call'[<<f, s>>].at # "done"
  <2> SUFFICES ASSUME NEW s \in Statements PROVE call'[<<f, s>>].at # "done"
    OBVIOUS
  <2>1. <<f, s>> \in Calls /\ <<f, s>>[1] = f /\ <<f, s>>[2] = s /\ s # "profile"
    BY RequestsAreCalls, ClientAssumption
  <2>2. call'[<<f, s>>] = [Unasked EXCEPT !.at = "queued"]
    BY <2>1 DEF Begin
  <2> QED
    BY <2>2 DEF Unasked
<1>6. ASSUME k # 0
      PROVE  \E s \in Statements : Reaches(Front(filed[s]), k)
  <2> HIDE DEF k
  <2>1. PICK s \in Statements : k \in AnnualDates(lists[s])
    BY <1>2, <1>6 DEF DatesOf
  <2>2. lists[s] = Front(filed[s])
    BY AnswersAreFronts
  <2> HIDE DEF lists
  <2>3. Front(filed[s]) \in Seq(Rec)
    BY <1>1, <2>2 DEF Lists
  <2>4. Front(filed[s]) # <<>>
    BY <2>1, <2>2, <2>3 DEF AnnualDates
  <2> QED
    BY <2>1, <2>2, <2>4 DEF Reaches
<1> HIDE DEF k
<1>7. known'[f] # 0 => \E s \in Statements : Reaches(Front(filed'[s]), known'[f])
  BY <1>3, <1>4, <1>6
<1> QED
  BY <1>2, <1>3, <1>4, <1>5, <1>7, OutcomesDiffer DEF FetchReaches

LEMMA CollectReaches ==
    ASSUME FiledOK, CallsTyped, FetchesTyped, NEW f \in Fetches, FetchReaches(f), Collect(f)
    PROVE  FetchReaches(f)'
<1> DEFINE lists == [s \in Statements |-> call[<<f, s>>].payload]
<1>1. lists \in Lists
  <2>1. \A s \in Statements : call[<<f, s>>].payload \in Seq(Rec)
    BY RequestsAreCalls DEF CallsTyped, CallState, Payloads
  <2> QED
    BY <2>1 DEF Lists
<1>2. fetch[f] = Running /\ known'[f] = known[f] /\ known[f] \in Nat
  BY DEF Collect, begun, FetchReaches
<1>3. fetch'[f] = IF \E s \in Statements : lists[s] = <<>>
                  THEN Refused("ticker_not_found") ELSE Normalize(lists, profile)
  BY DEF Collect, FetchesTyped
<1>4. fetch'[f] # Running
  <2>1. Normalize(lists, profile) # Running
    BY DEF Normalize, Running, Refused, Outcome, Selected
  <2> QED
    BY <1>3, <2>1, OutcomesDiffer DEF Refusals
<1>5. ASSUME fetch'[f].kind = "ok", ~ fetch'[f].flagged
      PROVE  fetch'[f].date >= known'[f]
  <2>1. PICK s \in Statements : known[f] # 0 => Reaches(lists[s], known[f])
    <3>1. CASE known[f] = 0
      BY <3>1, ClientAssumption
    <3>2. CASE known[f] # 0
      <4>1. PICK s \in Statements : call[<<f, s>>].at = "done" =>
                                       Reaches(call[<<f, s>>].payload, known[f])
        BY <1>2, <3>2 DEF FetchReaches
      <4>2. call[<<f, s>>].at = "done"
        BY RequestsAreCalls DEF Collect
      <4> QED
        BY <4>1, <4>2
    <3> QED
      BY <3>1, <3>2
  <2> HIDE DEF lists
  <2>2. fetch'[f] = Normalize(lists, profile)
    BY <1>3, <1>5, OutcomesDiffer DEF Refusals
  <2>3. Normalize(lists, profile).date >= known[f]
    BY <1>1, <1>2, <1>5, <2>1, <2>2, NormalizedIsNewest
  <2> QED
    BY <1>2, <2>2, <2>3
<1> QED
  BY <1>2, <1>4, <1>5 DEF FetchReaches

LEMMA SteadyReaches ==
    ASSUME FiledOK, [Next]_vars, NEW f \in Fetches, FetchReaches(f), Steady(f)
    PROVE  FetchReaches(f)'
<1>1. known'[f] = known[f] /\ known[f] \in Nat
  BY DEF Steady, FetchReaches
<1>2. fetch'[f] = fetch[f] \/ \E kind \in Refusals : fetch'[f] = Refused(kind)
  BY DEF Steady, FetchGoesOn, Refusals
<1>3. ASSUME fetch'[f] = Running, known[f] # 0
      PROVE  \E s \in Statements :
                /\ Reaches(Front(filed'[s]), known[f])
                /\ call'[<<f, s>>].at = "done" => Reaches(call'[<<f, s>>].payload, known[f])
  <2>1. fetch[f] = Running
    BY <1>2, <1>3, OutcomesDiffer
  <2>2. PICK s \in Statements :
           /\ Reaches(Front(filed[s]), known[f])
           /\ call[<<f, s>>].at = "done" => Reaches(call[<<f, s>>].payload, known[f])
    BY <1>3, <2>1 DEF FetchReaches
  <2>3. Reaches(Front(filed'[s]), known[f])
    BY <1>1, <2>2, ReachedStays
  <2>4. call'[<<f, s>>].at = "done" => Reaches(call'[<<f, s>>].payload, known[f])
    BY <2>1, <2>2, AnswersAreFronts DEF Steady, Carries
  <2> QED
    BY <2>3, <2>4
<1>4. fetch'[f].kind = "ok" /\ ~ fetch'[f].flagged => fetch'[f].date >= known[f]
  BY <1>2, OutcomesDiffer DEF FetchReaches
<1> QED
  BY <1>1, <1>3, <1>4 DEF FetchReaches

LEMMA ReachInitInv == Init => ReachInv
<1> SUFFICES ASSUME Init PROVE ReachInv
  OBVIOUS
<1>1. \A f \in Fetches : known[f] = 0 /\ fetch[f] = Ready
  BY DEF Init
<1>2. \A f \in Fetches : FetchReaches(f)
  BY <1>1, OutcomesDiffer DEF FetchReaches
<1> QED
  BY <1>2, FiledAtFirst, TypedAtFirst DEF ReachInv

LEMMA ReachStepInv == ReachInv /\ [Next]_vars => ReachInv'
<1> SUFFICES ASSUME ReachInv, [Next]_vars PROVE ReachInv'
  OBVIOUS
<1>1. FiledOK /\ CallsTyped /\ FetchesTyped
  BY DEF ReachInv
<1>2. FiledOK' /\ CallsTyped' /\ FetchesTyped'
  BY <1>1, FiledStaysOK, CallsStayTyped, FetchesStayTyped
<1>3. ASSUME NEW f \in Fetches PROVE FetchReaches(f)'
  <2>1. FetchReaches(f)
    BY DEF ReachInv
  <2> QED
    BY <1>1, <2>1, FetchControl, BeginReaches, CollectReaches, SteadyReaches
<1> QED
  BY <1>2, <1>3 DEF ReachInv

LEMMA ReachInvariant == Spec => []ReachInv
BY ReachInitInv, ReachStepInv, PTL DEF Spec

\* (UnflaggedIsNewest) An answer without the warning about a newer, incomplete
\* period is as new as the newest annual period any endpoint listed when the
\* fetch began, however the provider goes on publishing while the endpoints
\* are read one by one.
THEOREM UnflaggedAnswersAreNewest == Spec => []UnflaggedIsNewest
<1>1. ReachInv => UnflaggedIsNewest
  BY DEF ReachInv, FetchReaches, UnflaggedIsNewest
<1> QED
  BY <1>1, ReachInvariant, PTL

-----------------------------------------------------------------------------
(* The filing that is chosen.                                              *)

LEMMA CandidatesAreRecords ==
    ASSUME NEW list \in Seq(Rec), NEW d
    PROVE  /\ Candidates(list, d) \subseteq 1..Len(list)
           /\ \A i \in 1..Len(list) :
                 i \in Candidates(list, d) <=> list[i].annual /\ list[i].date = d
           /\ d \in AnnualDates(list) => Candidates(list, d) # {}
<1>1. DOMAIN list = 1..Len(list)
  OBVIOUS
<1> QED
  BY <1>1, InAnnualDates DEF Candidates

LEMMA RecordFields ==
    ASSUME NEW list \in Seq(Rec), NEW i \in 1..Len(list)
    PROVE  /\ list[i].accepted \in Nat /\ list[i].year \in Nat /\ list[i].date \in Nat
           /\ list[i].annual \in BOOLEAN
<1>1. list[i] \in Rec
  OBVIOUS
<1> QED
  BY <1>1 DEF Rec

\* The record that is chosen at a date outranks the others of that date.
LEMMA ChosenIsBest ==
    ASSUME NEW list \in Seq(Rec), NEW d, d \in AnnualDates(list)
    PROVE  \E i \in Candidates(list, d) :
              /\ Chosen(list, d) = list[i]
              /\ \A j \in Candidates(list, d) : list[i].accepted >= list[j].accepted
<1> DEFINE C == Candidates(list, d)
           A == {list[j].accepted : j \in C}
           F == [j \in C |-> list[j].accepted]
           l == Len(list)
<1>1. C \subseteq 1..l /\ C # {} /\ l \in Nat
  BY CandidatesAreRecords
<1>2. IsFiniteSet(C)
  <2>1. IsFiniteSet(1..l)
    BY <1>1, FS_Interval
  <2> QED
    BY <1>1, <2>1, FS_Subset
<1>3. \A j \in C : list[j].accepted \in Nat
  BY <1>1, RecordFields
<1> HIDE DEF C
<1>4. F \in Surjection(C, A)
  BY DEF Surjection
<1>5. IsFiniteSet(A) /\ A \subseteq Nat /\ A # {}
  BY <1>1, <1>2, <1>3, <1>4, FS_Surjection
<1>6. PICK top \in A : \A a \in A : top >= a
  <2> HIDE DEF A
  <2> QED
    BY <1>5, MaxIsLargest
<1> DEFINE B == {l - j : j \in {h \in C : list[h].accepted = top}}
           G == [j \in {h \in C : list[h].accepted = top} |-> l - j]
<1>7. IsFiniteSet(B) /\ B \subseteq Nat /\ B # {}
  <2>1. IsFiniteSet({h \in C : list[h].accepted = top})
    BY <1>2, FS_Subset
  <2>2. G \in Surjection({h \in C : list[h].accepted = top}, B)
    BY DEF Surjection
  <2>3. IsFiniteSet(B)
    BY <2>1, <2>2, FS_Surjection
  <2>4. \A j \in C : l - j \in Nat
    BY <1>1
  <2>5. \E h \in C : list[h].accepted = top
    BY <1>6
  <2> QED
    BY <2>3, <2>4, <2>5
<1>8. PICK far \in B : \A b \in B : far >= b
  <2> HIDE DEF B
  <2> QED
    BY <1>7, MaxIsLargest
<1>9. PICK i \in C : list[i].accepted = top /\ far = l - i
  BY <1>8
<1>10. \A j \in C \ {i} : Outranks(list, i, j)
  <2> SUFFICES ASSUME NEW j \in C, j # i PROVE Outranks(list, i, j)
    OBVIOUS
  <2>0. i # j
    OBVIOUS
  <2>1. list[j].accepted \in Nat /\ list[i].accepted \in Nat /\ list[i].accepted >= list[j].accepted
    BY <1>3, <1>6, <1>9
  <2>2. CASE list[j].accepted = top
    <3>1. l - j \in B
      BY <2>2
    <3>2. far = l - i /\ far >= l - j
      BY <1>8, <1>9, <3>1
    <3>3. i < j
      <4>1. i \in Nat /\ j \in Nat /\ l \in Nat
        BY <1>1
      <4>2. l - i >= l - j
        BY <3>2
      <4> HIDE DEF l
      <4> QED
        BY <2>0, <4>1, <4>2
    <3> QED
      BY <1>9, <2>2, <3>3 DEF Outranks
  <2>3. CASE list[j].accepted # top
    BY <1>9, <2>1, <2>3 DEF Outranks
  <2> QED
    BY <2>2, <2>3
<1> DEFINE best == CHOOSE h \in C : \A j \in C \ {h} : Outranks(list, h, j)
<1>11. best \in C /\ \A j \in C \ {best} : Outranks(list, best, j)
  BY <1>10
<1>12. Chosen(list, d) = list[best]
  BY DEF Chosen, C
<1> HIDE DEF best
<1>13. \A j \in C : list[best].accepted >= list[j].accepted
  <2> SUFFICES ASSUME NEW j \in C PROVE list[best].accepted >= list[j].accepted
    OBVIOUS
  <2>1. list[j].accepted \in Nat /\ list[best].accepted \in Nat
    BY <1>3, <1>11
  <2>2. CASE j = best
    BY <2>1, <2>2
  <2>3. CASE j # best
    BY <1>11, <2>1, <2>3 DEF Outranks
  <2> QED
    BY <2>2, <2>3
<1> QED
  BY <1>11, <1>12, <1>13 DEF C

\* A list has an annual record of the date, filed as a or later, and all it has
\* of that date name one year and currency.
Offers(list, d, y, c, a) ==
    /\ \E i \in 1..Len(list) : list[i].annual /\ list[i].date = d /\ list[i].accepted >= a
    /\ \A i \in 1..Len(list) :
          list[i].annual /\ list[i].date = d => list[i].year = y /\ list[i].currency = c

LEMMA OfferedIsChosen ==
    ASSUME NEW list \in Seq(Rec), NEW d, NEW y, NEW c, NEW a \in Nat, Offers(list, d, y, c, a)
    PROVE  /\ list # <<>>
           /\ d \in AnnualDates(list)
           /\ Chosen(list, d).year = y /\ Chosen(list, d).currency = c
           /\ Chosen(list, d).accepted \in Nat /\ Chosen(list, d).accepted >= a
<1>1. PICK i \in 1..Len(list) : list[i].annual /\ list[i].date = d /\ list[i].accepted >= a
  BY DEF Offers
<1>2. d \in AnnualDates(list) /\ i \in Candidates(list, d)
  BY <1>1, InAnnualDates, CandidatesAreRecords
<1>3. PICK j \in Candidates(list, d) :
         /\ Chosen(list, d) = list[j]
         /\ \A h \in Candidates(list, d) : list[j].accepted >= list[h].accepted
  BY <1>2, ChosenIsBest
<1>4. j \in 1..Len(list) /\ list[j].annual /\ list[j].date = d
  BY <1>3, CandidatesAreRecords
<1>5. list[j].accepted \in Nat /\ list[i].accepted \in Nat /\ list[j].accepted >= list[i].accepted
  BY <1>1, <1>2, <1>3, <1>4, RecordFields
<1>6. list[j].accepted >= a
  BY <1>1, <1>5
<1>7. list # <<>>
  <2>1. Len(list) # 0
    BY <1>1
  <2> QED
    BY <2>1
<1> QED
  BY <1>2, <1>3, <1>4, <1>5, <1>6, <1>7 DEF Offers

LEMMA ChosenIsOffered ==
    ASSUME NEW list \in Seq(Rec), PeriodsAgree(list), NEW d, d \in AnnualDates(list)
    PROVE  /\ Offers(list, d, Chosen(list, d).year, Chosen(list, d).currency,
                     Chosen(list, d).accepted)
           /\ Chosen(list, d).accepted \in Nat
<1>1. PICK j \in Candidates(list, d) : Chosen(list, d) = list[j]
  BY ChosenIsBest
<1>2. j \in 1..Len(list) /\ list[j].annual /\ list[j].date = d
  BY <1>1, CandidatesAreRecords
<1>3. list[j].accepted \in Nat /\ list[j].accepted >= list[j].accepted
  BY <1>2, RecordFields
<1>4. \A i \in 1..Len(list) : list[i].date = d => Twins(list[i], list[j])
  BY <1>2 DEF PeriodsAgree
<1> QED
  BY <1>1, <1>2, <1>3, <1>4 DEF Offers, Twins

LEMMA GrownOffers ==
    ASSUME NEW list \in Seq(Rec), NEW more \in Seq(Rec), Grows(list, more),
           NEW d, NEW y, NEW c, NEW a, Offers(list, d, y, c, a)
    PROVE  Offers(more, d, y, c, a)
<1>1. PICK p, n : /\ n \in Rec
                  /\ AddsNewest(list, more, p, n)
                  /\ \A i \in 1..Len(list) : list[i].date = n.date => Twins(list[i], n)
  BY DEF Grows
<1>2. Places(list, more, p, n)
  BY <1>1, InsertedPlaces DEF AddsNewest
<1>3. PICK i \in 1..Len(list) : list[i].annual /\ list[i].date = d /\ list[i].accepted >= a
  BY DEF Offers
<1>4. \E g \in 1..Len(more) : more[g] = list[i]
  <2>1. i <= p \/ i > p
    BY <1>2 DEF Places
  <2>2. CASE i <= p
    BY <1>2, <2>2 DEF Places
  <2>3. CASE i > p
    BY <1>2, <2>3 DEF Places
  <2> QED
    BY <2>1, <2>2, <2>3
<1>5. ASSUME NEW g \in 1..Len(more), more[g].annual, more[g].date = d
      PROVE  more[g].year = y /\ more[g].currency = c
  <2>1. CASE more[g] = n
    <3>1. Twins(list[i], n)
      BY <1>1, <1>3, <1>5, <2>1
    <3> QED
      BY <1>3, <2>1, <3>1 DEF Twins, Offers
  <2>2. ASSUME NEW j \in 1..Len(list), more[g] = list[j]
        PROVE  more[g].year = y /\ more[g].currency = c
    BY <1>5, <2>2 DEF Offers
  <2> QED
    BY <1>2, <2>1, <2>2 DEF Places
<1> QED
  BY <1>3, <1>4, <1>5 DEF Offers

-----------------------------------------------------------------------------
(* No period is lost.                                                      *)

\* What a fetch owes is within what an answer shows: while it runs, no record of
\* the period that could be selected when it began falls out of a list's front.
OwedInSight ==
    \A f \in Fetches : fetch[f] = Running /\ owed[f] # Ready =>
        \A s \in Statements : \A i \in 1..Len(filed[s]) :
            filed[s][i].date = owed[f].date => i <= Limit

LEMMA FrontAgrees ==
    ASSUME NEW list \in Seq(Rec), PeriodsAgree(list)
    PROVE  Front(list) \in Seq(Rec) /\ PeriodsAgree(Front(list))
<1>1. /\ Front(list) \in Seq(Rec) /\ Len(Front(list)) <= Len(list)
      /\ Len(Front(list)) \in Nat /\ Len(list) \in Nat
      /\ \A i \in 1..Len(Front(list)) : Front(list)[i] = list[i]
  BY FrontIsPrefix, ClientAssumption
<1>2. \A i \in 1..Len(Front(list)) : i \in 1..Len(list)
  BY <1>1
<1> QED
  BY <1>1, <1>2 DEF PeriodsAgree

\* What the front of a list offers, the list does.
LEMMA FrontOffersAsAll ==
    ASSUME NEW list \in Seq(Rec), PeriodsAgree(list),
           NEW d, NEW y, NEW c, NEW a, Offers(Front(list), d, y, c, a)
    PROVE  Offers(list, d, y, c, a)
<1>1. /\ Len(Front(list)) <= Len(list) /\ Len(Front(list)) \in Nat /\ Len(list) \in Nat
      /\ \A i \in 1..Len(Front(list)) : Front(list)[i] = list[i]
  BY FrontIsPrefix, ClientAssumption
<1>2. PICK i \in 1..Len(Front(list)) :
         /\ Front(list)[i].annual /\ Front(list)[i].date = d /\ Front(list)[i].accepted >= a
  BY DEF Offers
<1>3. i \in 1..Len(list) /\ list[i].annual /\ list[i].date = d /\ list[i].accepted >= a
  BY <1>1, <1>2
<1>4. list[i].year = y /\ list[i].currency = c
  BY <1>1, <1>2 DEF Offers
<1>5. \A g \in 1..Len(list) : list[g].date = d => list[g].year = y /\ list[g].currency = c
  BY <1>3, <1>4 DEF PeriodsAgree, Twins
<1> QED
  BY <1>3, <1>5 DEF Offers

\* And a list its front, when the records of the period are within it.
LEMMA AllOffersAsFront ==
    ASSUME NEW list \in Seq(Rec), NEW d, NEW y, NEW c, NEW a, Offers(list, d, y, c, a),
           \A i \in 1..Len(list) : list[i].date = d => i <= Limit
    PROVE  Offers(Front(list), d, y, c, a)
<1>1. /\ Len(Front(list)) = IF Len(list) < Limit THEN Len(list) ELSE Limit
      /\ Len(list) \in Nat /\ Limit \in Nat
      /\ \A i \in 1..Len(Front(list)) : Front(list)[i] = list[i]
  BY FrontIsPrefix, ClientAssumption
<1>2. PICK i \in 1..Len(list) : list[i].annual /\ list[i].date = d /\ list[i].accepted >= a
  BY DEF Offers
<1>3. i <= Limit
  BY <1>2
<1>4. i \in 1..Len(Front(list))
  BY <1>1, <1>3
<1>5. \A g \in 1..Len(Front(list)) : g \in 1..Len(list)
  BY <1>1
<1>6. \A g \in 1..Len(Front(list)) : Front(list)[g].annual /\ Front(list)[g].date = d
         => Front(list)[g].year = y /\ Front(list)[g].currency = c
  BY <1>1, <1>5 DEF Offers
<1>7. Front(list)[i].annual /\ Front(list)[i].date = d /\ Front(list)[i].accepted >= a
  BY <1>1, <1>2, <1>4
<1> QED
  BY <1>4, <1>6, <1>7 DEF Offers

LEMMA OffersStay ==
    ASSUME FiledOK, [Next]_vars, NEW s \in Statements,
           NEW d, NEW y, NEW c, NEW a, Offers(Front(filed[s]), d, y, c, a),
           \A i \in 1..Len(filed'[s]) : filed'[s][i].date = d => i <= Limit
    PROVE  Offers(Front(filed'[s]), d, y, c, a)
<1>1. filed[s] \in Seq(Rec) /\ PeriodsAgree(filed[s])
  BY DEF FiledOK
<1>2. filed'[s] \in Seq(Rec)
  BY FiledStaysOK DEF FiledOK
<1>3. Offers(filed[s], d, y, c, a)
  BY <1>1, FrontOffersAsAll
<1>4. CASE UNCHANGED filed
  BY <1>4
<1>5. ASSUME NEW t \in Statements, NEW more \in Seq(Rec), Grows(filed[t], more),
             filed' = [filed EXCEPT ![t] = more]
      PROVE  Offers(filed'[s], d, y, c, a)
  <2>1. filed'[s] = IF s = t THEN more ELSE filed[s]
    BY <1>5 DEF FiledOK
  <2>2. CASE s = t
    <3>1. Offers(more, d, y, c, a)
      BY <1>1, <1>3, <1>5, <2>2, GrownOffers
    <3> QED
      BY <2>1, <2>2, <3>1
  <2>3. CASE s # t
    BY <1>3, <2>1, <2>3
  <2> QED
    BY <2>2, <2>3
<1>6. ASSUME Offers(filed'[s], d, y, c, a)
      PROVE  Offers(Front(filed'[s]), d, y, c, a)
  <2> DEFINE list == filed'[s]
  <2>1. list \in Seq(Rec) /\ Offers(list, d, y, c, a)
        /\ \A i \in 1..Len(list) : list[i].date = d => i <= Limit
    BY <1>2, <1>6
  <2> HIDE DEF list
  <2>2. Offers(Front(list), d, y, c, a)
    BY <2>1, AllOffersAsFront
  <2> QED
    BY <2>2 DEF list
<1> QED
  BY <1>3, <1>4, <1>5, <1>6, ListsOnlyGrow DEF ProviderStep

LEMMA AcceptedIsLatest ==
    ASSUME NEW lists \in Lists, NEW d, \A s \in Statements : Chosen(lists[s], d).accepted \in Nat
    PROVE  /\ AcceptedAt(lists, d) \in Nat
           /\ \E s \in Statements : AcceptedAt(lists, d) = Chosen(lists[s], d).accepted
           /\ \A s \in Statements : AcceptedAt(lists, d) >= Chosen(lists[s], d).accepted
<1> DEFINE T == {Chosen(lists[s], d).accepted : s \in Statements}
           F == [s \in Statements |-> Chosen(lists[s], d).accepted]
<1>1. F \in Surjection(Statements, T)
  BY DEF Surjection
<1>2. IsFiniteSet(T) /\ T \subseteq Nat /\ T # {}
  BY <1>1, FS_Surjection, ClientAssumption
<1>3. AcceptedAt(lists, d) = Max(T)
  BY DEF AcceptedAt
<1>4. Max(T) \in T /\ \A y \in T : Max(T) >= y
  <2> HIDE DEF T
  <2> QED
    BY <1>2, MaxIsLargest
<1> QED
  BY <1>2, <1>3, <1>4

\* What a fetch still finds of the filing that could be selected when it began.
Carried(f, Y, C, A) ==
    /\ Cardinality({Y[s] : s \in Statements} \ {NoYear}) <= 1
    /\ {C[s] : s \in Statements} \ {NoCurrency} \subseteq {profile.currency}
    /\ \A s \in Statements :
          /\ A[s] \in Nat
          /\ Offers(Front(filed[s]), owed[f].date, Y[s], C[s], A[s])
          /\ call[<<f, s>>].at = "done" =>
                Offers(call[<<f, s>>].payload, owed[f].date, Y[s], C[s], A[s])
    /\ \E s \in Statements : A[s] >= owed[f].accepted

\* How a fetch may end that owes a filing.
Kept(f) ==
    \/ fetch[f].date > owed[f].date
    \/ fetch[f].date = owed[f].date /\ fetch[f].accepted >= owed[f].accepted
    \/ fetch[f].kind \in {"provider_error", "unmapped"}
    \/ fetch[f].kind = "unsupported_sector" /\ profile.financial
    \/ fetch[f].kind \in Rejections /\ TurnedAway(f)

FetchKeeps(f) ==
    /\ owed[f].date \in Nat /\ owed[f].accepted \in Nat
    /\ fetch[f] = Running /\ owed[f] # Ready => \E Y, C, A : Carried(f, Y, C, A)
    /\ Ended(f) /\ owed[f] # Ready => Kept(f)

KeepInv ==
    /\ ReachInv
    /\ \A f \in Fetches : FetchKeeps(f)

LEMMA ProfileStays == ASSUME [Next]_vars PROVE profile' = profile
BY DEF Next, vars, Publish, Restate, Begin, LookUp, ClientStep, CallStep, Send,
   Payload, Transient, Final, Wake, Collect, LookedUp, providerVars

\* The latest date at which the lists agree can be carried.
LEMMA ValidIsCarried ==
    ASSUME NEW lists \in Lists, \A s \in Statements : PeriodsAgree(lists[s]),
           NEW d, d \in ValidDates(lists, profile)
    PROVE  \E Y, C, A :
              /\ Cardinality({Y[s] : s \in Statements} \ {NoYear}) <= 1
              /\ {C[s] : s \in Statements} \ {NoCurrency} \subseteq {profile.currency}
              /\ \A s \in Statements : A[s] \in Nat /\ Offers(lists[s], d, Y[s], C[s], A[s])
              /\ AcceptedAt(lists, d) \in Nat
              /\ \E s \in Statements : A[s] >= AcceptedAt(lists, d)
<1> DEFINE Y == [s \in Statements |-> Chosen(lists[s], d).year]
           C == [s \in Statements |-> Chosen(lists[s], d).currency]
           A == [s \in Statements |-> Chosen(lists[s], d).accepted]
<1>1. \A s \in Statements : lists[s] \in Seq(Rec) /\ d \in AnnualDates(lists[s])
  BY DEF Lists, ValidDates, CompatibleDates
<1>2. \A s \in Statements : A[s] \in Nat /\ Offers(lists[s], d, Y[s], C[s], A[s])
  BY <1>1, ChosenIsOffered
<1>3. {Y[s] : s \in Statements} \ {NoYear} = Years(lists, d)
  BY DEF Years
<1>4. {C[s] : s \in Statements} \ {NoCurrency} = Currencies(lists, d)
  BY DEF Currencies
<1>5. Agree(lists, profile, d)
  BY DEF ValidDates
<1>6. AcceptedAt(lists, d) \in Nat /\ \E s \in Statements : AcceptedAt(lists, d) = A[s]
  BY <1>2, AcceptedIsLatest
<1>7. \E s \in Statements : A[s] >= AcceptedAt(lists, d)
  BY <1>6
<1>8. /\ Cardinality({Y[s] : s \in Statements} \ {NoYear}) <= 1
      /\ {C[s] : s \in Statements} \ {NoCurrency} \subseteq {profile.currency}
  BY <1>3, <1>4, <1>5 DEF Agree
<1> HIDE DEF Y, C, A
<1> QED
  BY <1>2, <1>6, <1>7, <1>8

AllOffer(lists, d, Y, C, A, a) ==
    /\ Cardinality({Y[s] : s \in Statements} \ {NoYear}) <= 1
    /\ {C[s] : s \in Statements} \ {NoCurrency} \subseteq {profile.currency}
    /\ \A s \in Statements : A[s] \in Nat /\ Offers(lists[s], d, Y[s], C[s], A[s])
    /\ \E s \in Statements : A[s] >= a

\* And lists that carry a date select it, or a later one.
LEMMA CarriedIsSelected ==
    ASSUME NEW lists \in Lists, NEW d \in Nat, NEW Y, NEW C, NEW A, NEW a \in Nat,
           AllOffer(lists, d, Y, C, A, a), ~ profile.financial
    PROVE  \/ Normalize(lists, profile).date > d
           \/ Normalize(lists, profile).date = d /\ Normalize(lists, profile).accepted >= a
<1>1. \A s \in Statements : lists[s] \in Seq(Rec)
  BY DEF Lists
<1>2. \A s \in Statements : /\ d \in AnnualDates(lists[s])
                            /\ Chosen(lists[s], d).year = Y[s]
                            /\ Chosen(lists[s], d).currency = C[s]
                            /\ Chosen(lists[s], d).accepted \in Nat
                            /\ Chosen(lists[s], d).accepted >= A[s]
  BY <1>1, OfferedIsChosen DEF AllOffer
<1>3. d \in ValidDates(lists, profile)
  <2>1. Years(lists, d) = {Y[s] : s \in Statements} \ {NoYear}
    BY <1>2 DEF Years
  <2>2. Currencies(lists, d) = {C[s] : s \in Statements} \ {NoCurrency}
    BY <1>2 DEF Currencies
  <2>3. Agree(lists, profile, d)
    BY <2>1, <2>2 DEF Agree, AllOffer
  <2>4. d \in CompatibleDates(lists)
    <3>1. PICK s \in Statements : TRUE
      BY ClientAssumption
    <3> QED
      BY <1>2, <3>1 DEF CompatibleDates
  <2> QED
    BY <2>3, <2>4 DEF ValidDates
<1> DEFINE V == ValidDates(lists, profile)
           top == Max(V)
<1>4. top \in Nat /\ top >= d
  BY <1>3, LatestIsValid
<1>5. /\ Normalize(lists, profile).date = top
      /\ Normalize(lists, profile).accepted = AcceptedAt(lists, top)
  <2>1. \/ Normalize(lists, profile) = Selected(lists, top)
        \/ Normalize(lists, profile) = [Selected(lists, top) EXCEPT !.kind = "normalization_error"]
    BY <1>3 DEF Normalize
  <2>2. PICK q : q = Selected(lists, top)
    OBVIOUS
  <2>3. q.date = top /\ q.accepted = AcceptedAt(lists, top)
    BY <2>2 DEF Selected, Outcome
  <2>4. q = [kind |-> q.kind, date |-> q.date, accepted |-> q.accepted, flagged |-> q.flagged]
    BY <2>2 DEF Selected, Outcome
  <2>5. /\ [q EXCEPT !.kind = "normalization_error"].date = q.date
        /\ [q EXCEPT !.kind = "normalization_error"].accepted = q.accepted
    BY <2>4
  <2> HIDE DEF top
  <2> QED
    BY <2>1, <2>2, <2>3, <2>5
<1>6. ASSUME top = d PROVE AcceptedAt(lists, top) >= a
  <2>1. PICK s \in Statements : A[s] >= a
    BY DEF AllOffer
  <2> HIDE DEF top
  <2>2. /\ AcceptedAt(lists, d) \in Nat
        /\ AcceptedAt(lists, d) >= Chosen(lists[s], d).accepted
    BY <1>2, AcceptedIsLatest
  <2>3. Chosen(lists[s], d).accepted >= A[s] /\ Chosen(lists[s], d).accepted \in Nat /\ A[s] \in Nat
    BY <1>2 DEF AllOffer
  <2> QED
    BY <1>6, <2>1, <2>2, <2>3
<1> HIDE DEF top
<1> QED
  BY <1>4, <1>5, <1>6

LEMMA ReadyAndRunning ==
    /\ Ready.date = 0 /\ Ready.accepted = 0
    /\ \A lists, d : Selected(lists, d) # Ready
BY DEF Ready, Refused, Outcome, Selected

LEMMA BeginKeeps ==
    ASSUME FiledOK, CallsTyped, FetchesTyped, NEW f \in Fetches, NEW override \in BOOLEAN,
           Begin(f, override)
    PROVE  FetchKeeps(f)'
<1> DEFINE lists == [s \in Statements |-> Answered(s)]
           V == ValidDates(lists, profile)
           d == Max(V)
<1>1. lists \in Lists
  BY AnswersAreLists
<1>2. owed'[f] = IF V = {} THEN Ready ELSE Selected(lists, d)
  BY DEF Begin, FetchesTyped
<1>3. fetch'[f] = Running /\ filed' = filed /\ profile' = profile
  BY DEF Begin, FetchesTyped, providerVars
<1>4. \A s \in Statements : call'[<<f, s>>].at # "done"
  <2> SUFFICES ASSUME NEW s \in Statements PROVE call'[<<f, s>>].at # "done"
    OBVIOUS
  <2>1. <<f, s>> \in Calls /\ <<f, s>>[1] = f /\ <<f, s>>[2] = s /\ s # "profile"
    BY RequestsAreCalls, ClientAssumption
  <2>2. call'[<<f, s>>] = [Unasked EXCEPT !.at = "queued"]
    BY <2>1 DEF Begin
  <2> QED
    BY <2>2 DEF Unasked
<1>5. \A s \in Statements : lists[s] = Front(filed[s]) /\ PeriodsAgree(lists[s])
  BY AnswersAreFronts, FrontAgrees DEF FiledOK
<1>6. ~ Ended(f)'
  BY <1>3 DEF Ended
<1> HIDE DEF lists
<1>7. CASE V = {}
  <2>1. owed'[f] = Ready
    BY <1>2, <1>7
  <2> QED
    BY <1>6, <2>1, ReadyAndRunning DEF FetchKeeps
<1>8. CASE V # {}
  <2>1. d \in V /\ d \in Nat
    BY <1>1, <1>8, LatestIsValid
  <2>2. owed'[f] = Selected(lists, d)
    BY <1>2, <1>8
  <2> HIDE DEF d
  <2>3. owed'[f].date = d /\ owed'[f].accepted = AcceptedAt(lists, d)
    BY <2>2 DEF Selected, Outcome
  <2>4. PICK Y, C, A :
              /\ Cardinality({Y[s] : s \in Statements} \ {NoYear}) <= 1
              /\ {C[s] : s \in Statements} \ {NoCurrency} \subseteq {profile.currency}
              /\ \A s \in Statements : A[s] \in Nat /\ Offers(lists[s], d, Y[s], C[s], A[s])
              /\ AcceptedAt(lists, d) \in Nat
              /\ \E s \in Statements : A[s] >= AcceptedAt(lists, d)
    BY <1>1, <1>5, <2>1, ValidIsCarried
  <2>5. \A s \in Statements : /\ A[s] \in Nat
                              /\ Offers(Front(filed'[s]), owed'[f].date, Y[s], C[s], A[s])
                              /\ call'[<<f, s>>].at # "done"
    BY <1>3, <1>4, <1>5, <2>3, <2>4
  <2>6. {C[s] : s \in Statements} \ {NoCurrency} \subseteq {profile'.currency}
    BY <1>3, <2>4
  <2>7. Carried(f, Y, C, A)'
    BY <2>3, <2>4, <2>5, <2>6 DEF Carried
  <2>8. \E Yc, Cc, Ac : Carried(f, Yc, Cc, Ac)'
    BY <2>7
  <2> QED
    BY <1>6, <2>1, <2>3, <2>4, <2>8 DEF FetchKeeps
<1> QED
  BY <1>7, <1>8

LEMMA CollectKeeps ==
    ASSUME FiledOK, CallsTyped, FetchesTyped, NEW f \in Fetches, FetchKeeps(f), Collect(f)
    PROVE  FetchKeeps(f)'
<1> DEFINE lists == [s \in Statements |-> call[<<f, s>>].payload]
<1>1. lists \in Lists
  <2>1. \A s \in Statements : call[<<f, s>>].payload \in Seq(Rec)
    BY RequestsAreCalls DEF CallsTyped, CallState, Payloads
  <2> QED
    BY <2>1 DEF Lists
<1>2. /\ fetch[f] = Running /\ owed'[f] = owed[f] /\ profile' = profile
      /\ owed[f].date \in Nat /\ owed[f].accepted \in Nat
  BY DEF Collect, begun, providerVars, FetchKeeps
<1>3. fetch'[f] = IF \E s \in Statements : lists[s] = <<>>
                  THEN Refused("ticker_not_found") ELSE Normalize(lists, profile)
  BY DEF Collect, FetchesTyped
<1>4. fetch'[f] # Running
  <2>1. Normalize(lists, profile) # Running
    BY DEF Normalize, Running, Refused, Outcome, Selected
  <2> QED
    BY <1>3, <2>1, OutcomesDiffer DEF Refusals
<1>5. \A s \in Statements : call[<<f, s>>].at = "done" /\ call[<<f, s>>].payload = lists[s]
  BY RequestsAreCalls DEF Collect
<1> HIDE DEF lists
<1>6. ASSUME owed[f] # Ready
      PROVE  \/ fetch'[f].date > owed[f].date
             \/ fetch'[f].date = owed[f].date /\ fetch'[f].accepted >= owed[f].accepted
             \/ fetch'[f].kind = "unsupported_sector" /\ profile.financial
  <2>1. PICK Y, C, A : Carried(f, Y, C, A)
    BY <1>2, <1>6 DEF FetchKeeps
  <2>2. /\ Cardinality({Y[s] : s \in Statements} \ {NoYear}) <= 1
        /\ {C[s] : s \in Statements} \ {NoCurrency} \subseteq {profile.currency}
        /\ \A s \in Statements : A[s] \in Nat
        /\ \A s \in Statements : Offers(lists[s], owed[f].date, Y[s], C[s], A[s])
        /\ \E s \in Statements : A[s] >= owed[f].accepted
    BY <1>5, <2>1 DEF Carried
  <2>3. \A s \in Statements : lists[s] # <<>>
    BY <1>1, <2>2, OfferedIsChosen DEF Lists
  <2>4. fetch'[f] = Normalize(lists, profile)
    BY <1>3, <2>3
  <2>5. CASE profile.financial
    <3>1. fetch'[f] = Refused("unsupported_sector")
      BY <2>4, <2>5 DEF Normalize
    <3> QED
      BY <2>5, <3>1 DEF Refused, Outcome
  <2>6. CASE ~ profile.financial
    <3>1. AllOffer(lists, owed[f].date, Y, C, A, owed[f].accepted)
      BY <2>2 DEF AllOffer
    <3> QED
      BY <1>1, <1>2, <2>4, <2>6, <3>1, CarriedIsSelected
  <2> QED
    BY <2>5, <2>6
<1>7. owed'[f] # Ready => Kept(f)'
  BY <1>2, <1>6 DEF Kept
<1> QED
  BY <1>2, <1>4, <1>7 DEF FetchKeeps

LEMMA SteadyKeeps ==
    ASSUME FiledOK, FetchesTyped, [Next]_vars, OwedInSight', NEW f \in Fetches,
           FetchKeeps(f), Steady(f)
    PROVE  FetchKeeps(f)'
<1>1. /\ owed'[f] = owed[f] /\ profile' = profile
      /\ owed[f].date \in Nat /\ owed[f].accepted \in Nat
  BY ProfileStays DEF Steady, FetchKeeps
<1>2. fetch'[f] = fetch[f] \/ (fetch[f] = Running /\ \E kind \in Refusals : fetch'[f] = Refused(kind))
  BY DEF Steady, FetchGoesOn, Refusals
<1>3. ASSUME fetch'[f] = Running, owed[f] # Ready
      PROVE  \E Y, C, A : Carried(f, Y, C, A)'
  <2>1. fetch[f] = Running
    BY <1>2, <1>3, OutcomesDiffer
  <2>2. PICK Y, C, A : Carried(f, Y, C, A)
    BY <1>3, <2>1 DEF FetchKeeps
  <2>3. ASSUME NEW s \in Statements
        PROVE  /\ A[s] \in Nat
               /\ Offers(Front(filed'[s]), owed'[f].date, Y[s], C[s], A[s])
               /\ call'[<<f, s>>].at = "done" =>
                     Offers(call'[<<f, s>>].payload, owed'[f].date, Y[s], C[s], A[s])
    <3>1. /\ A[s] \in Nat
          /\ Offers(Front(filed[s]), owed[f].date, Y[s], C[s], A[s])
          /\ call[<<f, s>>].at = "done" =>
                Offers(call[<<f, s>>].payload, owed[f].date, Y[s], C[s], A[s])
      BY <2>2 DEF Carried
    <3>2. Offers(Front(filed'[s]), owed[f].date, Y[s], C[s], A[s])
      <4>1. \A i \in 1..Len(filed'[s]) : filed'[s][i].date = owed[f].date => i <= Limit
        BY <1>1, <1>3 DEF OwedInSight
      <4> QED
        BY <3>1, <4>1, OffersStay
    <3>3. call'[<<f, s>>].at = "done" =>
             Offers(call'[<<f, s>>].payload, owed[f].date, Y[s], C[s], A[s])
      BY <2>1, <3>1, AnswersAreFronts DEF Steady, Carries
    <3> QED
      BY <1>1, <3>1, <3>2, <3>3
  <2>4. /\ Cardinality({Y[s] : s \in Statements} \ {NoYear}) <= 1
        /\ {C[s] : s \in Statements} \ {NoCurrency} \subseteq {profile'.currency}
        /\ \E s \in Statements : A[s] >= owed'[f].accepted
    BY <1>1, <2>2 DEF Carried
  <2>5. Carried(f, Y, C, A)'
    BY <2>3, <2>4 DEF Carried
  <2> QED
    BY <2>5
<1>4. ASSUME Ended(f)', owed[f] # Ready PROVE Kept(f)'
  <2>1. CASE fetch'[f] = fetch[f]
    <3>1. Kept(f)
      BY <1>4, <2>1 DEF FetchKeeps, Ended
    <3>2. TurnedAway(f) => TurnedAway(f)'
      BY DEF TurnedAway, Steady, KeepsRefusals, Refusals
    <3> QED
      BY <1>1, <2>1, <3>1, <3>2 DEF Kept
  <2>2. CASE fetch'[f] = Refused("provider_error")
    BY <2>2 DEF Kept, Refused, Outcome
  <2>3. ASSUME NEW e \in Endpoints, call'[<<f, e>>].at \in Refusals,
               fetch'[f] = Refused(call'[<<f, e>>].at)
        PROVE  Kept(f)'
    <3>1. fetch'[f].kind = call'[<<f, e>>].at
      BY <2>3 DEF Refused, Outcome
    <3>2. CASE call'[<<f, e>>].at \in {"provider_error", "unmapped"}
      BY <3>1, <3>2 DEF Kept
    <3>3. CASE call'[<<f, e>>].at \in {"ticker_not_found", "ticker_not_covered"}
      <4>1. TurnedAway(f)'
        BY <3>3 DEF TurnedAway
      <4> QED
        BY <3>1, <3>3, <4>1 DEF Kept, Rejections
    <3> QED
      BY <2>3, <3>2, <3>3 DEF Refusals
  <2> QED
    BY <2>1, <2>2, <2>3 DEF Steady, FetchGoesOn
<1> QED
  BY <1>1, <1>3, <1>4 DEF FetchKeeps

LEMMA KeepInitInv == Init => KeepInv
<1> SUFFICES ASSUME Init PROVE KeepInv
  OBVIOUS
<1>1. \A f \in Fetches : owed[f] = Ready /\ fetch[f] = Ready
  BY DEF Init
<1>2. \A f \in Fetches : FetchKeeps(f)
  BY <1>1, OutcomesDiffer, ReadyAndRunning DEF FetchKeeps
<1> QED
  BY <1>2, ReachInitInv DEF KeepInv

LEMMA KeepStepInv == KeepInv /\ OwedInSight' /\ [Next]_vars => KeepInv'
<1> SUFFICES ASSUME KeepInv, OwedInSight', [Next]_vars PROVE KeepInv'
  OBVIOUS
<1>1. FiledOK /\ CallsTyped /\ FetchesTyped /\ ReachInv
  BY DEF KeepInv, ReachInv
<1>2. ReachInv'
  BY <1>1, ReachStepInv
<1>3. ASSUME NEW f \in Fetches PROVE FetchKeeps(f)'
  <2>1. FetchKeeps(f)
    BY DEF KeepInv
  <2> QED
    BY <1>1, <2>1, FetchControl, BeginKeeps, CollectKeeps, SteadyKeeps
<1> QED
  BY <1>2, <1>3 DEF KeepInv

\* (FetchKeepsUp) As long as the period it owes stays within the records an
\* answer shows, a fetch selects that filing of it or one at least as new:
\* reading the endpoints one by one while the provider publishes loses no period.
THEOREM FetchesLoseNoPeriod == Spec /\ []OwedInSight => []FetchKeepsUp
<1>1. KeepInv => FetchKeepsUp
  BY DEF KeepInv, FetchKeeps, Kept, FetchKeepsUp
<1> QED
  BY <1>1, KeepInitInv, KeepStepInv, PTL DEF Spec

\* Short lists are always in sight.
LEMMA FrontIsAll ==
    ASSUME NEW list \in Seq(Rec), Len(list) <= Limit
    PROVE  Front(list) = list
<1>1. Limit \in Nat /\ Len(list) \in Nat
  BY ClientAssumption
<1>2. /\ Front(list) \in Seq(Rec) /\ Len(Front(list)) = Len(list)
      /\ \A i \in 1..Len(Front(list)) : Front(list)[i] = list[i]
  <2>1. (IF Len(list) < Limit THEN Len(list) ELSE Limit) = Len(list)
    BY <1>1
  <2> QED
    BY <2>1, FrontIsPrefix
<1> QED
  BY <1>2, SeqEqual

\* Nothing has fallen out of an answer, nor will.
Roomy ==
    /\ changes \in Nat /\ changes <= MaxChanges
    /\ \A s \in Statements : Len(filed[s]) + MaxChanges <= Limit + changes

LEMMA RoomySuffices ==
    ASSUME FiledOK, Roomy, NEW s \in Statements
    PROVE  filed[s] \in Seq(Rec) /\ Front(filed[s]) = filed[s]
<1>1. filed[s] \in Seq(Rec) /\ Len(filed[s]) \in Nat
  BY DEF FiledOK
<1>2. Limit \in Nat /\ MaxChanges \in Nat
  BY ClientAssumption
<1> DEFINE l == Len(filed[s])
<1>3. l + MaxChanges <= Limit + changes /\ changes \in Nat /\ changes <= MaxChanges
  BY DEF Roomy
<1> HIDE DEF l
<1>4. l \in Nat
  BY <1>1 DEF l
<1>5. l <= Limit
  BY <1>2, <1>3, <1>4
<1> QED
  BY <1>1, <1>5, FrontIsAll DEF l

LEMMA RoomyStays ==
    ASSUME FiledOK, Roomy, [Next]_vars
    PROVE  Roomy'
<1>1. CASE UNCHANGED <<filed, changes>>
  BY <1>1 DEF Roomy
<1>2. ASSUME changes < MaxChanges, changes' = changes + 1,
             NEW t \in Statements, NEW more \in Seq(Rec), Grows(filed[t], more),
             filed' = [filed EXCEPT ![t] = more]
      PROVE  Roomy'
  <2>1. changes \in Nat /\ MaxChanges \in Nat /\ Limit \in Nat
    BY ClientAssumption DEF Roomy
  <2>2. Len(more) = Len(filed[t]) + 1
    BY <1>2 DEF Grows, AddsNewest, Inserted
  <2>3. ASSUME NEW s \in Statements PROVE Len(filed'[s]) + MaxChanges <= Limit + changes'
    <3>1. Len(filed[s]) \in Nat /\ Len(filed[t]) \in Nat
      BY DEF FiledOK
    <3>2. Len(filed[s]) + MaxChanges <= Limit + changes
      BY DEF Roomy
    <3>3. filed'[s] = IF s = t THEN more ELSE filed[s]
      BY <1>2 DEF FiledOK
    <3>4. Len(filed'[s]) = Len(filed[s]) \/ Len(filed'[s]) = Len(filed[s]) + 1
      BY <2>2, <3>3
    <3> DEFINE l == Len(filed[s])
               m == Len(filed'[s])
    <3>5. l \in Nat /\ l + MaxChanges <= Limit + changes /\ (m = l \/ m = l + 1)
      BY <3>1, <3>2, <3>4
    <3> HIDE DEF l, m
    <3>6. m + MaxChanges <= Limit + changes'
      BY <1>2, <2>1, <3>5
    <3> QED
      BY <3>6 DEF m
  <2> QED
    BY <1>2, <2>1, <2>3 DEF Roomy
<1> QED
  BY <1>1, <1>2, ListsOnlyGrow DEF ProviderStep

\* Whatever is published, an answer holds all of a list.
NothingFallsOut == \A history \in Histories : Len(history) + MaxChanges <= Limit

LEMMA RoomyInit ==
    ASSUME NothingFallsOut
    PROVE  Init => Roomy
<1> SUFFICES ASSUME Init PROVE Roomy
  OBVIOUS
<1>1. ASSUME NEW s \in Statements PROVE Len(filed[s]) + MaxChanges <= Limit
  <2> DEFINE X == {Listed(history) : history \in Histories}
  <2>1. filed[s] \in X
    <3> HIDE DEF X
    <3>1. filed \in [Statements -> X]
      BY DEF Init, X
    <3> QED
      BY <3>1
  <2>2. PICK history \in Histories : filed[s] = Listed(history)
    BY <2>1
  <2>3. Len(filed[s]) = Len(history)
    BY <2>2, ListedIsSorted
  <2> QED
    BY <2>3 DEF NothingFallsOut
<1>2. changes = 0
  BY DEF Init
<1>3. Limit \in Nat /\ MaxChanges \in Nat
  BY ClientAssumption
<1>4. Limit + changes = Limit
  BY <1>2, <1>3
<1> QED
  BY <1>1, <1>2, <1>3, <1>4 DEF Roomy

LEMMA RoomyIsInSight ==
    ASSUME FiledOK, Roomy
    PROVE  OwedInSight
<1> SUFFICES ASSUME NEW s \in Statements, NEW i \in 1..Len(filed[s]) PROVE i <= Limit
  BY DEF OwedInSight
<1>1. filed[s] \in Seq(Rec) /\ Front(filed[s]) = filed[s] /\ Len(filed[s]) \in Nat
  BY RoomySuffices
<1>2. Limit \in Nat /\ Len(filed[s]) = IF Len(filed[s]) < Limit THEN Len(filed[s]) ELSE Limit
  BY <1>1, FrontIsPrefix, ClientAssumption
<1> QED
  BY <1>1, <1>2

\* (FetchKeepsUp) So for a company no older than the limit, through all that is
\* published - which is the case of the runs - without a condition.
THEOREM YoungCompaniesLoseNoPeriod ==
    ASSUME NothingFallsOut
    PROVE  Spec => []FetchKeepsUp
<1>1. Init => Roomy
  BY RoomyInit
<1>2. Roomy /\ FiledOK => OwedInSight
  BY RoomyIsInSight
<1>3. ReachInv /\ Roomy /\ [Next]_vars => Roomy'
  BY RoomyStays DEF ReachInv
<1>4. ReachInv => FiledOK
  BY DEF ReachInv
<1>5. Spec => []OwedInSight
  BY <1>1, <1>2, <1>3, <1>4, ReachInitInv, ReachStepInv, PTL DEF Spec
<1> QED
  BY <1>5, FetchesLoseNoPeriod, PTL

-----------------------------------------------------------------------------
(* The semaphore of the client.                                            *)

Sent == {c \in Calls : call[c].at = "sent"}

\* Each slot of the semaphore is free or taken by one request under way.
SlotsAreAccountedFor ==
    /\ IsFiniteSet(Sent)
    /\ free \in Nat
    /\ free + Cardinality(Sent) = Slots

\* Nothing is asked for a fetch before it begins.
ReadyIsUnasked == \A c \in Calls : fetch[c[1]] = Ready => call[c].at = "none"

SlotsInv == ReachInv /\ ReadyIsUnasked /\ SlotsAreAccountedFor

OthersStay(c) == \A b \in Calls \ {c} : call'[b].at = call[b].at

Takes(c) ==
    /\ OthersStay(c) /\ call[c].at = "queued" /\ call'[c].at = "sent"
    /\ free > 0 /\ free' = free - 1

Frees(c) ==
    /\ OthersStay(c) /\ call[c].at = "sent" /\ call'[c].at # "sent"
    /\ free' = free + 1

Passes(c) ==
    /\ OthersStay(c) /\ call[c].at # "sent" /\ call'[c].at # "sent"
    /\ free' = free

LEMMA SentMoves ==
    ASSUME NEW c \in Calls, SlotsAreAccountedFor, Takes(c) \/ Frees(c) \/ Passes(c)
    PROVE  SlotsAreAccountedFor'
<1>1. \A b \in Calls \ {c} : b \in Sent' <=> b \in Sent
  BY DEF OthersStay, Takes, Frees, Passes, Sent
<1>2. Sent \subseteq Calls /\ Sent' \subseteq Calls
  BY DEF Sent
<1>3. IsFiniteSet(Sent) /\ Cardinality(Sent) \in Nat /\ free \in Nat
      /\ free + Cardinality(Sent) = Slots
  BY FS_CardinalityType DEF SlotsAreAccountedFor
<1> DEFINE n == Cardinality(Sent)
           m == Cardinality(Sent')
<1>4. CASE Takes(c)
  <2>1. c \notin Sent /\ c \in Sent'
    BY <1>4 DEF Takes, Sent
  <2>2. Sent' = Sent \cup {c}
    BY <1>1, <1>2, <2>1
  <2>3. IsFiniteSet(Sent') /\ m = n + 1
    BY <1>3, <2>1, <2>2, FS_AddElement
  <2>4. n \in Nat /\ free \in Nat /\ free + n = Slots /\ free > 0 /\ free' = free - 1
    BY <1>3, <1>4 DEF Takes
  <2> HIDE DEF n, m
  <2>5. free' \in Nat /\ free' + m = Slots
    BY <2>3, <2>4
  <2> QED
    BY <2>3, <2>5 DEF SlotsAreAccountedFor, m
<1>5. CASE Frees(c)
  <2>1. c \in Sent /\ c \notin Sent'
    BY <1>5 DEF Frees, Sent
  <2>2. Sent' = Sent \ {c}
    BY <1>1, <1>2, <2>1
  <2>3. IsFiniteSet(Sent') /\ m = n - 1
    BY <1>3, <2>1, <2>2, FS_RemoveElement
  <2>4. n \in Nat /\ free \in Nat /\ free + n = Slots /\ free' = free + 1
    BY <1>3, <1>5 DEF Frees
  <2> HIDE DEF n, m
  <2>5. free' \in Nat /\ free' + m = Slots
    BY <2>3, <2>4
  <2> QED
    BY <2>3, <2>5 DEF SlotsAreAccountedFor, m
<1>6. CASE Passes(c)
  <2>1. c \notin Sent /\ c \notin Sent'
    BY <1>6 DEF Passes, Sent
  <2>2. Sent' = Sent
    BY <1>1, <1>2, <2>1
  <2> QED
    BY <1>3, <1>6, <2>2 DEF SlotsAreAccountedFor, Passes
<1> QED
  BY <1>4, <1>5, <1>6

LEMMA MovesAlone ==
    ASSUME CallsTyped, NEW c \in Calls, NEW x \in CallPlaces, Move(c, x)
    PROVE  OthersStay(c) /\ call'[c].at = x
<1>1. call[c] \in CallState
  BY DEF CallsTyped
<1>2. [call[c] EXCEPT !.at = x].at = x
  BY <1>1 DEF CallState
<1>3. call' = [d \in Calls |-> IF d = c THEN [call[c] EXCEPT !.at = x] ELSE call[d]]
  BY MoveSets DEF CallSet
<1> QED
  BY <1>2, <1>3 DEF OthersStay

LEMMA CallStepSlots ==
    ASSUME CallsTyped, NEW c \in Calls, CallStep(c)
    PROVE  Takes(c) \/ Frees(c) \/ Passes(c)
<1>0. call[c] \in CallState
  BY DEF CallsTyped
<1>1. CASE Send(c)
  <2>1. OthersStay(c) /\ call'[c].at = "sent"
    BY <1>1, MovesAlone DEF Send, CallPlaces
  <2> QED
    BY <1>1, <2>1 DEF Send, Takes
<1>2. CASE Payload(c)
  <2> DEFINE pay == IF c[2] \in Statements /\ fetch[c[1]] = Running
                    THEN Answered(c[2]) ELSE <<>>
             mid == [call[c] EXCEPT !.at = "done"]
             new == [mid EXCEPT !.payload = pay]
  <2>1. call' = [call EXCEPT ![c].at = "done", ![c].payload = pay]
    BY <1>2 DEF Payload
  <2> HIDE DEF pay
  <2>2. call' = [d \in Calls |-> IF d = c THEN new ELSE call[d]]
    BY <2>1 DEF CallsTyped
  <2>3. mid \in CallState /\ mid.at = "done"
    BY <1>0 DEF CallState, CallPlaces
  <2> HIDE DEF mid
  <2>4. new.at = "done"
    BY <2>3 DEF CallState
  <2> HIDE DEF new
  <2>5. OthersStay(c) /\ call'[c].at = "done"
    BY <2>2, <2>4 DEF OthersStay
  <2> QED
    BY <1>2, <2>5 DEF Payload, Frees
<1>3. CASE Transient(c)
  <2>1. PICK x \in {"asleep", "failed"} : Move(c, x)
    BY <1>3 DEF Transient
  <2>2. OthersStay(c) /\ call'[c].at = x
    BY <2>1, MovesAlone DEF CallPlaces
  <2> QED
    BY <1>3, <2>1, <2>2 DEF Transient, Frees
<1>4. ASSUME NEW kind \in Refusals, Final(c, kind)
      PROVE  Frees(c)
  <2>1. OthersStay(c) /\ call'[c].at = kind
    BY <1>4, MovesAlone DEF Final, CallPlaces, Refusals
  <2> QED
    BY <1>4, <2>1 DEF Final, Frees, Refusals
<1>5. CASE Wake(c)
  <2> DEFINE mid == [call[c] EXCEPT !.at = "queued"]
             new == [mid EXCEPT !.attempt = @ + 1]
  <2>1. call' = [call EXCEPT ![c].at = "queued", ![c].attempt = @ + 1]
    BY <1>5 DEF Wake
  <2>2. call' = [d \in Calls |-> IF d = c THEN new ELSE call[d]]
    BY <2>1 DEF CallsTyped
  <2>3. mid \in CallState /\ mid.at = "queued"
    BY <1>0 DEF CallState, CallPlaces
  <2> HIDE DEF mid
  <2>4. new.at = "queued"
    BY <2>3 DEF CallState
  <2> HIDE DEF new
  <2>5. OthersStay(c) /\ call'[c].at = "queued"
    BY <2>2, <2>4 DEF OthersStay
  <2> QED
    BY <1>5, <2>5 DEF Wake, Passes
<1> QED
  BY <1>1, <1>2, <1>3, <1>4, <1>5 DEF CallStep

\* A fetch that has begun never is ready again.
LEMMA BegunStaysBegun ==
    ASSUME FetchesTyped, Next, NEW f \in Fetches \cup Lookups, fetch[f] # Ready
    PROVE  fetch'[f] # Ready
<1>1. \A kind : Refused(kind).kind = kind
  BY DEF Refused, Outcome
<1>2. Running # Ready /\ \A kind \in Refusals : Refused(kind) # Ready
  BY <1>1 DEF Running, Ready, Refusals
<1>3. ASSUME NEW kind \in Refusals, NEW g, Fail(g, kind) PROVE fetch'[f] # Ready
  BY <1>2, <1>3 DEF Fail, FetchesTyped
<1>4. ASSUME NEW c \in Calls, CallStep(c) PROVE fetch'[f] # Ready
  <2>1. \/ UNCHANGED fetch
        \/ \E kind \in Refusals : Fail(c[1], kind)
    BY <1>4 DEF CallStep, Send, Payload, Transient, Final, Wake, Refusals
  <2> QED
    BY <1>3, <2>1
<1>5. ASSUME NEW g \in Fetches, Collect(g) PROVE fetch'[f] # Ready
  <2> DEFINE lists == [s \in Statements |-> call[<<g, s>>].payload]
             out == IF \E s \in Statements : lists[s] = <<>>
                    THEN Refused("ticker_not_found") ELSE Normalize(lists, profile)
  <2>1. fetch' = [fetch EXCEPT ![g] = out]
    BY <1>5 DEF Collect
  <2>2. out # Ready
    <3> HIDE DEF lists
    <3> QED
      BY DEF Normalize, Selected, Refused, Outcome, Ready
  <2> HIDE DEF out
  <2> QED
    BY <2>1, <2>2 DEF FetchesTyped
<1>6. ASSUME NEW g \in Lookups, LookedUp(g) PROVE fetch'[f] # Ready
  <2>1. Outcome("ok", 0, 0, FALSE) # Ready
    BY DEF Outcome, Ready, Refused
  <2> QED
    BY <1>6, <2>1 DEF LookedUp, FetchesTyped
<1>7. ASSUME NEW g, fetch' = [fetch EXCEPT ![g] = Running] PROVE fetch'[f] # Ready
  BY <1>2, <1>7 DEF FetchesTyped
<1>8. CASE UNCHANGED fetch
  BY <1>8
<1> QED
  BY <1>4, <1>5, <1>6, <1>7, <1>8 DEF Next, ClientStep, Publish, Restate, Begin, LookUp,
     clientVars

LEMMA SlotsStep ==
    ASSUME SlotsInv, Next
    PROVE  ReadyIsUnasked' /\ SlotsAreAccountedFor'
<1>1. CallsTyped /\ FetchesTyped /\ ReadyIsUnasked /\ SlotsAreAccountedFor
  BY DEF SlotsInv, ReachInv
<1>2. \A c \in Calls : c[1] \in Fetches \cup Lookups
  BY RequestsAreCalls
<1>3. \A c \in Calls : fetch'[c[1]] = Ready => fetch[c[1]] = Ready
  BY <1>1, <1>2, BegunStaysBegun
<1>4. ASSUME NEW c \in Calls, CallStep(c)
      PROVE  ReadyIsUnasked' /\ SlotsAreAccountedFor'
  <2>1. Takes(c) \/ Frees(c) \/ Passes(c)
    BY <1>1, <1>4, CallStepSlots
  <2>2. call[c].at # "none"
    BY <1>4 DEF CallStep, Send, Payload, Transient, Final, Wake
  <2>3. OthersStay(c)
    BY <2>1 DEF Takes, Frees, Passes
  <2>4. ReadyIsUnasked'
    BY <1>1, <1>3, <2>2, <2>3 DEF ReadyIsUnasked, OthersStay
  <2> QED
    BY <1>1, <2>1, <2>4, SentMoves
<1>5. ASSUME NEW f \in Fetches, NEW override \in BOOLEAN, Begin(f, override)
      PROVE  ReadyIsUnasked' /\ SlotsAreAccountedFor'
  <2>1. fetch'[f] = Running /\ fetch[f] = Ready /\ free' = free
    BY <1>1, <1>5 DEF Begin, FetchesTyped
  <2>2. \A c \in Calls : IF c[1] = f THEN call'[c].at \in {"done", "queued"}
                                     ELSE call'[c] = call[c]
    BY <1>5 DEF Begin, Unasked
  <2>3. \A c \in Calls : c[1] = f => call[c].at = "none"
    BY <1>1, <2>1 DEF ReadyIsUnasked
  <2>4. Sent' = Sent
    BY <2>2, <2>3 DEF Sent
  <2>5. ReadyIsUnasked'
    BY <1>1, <1>3, <2>1, <2>2, OutcomesDiffer DEF ReadyIsUnasked
  <2> QED
    BY <1>1, <2>1, <2>4, <2>5 DEF SlotsAreAccountedFor
<1>6. ASSUME NEW f \in Lookups, LookUp(f)
      PROVE  ReadyIsUnasked' /\ SlotsAreAccountedFor'
  <2> DEFINE c == <<f, "profile">>
  <2>1. c \in Calls /\ c[1] = f
    BY RequestsAreCalls
  <2>2. fetch'[f] = Running /\ fetch[f] = Ready /\ free' = free /\ Move(c, "queued")
    BY <1>1, <1>6 DEF LookUp, FetchesTyped
  <2>3. call[c].at = "none"
    BY <1>1, <2>1, <2>2 DEF ReadyIsUnasked
  <2> HIDE DEF c
  <2>4. OthersStay(c) /\ call'[c].at = "queued"
    BY <1>1, <2>1, <2>2, MovesAlone DEF CallPlaces
  <2>5. Passes(c)
    BY <2>2, <2>3, <2>4 DEF Passes
  <2>6. ReadyIsUnasked'
    BY <1>1, <1>3, <2>1, <2>2, <2>4, OutcomesDiffer DEF ReadyIsUnasked, OthersStay
  <2> QED
    BY <1>1, <2>1, <2>5, <2>6, SentMoves
<1>7. ASSUME NEW f \in Fetches, Collect(f)
      PROVE  ReadyIsUnasked' /\ SlotsAreAccountedFor'
  <2>1. free' = free
    BY <1>7 DEF Collect
  <2>2. \A c \in Calls : IF c[1] = f THEN call'[c].at = "none" ELSE call'[c] = call[c]
    BY <1>7 DEF Collect, Unasked
  <2>3. \A c \in Calls : c[1] = f => call[c].at = "done"
    BY <1>7, RequestsAreCalls, ClientAssumption DEF Collect
  <2>4. Sent' = Sent
    BY <2>2, <2>3 DEF Sent
  <2>5. ReadyIsUnasked'
    BY <1>1, <1>3, <2>2 DEF ReadyIsUnasked
  <2> QED
    BY <1>1, <2>1, <2>4, <2>5 DEF SlotsAreAccountedFor
<1>8. CASE UNCHANGED <<call, free>>
  <2>1. Sent' = Sent
    BY <1>8 DEF Sent
  <2> QED
    BY <1>1, <1>3, <1>8, <2>1 DEF ReadyIsUnasked, SlotsAreAccountedFor
<1> QED
  BY <1>4, <1>5, <1>6, <1>7, <1>8 DEF Next, ClientStep, LookedUp, Publish, Restate, clientVars

\* The semaphore of the client neither leaks a slot nor grants one too many,
\* whatever requests fail, sleep before a retry or outlive their fetch: each slot
\* is free or taken by one request that was sent (fmp.py:175, _get_json).
THEOREM NoSlotIsLost == Spec => []SlotsAreAccountedFor
<1>1. Init => SlotsInv
  <2> SUFFICES ASSUME Init PROVE SlotsInv
    OBVIOUS
  <2>1. \A c \in Calls : call[c].at = "none"
    BY DEF Init, Unasked
  <2>2. Sent = {}
    BY <2>1 DEF Sent
  <2>3. IsFiniteSet({}) /\ Cardinality({}) = 0 /\ Slots \in Nat /\ free = Slots
    BY FS_EmptySet, ClientAssumption DEF Init
  <2>4. Slots + 0 = Slots
    BY <2>3
  <2>5. SlotsAreAccountedFor
    BY <2>2, <2>3, <2>4 DEF SlotsAreAccountedFor
  <2> QED
    BY <2>1, <2>5, ReachInitInv DEF SlotsInv, ReadyIsUnasked
<1>2. SlotsInv /\ [Next]_vars => SlotsInv'
  <2> SUFFICES ASSUME SlotsInv, [Next]_vars PROVE SlotsInv'
    OBVIOUS
  <2>1. ReachInv'
    BY ReachStepInv DEF SlotsInv
  <2>2. CASE Next
    BY <2>1, <2>2, SlotsStep DEF SlotsInv
  <2>3. CASE UNCHANGED vars
    <3>1. Sent' = Sent
      BY <2>3 DEF vars, clientVars, Sent
    <3> QED
      BY <2>1, <2>3, <3>1 DEF SlotsInv, vars, clientVars, ReadyIsUnasked, SlotsAreAccountedFor
  <2> QED
    BY <2>2, <2>3
<1>3. SlotsInv => SlotsAreAccountedFor
  BY DEF SlotsInv
<1> QED
  BY <1>1, <1>2, <1>3, PTL DEF Spec

-----------------------------------------------------------------------------

\* What is proved of a part alone holds of the whole: the client, the raw store
\* and the valuation each take their own steps only.
THEOREM PartsKeepTheirSpecs == EvidenceSpec => Spec /\ RawSpec /\ ValuationSpec
<1>1. EvidenceInit => Init /\ RawInit /\ ValuationInit
  BY DEF EvidenceInit
<1>2. [EvidenceNext]_evidenceVars => [Next]_vars /\ [RawNext]_rawVars /\ [ValuationNext]_valuationVars
  BY DEF EvidenceNext, ClientTurn, evidenceVars
<1> QED
  BY <1>1, <1>2, PTL DEF EvidenceSpec, Spec, RawSpec, ValuationSpec

\* Whatever the provider publishes and restates, its lists stay sorted, with
\* records of one date agreeing, and every request of the client keeps its type
\* (fmp.py, _get_json).
THEOREM ListsStaySorted == Spec => [](FiledOK /\ CallsTyped)
<1>1. ReachInv => FiledOK /\ CallsTyped
  BY DEF ReachInv
<1> QED
  BY <1>1, ReachInvariant, PTL

\* Every request, load and tally of the valuation route keeps its type
\* (observability.py, api.py).
THEOREM ValuationTypeCorrect == EvidenceSpec => []ValuationTypeOK
<1>1. ValuationInv => ValuationTypeOK
  BY DEF ValuationInv
<1> QED
  BY <1>1, ValuationInvariant, PTL

=============================================================================
