--------------------------- MODULE FrontDoorProofs ---------------------------
(***************************************************************************)
(* Theorems about FrontDoor, for any instances, identities, attempts,      *)
(* pollers, visits, limits and bounds.                                     *)
(*                                                                         *)
(* Each of the parts has an inductive invariant of its own; what binds     *)
(* them is that no step of one part touches what another relies on.        *)
(*                                                                         *)
(* SessionsInv: the cookies in the jar and those each visit carries name   *)
(* pairs that were issued; a pair is spent by a visit that carried it; a   *)
(* visit that spent one either holds the pair that replaces it, or failed. *)
(* What a step may do to a visit is said once, as its course.              *)
(*                                                                         *)
(* LimiterInv: Redis's counter of an identity and day is the number of the *)
(* attempts it counted, each of which got a count of its own, and an       *)
(* instance's counter lies between what it admitted in its present life    *)
(* and what was admitted at all.                                           *)
(*                                                                         *)
(* ReadinessInv: the lock lets one poller in, who leaves a report that is  *)
(* no older than its probe.                                                *)
(***************************************************************************)
EXTENDS FrontDoor, FiniteSetTheorems, SequenceTheorems, TLAPS

-----------------------------------------------------------------------------
(* Sessions: what is known of cookies, pairs and visits.                   *)

Stations == {"idle", "gate", "access", "refresh", "confirm", "lookup", "route", "audit",
             "revoke", "exchange", "provision", "answered", "done", "lost"}

VisitReplies == {"none", "ok", "refused", "denied", "error", "failed", "signed_out"}

Pair == [session : Nat, expired : BOOLEAN, spent : BOOLEAN]

\* Cookies that name pairs issued so far.
JarNow == [access : 0..Len(grants), refresh : 0..Len(grants), verifier : Nat, csrf : BOOLEAN]

Visit == [kind : VisitKinds, at : Stations, jar : JarNow, flow : Nat, got : 0..Len(grants),
          spent : BOOLEAN, served : Nat, barred : SUBSET ended, reply : VisitReplies]

SessionsTypeOK ==
    /\ grants \in Seq(Pair)
    /\ ended \subseteq {Session(g) : g \in DOMAIN grants}
    /\ jar \in JarNow
    /\ flows \in Nat
    /\ visit \in [Visits -> Visit]
    /\ lapses \in Nat

\* What a visit has done so far, by where it is.
VisitOK(v) ==
    /\ visit[v].at = "idle" => visit[v] = NoVisit
    /\ visit[v].at = "access" => visit[v].kind \in {"read", "change", "logout"}
    /\ visit[v].at = "exchange" => visit[v].kind = "callback"
    /\ visit[v].at = "provision" => visit[v].kind = "callback"
    /\ visit[v].at \in {"gate", "access", "refresh", "exchange"} =>
           visit[v].got = 0 /\ ~visit[v].spent
    /\ visit[v].at \in {"refresh", "lookup"} =>
           visit[v].kind \in {"read", "change", "logout"}
    /\ visit[v].at = "route" => visit[v].kind \in {"read", "change"}
    /\ visit[v].at = "confirm" =>
           /\ visit[v].got # 0
           /\ visit[v].kind \in {"callback", "read", "change", "logout"}
           /\ visit[v].kind # "callback" => visit[v].spent
    /\ visit[v].at \in {"lookup", "route"} =>
           /\ Shown(v) # 0 /\ Session(Shown(v)) \notin visit[v].barred
           /\ visit[v].spent => visit[v].got # 0
    /\ visit[v].spent =>
           visit[v].kind \in {"read", "change", "logout"} /\ visit[v].jar.refresh # 0
    /\ visit[v].kind = "logout" => visit[v].reply \notin {"ok", "denied"}
    /\ visit[v].reply = "ok" /\ visit[v].spent => visit[v].got # 0
    /\ visit[v].served # 0 => visit[v].served \notin visit[v].barred

\* Supabase answers a visit with a pair of its own.
OwnPairs ==
    \A u, v \in Visits : visit[u].got # 0 /\ visit[u].got = visit[v].got => u = v

\* A pair is in a cookie only once the answer that brought it has arrived.
CookiesArrived ==
    \A u \in Visits : visit[u].got # 0 =>
        /\ jar.refresh = visit[u].got => visit[u].at = "done"
        /\ \A v \in Visits : Carried(v).refresh = visit[u].got => visit[u].at = "done"

\* A refresh token was spent by a visit that carried it.
SpentByCarrier ==
    \A g \in DOMAIN grants : grants[g].spent =>
        \E v \in Visits : visit[v].spent /\ Carried(v).refresh = g

\* Once the answer of the visit that spent it has arrived, unless it was an
\* error, the browser has another refresh token or none.
SpentIsReplaced ==
    \A v \in Visits :
        /\ visit[v].spent /\ visit[v].at = "done"
        /\ visit[v].reply \in {"ok", "signed_out", "denied"}
        => jar.refresh # Carried(v).refresh

\* A visit is refused for a cause, were it that it spent its own token.
RefusedForCause ==
    \A v \in Visits : visit[v].reply = "denied" =>
        \/ lapses > 0
        \/ Carried(v).refresh = 0
        \/ ~Live(Carried(v).refresh)
        \/ \E w \in Visits : visit[w].spent /\ Carried(w).refresh = Carried(v).refresh

SessionsInv ==
    /\ SessionsTypeOK
    /\ \A v \in Visits : VisitOK(v)
    /\ OwnPairs
    /\ CookiesArrived
    /\ SpentByCarrier
    /\ SpentIsReplaced
    /\ RefusedForCause

-----------------------------------------------------------------------------

LEMMA VisitIsTyped ==
    ASSUME SessionsTypeOK, NEW v \in Visits
    PROVE  /\ visit[v] \in Visit
           /\ visit[v].kind \in VisitKinds /\ visit[v].at \in Stations
           /\ Carried(v) \in JarNow /\ Carried(v).access \in 0..Len(grants)
           /\ Carried(v).refresh \in 0..Len(grants) /\ Carried(v).csrf \in BOOLEAN
           /\ visit[v].got \in 0..Len(grants) /\ visit[v].spent \in BOOLEAN
           /\ visit[v].served \in Nat /\ visit[v].barred \subseteq ended
           /\ visit[v].reply \in VisitReplies /\ visit[v].flow \in Nat
           /\ Len(grants) \in Nat /\ DOMAIN grants = 1..Len(grants)
           /\ \A g \in DOMAIN grants : /\ grants[g] \in Pair /\ Session(g) \in Nat
                                       /\ grants[g].spent \in BOOLEAN
<1>1. visit[v] \in Visit /\ grants \in Seq(Pair)
  BY DEF SessionsTypeOK
<1>2. Carried(v) \in JarNow
  BY <1>1 DEF Visit, Carried
<1>3. DOMAIN grants = 1..Len(grants) /\ \A g \in DOMAIN grants : grants[g] \in Pair
  BY <1>1
<1> QED
  BY <1>1, <1>2, <1>3 DEF Visit, JarNow, Carried, Pair, Session

\* Pairs are only added, and keep their session; sign-outs are for good.
PairsKept ==
    /\ grants' \in Seq(Pair)
    /\ Len(grants) <= Len(grants')
    /\ \A g \in DOMAIN grants : /\ g \in DOMAIN grants' /\ Session(g)' = Session(g)
                                /\ grants[g].spent => grants'[g].spent
                                /\ grants[g].expired => grants'[g].expired
    /\ ended \subseteq ended'
    /\ ended' \subseteq {Session(g)' : g \in DOMAIN grants'}

LEMMA IssueKeeps ==
    ASSUME SessionsTypeOK, NEW h \in Pair, UNCHANGED ended, NEW g \in DOMAIN grants,
           grants' = Append([grants EXCEPT ![g].spent = TRUE], h)
    PROVE  /\ PairsKept /\ Len(grants') = Len(grants) + 1
           /\ \A f \in DOMAIN grants : f # g => grants'[f] = grants[f]
           /\ grants'[g].spent
           /\ grants'[Len(grants) + 1] = h
<1> DEFINE marked == [grants EXCEPT ![g].spent = TRUE]
<1>1. grants \in Seq(Pair) /\ \A f \in DOMAIN grants : grants[f] \in Pair
  BY DEF SessionsTypeOK
<1>2. marked \in Seq(Pair) /\ Len(marked) = Len(grants) /\ DOMAIN marked = DOMAIN grants
  <2>1. [grants[g] EXCEPT !.spent = TRUE] \in Pair
    BY <1>1 DEF Pair
  <2>2. grants \in [1..Len(grants) -> Pair] /\ Len(grants) \in Nat
    BY <1>1
  <2>5. marked \in [1..Len(grants) -> Pair]
    BY <2>1, <2>2
  <2> HIDE DEF marked
  <2>3. marked \in Seq(Pair) /\ DOMAIN marked = 1..Len(grants)
    BY <2>2, <2>5
  <2>4. Len(marked) = Len(grants)
    BY <2>2, <2>3
  <2> QED
    BY <1>1, <2>3, <2>4
<1>3. \A f \in DOMAIN grants : /\ marked[f].session = grants[f].session
                               /\ grants[f].spent => marked[f].spent
                               /\ grants[f].expired => marked[f].expired
                               /\ f # g => marked[f] = grants[f]
                               /\ f = g => marked[f].spent
  BY <1>1 DEF Pair
<1> HIDE DEF marked
<1>4. /\ grants' \in Seq(Pair) /\ Len(grants') = Len(grants) + 1
      /\ \A f \in DOMAIN grants : f \in DOMAIN grants' /\ grants'[f] = marked[f]
      /\ grants'[Len(grants) + 1] = h
  BY <1>1, <1>2 DEF marked
<1>5. \A f \in DOMAIN grants : Session(f)' = Session(f)
  BY <1>3, <1>4 DEF Session
<1>6. ended' \subseteq {Session(f)' : f \in DOMAIN grants'}
  BY <1>4, <1>5 DEF SessionsTypeOK
<1> QED
  BY <1>1, <1>3, <1>4, <1>5, <1>6 DEF PairsKept

LEMMA AddKeeps ==
    ASSUME SessionsTypeOK, NEW h \in Pair, UNCHANGED ended,
           grants' = Append(grants, h)
    PROVE  /\ PairsKept /\ Len(grants') = Len(grants) + 1
           /\ \A f \in DOMAIN grants : grants'[f] = grants[f]
           /\ grants'[Len(grants) + 1] = h
<1>1. grants \in Seq(Pair)
  BY DEF SessionsTypeOK
<1>4. /\ grants' \in Seq(Pair) /\ Len(grants') = Len(grants) + 1
      /\ \A f \in DOMAIN grants : f \in DOMAIN grants' /\ grants'[f] = grants[f]
      /\ grants'[Len(grants) + 1] = h
  BY <1>1
<1>5. \A f \in DOMAIN grants : Session(f)' = Session(f)
  BY <1>4 DEF Session
<1>6. ended' \subseteq {Session(f)' : f \in DOMAIN grants'}
  BY <1>4, <1>5 DEF SessionsTypeOK
<1> QED
  BY <1>1, <1>4, <1>5, <1>6 DEF PairsKept

LEMMA SameKeeps ==
    ASSUME SessionsTypeOK, UNCHANGED <<grants, ended>>
    PROVE  PairsKept
  BY DEF SessionsTypeOK, PairsKept, Session

\* One visit takes a step at a time.
LEMMA OneVisitMoves ==
    ASSUME SessionsTypeOK, NEW v \in Visits, VisitStep(v)
    PROVE  /\ \A u \in Visits : u # v => visit'[u] = visit[u]
           /\ DOMAIN visit' = Visits
<1>1. visit \in [Visits -> Visit]
  BY DEF SessionsTypeOK
<1>2. CASE Refresh(v)
  BY <1>1, <1>2 DEF Refresh, Issue, Denied, Crash, Conclude
<1>3. CASE Exchange(v)
  BY <1>1, <1>3 DEF Exchange, Crash, Conclude
<1>4. CASE \E kind \in VisitKinds, flow \in 0..flows : Send(v, kind, flow)
  BY <1>1, <1>4 DEF Send
<1>5. CASE Page(v) \/ BeginFlow(v) \/ LogoutGate(v)
  BY <1>1, <1>5 DEF Page, BeginFlow, LogoutGate, Crash, Conclude, Moves
<1>6. CASE CheckAccess(v) \/ Confirm(v) \/ FindCustomer(v)
  BY <1>1, <1>6 DEF CheckAccess, Confirm, FindCustomer, Crash, Conclude, Moves, Denied
<1>7. CASE Route(v) \/ AuditLogout(v) \/ Revoke(v) \/ Provision(v) \/ Arrives(v)
  BY <1>1, <1>7 DEF Route, AuditLogout, Revoke, Provision, Arrives, Crash, Conclude, Moves
<1> QED
  BY <1>2, <1>3, <1>4, <1>5, <1>6, <1>7 DEF VisitStep

LEMMA LapsesOnlyGrow ==
    ASSUME SessionsTypeOK, NEW v \in Visits, VisitStep(v)
    PROVE  flows' \in Nat /\ lapses' \in Nat /\ (lapses > 0 => lapses' > 0)
<1>1. flows' = flows \/ flows' = flows + 1
  BY DEF VisitStep, Send, Page, BeginFlow, LogoutGate, CheckAccess, Refresh, Confirm,
     FindCustomer, Route, AuditLogout, Revoke, Exchange, Provision, Arrives
<1>2. Lapse \/ NoLapse
  <2>1. CASE \E kind \in VisitKinds, flow \in 0..flows : Send(v, kind, flow)
    BY <2>1 DEF Send, NoLapse
  <2>2. CASE Page(v) \/ BeginFlow(v) \/ LogoutGate(v) \/ CheckAccess(v)
    BY <2>2 DEF Page, BeginFlow, LogoutGate, CheckAccess, Crash, NoLapse
  <2>3. CASE Refresh(v) \/ Confirm(v) \/ FindCustomer(v)
    BY <2>3 DEF Refresh, Issue, Confirm, FindCustomer, Crash
  <2>4. CASE Route(v) \/ AuditLogout(v) \/ Revoke(v)
    BY <2>4 DEF Route, AuditLogout, Revoke, Crash
  <2>5. CASE Exchange(v) \/ Provision(v) \/ Arrives(v)
    BY <2>5 DEF Exchange, Provision, Arrives, Crash
  <2> QED
    BY <2>1, <2>2, <2>3, <2>4, <2>5 DEF VisitStep
<1>3. flows \in Nat /\ lapses \in Nat
  BY DEF SessionsTypeOK
<1>4. flows' \in Nat
  BY <1>1, <1>3
<1>5. lapses' \in Nat /\ (lapses > 0 => lapses' > 0)
  BY <1>2, <1>3 DEF Lapse, NoLapse
<1> QED
  BY <1>4, <1>5

LEMMA GrantIsPair ==
    ASSUME NEW n \in Nat
    PROVE  Grant(n) \in Pair /\ ~Grant(n).spent
  BY DEF Grant, Pair

LEMMA StepKeepsPairs ==
    ASSUME SessionsTypeOK, NEW v \in Visits, VisitStep(v)
    PROVE  PairsKept
<1>1. CASE Refresh(v)
  <2>1. CASE UNCHANGED <<grants, ended>>
    BY <2>1, SameKeeps
  <2>2. CASE Refreshable(Carried(v).refresh) /\ Issue(v, Carried(v).refresh)
    <3>1. Carried(v).refresh \in DOMAIN grants
      BY <2>2, VisitIsTyped DEF Refreshable
    <3>2. Grant(Session(Carried(v).refresh)) \in Pair
      BY <3>1, VisitIsTyped, GrantIsPair
    <3> QED
      BY <1>1, <2>2, <3>1, <3>2, IssueKeeps DEF Issue, Refresh
  <2> QED
    BY <1>1, <2>1, <2>2 DEF Refresh
<1>2. CASE Exchange(v)
  <2>1. CASE UNCHANGED <<grants, ended>>
    BY <2>1, SameKeeps
  <2>2. CASE grants' = Append(grants, Grant(Len(grants) + 1)) /\ UNCHANGED ended
    <3>1. Grant(Len(grants) + 1) \in Pair
      BY VisitIsTyped, GrantIsPair
    <3> QED
      BY <2>2, <3>1, AddKeeps
  <2> QED
    BY <1>2, <2>1, <2>2 DEF Exchange
<1>3. CASE Revoke(v)
  <2>1. /\ UNCHANGED grants
        /\ ended' \in {ended, {Session(g) : g \in DOMAIN grants}}
    BY <1>3 DEF Revoke
  <2> QED
    BY <2>1 DEF PairsKept, SessionsTypeOK, Session
<1>4. CASE ~Refresh(v) /\ ~Exchange(v) /\ ~Revoke(v)
  <2>1. UNCHANGED <<grants, ended>>
    BY <1>4 DEF VisitStep, Send, Page, BeginFlow, LogoutGate, CheckAccess, Confirm,
       FindCustomer, Route, AuditLogout, Provision, Arrives, authVars
  <2> QED
    BY <2>1, SameKeeps
<1> QED
  BY <1>1, <1>2, <1>3, <1>4

\* A visit whatever its pair.
AnyVisit == [kind : VisitKinds, at : Stations, jar : JarNow, flow : Nat, got : Nat,
             spent : BOOLEAN, served : Nat, barred : SUBSET ended, reply : VisitReplies]

\* What one step makes of a visit.
Turned(v, p, r, g, s, d) ==
    /\ visit'[v] \in AnyVisit
    /\ visit'[v].kind = visit[v].kind /\ visit'[v].jar = visit[v].jar
    /\ visit'[v].barred = visit[v].barred
    /\ visit'[v].at = p /\ visit'[v].reply = r
    /\ visit'[v].got = g /\ visit'[v].spent = s /\ visit'[v].served = d

LEMMA VisitsAreAny ==
    ASSUME SessionsTypeOK, NEW v \in Visits
    PROVE  visit[v] \in AnyVisit /\ Len(grants) \in Nat
<1>1. visit[v] \in Visit /\ grants \in Seq(Pair)
  BY DEF SessionsTypeOK
<1>2. Len(grants) \in Nat /\ 0..Len(grants) \subseteq Nat
  BY <1>1
<1> QED
  BY <1>1, <1>2 DEF Visit, AnyVisit

LEMMA FieldsAreFree ==
    ASSUME NEW o \in AnyVisit
    PROVE  /\ \A p \in Stations : [o EXCEPT !.at = p] \in AnyVisit
           /\ \A r \in VisitReplies : [o EXCEPT !.reply = r] \in AnyVisit
           /\ \A f \in Nat : [o EXCEPT !.flow = f] \in AnyVisit
           /\ \A g \in Nat : [o EXCEPT !.got = g] \in AnyVisit
           /\ \A s \in BOOLEAN : [o EXCEPT !.spent = s] \in AnyVisit
           /\ \A d \in Nat : [o EXCEPT !.served = d] \in AnyVisit
  BY DEF AnyVisit

LEMMA EndTurns ==
    ASSUME SessionsTypeOK, NEW v \in Visits,
           NEW p \in Stations, NEW r \in VisitReplies,
           visit' = [visit EXCEPT ![v].at = p, ![v].reply = r]
    PROVE  Turned(v, p, r, visit[v].got, visit[v].spent, visit[v].served)
<1> DEFINE a == [visit[v] EXCEPT !.at = p]
           b == [a EXCEPT !.reply = r]
<1>1. /\ visit \in [Visits -> Visit] /\ visit[v] \in AnyVisit
      /\ Len(grants) + 1 \in Nat
  BY VisitsAreAny DEF SessionsTypeOK
<1>2. a \in AnyVisit
  BY <1>1, FieldsAreFree DEF Stations, VisitReplies
<1>3. b \in AnyVisit
  BY <1>2, FieldsAreFree DEF Stations, VisitReplies
<1>4. visit'[v] = b
  BY <1>1
<1> QED
  BY <1>1, <1>3, <1>4 DEF Turned, AnyVisit

LEMMA GotTurns ==
    ASSUME SessionsTypeOK, NEW v \in Visits, NEW s \in BOOLEAN,
           visit' = [visit EXCEPT ![v].at = "confirm", ![v].got = Len(grants) + 1, ![v].spent = s]
    PROVE  Turned(v, "confirm", visit[v].reply, Len(grants) + 1, s, visit[v].served)
<1> DEFINE a == [visit[v] EXCEPT !.at = "confirm"]
           b == [a EXCEPT !.got = Len(grants) + 1]
           c == [b EXCEPT !.spent = s]
<1>1. /\ visit \in [Visits -> Visit] /\ visit[v] \in AnyVisit
      /\ Len(grants) + 1 \in Nat
  BY VisitsAreAny DEF SessionsTypeOK
<1>2. a \in AnyVisit
  BY <1>1, FieldsAreFree DEF Stations, VisitReplies
<1>3. b \in AnyVisit
  BY <1>1, <1>2, FieldsAreFree DEF Stations, VisitReplies
<1>4. c \in AnyVisit
  BY <1>3, FieldsAreFree DEF Stations, VisitReplies
<1>5. visit'[v] = c
  BY <1>1
<1> QED
  BY <1>1, <1>4, <1>5 DEF Turned, AnyVisit

LEMMA OwnTurns ==
    ASSUME SessionsTypeOK, NEW v \in Visits,
           visit' = [visit EXCEPT ![v].at = "confirm", ![v].got = Len(grants) + 1]
    PROVE  Turned(v, "confirm", visit[v].reply, Len(grants) + 1, visit[v].spent,
                  visit[v].served)
<1> DEFINE a == [visit[v] EXCEPT !.at = "confirm"]
           b == [a EXCEPT !.got = Len(grants) + 1]
<1>1. /\ visit \in [Visits -> Visit] /\ visit[v] \in AnyVisit
      /\ Len(grants) + 1 \in Nat
  BY VisitsAreAny DEF SessionsTypeOK
<1>2. a \in AnyVisit
  BY <1>1, FieldsAreFree DEF Stations, VisitReplies
<1>3. b \in AnyVisit
  BY <1>1, <1>2, FieldsAreFree DEF Stations, VisitReplies
<1>4. visit'[v] = b
  BY <1>1
<1> QED
  BY <1>1, <1>3, <1>4 DEF Turned, AnyVisit

LEMMA SpentTurns ==
    ASSUME SessionsTypeOK, NEW v \in Visits,
           NEW p \in Stations, NEW r \in VisitReplies,
           visit' = [visit EXCEPT ![v].at = p, ![v].reply = r, ![v].spent = TRUE]
    PROVE  Turned(v, p, r, visit[v].got, TRUE, visit[v].served)
<1> DEFINE a == [visit[v] EXCEPT !.at = p]
           b == [a EXCEPT !.reply = r]
           c == [b EXCEPT !.spent = TRUE]
<1>1. /\ visit \in [Visits -> Visit] /\ visit[v] \in AnyVisit
      /\ Len(grants) + 1 \in Nat
  BY VisitsAreAny DEF SessionsTypeOK
<1>2. a \in AnyVisit
  BY <1>1, FieldsAreFree DEF Stations, VisitReplies
<1>3. b \in AnyVisit
  BY <1>2, FieldsAreFree DEF Stations, VisitReplies
<1>4. c \in AnyVisit
  BY <1>3, FieldsAreFree DEF Stations, VisitReplies
<1>5. visit'[v] = c
  BY <1>1
<1> QED
  BY <1>1, <1>4, <1>5 DEF Turned, AnyVisit

LEMMA ServedTurns ==
    ASSUME SessionsTypeOK, NEW v \in Visits, NEW d \in Nat,
           visit' = [visit EXCEPT ![v].at = "answered", ![v].reply = "ok", ![v].served = d]
    PROVE  Turned(v, "answered", "ok", visit[v].got, visit[v].spent, d)
<1> DEFINE a == [visit[v] EXCEPT !.at = "answered"]
           b == [a EXCEPT !.reply = "ok"]
           c == [b EXCEPT !.served = d]
<1>1. /\ visit \in [Visits -> Visit] /\ visit[v] \in AnyVisit
      /\ Len(grants) + 1 \in Nat
  BY VisitsAreAny DEF SessionsTypeOK
<1>2. a \in AnyVisit
  BY <1>1, FieldsAreFree DEF Stations, VisitReplies
<1>3. b \in AnyVisit
  BY <1>2, FieldsAreFree DEF Stations, VisitReplies
<1>4. c \in AnyVisit
  BY <1>3, FieldsAreFree DEF Stations, VisitReplies
<1>5. visit'[v] = c
  BY <1>1
<1> QED
  BY <1>1, <1>4, <1>5 DEF Turned, AnyVisit

LEMMA FlowTurns ==
    ASSUME SessionsTypeOK, NEW v \in Visits, NEW f \in Nat,
           visit' = [visit EXCEPT ![v].at = "answered", ![v].reply = "ok", ![v].flow = f]
    PROVE  Turned(v, "answered", "ok", visit[v].got, visit[v].spent, visit[v].served)
<1> DEFINE a == [visit[v] EXCEPT !.at = "answered"]
           b == [a EXCEPT !.reply = "ok"]
           c == [b EXCEPT !.flow = f]
<1>1. /\ visit \in [Visits -> Visit] /\ visit[v] \in AnyVisit
      /\ Len(grants) + 1 \in Nat
  BY VisitsAreAny DEF SessionsTypeOK
<1>2. a \in AnyVisit
  BY <1>1, FieldsAreFree DEF Stations, VisitReplies
<1>3. b \in AnyVisit
  BY <1>2, FieldsAreFree DEF Stations, VisitReplies
<1>4. c \in AnyVisit
  BY <1>3, FieldsAreFree DEF Stations, VisitReplies
<1>5. visit'[v] = c
  BY <1>1
<1> QED
  BY <1>1, <1>4, <1>5 DEF Turned, AnyVisit

LEMMA MovesTurns ==
    ASSUME SessionsTypeOK, NEW v \in Visits, NEW p \in Stations, Moves(v, p)
    PROVE  Turned(v, p, visit[v].reply, visit[v].got, visit[v].spent, visit[v].served)
<1>1. /\ visit \in [Visits -> Visit] /\ visit[v] \in AnyVisit
      /\ visit'[v] = [visit[v] EXCEPT !.at = p]
  BY VisitsAreAny DEF SessionsTypeOK, Moves
<1>2. visit'[v] \in AnyVisit
  BY <1>1, FieldsAreFree DEF VisitReplies
<1> QED
  BY <1>1, <1>2 DEF Turned, AnyVisit

\* What may be said of every step of a visit but the first.
Course(v) ==
    LET o == visit[v]
        n == visit'[v]
    IN  /\ n \in AnyVisit
        /\ n.kind = o.kind /\ n.jar = o.jar /\ n.barred = o.barred
        /\ n.at # "idle" /\ o.at # "done"
        /\ \/ n.got = o.got
           \/ o.got = 0 /\ n.got = Len(grants) + 1 /\ Len(grants') = Len(grants) + 1
        /\ n.spent = o.spent \/ (n.spent /\ n.at # "done")
        /\ \A g \in DOMAIN grants' : grants'[g].spent =>
               \/ g \in DOMAIN grants /\ grants[g].spent
               \/ n.spent /\ g = o.jar.refresh
        /\ n.at = "done" =>
               /\ o.at = "answered" /\ jar' = Cookies(v)
               /\ n.reply = o.reply /\ n.got = o.got
        /\ n.at # "done" => UNCHANGED jar
        /\ n.reply = "denied" =>
               \/ o.reply = "denied" \/ lapses' > 0 \/ o.jar.refresh = 0 \/ n.spent
               \/ ~Live(o.jar.refresh) \/ grants[o.jar.refresh].spent

\* The same of a step that turns to another place with nothing but an answer.
LEMMA PlainCourse ==
    ASSUME SessionsTypeOK, NEW v \in Visits, NEW p \in Stations, NEW r \in VisitReplies,
           Turned(v, p, r, visit[v].got, visit[v].spent, visit[v].served),
           UNCHANGED <<jar, grants>>,
           visit[v].at \notin {"idle", "done"}, p \notin {"idle", "done"},
           r = "denied" =>
               \/ visit[v].reply = "denied" \/ lapses' > 0 \/ visit[v].spent
               \/ Carried(v).refresh = 0 \/ ~Live(Carried(v).refresh)
               \/ grants[Carried(v).refresh].spent
    PROVE  Course(v)
  BY DEF Turned, Course, Carried

\* A step that keeps the pair of its visit keeps what holds at its new place.
LEMMA PlainOK ==
    ASSUME SessionsTypeOK, NEW v \in Visits, NEW p \in Stations, NEW r \in VisitReplies,
           Turned(v, p, r, visit[v].got, visit[v].spent, visit[v].served),
           PairsKept, VisitOK(v),
           p \in {"answered", "done", "lost", "revoke", "audit"},
           visit[v].kind = "logout" => r \notin {"ok", "denied"},
           r = "ok" /\ visit[v].spent => visit[v].got # 0
    PROVE  VisitOK(v)'
<1> USE DEF Turned
<1>1. /\ visit'[v].kind = visit[v].kind /\ visit'[v].barred = visit[v].barred
      /\ visit'[v].jar = visit[v].jar
      /\ visit'[v].at = p /\ visit'[v].reply = r /\ visit'[v].got = visit[v].got
      /\ visit'[v].spent = visit[v].spent /\ visit'[v].served = visit[v].served
  OBVIOUS
<1>2. /\ visit[v].spent =>
             visit[v].kind \in {"read", "change", "logout"} /\ visit[v].jar.refresh # 0
      /\ visit[v].served # 0 => visit[v].served \notin visit[v].barred
  BY DEF VisitOK
<1> QED
  BY <1>1, <1>2 DEF VisitOK

LEMMA PageCourse ==
    ASSUME SessionsInv, NEW v \in Visits,
           Page(v) \/ BeginFlow(v) \/ LogoutGate(v)
    PROVE  Course(v) /\ VisitOK(v)'
<1>1. SessionsTypeOK /\ VisitOK(v) /\ visit[v].at = "gate" /\ ~visit[v].spent
      /\ flows \in Nat /\ UNCHANGED <<jar, grants, ended>> /\ visit[v].got = 0
  BY DEF SessionsInv, Page, BeginFlow, LogoutGate, VisitOK, authVars, SessionsTypeOK
<1>2. PairsKept
  BY <1>1, SameKeeps
<1>3. ASSUME NEW r \in {"ok", "refused", "failed", "signed_out"},
             visit[v].kind = "logout" => r # "ok",
             Turned(v, "answered", r, visit[v].got, visit[v].spent, visit[v].served)
      PROVE  Course(v) /\ VisitOK(v)'
  <2>1. r \in VisitReplies /\ "answered" \in Stations
    BY DEF VisitReplies, Stations
  <2> QED
    BY <1>1, <1>2, <1>3, <2>1, PlainCourse, PlainOK
<1>4. CASE Page(v)
  <2>1. Turned(v, "answered", "ok", visit[v].got, visit[v].spent, visit[v].served)
    BY <1>1, <1>4, EndTurns DEF Page, Conclude, Stations, VisitReplies
  <2> QED
    BY <1>3, <1>4, <2>1 DEF Page
<1>5. CASE BeginFlow(v)
  <2>1. PICK r \in {"ok", "refused", "failed"} :
            Turned(v, "answered", r, visit[v].got, visit[v].spent, visit[v].served)
    <3>1. flows + 1 \in Nat
      BY <1>1
    <3> QED
      BY <1>1, <1>5, <3>1, EndTurns, FlowTurns DEF BeginFlow, Crash, Conclude, Stations,
         VisitReplies
  <2> QED
    BY <1>3, <1>5, <2>1 DEF BeginFlow
<1>6. CASE LogoutGate(v)
  <2>1. CASE \E r \in {"refused", "signed_out"} : Conclude(v, r)
    <3>1. PICK r \in {"refused", "signed_out"} : Conclude(v, r)
      BY <2>1
    <3>2. Turned(v, "answered", r, visit[v].got, visit[v].spent, visit[v].served)
      BY <1>1, <3>1, EndTurns DEF Conclude, Stations, VisitReplies
    <3> QED
      BY <1>3, <3>2
  <2>2. CASE Moves(v, "access")
    <3>1. Turned(v, "access", visit[v].reply, visit[v].got, visit[v].spent, visit[v].served)
      BY <1>1, <2>2, MovesTurns DEF Stations
    <3>2. Course(v)
      BY <1>1, <3>1, PlainCourse, VisitIsTyped DEF Stations
    <3>3. VisitOK(v)'
      BY <1>1, <1>6, <3>1 DEF VisitOK, Turned, LogoutGate
    <3> QED
      BY <3>2, <3>3
  <2> QED
    BY <1>6, <2>1, <2>2 DEF LogoutGate
<1> QED
  BY <1>4, <1>5, <1>6

LEMMA CheckAccessCourse ==
    ASSUME SessionsInv, NEW v \in Visits, CheckAccess(v)
    PROVE  Course(v) /\ VisitOK(v)'
<1>1. /\ SessionsTypeOK /\ VisitOK(v) /\ visit[v].at = "access" /\ ~visit[v].spent
      /\ UNCHANGED <<jar, grants, ended>> /\ visit[v].got = 0
      /\ visit[v].kind \in {"read", "change", "logout"}
  BY DEF SessionsInv, CheckAccess, VisitOK, authVars
<1>2. PairsKept
  BY <1>1, SameKeeps
<1>3. CASE Crash(v)
  <2>1. Turned(v, "answered", "failed", visit[v].got, visit[v].spent, visit[v].served)
    BY <1>1, <1>3, EndTurns DEF Crash, Conclude, Stations, VisitReplies
  <2> QED
    BY <1>1, <1>2, <2>1, PlainCourse, PlainOK DEF Stations, VisitReplies
<1>4. CASE Moves(v, "refresh")
  <2>1. Turned(v, "refresh", visit[v].reply, visit[v].got, visit[v].spent, visit[v].served)
    BY <1>1, <1>4, MovesTurns DEF Stations
  <2>2. Course(v)
    BY <1>1, <2>1, PlainCourse, VisitIsTyped DEF Stations
  <2>3. VisitOK(v)'
    BY <1>1, <2>1 DEF VisitOK, Turned
  <2> QED
    BY <2>2, <2>3
<1>5. CASE Moves(v, "lookup") /\ Plausible(Carried(v).access) /\ Accepted(Carried(v).access)
  <2>1. Turned(v, "lookup", visit[v].reply, visit[v].got, visit[v].spent, visit[v].served)
    BY <1>1, <1>5, MovesTurns DEF Stations
  <2>2. Course(v)
    BY <1>1, <2>1, PlainCourse, VisitIsTyped DEF Stations
  <2>3. /\ Shown(v) = Carried(v).access /\ Shown(v) # 0
        /\ Session(Shown(v)) \notin visit[v].barred
    BY <1>1, <1>5, VisitIsTyped DEF Shown, Plausible, Accepted, Live
  <2>4. Shown(v)' = Shown(v) /\ Session(Shown(v))' = Session(Shown(v))
    BY <1>1, <2>1 DEF Turned, Shown, Carried, Session
  <2>5. VisitOK(v)'
    BY <1>1, <2>1, <2>3, <2>4 DEF VisitOK, Turned
  <2> QED
    BY <2>2, <2>5
<1> QED
  BY <1>3, <1>4, <1>5 DEF CheckAccess

LEMMA LookupCourse ==
    ASSUME SessionsInv, NEW v \in Visits, FindCustomer(v)
    PROVE  Course(v) /\ VisitOK(v)'
<1>1. /\ SessionsTypeOK /\ VisitOK(v) /\ visit[v].at = "lookup"
      /\ UNCHANGED <<jar, grants, ended>> /\ visit[v].kind \in {"read", "change", "logout"}
      /\ lapses \in Nat
  BY DEF SessionsInv, FindCustomer, VisitOK, authVars, SessionsTypeOK
<1>2. PairsKept
  BY <1>1, SameKeeps
<1>3. CASE Lapse /\ (Denied(v) \/ Conclude(v, "failed"))
  <2>1. PICK end \in {Denial(v), <<"answered", "failed">>} :
            visit' = [visit EXCEPT ![v].at = end[1], ![v].reply = end[2]]
    BY <1>3 DEF Denied, Conclude
  <2>2. /\ end[1] \in {"revoke", "answered"} /\ end[2] \in {"none", "denied", "failed"}
        /\ visit[v].kind = "logout" => end[2] # "denied"
    BY <1>1, <2>1 DEF Denial
  <2>3. end[1] \in Stations /\ end[2] \in VisitReplies
    BY <2>2 DEF Stations, VisitReplies
  <2>4. Turned(v, end[1], end[2], visit[v].got, visit[v].spent, visit[v].served)
    BY <1>1, <2>1, <2>3, EndTurns
  <2>5. lapses' > 0
    BY <1>1, <1>3 DEF Lapse
  <2> QED
    BY <1>1, <1>2, <2>2, <2>3, <2>4, <2>5, PlainCourse, PlainOK
<1>4. CASE Moves(v, "audit") /\ visit[v].kind = "logout"
  <2>1. Turned(v, "audit", visit[v].reply, visit[v].got, visit[v].spent, visit[v].served)
    BY <1>1, <1>4, MovesTurns DEF Stations
  <2> QED
    BY <1>1, <1>2, <1>4, <2>1, PlainCourse, PlainOK, VisitIsTyped DEF Stations, VisitOK
<1>5. CASE Moves(v, "route") /\ visit[v].kind # "logout"
  <2>1. Turned(v, "route", visit[v].reply, visit[v].got, visit[v].spent, visit[v].served)
    BY <1>1, <1>5, MovesTurns DEF Stations
  <2>2. Course(v)
    BY <1>1, <2>1, PlainCourse, VisitIsTyped DEF Stations
  <2>3. Shown(v)' = Shown(v) /\ Session(Shown(v))' = Session(Shown(v))
    BY <1>1, <2>1 DEF Turned, Shown, Carried, Session
  <2>4. VisitOK(v)'
    BY <1>1, <1>5, <2>1, <2>3 DEF VisitOK, Turned
  <2> QED
    BY <2>2, <2>4
<1> QED
  BY <1>3, <1>4, <1>5 DEF FindCustomer, Crash

LEMMA RouteCourse ==
    ASSUME SessionsInv, NEW v \in Visits, Route(v)
    PROVE  Course(v) /\ VisitOK(v)'
<1>1. /\ SessionsTypeOK /\ VisitOK(v) /\ visit[v].at = "route"
      /\ UNCHANGED <<jar, grants, ended>> /\ visit[v].kind \in {"read", "change"}
      /\ Shown(v) # 0 /\ Session(Shown(v)) \notin visit[v].barred
      /\ visit[v].spent => visit[v].got # 0
  BY DEF SessionsInv, Route, VisitOK, authVars
<1>2. PairsKept
  BY <1>1, SameKeeps
<1>3. CASE \E r \in {"error", "failed"} : Conclude(v, r)
  <2>1. PICK r \in {"error", "failed"} : Conclude(v, r)
    BY <1>3
  <2>2. Turned(v, "answered", r, visit[v].got, visit[v].spent, visit[v].served)
    BY <1>1, <2>1, EndTurns DEF Conclude, Stations, VisitReplies
  <2>3. "answered" \in Stations /\ r \in VisitReplies
    BY DEF Stations, VisitReplies
  <2> QED
    BY <1>1, <1>2, <2>2, <2>3, PlainCourse, PlainOK
<1>4. CASE visit' = [visit EXCEPT ![v].at = "answered", ![v].reply = "ok",
                                  ![v].served = Session(Shown(v))]
  <2>1. Session(Shown(v)) \in Nat
    BY <1>1, VisitIsTyped DEF Shown
  <2>2. Turned(v, "answered", "ok", visit[v].got, visit[v].spent, Session(Shown(v)))
    BY <1>1, <1>4, <2>1, ServedTurns
  <2>3. Course(v)
    BY <1>1, <2>2 DEF Turned, Course
  <2>4. VisitOK(v)'
    BY <1>1, <2>2 DEF VisitOK, Turned
  <2> QED
    BY <2>3, <2>4
<1> QED
  BY <1>3, <1>4 DEF Route, Crash

LEMMA EndCourse ==
    ASSUME SessionsInv, NEW v \in Visits,
           AuditLogout(v) \/ Revoke(v) \/ Provision(v)
    PROVE  Course(v) /\ VisitOK(v)'
<1>1. /\ SessionsTypeOK /\ VisitOK(v) /\ visit[v].at \in {"audit", "revoke", "provision"}
      /\ UNCHANGED <<jar, grants>> /\ PairsKept
  BY StepKeepsPairs DEF SessionsInv, AuditLogout, Revoke, Provision, authVars, VisitStep
<1>2. ASSUME NEW r \in {"ok", "refused", "failed", "signed_out"}, Conclude(v, r),
             r = "ok" => visit[v].kind = "callback"
      PROVE  Course(v) /\ VisitOK(v)'
  <2>1. r \in VisitReplies /\ "answered" \in Stations
    BY DEF VisitReplies, Stations
  <2>2. Turned(v, "answered", r, visit[v].got, visit[v].spent, visit[v].served)
    BY <1>1, <1>2, <2>1, EndTurns DEF Conclude
  <2>3. r = "ok" => ~visit[v].spent
    BY <1>1, <1>2 DEF VisitOK
  <2> QED
    BY <1>1, <1>2, <2>1, <2>2, <2>3, PlainCourse, PlainOK
<1>3. CASE Moves(v, "revoke")
  <2>1. Turned(v, "revoke", visit[v].reply, visit[v].got, visit[v].spent, visit[v].served)
    BY <1>1, <1>3, MovesTurns DEF Stations
  <2> QED
    BY <1>1, <2>1, PlainCourse, PlainOK, VisitIsTyped DEF Stations, VisitOK
<1>4. CASE AuditLogout(v)
  BY <1>2, <1>3, <1>4 DEF AuditLogout, Crash
<1>5. CASE Revoke(v)
  BY <1>2, <1>5 DEF Revoke
<1>6. CASE Provision(v)
  <2>1. visit[v].kind = "callback"
    BY <1>1, <1>6 DEF VisitOK, Provision
  <2> QED
    BY <1>2, <1>6, <2>1 DEF Provision, Crash
<1> QED
  BY <1>4, <1>5, <1>6

LEMMA ArrivesCourse ==
    ASSUME SessionsInv, NEW v \in Visits, Arrives(v)
    PROVE  Course(v) /\ VisitOK(v)'
<1>1. /\ SessionsTypeOK /\ VisitOK(v) /\ visit[v].at = "answered"
      /\ UNCHANGED <<grants, ended>>
  BY DEF SessionsInv, Arrives, authVars
<1>2. PairsKept
  BY <1>1, SameKeeps
<1>3. PICK p \in {"done", "lost"} : /\ Moves(v, p)
                                    /\ p = "done" => jar' = Cookies(v)
                                    /\ p = "lost" => UNCHANGED jar
  BY DEF Arrives
<1>4. Turned(v, p, visit[v].reply, visit[v].got, visit[v].spent, visit[v].served)
  BY <1>1, <1>3, MovesTurns DEF Stations
<1>5. p \in Stations
  BY DEF Stations
<1>6. Course(v)
  BY <1>1, <1>3, <1>4 DEF Course, Turned
<1>7. VisitOK(v)'
  BY <1>1, <1>2, <1>4, <1>5, PlainOK, VisitIsTyped DEF VisitOK
<1> QED
  BY <1>6, <1>7

LEMMA ConfirmCourse ==
    ASSUME SessionsInv, NEW v \in Visits, Confirm(v)
    PROVE  Course(v) /\ VisitOK(v)'
<1>1. /\ SessionsTypeOK /\ VisitOK(v) /\ visit[v].at = "confirm"
      /\ UNCHANGED <<jar, grants, ended>> /\ visit[v].got # 0
      /\ visit[v].kind \in {"callback", "read", "change", "logout"}
      /\ visit[v].kind # "callback" => visit[v].spent
  BY DEF SessionsInv, Confirm, VisitOK, authVars
<1>2. PairsKept
  BY <1>1, SameKeeps
<1>3. CASE Denied(v) \/ Conclude(v, "failed")
  <2>1. PICK end \in {Denial(v), <<"answered", "failed">>} :
            visit' = [visit EXCEPT ![v].at = end[1], ![v].reply = end[2]]
    BY <1>3 DEF Denied, Conclude
  <2>2. /\ end[1] \in {"revoke", "answered"}
        /\ end[2] \in {"none", "refused", "denied", "failed"}
        /\ visit[v].kind = "logout" => end[2] # "denied"
        /\ end[2] = "denied" => visit[v].kind # "callback"
    BY <1>1, <2>1 DEF Denial
  <2>3. end[1] \in Stations /\ end[2] \in VisitReplies
    BY <2>2 DEF Stations, VisitReplies
  <2>4. Turned(v, end[1], end[2], visit[v].got, visit[v].spent, visit[v].served)
    BY <1>1, <2>1, <2>3, EndTurns
  <2> QED
    BY <1>1, <1>2, <2>2, <2>3, <2>4, PlainCourse, PlainOK
<1>4. CASE Moves(v, "provision") /\ visit[v].kind = "callback"
  <2>1. Turned(v, "provision", visit[v].reply, visit[v].got, visit[v].spent, visit[v].served)
    BY <1>1, <1>4, MovesTurns DEF Stations
  <2>2. Course(v)
    BY <1>1, <2>1, PlainCourse, VisitIsTyped DEF Stations
  <2>3. VisitOK(v)'
    BY <1>1, <1>4, <2>1 DEF VisitOK, Turned
  <2> QED
    BY <2>2, <2>3
<1>5. CASE Moves(v, "lookup") /\ visit[v].kind # "callback" /\ Accepted(visit[v].got)
  <2>1. Turned(v, "lookup", visit[v].reply, visit[v].got, visit[v].spent, visit[v].served)
    BY <1>1, <1>5, MovesTurns DEF Stations
  <2>2. Course(v)
    BY <1>1, <2>1, PlainCourse, VisitIsTyped DEF Stations
  <2>3. Shown(v) = visit[v].got /\ Session(Shown(v)) \notin visit[v].barred
    BY <1>1, <1>5, VisitIsTyped DEF Shown, Accepted, Live
  <2>4. Shown(v)' = Shown(v) /\ Session(Shown(v))' = Session(Shown(v))
    BY <1>1, <2>1 DEF Turned, Shown, Carried, Session
  <2>5. VisitOK(v)'
    BY <1>1, <1>5, <2>1, <2>3, <2>4 DEF VisitOK, Turned
  <2> QED
    BY <2>2, <2>5
<1> QED
  BY <1>3, <1>4, <1>5 DEF Confirm, Crash

LEMMA RefreshCourse ==
    ASSUME SessionsInv, NEW v \in Visits, Refresh(v)
    PROVE  Course(v) /\ VisitOK(v)'
<1> DEFINE g == Carried(v).refresh
<1>1. /\ SessionsTypeOK /\ VisitOK(v) /\ visit[v].at = "refresh" /\ ~visit[v].spent
      /\ UNCHANGED <<jar, ended>> /\ visit[v].got = 0 /\ lapses \in Nat
      /\ visit[v].kind \in {"read", "change", "logout"}
  BY DEF SessionsInv, Refresh, VisitOK, SessionsTypeOK
<1>2. PairsKept
  BY <1>1, StepKeepsPairs DEF VisitStep
<1>3. CASE /\ UNCHANGED grants
           /\ \/ ~Refreshable(g) /\ Denied(v)
              \/ Lapse /\ (Denied(v) \/ Conclude(v, "failed"))
  <2>1. PICK end \in {Denial(v), <<"answered", "failed">>} :
            visit' = [visit EXCEPT ![v].at = end[1], ![v].reply = end[2]]
    BY <1>3 DEF Denied, Conclude
  <2>2. /\ end[1] \in {"revoke", "answered"} /\ end[2] \in {"none", "denied", "failed"}
        /\ visit[v].kind = "logout" => end[2] # "denied"
    BY <1>1, <2>1 DEF Denial
  <2>3. end[1] \in Stations /\ end[2] \in VisitReplies
    BY <2>2 DEF Stations, VisitReplies
  <2>4. Turned(v, end[1], end[2], visit[v].got, visit[v].spent, visit[v].served)
    BY <1>1, <2>1, <2>3, EndTurns
  <2>5. \/ lapses' > 0
        \/ Carried(v).refresh = 0 \/ ~Live(Carried(v).refresh)
        \/ grants[Carried(v).refresh].spent
    BY <1>1, <1>3 DEF Lapse, Refreshable
  <2> QED
    BY <1>1, <1>2, <1>3, <2>2, <2>3, <2>4, <2>5, PlainCourse, PlainOK
<1>4. CASE Refreshable(g) /\ Issue(v, g)
  <2>1. g \in DOMAIN grants /\ visit[v].jar.refresh # 0
    BY <1>1, <1>4, VisitIsTyped DEF Refreshable, Carried
  <2>2. Grant(Session(g)) \in Pair /\ ~Grant(Session(g)).spent
    BY <1>1, <2>1, VisitIsTyped, GrantIsPair
  <2>3. /\ Len(grants') = Len(grants) + 1
        /\ \A f \in DOMAIN grants : f # g => grants'[f] = grants[f]
        /\ grants'[Len(grants) + 1] = Grant(Session(g))
    BY <1>1, <1>4, <2>1, <2>2, IssueKeeps DEF Issue
  <2>4. \A f \in DOMAIN grants' : grants'[f].spent =>
            f = g \/ (f \in DOMAIN grants /\ grants[f].spent)
    <3>1. /\ grants \in Seq(Pair) /\ grants' \in Seq(Pair) /\ Len(grants) \in Nat
          /\ DOMAIN grants = 1..Len(grants) /\ DOMAIN grants' = 1..Len(grants')
      BY <1>1, <1>2 DEF SessionsTypeOK, PairsKept
    <3>2. ASSUME NEW f \in DOMAIN grants', grants'[f].spent, f # g
          PROVE  f \in DOMAIN grants /\ grants[f].spent
      <4>1. f \in 1..(Len(grants) + 1)
        BY <2>3, <3>1
      <4>2. f # Len(grants) + 1
        BY <2>2, <2>3, <3>2
      <4>3. f \in DOMAIN grants
        BY <3>1, <4>1, <4>2
      <4> QED
        BY <2>3, <3>2, <4>3
    <3> QED
      BY <3>2
  <2>5. CASE visit' = [visit EXCEPT ![v].at = "confirm", ![v].got = Len(grants) + 1,
                                    ![v].spent = TRUE]
    <3>1. Turned(v, "confirm", visit[v].reply, Len(grants) + 1, TRUE, visit[v].served)
      BY <1>1, <2>5, GotTurns
    <3>2. Course(v)
      BY <1>1, <2>3, <2>4, <3>1, VisitIsTyped DEF Course, Turned, Carried
    <3>3. Len(grants) + 1 # 0
      BY <1>1, VisitIsTyped
    <3>4. VisitOK(v)'
      BY <1>1, <2>1, <3>1, <3>3 DEF VisitOK, Turned
    <3> QED
      BY <3>2, <3>4
  <2>6. CASE \E end \in {Denial(v), <<"answered", "failed">>} : Lapse /\
                 visit' = [visit EXCEPT ![v].at = end[1], ![v].reply = end[2],
                                        ![v].spent = TRUE]
    <3>1. PICK end \in {Denial(v), <<"answered", "failed">>} : Lapse /\
                 visit' = [visit EXCEPT ![v].at = end[1], ![v].reply = end[2],
                                        ![v].spent = TRUE]
      BY <2>6
    <3>2. /\ end[1] \in {"revoke", "answered"} /\ end[2] \in {"none", "denied", "failed"}
          /\ visit[v].kind = "logout" => end[2] # "denied"
      BY <1>1, <3>1 DEF Denial
    <3>3. end[1] \in Stations /\ end[2] \in VisitReplies
      BY <3>2 DEF Stations, VisitReplies
    <3>4. Turned(v, end[1], end[2], visit[v].got, TRUE, visit[v].served)
      BY <1>1, <3>1, <3>3, SpentTurns
    <3>5. Course(v)
      BY <1>1, <2>3, <2>4, <3>2, <3>4, VisitIsTyped DEF Course, Turned, Carried
    <3>6. VisitOK(v)'
      BY <1>1, <2>1, <3>2, <3>4 DEF VisitOK, Turned
    <3> QED
      BY <3>5, <3>6
  <2> QED
    BY <1>4, <2>5, <2>6 DEF Issue
<1> QED
  BY <1>3, <1>4 DEF Refresh, Crash

LEMMA ExchangeCourse ==
    ASSUME SessionsInv, NEW v \in Visits, Exchange(v)
    PROVE  Course(v) /\ VisitOK(v)'
<1>1. /\ SessionsTypeOK /\ VisitOK(v) /\ visit[v].at = "exchange" /\ ~visit[v].spent
      /\ UNCHANGED <<jar, ended>> /\ visit[v].got = 0
      /\ visit[v].kind = "callback"
  BY DEF SessionsInv, Exchange, VisitOK, SessionsTypeOK
<1>2. PairsKept
  BY <1>1, StepKeepsPairs DEF VisitStep
<1>3. \A f \in DOMAIN grants' : grants'[f].spent => f \in DOMAIN grants /\ grants[f].spent
  <2>1. CASE UNCHANGED grants
    BY <2>1
  <2>2. CASE grants' = Append(grants, Grant(Len(grants) + 1))
    <3>1. Grant(Len(grants) + 1) \in Pair /\ ~Grant(Len(grants) + 1).spent
      BY <1>1, VisitIsTyped, GrantIsPair
    <3>2. /\ Len(grants') = Len(grants) + 1
          /\ \A f \in DOMAIN grants : grants'[f] = grants[f]
          /\ grants'[Len(grants) + 1] = Grant(Len(grants) + 1)
      BY <1>1, <2>2, <3>1, AddKeeps
    <3>3. /\ grants \in Seq(Pair) /\ grants' \in Seq(Pair) /\ Len(grants) \in Nat
          /\ DOMAIN grants = 1..Len(grants) /\ DOMAIN grants' = 1..Len(grants')
      BY <1>1, <1>2 DEF SessionsTypeOK, PairsKept
    <3>4. ASSUME NEW f \in DOMAIN grants', grants'[f].spent
          PROVE  f \in DOMAIN grants /\ grants[f].spent
      <4>1. f \in 1..(Len(grants) + 1) /\ f # Len(grants) + 1
        BY <3>1, <3>2, <3>3, <3>4
      <4>2. f \in DOMAIN grants
        BY <3>3, <4>1
      <4> QED
        BY <3>2, <3>4, <4>2
    <3> QED
      BY <3>4
  <2> QED
    BY <2>1, <2>2 DEF Exchange
<1>4. CASE \E r \in {"refused", "failed"} : Conclude(v, r)
  <2>1. PICK r \in {"refused", "failed"} : Conclude(v, r)
    BY <1>4
  <2>2. Turned(v, "answered", r, visit[v].got, visit[v].spent, visit[v].served)
    BY <1>1, <2>1, EndTurns DEF Conclude, Stations, VisitReplies
  <2>3. "answered" \in Stations /\ r \in VisitReplies
    BY DEF Stations, VisitReplies
  <2>4. Course(v)
    BY <1>1, <1>3, <2>2 DEF Course, Turned
  <2> QED
    BY <1>1, <1>2, <2>2, <2>3, <2>4, PlainOK
<1>5. CASE /\ visit' = [visit EXCEPT ![v].at = "confirm", ![v].got = Len(grants) + 1]
           /\ grants' = Append(grants, Grant(Len(grants) + 1))
  <2>1. Len(grants') = Len(grants) + 1 /\ Len(grants) + 1 # 0
    BY <1>1, <1>5, VisitIsTyped, GrantIsPair, AddKeeps
  <2>2. Turned(v, "confirm", visit[v].reply, Len(grants) + 1, visit[v].spent, visit[v].served)
    BY <1>1, <1>5, OwnTurns
  <2>3. Course(v)
    BY <1>1, <1>3, <2>1, <2>2 DEF Course, Turned
  <2>4. VisitOK(v)'
    BY <1>1, <2>1, <2>2 DEF VisitOK, Turned
  <2> QED
    BY <2>3, <2>4
<1> QED
  BY <1>4, <1>5 DEF Exchange, Crash

\* Every step of a visit but the first, and the first, which is sent blank but for
\* the cookies of the moment.
LEMMA VisitCourse ==
    ASSUME SessionsInv, NEW v \in Visits, VisitStep(v), visit[v].at # "idle"
    PROVE  Course(v) /\ VisitOK(v)'
<1>1. ~(\E kind \in VisitKinds, flow \in 0..flows : Send(v, kind, flow))
  BY DEF Send
<1> QED
  BY <1>1, PageCourse, CheckAccessCourse, LookupCourse, RouteCourse, EndCourse, ArrivesCourse,
     ConfirmCourse, RefreshCourse, ExchangeCourse DEF VisitStep

\* A visit is sent with the cookies and the sign-outs of the moment.
Sent(v) ==
    /\ visit[v] = NoVisit /\ UNCHANGED <<jar, grants, ended, lapses>>
    /\ visit'[v] \in AnyVisit
    /\ visit'[v].jar = jar /\ visit'[v].got = 0 /\ ~visit'[v].spent /\ visit'[v].served = 0
    /\ visit'[v].reply = "none" /\ visit'[v].at \in {"access", "exchange", "gate"}

LEMMA SendSent ==
    ASSUME SessionsInv, NEW v \in Visits, NEW kind \in VisitKinds, NEW flow \in 0..flows,
           Send(v, kind, flow)
    PROVE  Sent(v) /\ VisitOK(v)'
<1> DEFINE p == CASE kind \in {"read", "change"} -> "access"
                  [] kind = "callback" -> "exchange"
                  [] OTHER -> "gate"
<1>1. /\ visit \in [Visits -> Visit] /\ jar \in JarNow /\ flow \in Nat
      /\ visit[v].at = "idle" /\ VisitOK(v)
      /\ UNCHANGED <<jar, grants, ended, lapses>>
  BY DEF SessionsInv, SessionsTypeOK, Send, authVars
<1>2. p \in {"access", "exchange", "gate"} /\ p \in Stations
      /\ (p = "access" => kind \in {"read", "change"})
      /\ (p = "exchange" => kind = "callback")
  BY DEF Stations
<1> HIDE DEF p
<1>3. visit'[v] = [kind |-> kind, at |-> p, jar |-> jar, flow |-> flow, got |-> 0,
                   spent |-> FALSE, served |-> 0, barred |-> ended, reply |-> "none"]
  BY <1>1 DEF Send, NoVisit, p
<1>4. "none" \in VisitReplies
  BY DEF VisitReplies
<1>5. Sent(v)
  BY <1>1, <1>2, <1>3, <1>4 DEF Sent, AnyVisit, VisitOK
<1>6. VisitOK(v)'
  BY <1>2, <1>3 DEF VisitOK
<1> QED
  BY <1>5, <1>6

LEMMA VisitStepTurns ==
    ASSUME SessionsInv, NEW v \in Visits, VisitStep(v)
    PROVE  (Sent(v) \/ Course(v)) /\ VisitOK(v)'
<1>1. CASE visit[v].at = "idle"
  <2>1. VisitOK(v) /\ visit[v] = NoVisit
    BY <1>1 DEF SessionsInv, VisitOK
  <2>2. PICK kind \in VisitKinds, flow \in 0..flows : Send(v, kind, flow)
    BY <1>1, <2>1 DEF VisitStep, Page, BeginFlow, LogoutGate, CheckAccess, Refresh, Confirm,
       FindCustomer, Route, AuditLogout, Revoke, Exchange, Provision, Arrives
  <2> QED
    BY <2>2, SendSent
<1>2. CASE visit[v].at # "idle"
  BY <1>2, VisitCourse
<1> QED
  BY <1>1, <1>2

\* The refresh token in the browser after an answer, if it changed, is that of
\* the answer or none.
LEMMA CookiesTyped ==
    ASSUME SessionsTypeOK, NEW v \in Visits
    PROVE  /\ Cookies(v) \in JarNow
           /\ Cookies(v).refresh \in {0, jar.refresh, visit[v].got}
           /\ visit[v].reply \in {"signed_out", "denied"} => Cookies(v).refresh = 0
           /\ visit[v].reply = "ok" /\ visit[v].kind \in {"read", "change"} /\ visit[v].got # 0
                  => Cookies(v).refresh = visit[v].got
<1> DEFINE said == visit[v].reply
           kind == visit[v].kind
           got == visit[v].got
<1>1. /\ jar \in JarNow /\ visit[v] \in Visit /\ got \in 0..Len(grants)
      /\ visit[v].flow \in Nat /\ Carried(v).csrf \in BOOLEAN /\ Len(grants) \in Nat
      /\ 0 \in 0..Len(grants)
  BY VisitIsTyped DEF SessionsTypeOK
<1>2. CASE said = "ok" /\ kind \in {"page", "read", "change"}
  <2>1. Cookies(v) = WithRefreshed(v)
    BY <1>2 DEF Cookies
  <2>2. CASE got # 0
    <3>1. WithSession(jar, got) \in JarNow /\ WithSession(jar, got).refresh = got
      BY <1>1 DEF WithSession, JarNow
    <3>2. WithRefreshed(v) \in JarNow /\ WithRefreshed(v).refresh = got
      <4>1. WithRefreshed(v) = [WithSession(jar, got) EXCEPT !.csrf = @ \/ ~Carried(v).csrf]
        BY <2>2 DEF WithRefreshed
      <4>2. (WithSession(jar, got).csrf \/ ~Carried(v).csrf) \in BOOLEAN
        OBVIOUS
      <4> QED
        BY <1>1, <3>1, <4>1, <4>2 DEF JarNow
    <3> QED
      BY <1>2, <2>1, <3>2
  <2>3. CASE got = 0
    <3>1. WithRefreshed(v) = [jar EXCEPT !.csrf = @ \/ ~Carried(v).csrf]
      BY <2>3 DEF WithRefreshed
    <3>2. (jar.csrf \/ ~Carried(v).csrf) \in BOOLEAN
      OBVIOUS
    <3>3. WithRefreshed(v) \in JarNow /\ WithRefreshed(v).refresh = jar.refresh
      BY <1>1, <3>1, <3>2 DEF JarNow
    <3> QED
      BY <1>2, <2>1, <2>3, <3>3
  <2> QED
    BY <2>2, <2>3
<1>3. CASE said = "ok" /\ kind = "begin"
  BY <1>1, <1>3 DEF Cookies, JarNow
<1>4. CASE said = "ok" /\ kind = "callback"
  <2>1. Cookies(v) = [WithSession(jar, got) EXCEPT !.csrf = TRUE, !.verifier = 0]
    BY <1>4 DEF Cookies
  <2>2. WithSession(jar, got) \in JarNow /\ WithSession(jar, got).refresh = got
    BY <1>1 DEF WithSession, JarNow
  <2> DEFINE half == [WithSession(jar, got) EXCEPT !.csrf = TRUE]
  <2>3. half \in JarNow /\ half.refresh = got /\ Cookies(v) = [half EXCEPT !.verifier = 0]
    BY <2>1, <2>2 DEF JarNow
  <2> HIDE DEF half
  <2>4. Cookies(v) \in JarNow /\ Cookies(v).refresh = got
    BY <2>3 DEF JarNow
  <2> QED
    BY <1>4, <2>4
<1>5. CASE said \in {"signed_out", "denied"}
  <2>1. Cookies(v) = SignedOut(jar)
    BY <1>5 DEF Cookies
  <2>2. SignedOut(jar) = [[[jar EXCEPT !.access = 0] EXCEPT !.refresh = 0] EXCEPT !.csrf = FALSE]
    BY DEF SignedOut
  <2>3. SignedOut(jar) \in JarNow /\ SignedOut(jar).refresh = 0
    BY <1>1, <2>2 DEF JarNow
  <2> QED
    BY <1>5, <2>1, <2>3
<1>6. CASE said = "refused" /\ kind = "callback"
  <2>1. Cookies(v) = [jar EXCEPT !.verifier = 0]
    BY <1>6 DEF Cookies
  <2> QED
    BY <1>1, <1>6, <2>1 DEF JarNow
<1>7. CASE /\ ~(said = "ok" /\ kind \in {"page", "read", "change", "begin", "callback"})
           /\ said \notin {"signed_out", "denied"}
           /\ ~(said = "refused" /\ kind = "callback")
  <2>1. Cookies(v) = jar
    BY <1>7 DEF Cookies
  <2> QED
    BY <1>1, <1>7, <2>1
<1> QED
  BY <1>2, <1>3, <1>4, <1>5, <1>6, <1>7

LEMMA JarsWiden ==
    ASSUME SessionsTypeOK, PairsKept
    PROVE  JarNow \subseteq JarNow'
<1>1. Len(grants) \in Nat /\ Len(grants') \in Nat /\ Len(grants) <= Len(grants')
  BY DEF SessionsTypeOK, PairsKept
<1>2. 0..Len(grants) \subseteq 0..Len(grants')
  BY <1>1
<1> QED
  BY <1>2 DEF JarNow

LEMMA VisitsStayTyped ==
    ASSUME SessionsTypeOK, PairsKept, NEW o \in AnyVisit, o.got <= Len(grants')
    PROVE  o \in Visit'
<1>1. Len(grants') \in Nat /\ ended \subseteq ended' /\ JarNow \subseteq JarNow'
  BY JarsWiden DEF PairsKept
<1>2. o.got \in 0..Len(grants') /\ o.barred \in SUBSET ended' /\ o.jar \in JarNow'
  BY <1>1 DEF AnyVisit
<1> QED
  BY <1>2 DEF AnyVisit, Visit

LEMMA VisitStepType ==
    ASSUME SessionsInv, NEW v \in Visits, VisitStep(v)
    PROVE  SessionsTypeOK'
<1>1. /\ SessionsTypeOK /\ PairsKept /\ flows' \in Nat /\ lapses' \in Nat
      /\ \A u \in Visits : u # v => visit'[u] = visit[u]
  BY StepKeepsPairs, LapsesOnlyGrow, OneVisitMoves DEF SessionsInv
<1>2. Sent(v) \/ Course(v)
  BY VisitStepTurns
<1>3. jar' \in JarNow
  <2>1. jar' \in {jar, Cookies(v)}
    BY <1>2 DEF Sent, Course
  <2> QED
    BY <1>1, <2>1, CookiesTyped DEF SessionsTypeOK
<1>4. jar' \in JarNow'
  BY <1>1, <1>3, JarsWiden
<1>5. Len(grants) \in Nat /\ Len(grants') \in Nat /\ Len(grants) <= Len(grants')
  BY <1>1 DEF SessionsTypeOK, PairsKept
<1>6. ASSUME NEW u \in Visits PROVE visit'[u] \in Visit'
  <2>1. visit[u] \in AnyVisit /\ visit[u].got <= Len(grants)
    BY <1>1, <1>5, VisitsAreAny, VisitIsTyped
  <2>2. visit'[u] \in AnyVisit /\ visit'[u].got <= Len(grants')
    <3>1. CASE u # v
      <4>1. visit'[u] = visit[u] /\ visit[u].got \in Nat
        BY <1>1, <2>1, <3>1 DEF AnyVisit
      <4> QED
        BY <1>5, <2>1, <4>1
    <3>2. CASE u = v
      <4>1. visit'[u] \in AnyVisit /\ visit[u].got \in Nat
        BY <1>2, <2>1, <3>2 DEF Sent, Course, AnyVisit
      <4>2. \/ visit'[u].got = 0 \/ visit'[u].got = visit[u].got
            \/ visit'[u].got = Len(grants) + 1 /\ Len(grants') = Len(grants) + 1
        BY <1>2, <3>2 DEF Sent, Course
      <4> QED
        BY <1>5, <2>1, <4>1, <4>2
    <3> QED
      BY <3>1, <3>2
  <2> QED
    BY <1>1, <2>2, VisitsStayTyped
<1>7. visit' \in [Visits -> Visit']
  <2>1. DOMAIN visit' = Visits
    BY <1>1, OneVisitMoves
  <2>2. visit' = [u \in DOMAIN visit' |-> visit'[u]]
    <3>1. visit \in [Visits -> Visit]
      BY <1>1 DEF SessionsTypeOK
    <3> QED
      BY <3>1 DEF VisitStep, Send, Page, BeginFlow, LogoutGate, CheckAccess, Refresh, Issue,
         Confirm, FindCustomer, Route, AuditLogout, Revoke, Exchange, Provision, Arrives,
         Moves, Conclude, Denied, Crash
  <2> QED
    BY <1>6, <2>1, <2>2
<1> QED
  BY <1>1, <1>4, <1>7 DEF SessionsTypeOK, PairsKept

\* What is remembered of a visit, and of the visits that keep still.
LEMMA VisitsRemembered ==
    ASSUME SessionsInv, NEW v \in Visits, VisitStep(v), NEW w \in Visits
    PROVE  /\ visit[w].spent => visit'[w].spent /\ Carried(w)' = Carried(w)
           /\ visit[w].got # 0 => visit'[w].got = visit[w].got
           /\ visit[w].at = "done" => visit'[w] = visit[w]
           /\ visit'[w].got # visit[w].got =>
                  w = v /\ visit'[w].got = Len(grants) + 1 /\ UNCHANGED jar
           /\ \/ Carried(w)' = Carried(w)
              \/ w = v /\ Carried(w)' = jar
<1>1. SessionsTypeOK /\ \A u \in Visits : u # v => visit'[u] = visit[u]
  BY OneVisitMoves DEF SessionsInv
<1>2. CASE w # v
  BY <1>1, <1>2 DEF Carried
<1>3. CASE w = v
  <2>1. VisitOK(v)
    BY DEF SessionsInv
  <2>2. CASE Sent(v)
    BY <1>3, <2>2 DEF Sent, NoVisit, Carried
  <2>3. CASE Course(v)
    BY <1>3, <2>3 DEF Course, Carried
  <2> QED
    BY <2>2, <2>3, VisitStepTurns
<1> QED
  BY <1>2, <1>3

LEMMA OwnPairsStep ==
    ASSUME SessionsInv, NEW v \in Visits, VisitStep(v)
    PROVE  OwnPairs'
<1> SUFFICES ASSUME NEW u \in Visits, NEW w \in Visits,
                    visit'[u].got # 0, visit'[u].got = visit'[w].got
             PROVE  u = w
  BY DEF OwnPairs
<1>1. SessionsTypeOK /\ OwnPairs
  BY DEF SessionsInv
<1>2. visit[u].got \in 0..Len(grants) /\ visit[w].got \in 0..Len(grants) /\ Len(grants) \in Nat
  BY <1>1, VisitIsTyped
<1>3. /\ visit'[u].got = visit[u].got \/ (u = v /\ visit'[u].got = Len(grants) + 1)
      /\ visit'[w].got = visit[w].got \/ (w = v /\ visit'[w].got = Len(grants) + 1)
  BY VisitsRemembered
<1> QED
  BY <1>1, <1>2, <1>3 DEF OwnPairs

LEMMA CookiesArrivedStep ==
    ASSUME SessionsInv, NEW v \in Visits, VisitStep(v)
    PROVE  CookiesArrived'
<1>1. SessionsTypeOK /\ OwnPairs /\ CookiesArrived /\ VisitOK(v)
  BY DEF SessionsInv
<1>2. Sent(v) \/ Course(v)
  BY VisitStepTurns
<1> SUFFICES ASSUME NEW u \in Visits, visit'[u].got # 0
             PROVE  /\ jar'.refresh = visit'[u].got => visit'[u].at = "done"
                    /\ \A w \in Visits :
                          Carried(w)'.refresh = visit'[u].got => visit'[u].at = "done"
  BY DEF CookiesArrived
<1>3. /\ jar.refresh \in 0..Len(grants) /\ Len(grants) \in Nat
      /\ \A w \in Visits : Carried(w).refresh \in 0..Len(grants)
  BY <1>1, VisitIsTyped DEF SessionsTypeOK, JarNow
<1>4. CASE visit'[u].got = visit[u].got
  <2>1. visit[u].at = "done" => visit'[u].at = "done"
    BY VisitsRemembered
  <2>2. /\ jar.refresh = visit[u].got => visit[u].at = "done"
        /\ \A w \in Visits : Carried(w).refresh = visit[u].got => visit[u].at = "done"
    BY <1>1, <1>4 DEF CookiesArrived
  <2>3. jar'.refresh = visit[u].got => visit'[u].at = "done"
    <3>1. CASE UNCHANGED jar
      BY <2>1, <2>2, <3>1
    <3>2. CASE ~UNCHANGED jar
      <4>1. Course(v) /\ visit'[v].at = "done" /\ jar' = Cookies(v)
        BY <1>2, <3>2 DEF Sent, Course
      <4>2. jar'.refresh \in {0, jar.refresh, visit[v].got}
        BY <1>1, <4>1, CookiesTyped
      <4>3. jar'.refresh = visit[v].got /\ visit[u].got = jar'.refresh => u = v
        BY <1>1, <1>4 DEF OwnPairs
      <4> QED
        BY <1>4, <2>1, <2>2, <4>1, <4>2, <4>3
    <3> QED
      BY <3>1, <3>2
  <2>4. \A w \in Visits : Carried(w)' = Carried(w) \/ Carried(w)' = jar
    BY VisitsRemembered
  <2> QED
    BY <1>4, <2>1, <2>2, <2>3, <2>4
<1>5. CASE visit'[u].got # visit[u].got
  <2>1. visit'[u].got = Len(grants) + 1 /\ UNCHANGED jar
    BY <1>5, VisitsRemembered
  <2>2. \A w \in Visits : Carried(w)' = Carried(w) \/ Carried(w)' = jar
    BY VisitsRemembered
  <2>3. \A w \in Visits : Carried(w)'.refresh \in 0..Len(grants)
    BY <1>3, <2>2
  <2> QED
    BY <1>3, <2>1, <2>3
<1> QED
  BY <1>4, <1>5

LEMMA SpentByCarrierStep ==
    ASSUME SessionsInv, NEW v \in Visits, VisitStep(v)
    PROVE  SpentByCarrier'
<1> SUFFICES ASSUME NEW g \in DOMAIN grants', grants'[g].spent
             PROVE  \E w \in Visits : visit'[w].spent /\ Carried(w)'.refresh = g
  BY DEF SpentByCarrier
<1>1. CASE g \in DOMAIN grants /\ grants[g].spent
  <2>1. PICK w \in Visits : visit[w].spent /\ Carried(w).refresh = g
    BY <1>1 DEF SessionsInv, SpentByCarrier
  <2> QED
    BY <2>1, VisitsRemembered
<1>2. CASE ~(g \in DOMAIN grants /\ grants[g].spent)
  <2>1. Course(v)
    BY <1>2, VisitStepTurns DEF Sent
  <2> QED
    BY <1>2, <2>1 DEF Course, Carried
<1> QED
  BY <1>1, <1>2

LEMMA SpentIsReplacedStep ==
    ASSUME SessionsInv, NEW v \in Visits, VisitStep(v)
    PROVE  SpentIsReplaced'
<1>1. SessionsTypeOK /\ OwnPairs /\ CookiesArrived /\ SpentIsReplaced
  BY DEF SessionsInv
<1>2. Sent(v) \/ Course(v)
  BY VisitStepTurns
<1> SUFFICES ASSUME NEW w \in Visits, visit'[w].spent, visit'[w].at = "done",
                    visit'[w].reply \in {"ok", "signed_out", "denied"}
             PROVE  jar'.refresh # Carried(w)'.refresh
  BY DEF SpentIsReplaced
<1>3. CASE w # v
  <2>1. visit'[w] = visit[w] /\ Carried(w)' = Carried(w)
    BY <1>1, <1>3, OneVisitMoves DEF Carried
  <2>2. jar.refresh # Carried(w).refresh /\ Carried(w).refresh # 0
    BY <1>1, <2>1 DEF SpentIsReplaced, SessionsInv, VisitOK, Carried
  <2>3. CASE UNCHANGED jar
    BY <2>1, <2>2, <2>3
  <2>4. CASE ~UNCHANGED jar
    <3>1. Course(v) /\ visit'[v].at = "done" /\ jar' = Cookies(v)
      BY <1>2, <2>4 DEF Sent, Course
    <3>2. jar'.refresh \in {0, jar.refresh, visit[v].got} /\ visit[v].at = "answered"
      BY <1>1, <3>1, CookiesTyped DEF Course
    <3>3. Carried(w).refresh = visit[v].got => visit[v].at = "done"
      BY <1>1, <2>2 DEF CookiesArrived
    <3> QED
      BY <2>1, <2>2, <3>2, <3>3
  <2> QED
    BY <2>3, <2>4
<1>4. CASE w = v
  <2>1. /\ Course(v) /\ visit[v].at = "answered" /\ jar' = Cookies(v)
        /\ visit[v].reply = visit'[v].reply /\ visit[v].spent
        /\ Carried(v)' = Carried(v)
    BY <1>2, <1>4 DEF Sent, Course, Carried
  <2>2. /\ visit[v].kind \in {"read", "change", "logout"} /\ Carried(v).refresh # 0
        /\ visit[v].reply = "ok" => visit[v].kind # "logout" /\ visit[v].got # 0
    BY <2>1 DEF SessionsInv, VisitOK, Carried
  <2>3. CASE visit[v].reply = "ok"
    <3>1. jar'.refresh = visit[v].got
      BY <1>1, <2>1, <2>2, <2>3, CookiesTyped
    <3>2. Carried(v).refresh # visit[v].got
      BY <1>1, <2>1, <2>2, <2>3 DEF CookiesArrived
    <3> QED
      BY <1>4, <2>1, <3>1, <3>2
  <2>4. CASE visit[v].reply \in {"signed_out", "denied"}
    BY <1>1, <1>4, <2>1, <2>2, <2>4, CookiesTyped
  <2> QED
    BY <1>4, <2>1, <2>3, <2>4
<1> QED
  BY <1>3, <1>4

LEMMA DeniedStep ==
    ASSUME SessionsInv, NEW v \in Visits, VisitStep(v)
    PROVE  RefusedForCause'
<1>1. SessionsTypeOK /\ RefusedForCause /\ SpentByCarrier
  BY DEF SessionsInv
<1>2. PairsKept /\ (lapses > 0 => lapses' > 0)
  BY <1>1, StepKeepsPairs, LapsesOnlyGrow
<1> DEFINE Cause(w) == \/ lapses > 0
                       \/ Carried(w).refresh = 0
                       \/ ~Live(Carried(w).refresh)
                       \/ \E u \in Visits : visit[u].spent /\ Carried(u).refresh = Carried(w).refresh
<1>3. ASSUME NEW w \in Visits, Carried(w)' = Carried(w), Cause(w)
      PROVE  Cause(w)'
  <2>1. CASE lapses > 0 \/ Carried(w).refresh = 0
    BY <1>2, <1>3, <2>1
  <2>2. CASE ~Live(Carried(w).refresh) /\ Carried(w).refresh # 0
    <3>1. Carried(w).refresh \in DOMAIN grants
      BY <1>1, <2>2, VisitIsTyped
    <3>2. Session(Carried(w).refresh)' = Session(Carried(w).refresh)
      BY <1>2, <1>3, <3>1 DEF PairsKept, Session
    <3> QED
      BY <1>2, <2>2, <3>2 DEF Live, PairsKept
  <2>3. CASE \E u \in Visits : visit[u].spent /\ Carried(u).refresh = Carried(w).refresh
    BY <1>3, <2>3, VisitsRemembered
  <2> QED
    BY <1>3, <2>1, <2>2, <2>3
<1>4. ASSUME NEW w \in Visits, visit'[w].reply = "denied"
      PROVE  Cause(w)'
  <2>1. CASE visit[w].reply = "denied" /\ Carried(w)' = Carried(w)
    <3>1. Cause(w)
      BY <1>1, <2>1 DEF RefusedForCause
    <3> QED
      BY <1>3, <2>1, <3>1
  <2>2. CASE ~(visit[w].reply = "denied" /\ Carried(w)' = Carried(w))
    <3>1. w = v
      BY <1>1, <1>4, <2>2, OneVisitMoves DEF Carried
    <3>2. Course(v) /\ Carried(v)' = Carried(v)
      BY <1>4, <3>1, VisitStepTurns DEF Sent, Course, Carried
    <3>3. \/ lapses' > 0 \/ visit'[v].spent
          \/ Cause(v)
          \/ Carried(v).refresh # 0 /\ grants[Carried(v).refresh].spent
      BY <1>4, <2>2, <3>1, <3>2 DEF Course, Carried
    <3>4. CASE Carried(v).refresh # 0 /\ grants[Carried(v).refresh].spent
      <4>1. Carried(v).refresh \in DOMAIN grants
        BY <1>1, <3>4, VisitIsTyped
      <4> QED
        BY <1>1, <1>3, <3>1, <3>2, <3>4, <4>1 DEF SpentByCarrier
    <3>5. CASE visit'[v].spent
      BY <3>1, <3>5
    <3> HIDE DEF Cause
    <3>6. CASE Cause(v)
      BY <1>3, <3>1, <3>2, <3>6
    <3>7. lapses' > 0 => Cause(w)'
      BY DEF Cause
    <3> QED
      BY <3>3, <3>4, <3>5, <3>6, <3>7
  <2> QED
    BY <2>1, <2>2
<1> QED
  BY <1>4 DEF RefusedForCause

LEMMA SessionsInitInv == SessionsInit => SessionsInv
<1> SUFFICES ASSUME SessionsInit PROVE SessionsInv
  OBVIOUS
<1>1. /\ grants \in Seq(Pair) /\ Len(grants) \in Nat
      /\ jar \in JarNow
      /\ \A g \in DOMAIN grants : ~grants[g].spent
  <2>1. CASE grants = <<>> /\ jar = NoVisit.jar
    BY <2>1 DEF NoVisit, JarNow
  <2>2. CASE /\ grants = <<Grant(1)>>
             /\ jar = [access |-> 1, refresh |-> 1, verifier |-> 0, csrf |-> TRUE]
    <3>1. Grant(1) \in Pair /\ ~Grant(1).spent
      BY GrantIsPair
    <3>2. Len(grants) = 1 /\ grants \in Seq(Pair) /\ DOMAIN grants = {1} /\ grants[1] = Grant(1)
      BY <2>2, <3>1
    <3> QED
      BY <2>2, <3>1, <3>2 DEF JarNow
  <2> QED
    BY <2>1, <2>2 DEF SessionsInit
<1>2. visit = [v \in Visits |-> NoVisit] /\ ended = {} /\ flows = 0 /\ lapses = 0
  BY DEF SessionsInit
<1>3. NoVisit \in Visit
  BY <1>1, <1>2 DEF NoVisit, Visit, JarNow, VisitKinds, Stations, VisitReplies
<1>4. SessionsTypeOK
  BY <1>1, <1>2, <1>3 DEF SessionsTypeOK
<1>5. /\ NoVisit.at = "idle" /\ ~NoVisit.spent /\ NoVisit.got = 0 /\ NoVisit.served = 0
      /\ NoVisit.reply = "none"
  BY DEF NoVisit
<1>6. \A v \in Visits : VisitOK(v)
  BY <1>2, <1>5 DEF VisitOK
<1>7. OwnPairs /\ CookiesArrived /\ SpentByCarrier /\ SpentIsReplaced /\ RefusedForCause
  BY <1>1, <1>2, <1>5 DEF OwnPairs, CookiesArrived, SpentByCarrier, SpentIsReplaced,
     RefusedForCause
<1> QED
  BY <1>4, <1>6, <1>7 DEF SessionsInv

\* A pair that expires keeps all that the invariant is about; so do cookies that
\* only go.
LEMMA QuietStep ==
    ASSUME SessionsInv, UNCHANGED <<ended, visit, lapses, flows>>,
           jar' \in JarNow, jar'.refresh = jar.refresh,
           grants' \in Seq(Pair), Len(grants') = Len(grants),
           \A g \in DOMAIN grants : /\ grants'[g].session = grants[g].session
                                    /\ grants'[g].spent = grants[g].spent
    PROVE  SessionsInv'
<1>1. /\ SessionsTypeOK /\ OwnPairs /\ CookiesArrived /\ SpentByCarrier /\ SpentIsReplaced
      /\ RefusedForCause
  BY DEF SessionsInv
<1>2. DOMAIN grants' = DOMAIN grants /\ \A g \in DOMAIN grants : Session(g)' = Session(g)
  BY <1>1 DEF SessionsTypeOK, Session
<1>8. Len(grants) \in Nat /\ DOMAIN grants = 1..Len(grants)
  BY <1>1 DEF SessionsTypeOK
<1>3. SessionsTypeOK'
  <2>1. JarNow' = JarNow /\ Visit' = Visit
    BY DEF JarNow, Visit
  <2> QED
    BY <1>1, <1>2, <2>1 DEF SessionsTypeOK
<1>4. ASSUME NEW v \in Visits PROVE VisitOK(v)'
  <2>1. VisitOK(v) /\ Shown(v)' = Shown(v)
    BY DEF SessionsInv, Shown, Carried
  <2>2. Shown(v) # 0 => Session(Shown(v))' = Session(Shown(v))
    <3>1. Shown(v) \in 0..Len(grants)
      BY <1>1, VisitIsTyped DEF Shown
    <3>2. Shown(v) # 0 => Shown(v) \in DOMAIN grants
      BY <1>8, <3>1
    <3> QED
      BY <1>2, <2>1, <3>2 DEF Session
  <2> QED
    BY <2>1, <2>2 DEF VisitOK
<1>5. OwnPairs' /\ CookiesArrived' /\ SpentIsReplaced'
  BY <1>1 DEF OwnPairs, CookiesArrived, SpentIsReplaced, Carried
<1>6. SpentByCarrier'
  BY <1>1, <1>2 DEF SpentByCarrier, Carried
<1>7. RefusedForCause'
  <2> SUFFICES ASSUME NEW v \in Visits, visit[v].reply = "denied", lapses <= 0,
                      Carried(v).refresh # 0, Live(Carried(v).refresh)'
               PROVE  \E w \in Visits : visit[w].spent /\ Carried(w).refresh = Carried(v).refresh
    <3>1. lapses \in Nat /\ visit' = visit /\ lapses' = lapses
      BY <1>1 DEF SessionsTypeOK
    <3>2. \A v \in Visits : Carried(v)' = Carried(v)
      BY <3>1 DEF Carried
    <3>3. ~(lapses <= 0) <=> lapses > 0
      BY <3>1
    <3> QED
      BY <3>1, <3>2, <3>3 DEF RefusedForCause
  <2>1. Carried(v).refresh \in DOMAIN grants
    BY <1>1, VisitIsTyped
  <2>2. Live(Carried(v).refresh)
    <3>1. Carried(v)' = Carried(v)
      BY DEF Carried
    <3>2. Session(Carried(v).refresh)' = Session(Carried(v).refresh)
      BY <1>2, <2>1, <3>1 DEF Session
    <3> QED
      BY <3>2 DEF Live
  <2> QED
    BY <1>1, <2>2 DEF RefusedForCause, SessionsTypeOK
<1> QED
  BY <1>3, <1>4, <1>5, <1>6, <1>7 DEF SessionsInv

LEMMA SessionsStepInv ==
    ASSUME SessionsInv, [SessionsNext]_sessionVars
    PROVE  SessionsInv'
<1>1. SessionsTypeOK /\ jar \in JarNow /\ grants \in Seq(Pair)
  BY DEF SessionsInv, SessionsTypeOK
<1>2. ASSUME NEW v \in Visits, VisitStep(v) PROVE SessionsInv'
  <2>1. ASSUME NEW w \in Visits PROVE VisitOK(w)'
    <3>1. CASE w = v
      BY <1>2, <3>1, VisitStepTurns
    <3>2. CASE w # v
      <4>1. visit'[w] = visit[w] /\ VisitOK(w)
        BY <1>1, <1>2, <3>2, OneVisitMoves DEF SessionsInv
      <4>2. Shown(w)' = Shown(w)
        BY <4>1 DEF Shown, Carried
      <4>3. Shown(w) # 0 => Session(Shown(w))' = Session(Shown(w))
        <5>1. /\ PairsKept /\ Shown(w) \in 0..Len(grants)
              /\ DOMAIN grants = 1..Len(grants) /\ Len(grants) \in Nat
          BY <1>1, <1>2, StepKeepsPairs, VisitIsTyped DEF Shown
        <5>2. Shown(w) # 0 => Shown(w) \in DOMAIN grants
          BY <5>1
        <5> QED
          BY <4>2, <5>1, <5>2 DEF PairsKept, Session
      <4> QED
        BY <4>1, <4>2, <4>3 DEF VisitOK
    <3> QED
      BY <3>1, <3>2
  <2> QED
    BY <1>2, <2>1, VisitStepType, OwnPairsStep, CookiesArrivedStep, SpentByCarrierStep,
       SpentIsReplacedStep, DeniedStep DEF SessionsInv
<1>3. ASSUME NEW g \in 1..MaxGrants, Expire(g) PROVE SessionsInv'
  <2>1. /\ g \in DOMAIN grants /\ grants' = [grants EXCEPT ![g].expired = TRUE]
        /\ UNCHANGED <<jar, ended, flows, visit, lapses>>
    BY <1>3 DEF Expire
  <2>2. /\ grants \in [1..Len(grants) -> Pair] /\ Len(grants) \in Nat
        /\ [grants[g] EXCEPT !.expired = TRUE] \in Pair
    <3>1. grants[g] \in Pair
      BY <1>1, <2>1
    <3>2. [grants[g] EXCEPT !.expired = TRUE] \in Pair
      BY <3>1 DEF Pair
    <3> QED
      BY <1>1, <3>2
  <2>3. grants' \in [1..Len(grants) -> Pair]
    BY <2>1, <2>2
  <2>4. grants' \in Seq(Pair) /\ DOMAIN grants' = 1..Len(grants)
    BY <2>2, <2>3
  <2>5. Len(grants') = Len(grants)
    BY <2>2, <2>4
  <2>6. \A f \in DOMAIN grants : /\ grants'[f].session = grants[f].session
                                 /\ grants'[f].spent = grants[f].spent
    BY <1>1, <2>1 DEF Pair
  <2> QED
    BY <1>1, <2>1, <2>4, <2>5, <2>6, QuietStep
<1>4. CASE DropCookie
  <2>1. /\ UNCHANGED <<grants, ended, flows, visit, lapses>>
        /\ \/ jar' = [jar EXCEPT !.access = 0]
           \/ jar' = [jar EXCEPT !.verifier = 0]
    BY <1>4 DEF DropCookie, authVars
  <2>2. Len(grants) \in Nat
    BY <1>1
  <2>3. jar' \in JarNow /\ jar'.refresh = jar.refresh
    BY <1>1, <2>1, <2>2 DEF JarNow
  <2> QED
    BY <1>1, <2>1, <2>3, QuietStep
<1>5. CASE UNCHANGED sessionVars
  BY <1>1, <1>5, QuietStep DEF sessionVars, authVars
<1> QED
  BY <1>2, <1>3, <1>4, <1>5 DEF SessionsNext

\* A visit that spent its own token and is refused all the same.  The pair it got
\* is of the session of the token, so it is refused because the session ended
\* while it was on its way, because the new access token expired, or by a lapse.
SpenderOK(v) ==
    /\ visit[v].at \notin {"answered", "done", "lost"} => visit[v].reply # "denied"
    /\ visit[v].spent /\ visit[v].got # 0 =>
           Session(visit[v].got) = Session(Carried(v).refresh)
    /\ visit[v].spent /\ visit[v].reply = "denied" =>
           \/ lapses > 0
           \/ ~Live(Carried(v).refresh)
           \/ visit[v].got # 0 /\ grants[visit[v].got].expired

SpendersOK == \A v \in Visits : SpenderOK(v)

LEMMA SpenderKeeps ==
    ASSUME SessionsInv, NEW v \in Visits, SpenderOK(v), PairsKept,
           lapses > 0 => lapses' > 0,
           Carried(v)' = Carried(v), visit'[v].got = visit[v].got,
           visit'[v].spent = visit[v].spent,
           visit'[v].reply = "denied" =>
               /\ visit'[v].at \in {"answered", "done", "lost"}
               /\ \/ visit[v].reply = "denied" \/ lapses' > 0 \/ ~visit[v].spent
                  \/ ~Live(Carried(v).refresh)
                  \/ visit[v].got # 0 /\ grants[visit[v].got].expired
    PROVE  SpenderOK(v)'
<1> DEFINE g == visit[v].got
           r == Carried(v).refresh
<1>1. /\ g # 0 => g \in DOMAIN grants
      /\ visit[v].spent => r \in DOMAIN grants
      /\ visit[v].spent \in BOOLEAN
  BY VisitIsTyped DEF SessionsInv, VisitOK, Carried
<1>2. /\ g # 0 => Session(g)' = Session(g) /\ (grants[g].expired => grants'[g].expired)
      /\ visit[v].spent => Session(r)' = Session(r) /\ (~Live(r) => ~Live(r)')
  BY <1>1 DEF PairsKept, Live, Session
<1> QED
  BY <1>2 DEF SpenderOK

\* What a visit that turns to another place takes along.
LEMMA TurnsTo ==
    ASSUME SessionsTypeOK, NEW v \in Visits
    PROVE  /\ \A p \in Stations : Moves(v, p) =>
                  Turned(v, p, visit[v].reply, visit[v].got, visit[v].spent, visit[v].served)
           /\ \A r \in VisitReplies : Conclude(v, r) =>
                  Turned(v, "answered", r, visit[v].got, visit[v].spent, visit[v].served)
           /\ Denied(v) =>
                  /\ Turned(v, Denial(v)[1], Denial(v)[2], visit[v].got, visit[v].spent,
                            visit[v].served)
                  /\ Denial(v)[2] = "denied" => Denial(v)[1] = "answered"
<1>1. ASSUME NEW p \in Stations, Moves(v, p)
      PROVE  Turned(v, p, visit[v].reply, visit[v].got, visit[v].spent, visit[v].served)
  BY <1>1, MovesTurns
<1>2. ASSUME NEW r \in VisitReplies, Conclude(v, r)
      PROVE  Turned(v, "answered", r, visit[v].got, visit[v].spent, visit[v].served)
  <2>1. "answered" \in Stations
    BY DEF Stations
  <2> QED
    BY <1>2, <2>1, EndTurns DEF Conclude
<1>3. /\ Denial(v)[1] \in Stations /\ Denial(v)[2] \in VisitReplies
      /\ Denial(v)[2] = "denied" => Denial(v)[1] = "answered"
  BY DEF Denial, Stations, VisitReplies
<1>4. ASSUME Denied(v)
      PROVE  Turned(v, Denial(v)[1], Denial(v)[2], visit[v].got, visit[v].spent,
                    visit[v].served)
  BY <1>3, <1>4, EndTurns DEF Denied
<1> QED
  BY <1>1, <1>2, <1>3, <1>4

\* One that refreshes spends its token for a pair of the same session.
LEMMA RefreshSpends ==
    ASSUME SessionsInv, NEW v \in Visits, SpenderOK(v), Refresh(v)
    PROVE  SpenderOK(v)'
<1> DEFINE g == Carried(v).refresh
           ends == {Denial(v), <<"answered", "failed">>}
<1>1. /\ SessionsTypeOK /\ visit[v].at = "refresh" /\ ~visit[v].spent /\ visit[v].got = 0
      /\ visit[v].reply # "denied" /\ lapses \in Nat
  BY DEF SessionsInv, Refresh, VisitOK, SessionsTypeOK, SpenderOK
<1>2. Carried(v)' = Carried(v)
  BY RefreshCourse DEF Course, Carried
<1>3. \A end \in ends : /\ end[1] \in Stations /\ end[2] \in VisitReplies
                        /\ end[2] = "denied" => end[1] = "answered"
  BY DEF Denial, Stations, VisitReplies
<1>4. CASE Refreshable(g) /\ Issue(v, g)
  <2>1. g \in DOMAIN grants
    BY <1>1, <1>4, VisitIsTyped DEF Refreshable
  <2>2. Grant(Session(g)) \in Pair
    BY <1>1, <2>1, VisitIsTyped, GrantIsPair
  <2>3. PairsKept /\ grants'[Len(grants) + 1] = Grant(Session(g))
    BY <1>1, <1>4, <2>1, <2>2, IssueKeeps DEF Issue, Refresh
  <2>4. CASE visit' = [visit EXCEPT ![v].at = "confirm", ![v].got = Len(grants) + 1,
                                    ![v].spent = TRUE]
    <3>1. Turned(v, "confirm", visit[v].reply, Len(grants) + 1, TRUE, visit[v].served)
      BY <1>1, <2>4, GotTurns
    <3>2. /\ visit'[v].reply # "denied"
          /\ grants'[visit'[v].got].session = grants[g].session
      BY <1>1, <2>3, <3>1 DEF Turned, Grant, Session
    <3>3. grants'[g].session = grants[g].session
      BY <2>1, <2>3 DEF Session, PairsKept
    <3> QED
      BY <1>2, <3>2, <3>3 DEF SpenderOK, Session
  <2>5. CASE Lapse /\ \E end \in ends :
                 visit' = [visit EXCEPT ![v].at = end[1], ![v].reply = end[2],
                                        ![v].spent = TRUE]
    <3>1. PICK end \in ends :
                 visit' = [visit EXCEPT ![v].at = end[1], ![v].reply = end[2],
                                        ![v].spent = TRUE]
      BY <2>5
    <3>2. Turned(v, end[1], end[2], 0, TRUE, visit[v].served)
      BY <1>1, <1>3, <3>1, SpentTurns
    <3>3. lapses' > 0
      BY <1>1, <2>5 DEF Lapse
    <3> QED
      BY <1>3, <3>2, <3>3 DEF SpenderOK, Turned
  <2> QED
    BY <1>4, <2>4, <2>5 DEF Issue
<1>5. CASE Denied(v) \/ Conclude(v, "failed")
  <2>1. "failed" \in VisitReplies
    BY DEF VisitReplies
  <2> QED
    BY <1>1, <1>5, <2>1, TurnsTo DEF SpenderOK, Turned
<1> QED
  BY <1>4, <1>5 DEF Refresh, Crash

LEMMA ConfirmDenies ==
    ASSUME SessionsInv, NEW v \in Visits, SpenderOK(v), Confirm(v)
    PROVE  SpenderOK(v)'
<1>1. /\ SessionsTypeOK /\ visit[v].at = "confirm" /\ visit[v].got # 0
      /\ visit[v].reply # "denied" /\ lapses \in Nat
      /\ PairsKept /\ (lapses > 0 => lapses' > 0)
  BY StepKeepsPairs, LapsesOnlyGrow
     DEF SessionsInv, Confirm, VisitOK, SessionsTypeOK, SpenderOK, VisitStep
<1>2. ~Accepted(visit[v].got) /\ visit[v].spent =>
          ~Live(Carried(v).refresh) \/ grants[visit[v].got].expired
  BY <1>1 DEF Accepted, Live, SpenderOK
<1>3. CASE Denied(v) /\ (~Accepted(visit[v].got) \/ Lapse)
  <2>1. Lapse => lapses' > 0
    BY <1>1 DEF Lapse
  <2>2. /\ Carried(v)' = Carried(v) /\ visit'[v].got = visit[v].got
        /\ visit'[v].spent = visit[v].spent
        /\ visit'[v].reply = "denied" => visit'[v].at = "answered"
    BY <1>1, <1>3, TurnsTo DEF Turned, Carried
  <2>3. visit[v].spent \in BOOLEAN
    BY <1>1, VisitIsTyped
  <2> QED
    BY <1>1, <1>2, <1>3, <2>1, <2>2, <2>3, SpenderKeeps
<1>4. CASE \E p \in {"lookup", "provision"} : Moves(v, p)
  <2>1. /\ Carried(v)' = Carried(v) /\ visit'[v].got = visit[v].got
        /\ visit'[v].spent = visit[v].spent /\ visit'[v].reply = visit[v].reply
    BY <1>1, <1>4, TurnsTo DEF Turned, Carried, Stations
  <2> QED
    BY <1>1, <2>1, SpenderKeeps
<1>5. CASE Conclude(v, "failed")
  <2>1. /\ Carried(v)' = Carried(v) /\ visit'[v].got = visit[v].got
        /\ visit'[v].spent = visit[v].spent /\ visit'[v].reply = "failed"
    BY <1>1, <1>5, TurnsTo DEF Turned, Carried, VisitReplies
  <2> QED
    BY <1>1, <2>1, SpenderKeeps
<1> QED
  BY <1>3, <1>4, <1>5 DEF Confirm, Crash

\* The other steps of a visit spend nothing, and refuse only by a lapse.
LEMMA OthersSpendNothing ==
    ASSUME SessionsInv, NEW v \in Visits, SpenderOK(v), VisitStep(v),
           ~Refresh(v), ~Confirm(v), visit[v].at # "idle"
    PROVE  SpenderOK(v)'
<1>1. /\ SessionsTypeOK /\ lapses \in Nat /\ PairsKept /\ VisitOK(v)
      /\ (lapses > 0 => lapses' > 0)
  BY StepKeepsPairs, LapsesOnlyGrow DEF SessionsInv, SessionsTypeOK
<1>2. ASSUME NEW r \in {"ok", "refused", "failed", "signed_out", "error"}, Conclude(v, r)
      PROVE  SpenderOK(v)'
  <2>1. /\ Carried(v)' = Carried(v) /\ visit'[v].got = visit[v].got
        /\ visit'[v].spent = visit[v].spent /\ visit'[v].reply = r
    BY <1>1, <1>2, TurnsTo DEF Turned, Carried, VisitReplies
  <2> QED
    BY <1>1, <2>1, SpenderKeeps
<1>3. ASSUME NEW p \in Stations, Moves(v, p),
             visit[v].at \in {"answered", "done", "lost"} => p \in {"done", "lost"}
      PROVE  SpenderOK(v)'
  <2>1. /\ Carried(v)' = Carried(v) /\ visit'[v].got = visit[v].got
        /\ visit'[v].spent = visit[v].spent /\ visit'[v].reply = visit[v].reply
        /\ visit'[v].at = p
    BY <1>1, <1>3, TurnsTo DEF Turned, Carried
  <2>2. visit[v].reply = "denied" => p \in {"answered", "done", "lost"}
    BY <1>3 DEF SpenderOK
  <2> QED
    BY <1>1, <2>1, <2>2, SpenderKeeps
<1>4. CASE FindCustomer(v)
  <2>1. CASE Denied(v) /\ Lapse
    <3>1. /\ Carried(v)' = Carried(v) /\ visit'[v].got = visit[v].got
          /\ visit'[v].spent = visit[v].spent
          /\ visit'[v].reply = "denied" => visit'[v].at = "answered"
          /\ lapses' > 0
      BY <1>1, <2>1, TurnsTo DEF Turned, Carried, Lapse
    <3> QED
      BY <1>1, <3>1, SpenderKeeps
  <2> QED
    BY <1>2, <1>3, <1>4, <2>1 DEF FindCustomer, Crash, Stations
<1>5. CASE Exchange(v)
  <2>1. visit[v].at = "exchange" /\ ~visit[v].spent /\ visit[v].reply # "denied"
    BY <1>1, <1>5 DEF Exchange, VisitOK, SpenderOK
  <2>2. CASE visit' = [visit EXCEPT ![v].at = "confirm", ![v].got = Len(grants) + 1]
    BY <1>1, <2>1, <2>2, OwnTurns DEF Turned, SpenderOK
  <2> QED
    BY <1>2, <1>5, <2>2 DEF Exchange, Crash
<1>6. CASE Page(v) \/ LogoutGate(v) \/ CheckAccess(v) \/ AuditLogout(v) \/ Revoke(v)
           \/ Provision(v)
  BY <1>2, <1>3, <1>6 DEF Page, LogoutGate, CheckAccess, AuditLogout, Revoke, Provision, Crash,
     Stations
<1>7. CASE BeginFlow(v)
  <2>1. CASE visit' = [visit EXCEPT ![v].at = "answered", ![v].reply = "ok",
                                    ![v].flow = flows + 1]
    <3>1. flows + 1 \in Nat
      BY <1>1 DEF SessionsTypeOK
    <3>2. /\ Carried(v)' = Carried(v) /\ visit'[v].got = visit[v].got
          /\ visit'[v].spent = visit[v].spent /\ visit'[v].reply = "ok"
      BY <1>1, <2>1, <3>1, FlowTurns DEF Turned, Carried
    <3> QED
      BY <1>1, <3>2, SpenderKeeps
  <2> QED
    BY <1>2, <1>7, <2>1 DEF BeginFlow, Crash
<1>8. CASE Route(v)
  <2>1. CASE visit' = [visit EXCEPT ![v].at = "answered", ![v].reply = "ok",
                                    ![v].served = Session(Shown(v))]
    <3>1. Shown(v) # 0
      BY <1>1, <1>8 DEF Route, VisitOK
    <3>2. Session(Shown(v)) \in Nat
      BY <1>1, <3>1, VisitIsTyped DEF Shown
    <3>3. /\ Carried(v)' = Carried(v) /\ visit'[v].got = visit[v].got
          /\ visit'[v].spent = visit[v].spent /\ visit'[v].reply = "ok"
      BY <1>1, <2>1, <3>2, ServedTurns DEF Turned, Carried
    <3> QED
      BY <1>1, <3>3, SpenderKeeps
  <2> QED
    BY <1>2, <1>8, <2>1 DEF Route, Crash
<1>9. CASE Arrives(v)
  BY <1>3, <1>9 DEF Arrives, Stations
<1>10. ~\E kind \in VisitKinds, flow \in 0..flows : Send(v, kind, flow)
  BY DEF Send
<1> QED
  BY <1>4, <1>5, <1>6, <1>7, <1>8, <1>9, <1>10 DEF VisitStep

LEMMA ExpireKeeps ==
    ASSUME SessionsTypeOK, NEW g \in 1..MaxGrants, Expire(g)
    PROVE  PairsKept
<1>1. /\ grants \in Seq(Pair) /\ Len(grants) \in Nat /\ DOMAIN grants = 1..Len(grants)
      /\ g \in DOMAIN grants /\ grants[g] \in Pair
      /\ grants' = [grants EXCEPT ![g].expired = TRUE] /\ ended' = ended
  BY DEF SessionsTypeOK, Expire
<1>2. [grants[g] EXCEPT !.expired = TRUE] \in Pair
  BY <1>1 DEF Pair
<1>3. grants' \in [1..Len(grants) -> Pair]
  BY <1>1, <1>2
<1>4. grants' \in Seq(Pair) /\ DOMAIN grants' = 1..Len(grants)
  BY <1>1, <1>3
<1>5. Len(grants') = Len(grants)
  BY <1>1, <1>4
<1>6. \A f \in DOMAIN grants : /\ grants'[f].session = grants[f].session
                               /\ grants'[f].spent = grants[f].spent
                               /\ grants[f].expired => grants'[f].expired
  BY <1>1 DEF Pair
<1> QED
  BY <1>1, <1>4, <1>5, <1>6 DEF PairsKept, SessionsTypeOK, Session

LEMMA SpendersInit == SessionsInit => SpendersOK
  BY DEF SessionsInit, SpendersOK, SpenderOK, NoVisit

LEMMA SpendersStep ==
    ASSUME SessionsInv, SpendersOK, [SessionsNext]_sessionVars
    PROVE  SpendersOK'
<1> SUFFICES ASSUME NEW w \in Visits PROVE SpenderOK(w)'
  BY DEF SpendersOK
<1>1. SessionsTypeOK /\ SpenderOK(w)
  BY DEF SessionsInv, SpendersOK
<1>2. ASSUME NEW v \in Visits, VisitStep(v) PROVE SpenderOK(w)'
  <2>1. CASE w = v
    <3>1. CASE visit[v].at = "idle"
      <4>1. visit[v] = NoVisit
        BY <3>1 DEF SessionsInv, VisitOK
      <4>2. PICK kind \in VisitKinds, flow \in 0..flows : Send(v, kind, flow)
        BY <1>2, <3>1, <4>1 DEF VisitStep, Page, BeginFlow, LogoutGate, CheckAccess, Refresh,
           Confirm, FindCustomer, Route, AuditLogout, Revoke, Exchange, Provision, Arrives
      <4> QED
        BY <2>1, <4>2, SendSent DEF Sent, SpenderOK
    <3>2. CASE visit[v].at # "idle"
      BY <1>1, <1>2, <2>1, <3>2, RefreshSpends, ConfirmDenies, OthersSpendNothing
    <3> QED
      BY <3>1, <3>2
  <2>2. CASE w # v
    <3>1. /\ visit'[w] = visit[w] /\ Carried(w)' = Carried(w) /\ PairsKept
          /\ (lapses > 0 => lapses' > 0)
      BY <1>1, <1>2, <2>2, OneVisitMoves, StepKeepsPairs, LapsesOnlyGrow DEF Carried
    <3>2. visit[w].reply = "denied" => visit[w].at \in {"answered", "done", "lost"}
      BY <1>1 DEF SpenderOK
    <3> QED
      BY <1>1, <3>1, <3>2, SpenderKeeps
  <2> QED
    BY <2>1, <2>2
<1>3. CASE UNCHANGED visit /\ UNCHANGED lapses /\ PairsKept
  <2>1. visit'[w] = visit[w] /\ Carried(w)' = Carried(w) /\ lapses' = lapses
    BY <1>3 DEF Carried
  <2>2. visit[w].reply = "denied" => visit[w].at \in {"answered", "done", "lost"}
    BY <1>1 DEF SpenderOK
  <2> QED
    BY <1>1, <1>3, <2>1, <2>2, SpenderKeeps
<1>4. CASE \E g \in 1..MaxGrants : Expire(g)
  BY <1>1, <1>3, <1>4, ExpireKeeps DEF Expire
<1>5. CASE DropCookie
  BY <1>1, <1>3, <1>5, SameKeeps DEF DropCookie, authVars
<1>6. CASE UNCHANGED sessionVars
  BY <1>1, <1>3, <1>6, SameKeeps DEF sessionVars, authVars
<1> QED
  BY <1>2, <1>4, <1>5, <1>6 DEF SessionsNext

LEMMA SessionsInvImplies ==
    SessionsInv /\ SpendersOK => EndedSessionsAreNotServed /\ SignedOutForCause
<1> SUFFICES ASSUME SessionsInv, SpendersOK PROVE EndedSessionsAreNotServed /\ SignedOutForCause
  OBVIOUS
<1>1. EndedSessionsAreNotServed
  BY DEF SessionsInv, VisitOK, EndedSessionsAreNotServed
<1>2. SpentOnlyByFailedVisits
  <2> SUFFICES ASSUME jar.refresh # 0, grants[jar.refresh].spent
               PROVE  \E v \in Visits :
                         /\ visit[v].spent /\ Carried(v).refresh = jar.refresh
                         /\ ~(/\ visit[v].at = "done"
                              /\ visit[v].reply \in {"ok", "signed_out", "denied"})
    BY DEF SpentOnlyByFailedVisits
  <2>1. jar.refresh \in DOMAIN grants
    BY DEF SessionsInv, SessionsTypeOK, JarNow
  <2>2. PICK v \in Visits : visit[v].spent /\ Carried(v).refresh = jar.refresh
    BY <2>1 DEF SessionsInv, SpentByCarrier
  <2> QED
    BY <2>2 DEF SessionsInv, SpentIsReplaced
<1>3. ASSUME NEW v \in Visits, visit[v].reply = "denied"
      PROVE  \/ lapses > 0
             \/ Carried(v).refresh = 0
             \/ ~Live(Carried(v).refresh)
             \/ \E w \in Visits \ {v} : visit[w].spent /\ Carried(w).refresh = Carried(v).refresh
             \/ visit[v].got # 0 /\ grants[visit[v].got].expired
  <2>1. CASE visit[v].spent
    BY <1>3, <2>1 DEF SpendersOK, SpenderOK
  <2>2. CASE ~visit[v].spent
    BY <1>3, <2>2 DEF SessionsInv, RefusedForCause
  <2> QED
    BY <2>1, <2>2
<1> QED
  BY <1>1, <1>2, <1>3 DEF SignedOutForCause, DeniedForCause

-----------------------------------------------------------------------------
(* The limiter: counting with a remainder, and with drawers.               *)

LEMMA DivIsMonotone ==
    ASSUME NEW n \in Nat \ {0}, NEW a \in Nat, NEW b \in Nat, a <= b
    PROVE  a \div n \in Nat /\ b \div n \in Nat /\ a \div n <= b \div n
<1> DEFINE p == a \div n
           q == b \div n
<1>1. p \in Int /\ q \in Int /\ a % n \in 0..(n-1) /\ b % n \in 0..(n-1)
      /\ a = n * p + (a % n) /\ b = n * q + (b % n)
  OBVIOUS
<1> DEFINE r == a % n
           s == b % n
<1>2. r \in 0..(n-1) /\ s \in 0..(n-1) /\ a = n * p + r /\ b = n * q + s
  BY <1>1
<1> HIDE DEF p, q, r, s
<1>3. p <= q
  <2> SUFFICES ASSUME p >= q + 1 PROVE FALSE
    BY <1>1
  <2>1. n * p >= n * (q + 1)
    BY <1>1
  <2>2. n * (q + 1) = n * q + n
    BY <1>1
  <2>3. n * p \in Int /\ n * q \in Int
    BY <1>1
  <2> HIDE DEF p
  <2> QED
    BY <1>2, <2>1, <2>2, <2>3
<1>4. p >= 0
  <2> SUFFICES ASSUME p <= -1 PROVE FALSE
    BY <1>1
  <2>1. n * p <= n * (-1)
    BY <1>1
  <2>2. n * (-1) = -n /\ n * p \in Int
    BY <1>1
  <2> QED
    BY <1>2, <2>1, <2>2
<1>5. q >= 0
  BY <1>1, <1>3, <1>4
<1>6. p \in Nat /\ q \in Nat /\ p <= q
  BY <1>1, <1>3, <1>4, <1>5
<1> QED
  BY <1>6 DEF p, q

\* A set sorted into finitely many drawers, each holding at most k, is finite
\* and has at most k elements a drawer.
LEMMA Drawers ==
    ASSUME NEW S, NEW C, IsFiniteSet(C), NEW k \in Nat, NEW f \in [S -> C],
           \A c \in C : /\ IsFiniteSet({a \in S : f[a] = c})
                        /\ Cardinality({a \in S : f[a] = c}) <= k
    PROVE  IsFiniteSet(S) /\ Cardinality(S) <= k * Cardinality(C)
<1> DEFINE In(c) == {a \in S : f[a] = c}
<1>1. Cardinality(C) \in Nat
  BY FS_CardinalityType
<1>2. CASE S = {}
  <2>1. IsFiniteSet(S) /\ Cardinality(S) = 0
    BY <1>2, FS_EmptySet
  <2>2. k * Cardinality(C) \in Nat
    BY <1>1
  <2> QED
    BY <2>1, <2>2
<1>3. CASE S # {}
  <2>1. PICK any \in S : TRUE
    BY <1>3
  <2> DEFINE n(c) == Cardinality(In(c))
             g(c) == CHOOSE h : h \in Bijection(1..n(c), In(c))
             Nth == [p \in C \X (1..k) |-> IF p[2] \in 1..n(p[1]) THEN g(p[1])[p[2]] ELSE any]
  <2>2. ASSUME NEW c \in C
        PROVE  /\ n(c) \in Nat /\ n(c) <= k /\ g(c) \in [1..n(c) -> In(c)]
               /\ \A a \in In(c) : \E i \in 1..n(c) : g(c)[i] = a
    <3>1. IsFiniteSet(In(c)) /\ n(c) <= k
      OBVIOUS
    <3>2. n(c) \in Nat /\ ExistsBijection(1..n(c), In(c))
      BY <3>1, FS_CardinalityType
    <3>3. \E h : h \in Bijection(1..n(c), In(c))
      BY <3>2 DEF ExistsBijection
    <3>4. g(c) \in Bijection(1..n(c), In(c))
      BY <3>3
    <3> HIDE DEF g, n
    <3> QED
      BY <3>1, <3>2, <3>4 DEF Bijection, Surjection, Injection, n
  <2> HIDE DEF g, n
  <2>3. Nth \in Surjection(C \X (1..k), S)
    <3>1. Nth \in [C \X (1..k) -> S]
      <4> SUFFICES ASSUME NEW p \in C \X (1..k)
                   PROVE  (IF p[2] \in 1..n(p[1]) THEN g(p[1])[p[2]] ELSE any) \in S
        OBVIOUS
      <4>1. p[1] \in C
        OBVIOUS
      <4>2. g(p[1]) \in [1..n(p[1]) -> In(p[1])] /\ In(p[1]) \subseteq S
        BY <2>2, <4>1
      <4> QED
        BY <4>2
    <3>2. ASSUME NEW a \in S PROVE \E p \in C \X (1..k) : Nth[p] = a
      <4>1. f[a] \in C /\ a \in In(f[a])
        OBVIOUS
      <4>2. PICK i \in 1..n(f[a]) : g(f[a])[i] = a
        BY <2>2, <4>1
      <4>3. i \in 1..k
        BY <2>2, <4>1
      <4>4. Nth[<<f[a], i>>] = a
        BY <4>1, <4>2, <4>3
      <4> QED
        BY <4>1, <4>3, <4>4
    <3> HIDE DEF Nth
    <3> QED
      BY <3>1, <3>2 DEF Surjection
  <2>4. IsFiniteSet(1..k) /\ Cardinality(1..k) = k
    BY FS_Interval
  <2>5. IsFiniteSet(C \X (1..k)) /\ Cardinality(C \X (1..k)) = Cardinality(C) * k
    BY <2>4, FS_Product
  <2>6. IsFiniteSet(S) /\ Cardinality(S) <= Cardinality(C) * k
    BY <2>3, <2>5, FS_Surjection
  <2> QED
    BY <1>1, <2>6
<1> QED
  BY <1>2, <1>3

-----------------------------------------------------------------------------
(* What the counters have to do with the attempts.                         *)

\* Time stays in its bounds, and each day comes after the other.
TimeOK == time \in 0..MaxTime

LEMMA TodayIsADay ==
    ASSUME TimeOK
    PROVE  /\ Today \in Days /\ Today \in Nat /\ Days \subseteq Nat
           /\ 0 \in Days
<1>1. time \in Nat /\ MaxTime \in Nat /\ Day \in Nat \ {0} /\ time <= MaxTime
  BY OutageAssumption DEF TimeOK
<1>2. Today \in Nat /\ MaxTime \div Day \in Nat /\ Today <= MaxTime \div Day
  BY <1>1, DivIsMonotone DEF Today
<1> QED
  BY <1>2 DEF Days

LEMMA TodayMovesOn ==
    ASSUME TimeOK, [OutageNext]_outageVars
    PROVE  TimeOK' /\ Today' \in Days /\ Today <= Today'
<1>1. time \in Nat /\ MaxTime \in Nat /\ Day \in Nat \ {0} /\ time <= MaxTime
  BY OutageAssumption DEF TimeOK
<1>2. time' = time \/ (time < MaxTime /\ time' = time + 1)
  BY DEF OutageNext, Tick, GoDown, ComeBack, outageVars
<1>3. time' \in Nat /\ time <= time' /\ time' <= MaxTime
  BY <1>1, <1>2
<1>4. TimeOK'
  BY <1>3, <1>1 DEF TimeOK
<1>5. Today <= Today' /\ Today' \in Nat /\ MaxTime \div Day \in Nat /\ Today' <= MaxTime \div Day
  BY <1>1, <1>3, DivIsMonotone DEF Today
<1> QED
  BY <1>4, <1>5 DEF Days

Steps == {"none", "incr", "reply", "admitted", "refused", "lost"}

Attempt == [at : Steps, on : Instances \cup {Nobody}, id : Identities \cup {Nobody},
            came : Days, count : Nat, judged : Days, life : Nat]

LimiterTypeOK ==
    /\ TimeOK
    /\ redis \in [Buckets -> Nat]
    /\ counts \in [Instances -> [Buckets -> Nat]]
    /\ attempt \in [Attempts -> Attempt]
    /\ restarts \in [Instances -> Nat]

\* Attempts Redis counted for an identity and day.
Counted(id, d) == {a \in Attempts : /\ attempt[a].count > 0
                                    /\ attempt[a].id = id /\ attempt[a].came = d}

\* Attempts an instance admitted by its own counter in one of its lives.
Local(i, id, d, life) == {a \in Judged("admitted", id, d) :
                             attempt[a].on = i /\ attempt[a].life = life}

\* Attempts that fill the limit of an identity on a day, for Redis or an instance.
Filling(id, d) == Counted(id, d) \cup Judged("admitted", id, d)

\* What is known of an attempt.
AttemptOK(a) ==
    /\ attempt[a].at = "none" => attempt[a] = NoAttempt
    /\ attempt[a].at # "none" => /\ attempt[a].on \in Instances /\ attempt[a].id \in Identities
                                 /\ attempt[a].came <= Today
    /\ attempt[a].at = "incr" => attempt[a].count = 0
    /\ attempt[a].at = "reply" => attempt[a].count > 0
    /\ attempt[a].count > 0 => attempt[a].count <= redis[<<attempt[a].id, attempt[a].came>>]
    /\ attempt[a].at \in {"admitted", "refused"} =>
           /\ attempt[a].judged <= Today /\ attempt[a].life <= restarts[attempt[a].on] + 1
           /\ attempt[a].life = 0 => attempt[a].judged = attempt[a].came /\ attempt[a].count > 0
    /\ attempt[a].at = "admitted" /\ attempt[a].life = 0 => attempt[a].count <= Limit

\* Redis counts every attempt once, and gives each a count of its own.
RedisCounts ==
    /\ \A id \in Identities, d \in Days : redis[<<id, d>>] = Cardinality(Counted(id, d))
    /\ \A a, b \in Attempts :
          /\ attempt[a].count > 0 /\ attempt[a].count = attempt[b].count
          /\ attempt[a].id = attempt[b].id /\ attempt[a].came = attempt[b].came
          => a = b

\* An instance's counter never misses an admission of its present life, nor
\* counts one that was not.
InstancesCount ==
    \A i \in Instances, id \in Identities, d \in Days :
        /\ counts[i][<<id, d>>] <= Limit
        /\ counts[i][<<id, d>>] <= Cardinality(Judged("admitted", id, d))
        /\ d = Today => Cardinality(Local(i, id, d, restarts[i] + 1)) <= counts[i][<<id, d>>]
        /\ \A life \in 1..(restarts[i] + 1) : Cardinality(Local(i, id, d, life)) <= Limit

\* Whoever was refused had been preceded by as many as the limit allows.
RefusedAreFull ==
    \A a \in Attempts : attempt[a].at = "refused" =>
        Limit <= Cardinality(Filling(attempt[a].id, attempt[a].judged) \ {a})

Seen == {a \in Attempts : attempt[a].at # "none"}

LimiterInv ==
    /\ LimiterTypeOK
    /\ IsFiniteSet(Seen)
    /\ \A a \in Attempts : AttemptOK(a)
    /\ RedisCounts
    /\ InstancesCount
    /\ RefusedAreFull

-----------------------------------------------------------------------------

LEMMA AttemptIsTyped ==
    ASSUME LimiterTypeOK, NEW a \in Attempts
    PROVE  /\ attempt[a] \in Attempt
           /\ attempt[a].at \in Steps /\ attempt[a].count \in Nat /\ attempt[a].life \in Nat
           /\ attempt[a].came \in Days /\ attempt[a].judged \in Days
           /\ attempt[a].came \in Nat /\ attempt[a].judged \in Nat
           /\ attempt[a].on \in Instances \cup {Nobody}
           /\ attempt[a].id \in Identities \cup {Nobody}
<1>1. attempt[a] \in Attempt /\ Days \subseteq Nat
  BY TodayIsADay DEF LimiterTypeOK
<1> QED
  BY <1>1 DEF Attempt

LEMMA BucketsAreTyped ==
    ASSUME LimiterTypeOK, NEW id \in Identities, NEW d \in Days
    PROVE  /\ <<id, d>> \in Buckets /\ redis[<<id, d>>] \in Nat
           /\ \A i \in Instances : counts[i][<<id, d>>] \in Nat
<1>1. <<id, d>> \in Buckets
  BY DEF Buckets
<1> QED
  BY <1>1 DEF LimiterTypeOK

\* Whoever counts anywhere has come.
LEMMA GroupsAreFinite ==
    ASSUME LimiterInv, NEW id, NEW d, NEW i, NEW life
    PROVE  /\ IsFiniteSet(Counted(id, d)) /\ Cardinality(Counted(id, d)) \in Nat
           /\ IsFiniteSet(Judged("admitted", id, d))
           /\ Cardinality(Judged("admitted", id, d)) \in Nat
           /\ IsFiniteSet(Local(i, id, d, life)) /\ Cardinality(Local(i, id, d, life)) \in Nat
           /\ IsFiniteSet(Filling(id, d)) /\ Cardinality(Filling(id, d)) \in Nat
<1>1. IsFiniteSet(Seen)
  BY DEF LimiterInv
<1>2. Counted(id, d) \subseteq Seen
  <2> SUFFICES ASSUME NEW a \in Counted(id, d), attempt[a].at = "none" PROVE FALSE
    BY DEF Seen, Counted
  <2>1. attempt[a] = NoAttempt /\ attempt[a].count > 0
    BY DEF LimiterInv, AttemptOK, Counted
  <2> QED
    BY <2>1 DEF NoAttempt
<1>3. /\ Judged("admitted", id, d) \subseteq Seen
      /\ Local(i, id, d, life) \subseteq Seen
      /\ Filling(id, d) \subseteq Seen
  BY <1>2 DEF Judged, Local, Seen, Filling
<1> QED
  BY <1>1, <1>2, <1>3, FS_Subset, FS_CardinalityType

LEMMA LimiterInitInv == OutageInit /\ LimiterInit => LimiterInv
<1> SUFFICES ASSUME OutageInit, LimiterInit PROVE LimiterInv
  OBVIOUS
<1>1. TimeOK /\ 0 \in Days
  <2>1. TimeOK
    BY OutageAssumption DEF OutageInit, TimeOK
  <2> QED
    BY <2>1, TodayIsADay
<1>2. \A a \in Attempts : attempt[a] = NoAttempt
  BY DEF LimiterInit
<1>3. /\ NoAttempt \in Attempt /\ NoAttempt.at = "none" /\ NoAttempt.count = 0
  BY <1>1 DEF NoAttempt, Attempt, Steps
<1>4. LimiterTypeOK
  BY <1>1, <1>3 DEF LimiterTypeOK, LimiterInit
<1>5. Seen = {} /\ (\A a \in Attempts : AttemptOK(a)) /\ RefusedAreFull
  BY <1>2, <1>3 DEF Seen, AttemptOK, RefusedAreFull
<1>6. \A id, d, i, life : /\ Counted(id, d) = {} /\ Judged("admitted", id, d) = {}
                          /\ Local(i, id, d, life) = {}
  BY <1>2, <1>3 DEF Counted, Judged, Local
<1>7. RedisCounts
  <2>1. ASSUME NEW id \in Identities, NEW d \in Days
        PROVE  redis[<<id, d>>] = Cardinality(Counted(id, d))
    <3>1. redis[<<id, d>>] = 0
      BY DEF LimiterInit, Buckets
    <3> QED
      BY <1>6, <3>1, FS_EmptySet
  <2>2. \A a \in Attempts : ~(attempt[a].count > 0)
    BY <1>2, <1>3
  <2> QED
    BY <2>1, <2>2 DEF RedisCounts
<1>8. InstancesCount
  <2> SUFFICES ASSUME NEW i \in Instances, NEW id \in Identities, NEW d \in Days
               PROVE  /\ counts[i][<<id, d>>] <= Limit
                      /\ counts[i][<<id, d>>] <= Cardinality(Judged("admitted", id, d))
                      /\ d = Today =>
                             Cardinality(Local(i, id, d, restarts[i] + 1)) <= counts[i][<<id, d>>]
                      /\ \A life \in 1..(restarts[i] + 1) :
                             Cardinality(Local(i, id, d, life)) <= Limit
    BY DEF InstancesCount
  <2>1. counts[i][<<id, d>>] = 0
    <3>1. counts[i] = [b \in Buckets |-> 0] /\ <<id, d>> \in Buckets
      BY DEF LimiterInit, Buckets
    <3> QED
      BY <3>1
  <2>2. Cardinality({}) = 0 /\ Limit \in Nat /\ 0 <= Limit
    BY FS_EmptySet, LimiterAssumption
  <2>3. /\ Cardinality(Judged("admitted", id, d)) = 0
        /\ \A life : Cardinality(Local(i, id, d, life)) = 0
    BY <1>6, FS_EmptySet
  <2>4. \A life : Cardinality(Local(i, id, d, life)) <= Limit
    BY <2>2, <2>3
  <2> QED
    BY <2>1, <2>2, <2>3, <2>4
<1> QED
  BY <1>4, <1>5, <1>7, <1>8, FS_EmptySet DEF LimiterInv

-----------------------------------------------------------------------------
(* What the invariant says of the limit.                                    *)

\* Redis admits at most the limit: the counts of those it admitted differ.
LEMMA RedisAdmitsTheLimit ==
    ASSUME LimiterInv, NEW id \in Identities, NEW d \in Days
    PROVE  Cardinality({a \in Judged("admitted", id, d) : attempt[a].life = 0}) <= Limit
<1> DEFINE S == {a \in Judged("admitted", id, d) : attempt[a].life = 0}
           f == [a \in S |-> attempt[a].count]
<1>1. ASSUME NEW a \in S
      PROVE  attempt[a].count \in 1..Limit /\ attempt[a].came = d /\ attempt[a].id = id
  <2>1. AttemptOK(a) /\ attempt[a].count \in Nat
    BY AttemptIsTyped DEF LimiterInv, Judged
  <2> QED
    BY <2>1, LimiterAssumption DEF AttemptOK, Judged
<1>2. f \in [S -> 1..Limit]
  BY <1>1
<1>3. \A a, b \in S : f[a] = f[b] => a = b
  BY <1>1 DEF LimiterInv, RedisCounts, Judged
<1>4. f \in Injection(S, 1..Limit)
  BY <1>2, <1>3 DEF Injection, IsInjective
<1>5. IsFiniteSet(1..Limit) /\ Cardinality(1..Limit) = Limit
  BY FS_Interval, LimiterAssumption
<1> HIDE DEF f, S
<1>6. Cardinality(S) <= Limit
  BY <1>4, <1>5, FS_Injection
<1> QED
  BY <1>6 DEF S

LEMMA AdmittedWithinBound ==
    ASSUME LimiterInv
    PROVE  AdmittedIsBounded
<1> SUFFICES ASSUME NEW id \in Identities, NEW d \in Days
             PROVE  Cardinality(Judged("admitted", id, d))
                      <= Limit * (1 + Cardinality({l \in JudgedBy("admitted", id, d) : l[2] > 0}))
  BY DEF AdmittedIsBounded
<1> DEFINE S == Judged("admitted", id, d)
           L == {l \in JudgedBy("admitted", id, d) : l[2] > 0}
           R == <<Nobody, 0>>
           C == L \cup {R}
           f == [a \in S |-> IF attempt[a].life = 0 THEN R
                             ELSE <<attempt[a].on, attempt[a].life>>]
<1>1. IsFiniteSet(S) /\ Limit \in Nat
  BY GroupsAreFinite, LimiterAssumption
<1>2. \A a \in S : /\ attempt[a].life \in Nat /\ attempt[a].on \in Instances
                   /\ attempt[a].life <= restarts[attempt[a].on] + 1
  BY AttemptIsTyped DEF LimiterInv, AttemptOK, Judged
<1>3. IsFiniteSet(L)
  <2> DEFINE h == [a \in S |-> <<attempt[a].on, attempt[a].life>>]
             J == JudgedBy("admitted", id, d)
  <2>1. h \in Surjection(S, J)
    BY DEF Surjection, JudgedBy
  <2>2. IsFiniteSet(J)
    BY <1>1, <2>1, FS_Surjection
  <2> QED
    BY <2>2, FS_Subset
<1>4. R \notin L
  OBVIOUS
<1>5. IsFiniteSet(C) /\ Cardinality(C) = Cardinality(L) + 1 /\ Cardinality(L) \in Nat
  BY <1>3, <1>4, FS_AddElement, FS_CardinalityType
<1>6. f \in [S -> C]
  <2>1. ASSUME NEW a \in S, attempt[a].life # 0
        PROVE  <<attempt[a].on, attempt[a].life>> \in L
    BY <1>2, <2>1 DEF JudgedBy
  <2> QED
    BY <2>1
<1>7. ASSUME NEW c \in C
      PROVE  /\ IsFiniteSet({a \in S : f[a] = c})
             /\ Cardinality({a \in S : f[a] = c}) <= Limit
  <2>1. CASE c = R
    <3>1. Nobody \notin Instances
      BY LimiterAssumption
    <3>2. {a \in S : f[a] = c} = {a \in S : attempt[a].life = 0}
      BY <1>2, <2>1, <3>1
    <3>3. IsFiniteSet({a \in S : f[a] = c})
      BY <1>1, FS_Subset
    <3>4. Cardinality({a \in S : attempt[a].life = 0}) <= Limit
      BY RedisAdmitsTheLimit
    <3> HIDE DEF f, S
    <3> QED
      BY <3>2, <3>3, <3>4
  <2>2. CASE c \in L
    <3>1. PICK b \in S : c = <<attempt[b].on, attempt[b].life>> /\ attempt[b].life > 0
      BY <2>2 DEF JudgedBy
    <3> DEFINE i == attempt[b].on
               life == attempt[b].life
    <3>2. {a \in S : f[a] = c} = Local(i, id, d, life)
      BY <1>2, <3>1 DEF Local
    <3>3. i \in Instances /\ life \in 1..(restarts[i] + 1)
      BY <1>2, <3>1 DEF LimiterInv, LimiterTypeOK
    <3>4. Cardinality(Local(i, id, d, life)) <= Limit
      BY <3>3 DEF LimiterInv, InstancesCount
    <3>5. IsFiniteSet(Local(i, id, d, life))
      BY GroupsAreFinite
    <3> HIDE DEF f, S, i, life
    <3> QED
      BY <3>2, <3>4, <3>5
  <2> QED
    BY <2>1, <2>2
<1>8. Cardinality(S) <= Limit * Cardinality(C)
  <2> HIDE DEF f, S, C
  <2> QED
    BY <1>1, <1>5, <1>6, <1>7, Drawers
<1>9. Cardinality(C) = 1 + Cardinality(L)
  BY <1>5
<1> HIDE DEF S, C, L
<1>10. Cardinality(S) <= Limit * (1 + Cardinality(L))
  BY <1>8, <1>9
<1> QED
  BY <1>10 DEF S, L

LEMMA RefusedWithinLimit ==
    ASSUME LimiterInv
    PROVE  RefusedOnlyAtLimit
<1> SUFFICES ASSUME NEW id \in Identities, NEW d \in Days, NEW a \in Judged("refused", id, d)
             PROVE  Limit <= Cardinality({b \in Attempts \ {a} :
                                /\ attempt[b].id = id
                                /\ attempt[b].came = d \/ attempt[b].judged = d})
  BY DEF RefusedOnlyAtLimit
<1> DEFINE O == {b \in Attempts \ {a} : /\ attempt[b].id = id
                                        /\ attempt[b].came = d \/ attempt[b].judged = d}
           F == Filling(id, d) \ {a}
<1>1. Limit <= Cardinality(F)
  BY DEF LimiterInv, RefusedAreFull, Judged
<1>2. F \subseteq O
  BY DEF Filling, Counted, Judged
<1>3. IsFiniteSet(O)
  <2>1. O \subseteq Seen
    <3> SUFFICES ASSUME NEW b \in O, attempt[b].at = "none" PROVE FALSE
      BY DEF Seen
    <3>1. attempt[b] = NoAttempt /\ attempt[b].id \in Identities
      BY DEF LimiterInv, AttemptOK
    <3> QED
      BY <3>1, LimiterAssumption DEF NoAttempt
  <2> QED
    BY <2>1, FS_Subset DEF LimiterInv
<1>4. Cardinality(F) <= Cardinality(O) /\ Cardinality(O) \in Nat /\ Cardinality(F) \in Nat
  BY <1>2, <1>3, FS_Subset, FS_CardinalityType
<1>5. Limit <= Cardinality(O)
  BY <1>1, <1>4, LimiterAssumption
<1> QED
  BY <1>5

LEMMA NextGroupsAreFinite ==
    ASSUME IsFiniteSet(Seen)', \A a \in Attempts : AttemptOK(a)', NEW id, NEW d, NEW i, NEW life
    PROVE  /\ IsFiniteSet(Judged("admitted", id, d)')
           /\ Cardinality(Judged("admitted", id, d)') \in Nat
           /\ IsFiniteSet(Local(i, id, d, life)')
           /\ IsFiniteSet(Filling(id, d)') /\ Cardinality(Filling(id, d)') \in Nat
<1>1. Counted(id, d)' \subseteq Seen'
  <2> SUFFICES ASSUME NEW a \in Counted(id, d)', attempt'[a].at = "none" PROVE FALSE
    BY DEF Seen, Counted
  <2>1. attempt'[a] = NoAttempt /\ attempt'[a].count > 0
    BY DEF AttemptOK, Counted
  <2> QED
    BY <2>1 DEF NoAttempt
<1>2. /\ Judged("admitted", id, d)' \subseteq Seen' /\ Local(i, id, d, life)' \subseteq Seen'
      /\ Filling(id, d)' \subseteq Seen'
  BY <1>1 DEF Judged, Local, Seen, Filling
<1> QED
  BY <1>2, FS_Subset, FS_CardinalityType

\* Who is refused, stays so, and those who filled the limit stay who they are.
LEMMA RefusedStay ==
    ASSUME LimiterInv, IsFiniteSet(Seen)', \A a \in Attempts : AttemptOK(a)',
           NEW a \in Attempts, NEW id, NEW d,
           attempt[a].at = "refused", attempt[a].id = id, attempt[a].judged = d,
           Filling(id, d) \subseteq Filling(id, d)'
    PROVE  Limit <= Cardinality(Filling(id, d)' \ {a})
<1> DEFINE F == Filling(id, d) \ {a}
           G == Filling(id, d)' \ {a}
<1>1. Limit <= Cardinality(F)
  BY DEF LimiterInv, RefusedAreFull
<1>2. IsFiniteSet(Filling(id, d)')
  BY NextGroupsAreFinite
<1>3. IsFiniteSet(G)
  BY <1>2, FS_Subset
<1>4. F \subseteq G
  OBVIOUS
<1>5. Cardinality(F) <= Cardinality(G) /\ Cardinality(F) \in Nat /\ Cardinality(G) \in Nat
  BY <1>3, <1>4, FS_Subset, FS_CardinalityType
<1> QED
  BY <1>1, <1>5, LimiterAssumption

\* The day may change; the counters of the day before are then of no more use.
LEMMA OutageStepInv ==
    ASSUME LimiterInv, [OutageNext]_outageVars, UNCHANGED limiterVars
    PROVE  LimiterInv'
<1>1. /\ TimeOK' /\ Today' \in Days /\ Today <= Today' /\ Today \in Nat
      /\ Days \subseteq Nat
  BY TodayMovesOn, TodayIsADay DEF LimiterInv, LimiterTypeOK
<1>2. UNCHANGED <<redis, counts, attempt, restarts>>
  BY DEF limiterVars
<1>3. LimiterTypeOK'
  BY <1>1, <1>2 DEF LimiterInv, LimiterTypeOK
<1>4. IsFiniteSet(Seen)'
  BY <1>2 DEF LimiterInv, Seen
<1>5. ASSUME NEW a \in Attempts PROVE AttemptOK(a)'
  <2>1. AttemptOK(a) /\ attempt[a].came \in Nat /\ attempt[a].judged \in Nat /\ Today' \in Nat
    BY <1>1, AttemptIsTyped DEF LimiterInv
  <2> QED
    BY <1>1, <1>2, <2>1 DEF AttemptOK
<1>6. \A id, d, i, life : /\ Counted(id, d)' = Counted(id, d)
                          /\ Judged("admitted", id, d)' = Judged("admitted", id, d)
                          /\ Local(i, id, d, life)' = Local(i, id, d, life)
                          /\ Filling(id, d)' = Filling(id, d)
  BY <1>2 DEF Counted, Judged, Local, Filling
<1>7. RedisCounts'
  BY <1>2, <1>6 DEF LimiterInv, RedisCounts
<1>8. InstancesCount'
  <2> SUFFICES ASSUME NEW i \in Instances, NEW id \in Identities, NEW d \in Days, d = Today'
               PROVE  Cardinality(Local(i, id, d, restarts[i] + 1)) <= counts[i][<<id, d>>]
    BY <1>2, <1>6 DEF LimiterInv, InstancesCount
  <2>1. CASE Today' = Today
    BY <2>1 DEF LimiterInv, InstancesCount
  <2>2. CASE Today' # Today
    <3>1. ASSUME NEW a \in Local(i, id, d, restarts[i] + 1) PROVE FALSE
      <4>1. attempt[a].judged = d /\ attempt[a].judged <= Today
        BY DEF Local, Judged, LimiterInv, AttemptOK
      <4> QED
        BY <1>1, <2>2, <4>1
    <3>2. Local(i, id, d, restarts[i] + 1) = {}
      BY <3>1
    <3>3. counts[i][<<id, d>>] \in Nat
      BY BucketsAreTyped DEF LimiterInv
    <3> QED
      BY <3>2, <3>3, FS_EmptySet
  <2> QED
    BY <2>1, <2>2
<1>9. RefusedAreFull'
  BY <1>2, <1>6 DEF LimiterInv, RefusedAreFull
<1> QED
  BY <1>3, <1>4, <1>5, <1>7, <1>8, <1>9 DEF LimiterInv

LEMMA ArrivesInv ==
    ASSUME LimiterInv, UNCHANGED outageVars, NEW a \in Attempts, NEW i \in Instances,
           NEW id \in Identities, AttemptArrives(a, i, id)
    PROVE  LimiterInv'
<1> DEFINE n == [NoAttempt EXCEPT !.at = "incr", !.on = i, !.id = id, !.came = Today]
<1>1. /\ attempt[a] = NoAttempt /\ attempt' = [attempt EXCEPT ![a] = n]
      /\ UNCHANGED <<redis, counts, restarts, time>>
      /\ attempt \in [Attempts -> Attempt]
      /\ Today' = Today /\ Today \in Days /\ Today \in Nat /\ 0 \in Days
  BY TodayIsADay DEF LimiterInv, LimiterTypeOK, AttemptArrives, outageVars, Today
<1>2. /\ n.at = "incr" /\ n.on = i /\ n.id = id /\ n.came = Today /\ n.count = 0
      /\ n.judged = 0 /\ n.life = 0
  BY DEF NoAttempt
<1>3. n \in Attempt
  <2>1. NoAttempt \in Attempt
    BY <1>1 DEF NoAttempt, Attempt, Steps
  <2>2. [NoAttempt EXCEPT !.at = "incr"] \in Attempt
    BY <2>1 DEF Attempt, Steps
  <2>3. [NoAttempt EXCEPT !.at = "incr", !.on = i] \in Attempt
    BY <2>2 DEF Attempt
  <2>4. [NoAttempt EXCEPT !.at = "incr", !.on = i, !.id = id] \in Attempt
    BY <2>3 DEF Attempt
  <2> QED
    BY <1>1, <2>4 DEF Attempt
<1> HIDE DEF n
<1>4. /\ attempt'[a] = n /\ attempt' \in [Attempts -> Attempt]
      /\ \A b \in Attempts : b # a => attempt'[b] = attempt[b]
  BY <1>1, <1>3
<1>5. LimiterTypeOK'
  BY <1>1, <1>4 DEF LimiterInv, LimiterTypeOK, TimeOK
<1>6. IsFiniteSet(Seen)'
  <2>1. Seen' = Seen \cup {a}
    BY <1>2, <1>4 DEF Seen
  <2> QED
    BY <2>1, FS_AddElement DEF LimiterInv
<1>7. ASSUME NEW b \in Attempts PROVE AttemptOK(b)'
  <2>1. CASE b = a
    BY <1>1, <1>2, <1>4, <2>1 DEF AttemptOK
  <2>2. CASE b # a
    <3>1. AttemptOK(b)
      BY DEF LimiterInv
    <3> QED
      BY <1>1, <1>4, <2>2, <3>1 DEF AttemptOK
  <2> QED
    BY <2>1, <2>2
<1>8. \A e, d, j, life : /\ Counted(e, d)' = Counted(e, d)
                         /\ Judged("admitted", e, d)' = Judged("admitted", e, d)
                         /\ Local(j, e, d, life)' = Local(j, e, d, life)
                         /\ Filling(e, d)' = Filling(e, d)
  <2>1. /\ attempt[a].count = 0 /\ attempt'[a].count = 0
        /\ attempt[a].at = "none" /\ attempt'[a].at = "incr"
    BY <1>1, <1>2, <1>4 DEF NoAttempt
  <2>2. \A e, d : Counted(e, d)' = Counted(e, d)
    BY <1>4, <2>1 DEF Counted
  <2>3. \A e, d : Judged("admitted", e, d)' = Judged("admitted", e, d)
    BY <1>4, <2>1 DEF Judged
  <2>4. \A e, d, j, life : Local(j, e, d, life)' = Local(j, e, d, life)
    BY <1>4, <2>1, <2>3 DEF Local, Judged
  <2> QED
    BY <2>2, <2>3, <2>4 DEF Filling
<1>9. RedisCounts'
  <2>1. attempt'[a].count = 0
    BY <1>2, <1>4
  <2> QED
    BY <1>1, <1>4, <1>8, <2>1 DEF LimiterInv, RedisCounts
<1>10. InstancesCount'
  BY <1>1, <1>8 DEF LimiterInv, InstancesCount
<1>11. RefusedAreFull'
  <2>1. attempt'[a].at # "refused"
    BY <1>2, <1>4
  <2> QED
    BY <1>4, <1>8, <2>1 DEF LimiterInv, RefusedAreFull
<1> QED
  BY <1>5, <1>6, <1>7, <1>9, <1>10, <1>11 DEF LimiterInv

LEMMA RestartInv ==
    ASSUME LimiterInv, UNCHANGED outageVars, NEW i \in Instances, Restart(i)
    PROVE  LimiterInv'
<1> DEFINE Hit(a) == attempt[a].on = i /\ attempt[a].at \in {"incr", "reply"}
           n(a) == IF Hit(a) THEN [attempt[a] EXCEPT !.at = "lost"] ELSE attempt[a]
<1>1. /\ attempt' = [a \in Attempts |-> n(a)] /\ restarts' = [restarts EXCEPT ![i] = @ + 1]
      /\ counts' = [counts EXCEPT ![i] = [b \in Buckets |-> 0]]
      /\ UNCHANGED <<redis, time>> /\ restarts \in [Instances -> Nat]
      /\ attempt \in [Attempts -> Attempt] /\ counts \in [Instances -> [Buckets -> Nat]]
      /\ Today' = Today
  BY DEF LimiterInv, LimiterTypeOK, Restart, outageVars, Today
<1>2. ASSUME NEW a \in Attempts
      PROVE  /\ n(a) \in Attempt /\ attempt'[a] = n(a)
             /\ n(a).on = attempt[a].on /\ n(a).id = attempt[a].id
             /\ n(a).came = attempt[a].came /\ n(a).count = attempt[a].count
             /\ n(a).judged = attempt[a].judged /\ n(a).life = attempt[a].life
             /\ n(a).at = (IF Hit(a) THEN "lost" ELSE attempt[a].at)
  <2>1. attempt[a] \in Attempt
    BY <1>1
  <2> QED
    BY <1>1, <2>1 DEF Attempt, Steps
<1>3. ASSUME NEW a \in Attempts
      PROVE  \/ attempt'[a] = attempt[a]
             \/ attempt'[a].at = "lost" /\ attempt[a].at \in {"incr", "reply"}
  BY <1>2
<1> HIDE DEF n
<1>4. LimiterTypeOK'
  <2>1. attempt' \in [Attempts -> Attempt] /\ counts' \in [Instances -> [Buckets -> Nat]]
        /\ restarts' \in [Instances -> Nat]
    BY <1>1, <1>2
  <2> QED
    BY <1>1, <2>1 DEF LimiterInv, LimiterTypeOK, TimeOK
<1>5. IsFiniteSet(Seen)'
  <2>1. Seen' = Seen
    BY <1>3 DEF Seen
  <2> QED
    BY <2>1 DEF LimiterInv
<1>6. ASSUME NEW a \in Attempts PROVE AttemptOK(a)'
  <2>1. AttemptOK(a) /\ attempt[a].life \in Nat
    BY AttemptIsTyped DEF LimiterInv
  <2>2. ASSUME attempt[a].on \in Instances, attempt[a].life <= restarts[attempt[a].on] + 1
        PROVE  attempt[a].life <= restarts'[attempt[a].on] + 1
    <3>1. PICK j \in Instances : j = attempt[a].on
      BY <2>2
    <3>2. restarts[j] \in Nat /\ restarts'[j] \in {restarts[j], restarts[j] + 1}
      BY <1>1
    <3> QED
      BY <2>1, <2>2, <3>1, <3>2
  <2>3. CASE attempt'[a] = attempt[a]
    BY <1>1, <2>1, <2>2, <2>3 DEF AttemptOK
  <2>4. CASE attempt'[a].at = "lost" /\ attempt[a].at \in {"incr", "reply"}
    BY <1>1, <1>2, <2>1, <2>2, <2>4 DEF AttemptOK
  <2> QED
    BY <1>3, <2>3, <2>4
<1>7. \A e, d, j, life : /\ Counted(e, d)' = Counted(e, d)
                         /\ Judged("admitted", e, d)' = Judged("admitted", e, d)
                         /\ Local(j, e, d, life)' = Local(j, e, d, life)
                         /\ Filling(e, d)' = Filling(e, d)
  <2>2. \A e, d : Counted(e, d)' = Counted(e, d)
    BY <1>2 DEF Counted
  <2>3. \A e, d : Judged("admitted", e, d)' = Judged("admitted", e, d)
    BY <1>3 DEF Judged
  <2>4. \A e, d, j, life : Local(j, e, d, life)' = Local(j, e, d, life)
    BY <1>3, <2>3 DEF Local, Judged
  <2> QED
    BY <2>2, <2>3, <2>4 DEF Filling
<1>8. RedisCounts'
  BY <1>1, <1>2, <1>7 DEF LimiterInv, RedisCounts
<1>9. InstancesCount'
  <2> SUFFICES ASSUME NEW j \in Instances, NEW id \in Identities, NEW d \in Days,
                      NEW l \in Nat, l = restarts'[j] + 1
               PROVE  /\ counts'[j][<<id, d>>] <= Limit
                      /\ counts'[j][<<id, d>>] <= Cardinality(Judged("admitted", id, d))
                      /\ d = Today => Cardinality(Local(j, id, d, l)) <= counts'[j][<<id, d>>]
                      /\ \A life \in 1..l : Cardinality(Local(j, id, d, life)) <= Limit
    <3>1. \A j \in Instances : \E l \in Nat : l = restarts'[j] + 1
      BY <1>1
    <3>2. \A j \in Instances : \A id, d : Local(j, id, d, restarts[j] + 1)'
                                          = Local(j, id, d, restarts'[j] + 1)
      BY <1>7 DEF Local, Judged
    <3> QED
      BY <1>1, <1>7, <3>1, <3>2 DEF InstancesCount
  <2>1. /\ counts[j][<<id, d>>] \in Nat /\ <<id, d>> \in Buckets /\ Limit \in Nat
        /\ Cardinality(Judged("admitted", id, d)) \in Nat
        /\ counts[j][<<id, d>>] <= Limit
        /\ counts[j][<<id, d>>] <= Cardinality(Judged("admitted", id, d))
    BY BucketsAreTyped, GroupsAreFinite, LimiterAssumption DEF LimiterInv, InstancesCount
  <2>2. /\ d = Today => Cardinality(Local(j, id, d, restarts[j] + 1)) <= counts[j][<<id, d>>]
        /\ \A life \in 1..(restarts[j] + 1) : Cardinality(Local(j, id, d, life)) <= Limit
    BY DEF LimiterInv, InstancesCount
  <2>3. CASE j # i
    <3>1. counts'[j] = counts[j] /\ l = restarts[j] + 1
      BY <1>1, <2>3
    <3> QED
      BY <2>1, <2>2, <3>1
  <2>4. CASE j = i
    <3>1. counts'[j][<<id, d>>] = 0 /\ restarts[j] \in Nat /\ l = restarts[j] + 2
      BY <1>1, <2>1, <2>4
    <3>2. Local(j, id, d, l) = {}
      <4> SUFFICES ASSUME NEW a \in Local(j, id, d, l) PROVE FALSE
        OBVIOUS
      <4>1. attempt[a].life = l /\ attempt[a].life <= restarts[j] + 1
        BY DEF Local, Judged, LimiterInv, AttemptOK
      <4> QED
        BY <3>1, <4>1
    <3>3. Cardinality(Local(j, id, d, l)) = 0
      BY <3>2, FS_EmptySet
    <3>4. ASSUME NEW life \in 1..l PROVE Cardinality(Local(j, id, d, life)) <= Limit
      <4>1. CASE life = l
        BY <2>1, <3>3, <4>1
      <4>2. CASE life # l
        <5>1. life \in 1..(restarts[j] + 1)
          BY <3>1, <4>2
        <5> QED
          BY <2>2, <5>1
      <4> QED
        BY <4>1, <4>2
    <3> QED
      BY <2>1, <3>1, <3>3, <3>4
  <2> QED
    BY <2>3, <2>4
<1>10. RefusedAreFull'
  <2>1. \A a \in Attempts : attempt'[a].at = "refused" => attempt'[a] = attempt[a]
    BY <1>3
  <2> QED
    BY <1>7, <2>1 DEF LimiterInv, RefusedAreFull
<1> QED
  BY <1>4, <1>5, <1>6, <1>8, <1>9, <1>10 DEF LimiterInv

\* What a verdict changes of an attempt.
LEMMA JudgeStep ==
    ASSUME LimiterTypeOK, NEW a \in Attempts, NEW v \in BOOLEAN, NEW d \in Days,
           NEW l \in Nat, Judge(a, v, d, l)
    PROVE  /\ attempt' \in [Attempts -> Attempt]
           /\ \A b \in Attempts : b # a => attempt'[b] = attempt[b]
           /\ attempt'[a].at = (IF v THEN "admitted" ELSE "refused")
           /\ attempt'[a].judged = d /\ attempt'[a].life = l
           /\ attempt'[a].on = attempt[a].on /\ attempt'[a].id = attempt[a].id
           /\ attempt'[a].came = attempt[a].came /\ attempt'[a].count = attempt[a].count
<1> DEFINE p == IF v THEN "admitted" ELSE "refused"
           m == [attempt[a] EXCEPT !.at = p]
           o == [m EXCEPT !.judged = d]
           n == [o EXCEPT !.life = l]
<1>1. attempt \in [Attempts -> Attempt] /\ attempt[a] \in Attempt
  BY DEF LimiterTypeOK
<1>2. attempt' = [attempt EXCEPT ![a] = n]
  <2>1. attempt' = [attempt EXCEPT ![a].at = p, ![a].judged = d, ![a].life = l]
    BY DEF Judge
  <2> HIDE DEF p
  <2> QED
    BY <1>1, <2>1
<1>3. p \in {"admitted", "refused"}
  OBVIOUS
<1> HIDE DEF p
<1>4. /\ m \in Attempt /\ m.at = p /\ m.on = attempt[a].on /\ m.id = attempt[a].id
      /\ m.came = attempt[a].came /\ m.count = attempt[a].count
  BY <1>1, <1>3 DEF Attempt, Steps
<1> HIDE DEF m
<1>5. /\ o \in Attempt /\ o.at = m.at /\ o.on = m.on /\ o.id = m.id
      /\ o.came = m.came /\ o.count = m.count /\ o.judged = d
  BY <1>4 DEF Attempt
<1> HIDE DEF o
<1>6. /\ n \in Attempt /\ n.at = o.at /\ n.on = o.on /\ n.id = o.id
      /\ n.came = o.came /\ n.count = o.count /\ n.judged = o.judged /\ n.life = l
  BY <1>5 DEF Attempt
<1> HIDE DEF n
<1>7. attempt'[a] = n /\ attempt' \in [Attempts -> Attempt]
      /\ \A b \in Attempts : b # a => attempt'[b] = attempt[b]
  BY <1>1, <1>2, <1>6
<1> QED
  BY <1>4, <1>5, <1>6, <1>7 DEF p

\* What Redis counting it changes of an attempt.
LEMMA IncrementStep ==
    ASSUME LimiterTypeOK, NEW a \in Attempts, NEW c \in Nat,
           attempt' = [attempt EXCEPT ![a].at = "reply", ![a].count = c]
    PROVE  /\ attempt' \in [Attempts -> Attempt]
           /\ \A b \in Attempts : b # a => attempt'[b] = attempt[b]
           /\ attempt'[a].at = "reply" /\ attempt'[a].count = c
           /\ attempt'[a].on = attempt[a].on /\ attempt'[a].id = attempt[a].id
           /\ attempt'[a].came = attempt[a].came
           /\ attempt'[a].judged = attempt[a].judged /\ attempt'[a].life = attempt[a].life
<1> DEFINE m == [attempt[a] EXCEPT !.at = "reply"]
           n == [m EXCEPT !.count = c]
<1>1. attempt \in [Attempts -> Attempt] /\ attempt[a] \in Attempt
  BY DEF LimiterTypeOK
<1>2. attempt' = [attempt EXCEPT ![a] = n]
  BY <1>1
<1>3. /\ m \in Attempt /\ m.at = "reply" /\ m.on = attempt[a].on /\ m.id = attempt[a].id
      /\ m.came = attempt[a].came /\ m.judged = attempt[a].judged /\ m.life = attempt[a].life
  BY <1>1 DEF Attempt, Steps
<1> HIDE DEF m
<1>4. /\ n \in Attempt /\ n.at = m.at /\ n.on = m.on /\ n.id = m.id
      /\ n.came = m.came /\ n.count = c /\ n.judged = m.judged /\ n.life = m.life
  BY <1>3 DEF Attempt
<1> HIDE DEF n
<1>5. attempt'[a] = n /\ attempt' \in [Attempts -> Attempt]
      /\ \A b \in Attempts : b # a => attempt'[b] = attempt[b]
  BY <1>1, <1>2, <1>4
<1> QED
  BY <1>3, <1>4, <1>5

LEMMA IncrementInv ==
    ASSUME LimiterInv, UNCHANGED outageVars, NEW a \in Attempts, Increment(a)
    PROVE  LimiterInv'
<1> DEFINE id == attempt[a].id
           d == attempt[a].came
           c == redis[<<id, d>>] + 1
           n == attempt'[a]
<1>1. /\ attempt[a].at = "incr" /\ UNCHANGED <<counts, restarts, time>>
      /\ redis' = [redis EXCEPT ![<<id, d>>] = @ + 1]
      /\ attempt' = [attempt EXCEPT ![a].at = "reply", ![a].count = c]
      /\ attempt \in [Attempts -> Attempt] /\ redis \in [Buckets -> Nat]
      /\ Today' = Today /\ LimiterTypeOK
  BY DEF LimiterInv, LimiterTypeOK, Increment, Key, outageVars, Today
<1>2. /\ id \in Identities /\ d \in Days /\ <<id, d>> \in Buckets /\ attempt[a].count = 0
      /\ redis[<<id, d>>] \in Nat /\ AttemptOK(a)
  <2>1. AttemptOK(a) /\ id \in Identities /\ d \in Days
    BY <1>1, AttemptIsTyped DEF LimiterInv, AttemptOK
  <2> QED
    BY <1>1, <2>1, BucketsAreTyped DEF LimiterInv, AttemptOK
<1>3. c \in Nat /\ c > 0
  BY <1>2
<1> HIDE DEF c
<1>4. /\ n.at = "reply" /\ n.count = c /\ n.on = attempt[a].on
      /\ n.id = id /\ n.came = d /\ n.judged = attempt[a].judged /\ n.life = attempt[a].life
  BY <1>1, <1>3, IncrementStep
<1>5. /\ attempt'[a] = n /\ attempt' \in [Attempts -> Attempt]
      /\ \A b \in Attempts : b # a => attempt'[b] = attempt[b]
  BY <1>1, <1>3, IncrementStep
<1> HIDE DEF n
<1> USE DEF c
<1>6. /\ redis' \in [Buckets -> Nat] /\ redis'[<<id, d>>] = redis[<<id, d>>] + 1
      /\ \A k \in Buckets : k # <<id, d>> => redis'[k] = redis[k]
  BY <1>1, <1>2
<1>7. LimiterTypeOK'
  BY <1>1, <1>5, <1>6 DEF LimiterInv, LimiterTypeOK, TimeOK
<1>8. IsFiniteSet(Seen)'
  <2>1. Seen' = Seen
    BY <1>1, <1>4, <1>5 DEF Seen
  <2> QED
    BY <2>1 DEF LimiterInv
<1>9. ASSUME NEW b \in Attempts PROVE AttemptOK(b)'
  <2>1. CASE b = a
    <3>1. redis[<<id, d>>] + 1 > 0 /\ redis[<<id, d>>] + 1 <= redis'[<<id, d>>]
      BY <1>2, <1>6
    <3> QED
      BY <1>1, <1>2, <1>4, <1>5, <2>1, <3>1 DEF AttemptOK
  <2>2. CASE b # a
    <3>1. AttemptOK(b) /\ attempt[b].count \in Nat
      BY AttemptIsTyped DEF LimiterInv
    <3>2. attempt[b].count > 0 => attempt[b].count <= redis'[<<attempt[b].id, attempt[b].came>>]
      <4> SUFFICES ASSUME attempt[b].count > 0
                   PROVE  attempt[b].count <= redis'[<<attempt[b].id, attempt[b].came>>]
        OBVIOUS
      <4> DEFINE k == <<attempt[b].id, attempt[b].came>>
      <4>1. attempt[b].at # "none" /\ attempt[b].count <= redis[k]
        BY <3>1 DEF AttemptOK, NoAttempt
      <4>2. k \in Buckets /\ redis[k] \in Nat
        BY <3>1, <4>1, AttemptIsTyped, BucketsAreTyped DEF LimiterInv, AttemptOK, Buckets
      <4>3. redis[k] <= redis'[k]
        BY <1>2, <1>6, <4>2
      <4>4. redis'[k] \in Nat
        BY <1>6, <4>2
      <4> HIDE DEF k
      <4>5. attempt[b].count <= redis'[k]
        BY <3>1, <4>1, <4>2, <4>3, <4>4
      <4> QED
        BY <4>5 DEF k
    <3> QED
      BY <1>1, <1>5, <2>2, <3>1, <3>2 DEF AttemptOK
  <2> QED
    BY <2>1, <2>2
<1>10. /\ \A e \in Identities, f \in Days :
              /\ <<e, f>> # <<id, d>> => Counted(e, f)' = Counted(e, f)
              /\ <<e, f>> = <<id, d>> => Counted(e, f)' = Counted(e, f) \cup {a}
       /\ \A e, f : Counted(e, f) \subseteq Counted(e, f)'
       /\ a \notin Counted(id, d)
  <2>1. redis[<<id, d>>] + 1 > 0
    BY <1>2
  <2> QED
    BY <1>2, <1>4, <1>5, <2>1 DEF Counted
<1>11. \A e, f, j, life : /\ Judged("admitted", e, f)' = Judged("admitted", e, f)
                          /\ Local(j, e, f, life)' = Local(j, e, f, life)
  <2>1. \A e, f : Judged("admitted", e, f)' = Judged("admitted", e, f)
    BY <1>1, <1>4, <1>5 DEF Judged
  <2>2. \A e, f, j, life : Local(j, e, f, life)' = Local(j, e, f, life)
    BY <1>1, <1>4, <1>5, <2>1 DEF Local, Judged
  <2> QED
    BY <2>1, <2>2
<1>12. RedisCounts'
  <2>1. ASSUME NEW e \in Identities, NEW f \in Days
        PROVE  redis'[<<e, f>>] = Cardinality(Counted(e, f)')
    <3>1. <<e, f>> \in Buckets /\ redis[<<e, f>>] = Cardinality(Counted(e, f))
      BY DEF Buckets, LimiterInv, RedisCounts
    <3>2. CASE <<e, f>> # <<id, d>>
      BY <1>6, <1>10, <3>1, <3>2
    <3>3. CASE <<e, f>> = <<id, d>>
      <4>1. IsFiniteSet(Counted(e, f)) /\ a \notin Counted(e, f)
        BY <1>10, <3>3, GroupsAreFinite
      <4>2. Cardinality(Counted(e, f) \cup {a}) = Cardinality(Counted(e, f)) + 1
        BY <4>1, FS_AddElement
      <4> QED
        BY <1>6, <1>10, <3>1, <3>3, <4>2
    <3> QED
      BY <3>2, <3>3
  <2>2. ASSUME NEW b \in Attempts, b # a, attempt[b].count > 0,
               attempt[b].id = id, attempt[b].came = d
        PROVE  attempt[b].count # n.count
    <3>1. attempt[b].count <= redis[<<id, d>>] /\ attempt[b].count \in Nat
      BY <2>2, AttemptIsTyped DEF LimiterInv, AttemptOK
    <3> QED
      BY <1>2, <1>4, <3>1
  <2>3. ASSUME NEW b \in Attempts, NEW o \in Attempts,
               attempt'[b].count > 0, attempt'[b].count = attempt'[o].count,
               attempt'[b].id = attempt'[o].id, attempt'[b].came = attempt'[o].came
        PROVE  b = o
    <3>1. CASE b # a /\ o # a
      BY <1>5, <2>3, <3>1 DEF LimiterInv, RedisCounts
    <3>2. CASE b = a \/ o = a
      BY <1>4, <1>5, <2>2, <2>3, <3>2
    <3> QED
      BY <3>1, <3>2
  <2> QED
    BY <2>1, <2>3 DEF RedisCounts
<1>13. InstancesCount'
  BY <1>1, <1>11 DEF LimiterInv, InstancesCount
<1>14. RefusedAreFull'
  <2> SUFFICES ASSUME NEW b \in Attempts, attempt'[b].at = "refused"
               PROVE  Limit <= Cardinality(Filling(attempt[b].id, attempt[b].judged)' \ {b})
    BY <1>4, <1>5 DEF RefusedAreFull
  <2>1. b # a /\ attempt'[b] = attempt[b]
    BY <1>4, <1>5
  <2>2. \A e, f : Filling(e, f) \subseteq Filling(e, f)'
    BY <1>10, <1>11 DEF Filling
  <2> QED
    BY <1>8, <1>9, <2>1, <2>2, RefusedStay
<1> QED
  BY <1>7, <1>8, <1>9, <1>12, <1>13, <1>14 DEF LimiterInv

\* A verdict changes no count of Redis's, and nobody else's attempt.
LEMMA VerdictKeeps ==
    ASSUME LimiterInv, UNCHANGED <<redis, restarts, time>>, NEW a \in Attempts,
           attempt[a].at \in {"incr", "reply"},
           NEW v \in BOOLEAN, NEW d \in Days, NEW l \in Nat, Judge(a, v, d, l),
           d <= Today, l <= restarts[attempt[a].on] + 1,
           l = 0 => d = attempt[a].came /\ attempt[a].count > 0
                    /\ (v => attempt[a].count <= Limit)
    PROVE  /\ IsFiniteSet(Seen)' /\ \A b \in Attempts : AttemptOK(b)'
           /\ RedisCounts'
           /\ \A e, f : Counted(e, f)' = Counted(e, f)
           /\ \A e, f : Filling(e, f) \ {a} = Filling(e, f)' \ {a}
           /\ \A e, f : Judged("admitted", e, f)' =
                           Judged("admitted", e, f)
                             \cup (IF v /\ e = attempt[a].id /\ f = d THEN {a} ELSE {})
           /\ \A e, f : a \notin Judged("admitted", e, f)
           /\ \A j, e, f, k : Local(j, e, f, k)' =
                           Local(j, e, f, k)
                             \cup (IF v /\ e = attempt[a].id /\ f = d /\ j = attempt[a].on
                                        /\ k = l THEN {a} ELSE {})
           /\ \A b \in Attempts \ {a} : attempt'[b].at = "refused" =>
                 Limit <= Cardinality(Filling(attempt[b].id, attempt[b].judged)' \ {b})
<1> DEFINE n == attempt'[a]
<1>1. /\ n.at = (IF v THEN "admitted" ELSE "refused") /\ n.judged = d /\ n.life = l
      /\ n.on = attempt[a].on /\ n.id = attempt[a].id
      /\ n.came = attempt[a].came /\ n.count = attempt[a].count
  BY JudgeStep DEF LimiterInv
<1>2. /\ attempt'[a] = n /\ \A b \in Attempts : b # a => attempt'[b] = attempt[b]
  BY JudgeStep DEF LimiterInv
<1>3. Today' = Today /\ AttemptOK(a) /\ (v => n.at = "admitted") /\ (~v => n.at = "refused")
  BY <1>1 DEF Today, LimiterInv
<1> HIDE DEF n
<1>4. IsFiniteSet(Seen)'
  <2>1. Seen' = Seen
    BY <1>1, <1>2 DEF Seen
  <2> QED
    BY <2>1 DEF LimiterInv
<1>5. ASSUME NEW b \in Attempts PROVE AttemptOK(b)'
  <2>1. CASE b = a
    BY <1>1, <1>2, <1>3, <2>1 DEF AttemptOK
  <2>2. CASE b # a
    <3>1. AttemptOK(b)
      BY DEF LimiterInv
    <3> QED
      BY <1>2, <1>3, <2>2, <3>1 DEF AttemptOK
  <2> QED
    BY <2>1, <2>2
<1>6. \A e, f : Counted(e, f)' = Counted(e, f)
  BY <1>1, <1>2 DEF Counted
<1>7. RedisCounts'
  <2>1. \A b \in Attempts : /\ attempt'[b].count = attempt[b].count
                            /\ attempt'[b].id = attempt[b].id
                            /\ attempt'[b].came = attempt[b].came
    BY <1>1, <1>2
  <2> QED
    BY <1>6, <2>1 DEF LimiterInv, RedisCounts
<1>8. /\ \A e, f : Judged("admitted", e, f)' =
                      Judged("admitted", e, f)
                        \cup (IF v /\ e = attempt[a].id /\ f = d THEN {a} ELSE {})
      /\ \A e, f : a \notin Judged("admitted", e, f)
  BY <1>1, <1>2 DEF Judged
<1>9. \A j, e, f, k : Local(j, e, f, k)' =
                      Local(j, e, f, k)
                        \cup (IF v /\ e = attempt[a].id /\ f = d /\ j = attempt[a].on
                                   /\ k = l THEN {a} ELSE {})
  <2>1. ASSUME NEW j, NEW e, NEW f, NEW k, NEW b \in Attempts
        PROVE  b \in Local(j, e, f, k)' <=>
                  \/ b \in Local(j, e, f, k)
                  \/ b = a /\ v /\ e = attempt[a].id /\ f = d /\ j = attempt[a].on /\ k = l
    <3>1. CASE b = a
      BY <1>1, <1>2, <3>1 DEF Local, Judged
    <3>2. CASE b # a
      BY <1>2, <3>2 DEF Local, Judged
    <3> QED
      BY <3>1, <3>2
  <2>2. ASSUME NEW j, NEW e, NEW f, NEW k
        PROVE  Local(j, e, f, k)' = Local(j, e, f, k)
                  \cup (IF v /\ e = attempt[a].id /\ f = d /\ j = attempt[a].on
                             /\ k = l THEN {a} ELSE {})
    <3>1. Local(j, e, f, k)' \subseteq Attempts /\ Local(j, e, f, k) \subseteq Attempts
      BY DEF Local, Judged
    <3> QED
      BY <2>1, <3>1
  <2> QED
    BY <2>2
<1>10. \A e, f : Filling(e, f) \ {a} = Filling(e, f)' \ {a} /\ Filling(e, f) \subseteq Filling(e, f)'
  BY <1>6, <1>8 DEF Filling
<1>11. ASSUME NEW b \in Attempts \ {a}, attempt'[b].at = "refused"
       PROVE  Limit <= Cardinality(Filling(attempt[b].id, attempt[b].judged)' \ {b})
  <2>1. PICK e, f : e = attempt[b].id /\ f = attempt[b].judged
    OBVIOUS
  <2>2. attempt'[b] = attempt[b]
    BY <1>2
  <2>3. Limit <= Cardinality(Filling(e, f)' \ {b})
    BY <1>4, <1>5, <1>10, <1>11, <2>1, <2>2, RefusedStay
  <2> QED
    BY <2>1, <2>2, <2>3 DEF Filling, Counted, Judged
<1> QED
  BY <1>4, <1>5, <1>6, <1>7, <1>8, <1>9, <1>10, <1>11

\* Redis answers: the count it gave decides.
LEMMA DecideInv ==
    ASSUME LimiterInv, UNCHANGED outageVars, NEW a \in Attempts, Decide(a)
    PROVE  LimiterInv'
<1> DEFINE id == attempt[a].id
           d == attempt[a].came
           v == attempt[a].count <= Limit
<1>1. /\ attempt[a].at = "reply" /\ UNCHANGED <<redis, counts, restarts, time>>
      /\ Judge(a, v, d, 0) /\ Today' = Today
  BY DEF Decide, outageVars, Today
<1>2. /\ id \in Identities /\ d \in Days /\ attempt[a].count > 0
      /\ AttemptOK(a) /\ d <= Today /\ attempt[a].count \in Nat
      /\ restarts \in [Instances -> Nat]
      /\ v \in BOOLEAN /\ 0 <= restarts[attempt[a].on] + 1
  BY <1>1, AttemptIsTyped DEF LimiterInv, AttemptOK, LimiterTypeOK
<1>3. /\ attempt' \in [Attempts -> Attempt] /\ attempt'[a].id = id /\ attempt'[a].judged = d
      /\ attempt'[a].at = (IF v THEN "admitted" ELSE "refused")
  BY <1>1, <1>2, JudgeStep DEF LimiterInv
<1>4. v => attempt[a].count <= Limit
  OBVIOUS
<1>5. ~v => Limit + 1 <= attempt[a].count
  BY <1>2, LimiterAssumption
<1> HIDE DEF v
<1>6. /\ IsFiniteSet(Seen)' /\ \A b \in Attempts : AttemptOK(b)'
      /\ RedisCounts'
      /\ \A e, f : Filling(e, f) \ {a} = Filling(e, f)' \ {a}
      /\ \A e, f : Judged("admitted", e, f) \subseteq Judged("admitted", e, f)'
      /\ \A j, e, f : \A k \in Nat \ {0} : Local(j, e, f, k)' = Local(j, e, f, k)
      /\ \A b \in Attempts \ {a} : attempt'[b].at = "refused" =>
            Limit <= Cardinality(Filling(attempt[b].id, attempt[b].judged)' \ {b})
  <2>1. 0 \in Nat /\ attempt[a].at \in {"incr", "reply"}
    BY <1>1
  <2>2. /\ IsFiniteSet(Seen)' /\ \A b \in Attempts : AttemptOK(b)'
        /\ RedisCounts'
        /\ \A e, f : Filling(e, f) \ {a} = Filling(e, f)' \ {a}
        /\ \A e, f : Judged("admitted", e, f)' =
                       Judged("admitted", e, f)
                         \cup (IF v /\ e = attempt[a].id /\ f = d THEN {a} ELSE {})
        /\ \A j, e, f, k : Local(j, e, f, k)' =
                       Local(j, e, f, k)
                         \cup (IF v /\ e = attempt[a].id /\ f = d /\ j = attempt[a].on
                                    /\ k = 0 THEN {a} ELSE {})
        /\ \A b \in Attempts \ {a} : attempt'[b].at = "refused" =>
              Limit <= Cardinality(Filling(attempt[b].id, attempt[b].judged)' \ {b})
    BY <1>1, <1>2, <1>4, <2>1, VerdictKeeps
  <2> QED
    BY <2>2
<1>7. LimiterTypeOK'
  BY <1>1, <1>3 DEF LimiterInv, LimiterTypeOK, TimeOK
<1>8. InstancesCount'
  <2> SUFFICES ASSUME NEW j \in Instances, NEW e \in Identities, NEW f \in Days
               PROVE  /\ counts[j][<<e, f>>] <= Limit
                      /\ counts[j][<<e, f>>] <= Cardinality(Judged("admitted", e, f)')
                      /\ f = Today =>
                            Cardinality(Local(j, e, f, restarts[j] + 1)') <= counts[j][<<e, f>>]
                      /\ \A k \in 1..(restarts[j] + 1) : Cardinality(Local(j, e, f, k)') <= Limit
    BY <1>1 DEF InstancesCount
  <2>1. /\ counts[j][<<e, f>>] <= Limit
        /\ counts[j][<<e, f>>] <= Cardinality(Judged("admitted", e, f))
        /\ f = Today => Cardinality(Local(j, e, f, restarts[j] + 1)) <= counts[j][<<e, f>>]
        /\ \A k \in 1..(restarts[j] + 1) : Cardinality(Local(j, e, f, k)) <= Limit
    BY DEF LimiterInv, InstancesCount
  <2>2. /\ Cardinality(Judged("admitted", e, f)) <= Cardinality(Judged("admitted", e, f)')
        /\ Cardinality(Judged("admitted", e, f)) \in Nat
        /\ Cardinality(Judged("admitted", e, f)') \in Nat
    BY <1>6, NextGroupsAreFinite, GroupsAreFinite, FS_Subset
  <2>3. counts[j][<<e, f>>] \in Nat
    BY BucketsAreTyped DEF LimiterInv
  <2>4. \A k \in 1..(restarts[j] + 1) : Local(j, e, f, k)' = Local(j, e, f, k)
    BY <1>2, <1>6
  <2>5. Local(j, e, f, restarts[j] + 1)' = Local(j, e, f, restarts[j] + 1)
    <3>1. PICK k \in Nat \ {0} : k = restarts[j] + 1
      BY <1>2
    <3>2. Local(j, e, f, k)' = Local(j, e, f, k)
      BY <1>6
    <3> QED
      BY <1>1, <3>1, <3>2 DEF Local, Judged
  <2>6. counts[j][<<e, f>>] <= Cardinality(Judged("admitted", e, f)')
    BY <2>1, <2>2, <2>3
  <2> QED
    BY <2>1, <2>4, <2>5, <2>6
<1>9. RefusedAreFull'
  <2> SUFFICES ASSUME NEW b \in Attempts, attempt'[b].at = "refused"
               PROVE  Limit <= Cardinality(Filling(attempt[b].id, attempt[b].judged)' \ {b})
    BY DEF RefusedAreFull
  <2>1. CASE b # a
    BY <1>6, <2>1
  <2>2. CASE b = a
    <3>1. Limit + 1 <= attempt[a].count
      BY <1>3, <1>5, <2>2
    <3> DEFINE G == Filling(id, d) \ {a}
    <3>2. Counted(id, d) \ {a} \subseteq G
      BY DEF Filling
    <3>3. /\ attempt[a].count <= redis[<<id, d>>]
          /\ redis[<<id, d>>] = Cardinality(Counted(id, d)) /\ a \in Counted(id, d)
      BY <1>2 DEF AttemptOK, LimiterInv, RedisCounts, Counted
    <3>4. /\ IsFiniteSet(Counted(id, d)) /\ Cardinality(Counted(id, d)) \in Nat
          /\ IsFiniteSet(Filling(id, d))
      BY GroupsAreFinite
    <3>5. Cardinality(Counted(id, d) \ {a}) = Cardinality(Counted(id, d)) - 1
      BY <3>3, <3>4, FS_RemoveElement
    <3>6. Cardinality(Counted(id, d) \ {a}) <= Cardinality(G) /\ Cardinality(G) \in Nat
      BY <3>2, <3>4, FS_Subset, FS_CardinalityType
    <3>7. Limit <= Cardinality(G)
      BY <1>2, <3>1, <3>3, <3>4, <3>5, <3>6, LimiterAssumption
    <3>8. PICK e, f : e = id /\ f = d
      OBVIOUS
    <3>9. Limit <= Cardinality(Filling(e, f)' \ {a})
      BY <1>6, <3>7, <3>8
    <3> QED
      BY <1>3, <2>2, <3>8, <3>9 DEF Filling, Counted, Judged
  <2> QED
    BY <2>1, <2>2
<1> QED
  BY <1>6, <1>7, <1>8, <1>9 DEF LimiterInv

\* Redis does not: what the instance counted itself decides.
LEMMA FallBackInv ==
    ASSUME LimiterInv, UNCHANGED outageVars, NEW a \in Attempts, FallBack(a)
    PROVE  LimiterInv'
<1> DEFINE i == attempt[a].on
           id == attempt[a].id
           mine == <<id, Today>>
           v == counts[i][mine] < Limit
           l == restarts[i] + 1
<1>1. /\ i \in Instances /\ id \in Identities /\ Today \in Days /\ mine \in Buckets
      /\ attempt[a].at \in {"incr", "reply"} /\ restarts \in [Instances -> Nat]
      /\ l \in Nat /\ l # 0
      /\ Today \in Nat /\ counts \in [Instances -> [Buckets -> Nat]]
  <2>1. Today \in Days /\ Today \in Nat
    BY TodayIsADay DEF LimiterInv, LimiterTypeOK
  <2>2. attempt[a].at \in {"incr", "reply"} /\ AttemptOK(a)
    BY DEF FallBack, LimiterInv
  <2>3. i \in Instances /\ id \in Identities
    BY <2>2 DEF AttemptOK
  <2>4. restarts \in [Instances -> Nat] /\ counts \in [Instances -> [Buckets -> Nat]]
    BY DEF LimiterInv, LimiterTypeOK
  <2>5. <<id, Today>> \in Buckets
    BY <2>1, <2>3 DEF Buckets
  <2>6. l \in Nat /\ l # 0
    <3>1. PICK n \in Nat : n = restarts[i]
      BY <2>3, <2>4
    <3> QED
      BY <3>1
  <2> QED
    BY <2>1, <2>2, <2>3, <2>4, <2>5, <2>6
<1>2. Pruned(i)[mine] = counts[i][mine]
  BY <1>1 DEF Pruned
<1>3. /\ UNCHANGED <<redis, restarts, time>> /\ Today' = Today
      /\ Judge(a, v, Today, l)
      /\ counts' = [counts EXCEPT ![i] = IF v THEN [Pruned(i) EXCEPT ![mine] = @ + 1]
                                              ELSE Pruned(i)]
  BY <1>2 DEF FallBack, HasRoom, outageVars, Today
<1> HIDE DEF v
<1>4. /\ \A j \in Instances : j # i => counts'[j] = counts[j]
      /\ \A e \in Identities, f \in Days :
            counts'[i][<<e, f>>] = IF f # Today THEN 0
                                   ELSE IF v /\ e = id THEN counts[i][<<e, f>>] + 1
                                        ELSE counts[i][<<e, f>>]
      /\ counts' \in [Instances -> [Buckets -> Nat]]
  <2> DEFINE K == IF v THEN [Pruned(i) EXCEPT ![mine] = @ + 1] ELSE Pruned(i)
  <2>1. /\ Pruned(i) \in [Buckets -> Nat]
        /\ \A b \in Buckets : Pruned(i)[b] = IF b[2] = Today THEN counts[i][b] ELSE 0
    BY <1>1 DEF Pruned
  <2>2. /\ K \in [Buckets -> Nat]
        /\ \A b \in Buckets : K[b] = IF v /\ b = mine THEN Pruned(i)[b] + 1 ELSE Pruned(i)[b]
    <3>1. PICK P, x : P = Pruned(i) /\ x = mine
      OBVIOUS
    <3>2. P \in [Buckets -> Nat] /\ x \in Buckets
      BY <1>1, <2>1, <3>1
    <3>3. K = IF v THEN [P EXCEPT ![x] = @ + 1] ELSE P
      BY <3>1
    <3> HIDE DEF K, mine, i
    <3>4. /\ K \in [Buckets -> Nat]
          /\ \A b \in Buckets : K[b] = IF v /\ b = x THEN P[b] + 1 ELSE P[b]
      BY <3>2, <3>3
    <3> QED
      BY <3>1, <3>4
  <2> HIDE DEF K
  <2>3. counts' = [counts EXCEPT ![i] = K]
    BY <1>3 DEF K
  <2>4. counts'[i] = K /\ counts' \in [Instances -> [Buckets -> Nat]]
        /\ \A j \in Instances : j # i => counts'[j] = counts[j]
    BY <1>1, <2>2, <2>3
  <2>5. ASSUME NEW e \in Identities, NEW f \in Days
        PROVE  K[<<e, f>>] = IF f # Today THEN 0
                                   ELSE IF v /\ e = id THEN counts[i][<<e, f>>] + 1
                                        ELSE counts[i][<<e, f>>]
    BY <1>1, <2>1, <2>2 DEF Buckets
  <2> QED
    BY <2>4, <2>5
<1>5. /\ v \in BOOLEAN /\ attempt' \in [Attempts -> Attempt] /\ attempt'[a].id = id
      /\ attempt'[a].judged = Today /\ attempt'[a].at = (IF v THEN "admitted" ELSE "refused")
  <2>1. v \in BOOLEAN
    BY DEF v
  <2> QED
    BY <1>1, <1>3, <2>1, JudgeStep DEF LimiterInv
<1>6. /\ IsFiniteSet(Seen)' /\ \A b \in Attempts : AttemptOK(b)'
      /\ RedisCounts'
      /\ \A e, f : Filling(e, f) \ {a} = Filling(e, f)' \ {a}
      /\ \A e, f : Judged("admitted", e, f)' =
                     Judged("admitted", e, f) \cup (IF v /\ e = id /\ f = Today THEN {a} ELSE {})
      /\ \A e, f : a \notin Judged("admitted", e, f)
      /\ \A j, e, f, k : Local(j, e, f, k)' =
                     Local(j, e, f, k)
                       \cup (IF v /\ e = id /\ f = Today /\ j = i /\ k = l THEN {a} ELSE {})
      /\ \A b \in Attempts \ {a} : attempt'[b].at = "refused" =>
            Limit <= Cardinality(Filling(attempt[b].id, attempt[b].judged)' \ {b})
  <2>1. Today <= Today /\ l <= restarts[attempt[a].on] + 1
    BY <1>1
  <2> QED
    BY <1>1, <1>3, <1>5, <2>1, VerdictKeeps
<1>7. LimiterTypeOK'
  BY <1>3, <1>4, <1>5 DEF LimiterInv, LimiterTypeOK, TimeOK
<1>8. InstancesCount'
  <2> SUFFICES ASSUME NEW j \in Instances, NEW e \in Identities, NEW f \in Days,
                      NEW m \in Nat, m = restarts[j] + 1
               PROVE  /\ counts'[j][<<e, f>>] <= Limit
                      /\ counts'[j][<<e, f>>] <= Cardinality(Judged("admitted", e, f)')
                      /\ f = Today => Cardinality(Local(j, e, f, m)') <= counts'[j][<<e, f>>]
                      /\ \A k \in 1..m : Cardinality(Local(j, e, f, k)') <= Limit
    <3>1. SUFFICES ASSUME NEW j \in Instances, NEW e \in Identities, NEW f \in Days
                   PROVE  /\ counts'[j][<<e, f>>] <= Limit
                          /\ counts'[j][<<e, f>>] <= Cardinality(Judged("admitted", e, f)')
                          /\ f = Today => Cardinality(Local(j, e, f, restarts[j] + 1)')
                                             <= counts'[j][<<e, f>>]
                          /\ \A k \in 1..(restarts[j] + 1) :
                                Cardinality(Local(j, e, f, k)') <= Limit
      BY <1>3 DEF InstancesCount, Local, Judged
    <3>2. restarts[j] \in Nat
      BY <1>1
    <3>3. PICK m \in Nat : m = restarts[j] + 1
      BY <3>2
    <3>4. Local(j, e, f, restarts[j] + 1)' = Local(j, e, f, m)'
      BY <1>3, <3>3 DEF Local, Judged
    <3> QED
      BY <3>3, <3>4
  <2> DEFINE c == counts[j][<<e, f>>]
             n == counts'[j][<<e, f>>]
             A == Judged("admitted", e, f)
  <2>1. /\ c \in Nat /\ c <= Limit /\ c <= Cardinality(A)
        /\ f = Today => Cardinality(Local(j, e, f, m)) <= c
        /\ \A k \in 1..m : Cardinality(Local(j, e, f, k)) <= Limit
    BY BucketsAreTyped DEF LimiterInv, InstancesCount
  <2>2. /\ IsFiniteSet(A) /\ Cardinality(A) \in Nat /\ a \notin A
        /\ \A k : /\ IsFiniteSet(Local(j, e, f, k)) /\ Cardinality(Local(j, e, f, k)) \in Nat
                  /\ a \notin Local(j, e, f, k)
    <3>1. IsFiniteSet(A) /\ Cardinality(A) \in Nat /\ a \notin A
      BY <1>6, GroupsAreFinite
    <3>2. \A k : IsFiniteSet(Local(j, e, f, k)) /\ Cardinality(Local(j, e, f, k)) \in Nat
      BY GroupsAreFinite
    <3>3. \A k : a \notin Local(j, e, f, k)
      BY <3>1 DEF Local
    <3> QED
      BY <3>1, <3>2, <3>3
  <2>3. CASE v /\ e = id /\ f = Today /\ j = i
    <3>1. n = c + 1 /\ c < Limit /\ m = l
      <4>1. m = l
        BY <2>3
      <4>2. v /\ e = id /\ f = Today /\ j = i
        BY <2>3
      <4>3. n = c + 1
        BY <1>4, <4>2
      <4>4. c < Limit
        BY <4>2 DEF v
      <4> QED
        BY <4>1, <4>3, <4>4
    <3>2. A' = A \cup {a} /\ Cardinality(A \cup {a}) = Cardinality(A) + 1
      BY <1>6, <2>2, <2>3, FS_AddElement
    <3>3. \A k : k # l => Local(j, e, f, k)' = Local(j, e, f, k)
      BY <1>6
    <3>4. PICK k : k = l
      OBVIOUS
    <3>5. /\ Local(j, e, f, k)' = Local(j, e, f, k) \cup {a}
          /\ Cardinality(Local(j, e, f, k) \cup {a}) = Cardinality(Local(j, e, f, k)) + 1
      <4>1. Local(j, e, f, k)' = Local(j, e, f, k) \cup {a}
        BY <1>6, <2>3, <3>4
      <4> DEFINE X == Local(j, e, f, k)
      <4>2. IsFiniteSet(X) /\ a \notin X
        BY <2>2
      <4>3. Cardinality(X \cup {a}) = Cardinality(X) + 1
        <5> HIDE DEF X
        <5> QED
          BY <4>2, FS_AddElement
      <4> QED
        BY <4>1, <4>3
    <3>6. Cardinality(Local(j, e, f, k)') <= n /\ Cardinality(Local(j, e, f, k)') \in Nat
      <4>1. Cardinality(Local(j, e, f, k)) <= c /\ Cardinality(Local(j, e, f, k)) \in Nat
        <5>1. k = m /\ f = Today
          BY <2>3, <3>1, <3>4
        <5> QED
          BY <2>1, <2>2, <5>1
      <4>2. Cardinality(Local(j, e, f, k)') = Cardinality(Local(j, e, f, k)) + 1
        BY <3>5
      <4> HIDE DEF c, n
      <4> QED
        BY <2>1, <3>1, <4>1, <4>2
    <3>7. n <= Limit /\ n <= Cardinality(A')
      <4>1. Cardinality(A') = Cardinality(A) + 1
        BY <3>2
      <4> HIDE DEF A, c, n
      <4> QED
        BY <2>1, <2>2, <3>1, <4>1, LimiterAssumption
    <3>8. Cardinality(Local(j, e, f, k)') <= Limit
      BY <2>1, <3>1, <3>6, <3>7, LimiterAssumption
    <3>9. \A x \in 1..m : Cardinality(Local(j, e, f, x)') <= Limit
      BY <2>1, <3>3, <3>4, <3>8
    <3>10. Local(j, e, f, m)' = Local(j, e, f, k)'
      BY <3>1, <3>4 DEF Local, Judged
    <3> QED
      BY <3>6, <3>7, <3>9, <3>10
  <2>4. CASE ~(v /\ e = id /\ f = Today /\ j = i)
    <3>1. \A k : Local(j, e, f, k)' = Local(j, e, f, k)
      BY <1>6, <2>4
    <3>2. A \subseteq A' /\ IsFiniteSet(A') /\ Cardinality(A') \in Nat
      BY <1>6, NextGroupsAreFinite
    <3>3. Cardinality(A) <= Cardinality(A')
      BY <3>2, FS_Subset
    <3>4. n = c \/ (n = 0 /\ f # Today)
      BY <1>4, <2>4
    <3>5. n <= Limit /\ n <= Cardinality(A')
      BY <2>1, <2>2, <3>2, <3>3, <3>4, LimiterAssumption
    <3> QED
      BY <2>1, <3>1, <3>4, <3>5
  <2> QED
    BY <2>3, <2>4
<1>9. RefusedAreFull'
  <2> SUFFICES ASSUME NEW b \in Attempts, attempt'[b].at = "refused"
               PROVE  Limit <= Cardinality(Filling(attempt[b].id, attempt[b].judged)' \ {b})
    BY DEF RefusedAreFull
  <2>1. CASE b # a
    BY <1>6, <2>1
  <2>2. CASE b = a
    <3> DEFINE A == Judged("admitted", id, Today)
    <3>1. counts[i][mine] \in Nat /\ Limit <= counts[i][mine]
      <4>1. counts[i][mine] \in Nat
        BY <1>1
      <4>2. ~ v
        BY <1>5, <2>2
      <4>3. ~(counts[i][mine] < Limit)
        BY <4>2 DEF v
      <4> HIDE DEF i, mine
      <4> QED
        BY <4>1, <4>3, LimiterAssumption
    <3>2. counts[i][mine] <= Cardinality(A)
      BY <1>1 DEF LimiterInv, InstancesCount
    <3>3. /\ IsFiniteSet(A) /\ Cardinality(A) \in Nat
          /\ IsFiniteSet(Filling(id, Today)) /\ a \notin A
      BY <1>6, GroupsAreFinite
    <3> DEFINE G == Filling(id, Today) \ {a}
    <3>4. A \subseteq G /\ IsFiniteSet(G)
      BY <3>3, FS_Subset DEF Filling
    <3>5. Cardinality(A) <= Cardinality(G) /\ Cardinality(G) \in Nat
      BY <3>4, FS_Subset, FS_CardinalityType
    <3>6. Limit <= Cardinality(G)
      BY <3>1, <3>2, <3>3, <3>5, LimiterAssumption
    <3>7. PICK e, f : e = id /\ f = Today
      OBVIOUS
    <3>8. Limit <= Cardinality(Filling(e, f)' \ {a})
      BY <1>6, <3>6, <3>7
    <3> QED
      BY <1>5, <2>2, <3>7, <3>8 DEF Filling, Counted, Judged
  <2> QED
    BY <2>1, <2>2
<1> QED
  BY <1>6, <1>7, <1>8, <1>9 DEF LimiterInv

LEMMA LimiterStepInv ==
    ASSUME LimiterInv,
           \/ [OutageNext]_outageVars /\ UNCHANGED limiterVars
           \/ LimiterNext /\ UNCHANGED outageVars
    PROVE  LimiterInv'
<1>1. CASE [OutageNext]_outageVars /\ UNCHANGED limiterVars
  BY <1>1, OutageStepInv
<1>2. CASE LimiterNext /\ UNCHANGED outageVars
  BY <1>2, ArrivesInv, IncrementInv, DecideInv, FallBackInv, RestartInv DEF LimiterNext
<1> QED
  BY <1>1, <1>2

-----------------------------------------------------------------------------
(* Readiness: a probe begins only when the report of the one before is old. *)

Poll == [at : {"idle", "queued", "supabase", "redis"}, ready : BOOLEAN]

\* A poller that holds the lock.
Holds(p) == poller[p].at \in {"supabase", "redis"}

ReadinessTypeOK ==
    /\ time \in Nat
    /\ report = <<>> \/ (report # <<>> /\ report[1].at \in Nat /\ report[1].at <= time)
    /\ poller \in [Pollers -> Poll]
    /\ probes \in Seq(Nat) /\ Len(probes) <= 2
    /\ probes # <<>> => probes[1] <= time
    /\ Len(probes) = 2 => probes[1] >= probes[2] + CacheSeconds

\* The lock lets one in at a time, and who leaves it leaves a report that is
\* no older than the probe it is of.
ReadinessInv ==
    /\ ReadinessTypeOK
    /\ \A p, q \in Pollers : Holds(p) /\ Holds(q) => p = q
    /\ probes # <<>> /\ ~Locked => report # <<>> /\ report[1].at >= probes[1]

LEMMA ReadinessInitInv == OutageInit /\ ReadinessInit => ReadinessInv
BY DEF OutageInit, ReadinessInit, ReadinessInv, ReadinessTypeOK, Idle, Poll, Holds

\* What a step does to the poller that takes it.
LEMMA PollerMoves ==
    ASSUME ReadinessInv, NEW p \in Pollers, NEW n \in Poll, poller' = [poller EXCEPT ![p] = n]
    PROVE  /\ poller' \in [Pollers -> Poll] /\ poller'[p] = n
           /\ \A q \in Pollers : q # p => poller'[q] = poller[q]
BY DEF ReadinessInv, ReadinessTypeOK

\* A poller outside the lock moves without it, and nothing else does.
LEMMA WaitingMoves ==
    ASSUME ReadinessInv, NEW p \in Pollers, NEW n \in Poll, poller' = [poller EXCEPT ![p] = n],
           ~Holds(p), n.at \notin {"supabase", "redis"}, UNCHANGED <<time, report, probes>>
    PROVE  ReadinessInv'
<1>1. /\ poller' \in [Pollers -> Poll] /\ poller'[p] = n
      /\ \A q \in Pollers : q # p => poller'[q] = poller[q]
  BY PollerMoves
<1>2. \A q \in Pollers : Holds(q)' <=> Holds(q)
  BY <1>1 DEF Holds
<1>3. Locked' <=> Locked
  BY <1>2 DEF Locked, Holds
<1>4. ReadinessTypeOK'
  BY <1>1 DEF ReadinessInv, ReadinessTypeOK
<1> QED
  BY <1>2, <1>3, <1>4 DEF ReadinessInv

\* A probe begins a cache lifetime after the one before.
LEMMA ProbeInv ==
    ASSUME ReadinessInv, NEW p \in Pollers, ~Locked, ~Fresh, Probe(p), UNCHANGED time
    PROVE  ReadinessInv'
<1> DEFINE n == [poller[p] EXCEPT !.at = "supabase"]
<1>1. poller[p] \in Poll /\ poller \in [Pollers -> Poll] /\ time \in Nat /\ CacheSeconds \in Nat
  BY ReadinessAssumption DEF ReadinessInv, ReadinessTypeOK
<1>2. n \in Poll /\ n.at = "supabase" /\ poller' = [poller EXCEPT ![p] = n]
  BY <1>1 DEF Poll, Probe
<1> HIDE DEF n
<1>3. /\ poller' \in [Pollers -> Poll] /\ poller'[p] = n
      /\ \A q \in Pollers : q # p => poller'[q] = poller[q]
  BY <1>2, PollerMoves
<1>4. \A q \in Pollers : ~Holds(q)
  BY DEF Locked, Holds
<1>5. \A q \in Pollers : Holds(q)' <=> q = p
  BY <1>2, <1>3, <1>4 DEF Holds
<1>6. Locked'
  BY <1>5 DEF Locked, Holds
<1> DEFINE kept == IF probes = <<>> THEN 0 ELSE 1
           older == SubSeq(probes, 1, kept)
<1>7. /\ probes \in Seq(Nat) /\ older \in Seq(Nat)
      /\ probes = <<>> => Len(older) = 0
      /\ probes # <<>> => Len(older) = 1 /\ older[1] = probes[1] /\ probes[1] \in Nat
  <2>1. probes \in Seq(Nat) /\ Len(probes) \in Nat
    BY DEF ReadinessInv, ReadinessTypeOK
  <2>2. CASE probes = <<>>
    BY <2>1, <2>2
  <2>3. CASE probes # <<>>
    BY <2>1, <2>3
  <2> QED
    BY <2>2, <2>3
<1>8. /\ probes' \in Seq(Nat) /\ Len(probes') = Len(older) + 1 /\ probes'[1] = time
      /\ probes # <<>> => probes'[2] = probes[1]
  <2> DEFINE new == <<time>>
  <2>1. new \in Seq(Nat) /\ Len(new) = 1 /\ new[1] = time
    BY <1>1
  <2>2. probes' = new \o older
    BY DEF Probe
  <2> HIDE DEF kept
  <2> HIDE DEF new, older
  <2>3. /\ new \o older \in Seq(Nat) /\ Len(new \o older) = 1 + Len(older)
        /\ \A i \in 1..(1 + Len(older)) :
              (new \o older)[i] = IF i <= 1 THEN new[i] ELSE older[i - 1]
    <3>1. older \in Seq(Nat)
      BY <1>7
    <3>2. /\ new \o older \in Seq(Nat) /\ Len(new \o older) = Len(new) + Len(older)
          /\ \A i \in 1..(Len(new) + Len(older)) :
                (new \o older)[i] = IF i <= Len(new) THEN new[i] ELSE older[i - Len(new)]
      BY <2>1, <3>1, ConcatProperties
    <3> QED
      BY <2>1, <3>2
  <2>4. Len(older) \in Nat
    BY <1>7
  <2>5. 1 \in 1..(1 + Len(older)) /\ 1 + Len(older) = Len(older) + 1
    BY <2>4
  <2>6. (new \o older)[1] = time
    BY <2>1, <2>3, <2>5
  <2>7. probes # <<>> => (new \o older)[2] = probes[1]
    <3>1. Len(older) = 1 => 2 \in 1..(1 + Len(older)) /\ ~(2 <= 1) /\ 2 - 1 = 1
      OBVIOUS
    <3> QED
      BY <1>7, <2>3, <3>1
  <2> QED
    BY <2>2, <2>3, <2>5, <2>6, <2>7
<1> HIDE DEF older, kept
<1>9. ReadinessTypeOK'
  <2>1. UNCHANGED <<time, report>>
    BY DEF Probe
  <2>2. ASSUME Len(probes') = 2 PROVE probes'[1] >= probes'[2] + CacheSeconds
    <3>1. probes # <<>>
      <4> SUFFICES ASSUME probes = <<>> PROVE FALSE
        OBVIOUS
      <4>1. Len(older) = 0 /\ Len(probes') = Len(older) + 1
        BY <1>7, <1>8
      <4>2. Len(probes') = 1
        BY <4>1
      <4> QED
        BY <2>2, <4>2
    <3>2. report # <<>> /\ report[1].at >= probes[1] /\ report[1].at \in Nat
      BY <3>1 DEF ReadinessInv, ReadinessTypeOK
    <3>3. time >= report[1].at + CacheSeconds
      BY <1>1, <3>2 DEF Fresh
    <3>4. time >= probes[1] + CacheSeconds
      BY <1>1, <1>7, <3>1, <3>2, <3>3
    <3>5. probes'[1] = time /\ probes'[2] = probes[1]
      BY <1>8, <3>1
    <3> QED
      BY <3>4, <3>5
  <2>3. Len(probes') <= 2 /\ probes'[1] <= time
    <3> DEFINE m == Len(older)
               k == Len(probes')
    <3>1. m \in Nat /\ k \in Nat
      BY <1>7, <1>8
    <3>2. m = 0 \/ m = 1
      BY <1>7
    <3>3. k = m + 1 /\ probes'[1] = time
      BY <1>8
    <3> HIDE DEF m, k
    <3>4. k <= 2
      BY <3>1, <3>2, <3>3
    <3> QED
      BY <1>1, <3>3, <3>4 DEF k
  <2> QED
    BY <1>1, <1>3, <1>8, <2>1, <2>2, <2>3 DEF ReadinessInv, ReadinessTypeOK
<1> QED
  BY <1>5, <1>6, <1>9 DEF ReadinessInv

LEMMA ReadinessStepInv ==
    ASSUME ReadinessInv, ReadinessNext, UNCHANGED outageVars
    PROVE  ReadinessInv'
<1>1. UNCHANGED time /\ poller \in [Pollers -> Poll] /\ time \in Nat
  BY DEF outageVars, ReadinessInv, ReadinessTypeOK
<1>2. Idle \in Poll /\ Idle.at = "idle"
  BY DEF Idle, Poll
<1>3. ASSUME NEW p \in Pollers, Check(p) PROVE ReadinessInv'
  <2>1. poller[p] \in Poll /\ ~Holds(p)
    BY <1>1, <1>3 DEF Check, Holds
  <2>2. CASE poller' = [poller EXCEPT ![p] = Idle]
    BY <1>1, <1>2, <1>3, <2>1, <2>2, WaitingMoves DEF Check
  <2>3. CASE poller' = [poller EXCEPT ![p].at = "queued"]
    <3> DEFINE n == [poller[p] EXCEPT !.at = "queued"]
    <3>1. n \in Poll /\ n.at = "queued" /\ poller' = [poller EXCEPT ![p] = n]
      BY <1>1, <2>1, <2>3 DEF Poll
    <3> HIDE DEF n
    <3> QED
      BY <1>1, <1>3, <2>1, <3>1, WaitingMoves DEF Check
  <2> QED
    BY <1>3, <2>2, <2>3 DEF Check, Told
<1>4. ASSUME NEW p \in Pollers, Enter(p) PROVE ReadinessInv'
  <2>1. ~Locked /\ ~Holds(p)
    BY <1>4 DEF Enter, Holds
  <2>2. CASE Fresh /\ Told(p) /\ UNCHANGED <<report, probes>>
    BY <1>1, <1>2, <2>1, <2>2, WaitingMoves DEF Told
  <2>3. CASE ~Fresh /\ Probe(p)
    BY <1>1, <2>1, <2>3, ProbeInv
  <2> QED
    BY <1>4, <2>2, <2>3 DEF Enter
<1>5. ASSUME NEW p \in Pollers, CheckSupabase(p) PROVE ReadinessInv'
  <2> DEFINE n == [at |-> "redis", ready |-> SupabaseAnswers]
  <2>1. n \in Poll /\ n.at = "redis" /\ Holds(p)
    BY <1>5 DEF Poll, CheckSupabase, Holds, SupabaseAnswers
  <2>2. poller' = [poller EXCEPT ![p] = n] /\ UNCHANGED <<report, probes>>
    BY <1>5 DEF CheckSupabase
  <2> HIDE DEF n
  <2>3. /\ poller' \in [Pollers -> Poll] /\ poller'[p] = n
        /\ \A q \in Pollers : q # p => poller'[q] = poller[q]
    BY <2>1, <2>2, PollerMoves
  <2>4. \A q \in Pollers : Holds(q)' <=> Holds(q)
    BY <2>1, <2>3 DEF Holds
  <2>5. Locked'
    BY <2>1, <2>4 DEF Locked, Holds
  <2>6. ReadinessTypeOK'
    BY <1>1, <2>2, <2>3 DEF ReadinessInv, ReadinessTypeOK
  <2> QED
    BY <2>4, <2>5, <2>6 DEF ReadinessInv
<1>6. ASSUME NEW p \in Pollers, CheckRedis(p) PROVE ReadinessInv'
  <2>1. /\ Holds(p) /\ poller' = [poller EXCEPT ![p] = Idle] /\ probes' = probes
        /\ report' = <<[ready |-> poller[p].ready, at |-> time]>>
    BY <1>6 DEF CheckRedis, Holds, Told, Report
  <2>2. /\ poller' \in [Pollers -> Poll] /\ poller'[p] = Idle
        /\ \A q \in Pollers : q # p => poller'[q] = poller[q]
    BY <1>2, <2>1, PollerMoves
  <2>3. \A q \in Pollers : ~Holds(q)'
    BY <1>2, <2>1, <2>2 DEF Holds, ReadinessInv
  <2>4. report' # <<>> /\ report'[1].at = time
    BY <2>1
  <2>5. ReadinessTypeOK'
    BY <1>1, <2>1, <2>2, <2>4 DEF ReadinessInv, ReadinessTypeOK
  <2>6. probes # <<>> => probes[1] <= time
    BY DEF ReadinessInv, ReadinessTypeOK
  <2>7. probes # <<>> => probes[1] \in Nat
    BY DEF ReadinessInv, ReadinessTypeOK
  <2>8. probes' # <<>> => report'[1].at >= probes'[1]
    BY <1>1, <2>1, <2>4, <2>6, <2>7
  <2> QED
    BY <2>3, <2>4, <2>5, <2>8 DEF ReadinessInv
<1> QED
  BY <1>3, <1>4, <1>5, <1>6 DEF ReadinessNext

\* Time only makes reports older.
LEMMA ReadinessWaits ==
    ASSUME ReadinessInv, [OutageNext]_outageVars, UNCHANGED readinessVars
    PROVE  ReadinessInv'
<1>1. UNCHANGED <<report, poller, probes>> /\ time \in Nat
  BY DEF readinessVars, ReadinessInv, ReadinessTypeOK
<1>2. time' = time \/ time' = time + 1
  BY DEF OutageNext, Tick, GoDown, ComeBack, outageVars
<1>3. time' \in Nat /\ time <= time'
  BY <1>1, <1>2
<1>4. ReadinessTypeOK'
  <2>1. report' = <<>> \/ (report' # <<>> /\ report'[1].at \in Nat /\ report'[1].at <= time')
    BY <1>1, <1>3 DEF ReadinessInv, ReadinessTypeOK
  <2>2. probes # <<>> => probes[1] \in Nat /\ probes[1] <= time
    BY DEF ReadinessInv, ReadinessTypeOK
  <2>3. probes # <<>> => probes[1] <= time'
    BY <1>1, <1>3, <2>2
  <2> QED
    BY <1>1, <1>3, <2>1, <2>3 DEF ReadinessInv, ReadinessTypeOK
<1>5. (\A p \in Pollers : Holds(p)' <=> Holds(p)) /\ (Locked' <=> Locked)
  BY <1>1 DEF Holds, Locked
<1> QED
  BY <1>1, <1>4, <1>5 DEF ReadinessInv

LEMMA ReadinessInvImplies == ReadinessInv => ProbesApart
BY DEF ReadinessInv, ReadinessTypeOK, ProbesApart

-----------------------------------------------------------------------------
(* The theorems.                                                            *)

\* A behaviour of the front door is one of sessions, to whom looks at them.
LEMMA IsASessionsBehaviour == Spec => SessionsSpec
<1>1. Init => SessionsInit
  BY DEF Init
<1>2. [Next]_vars => [SessionsNext]_sessionVars
  BY DEF Next, vars
<1> QED
  BY <1>1, <1>2, PTL DEF Spec, SessionsSpec

\* A behaviour of the front door is one of the account routes: what is proved
\* of Accounts on its own holds behind the front door.
THEOREM AccountsAreLeftAlone == Spec => AccountsSpec
<1>1. Init => AccountsInit
  BY DEF Init
<1>2. [Next]_vars => [AccountsNext]_accountVars
  BY DEF Next, vars
<1> QED
  BY <1>1, <1>2, PTL DEF Spec, AccountsSpec

LEMMA SessionsInvariant == Spec => []SessionsInv /\ []SpendersOK
<1>1. SessionsSpec => []SessionsInv /\ []SpendersOK
  BY SessionsInitInv, SessionsStepInv, SpendersInit, SpendersStep, PTL DEF SessionsSpec
<1> QED
  BY <1>1, IsASessionsBehaviour, PTL

\* Nobody is served on a session that ended (auth.py: sign-out, revoked and
\* unknown refresh tokens), whatever cookies are still about.
THEOREM EndedIsEnded == Spec => []EndedSessionsAreNotServed
BY SessionsInvariant, SessionsInvImplies, PTL

\* A browser whose cookies no longer work was signed out for a cause it saw:
\* no pair is spent by a visit that the browser believes went well.
THEOREM NobodyIsSignedOutSilently == Spec => []SignedOutForCause
BY SessionsInvariant, SessionsInvImplies, PTL

LEMMA LimiterInvariant == Spec => []LimiterInv
<1>1. Init => LimiterInv
  BY LimiterInitInv DEF Init
<1>2. LimiterInv /\ [Next]_vars => LimiterInv'
  <2> SUFFICES ASSUME LimiterInv, [Next]_vars PROVE LimiterInv'
    OBVIOUS
  <2>1. \/ [OutageNext]_outageVars /\ UNCHANGED limiterVars
        \/ LimiterNext /\ UNCHANGED outageVars
    BY DEF Next, vars
  <2> QED
    BY <2>1, LimiterStepInv
<1> QED
  BY <1>1, <1>2, PTL DEF Spec

\* However Redis comes and goes, instances are recycled and midnight passes,
\* the limit of sign-in attempts is passed once per life that fell back and
\* no more, and nobody is refused before it (rate_limit.py).
THEOREM LimiterKeepsTheLimit == Spec => []LimitIsKept
<1>1. LimiterInv => LimitIsKept
  BY AdmittedWithinBound, RefusedWithinLimit DEF LimitIsKept
<1> QED
  BY <1>1, LimiterInvariant, PTL

LEMMA ReadinessInvariant == Spec => []ReadinessInv
<1>1. Init => ReadinessInv
  BY ReadinessInitInv DEF Init
<1>2. ReadinessInv /\ [Next]_vars => ReadinessInv'
  <2> SUFFICES ASSUME ReadinessInv, [Next]_vars PROVE ReadinessInv'
    OBVIOUS
  <2>1. \/ [OutageNext]_outageVars /\ UNCHANGED readinessVars
        \/ ReadinessNext /\ UNCHANGED outageVars
    BY DEF Next, vars
  <2> QED
    BY <2>1, ReadinessWaits, ReadinessStepInv
<1> QED
  BY <1>1, <1>2, PTL DEF Spec

\* However many poll, two probes of an instance begin a cache lifetime apart
\* (readiness.py).
THEOREM ProbesKeepApart == Spec => []ProbesApart
BY ReadinessInvariant, ReadinessInvImplies, PTL

\* Every variable of the sessions, the limiter and the checker keeps its type:
\* a cookie names a pair that was granted or none, a session that ended was
\* granted before, a report is no younger than the clock (accounts.py,
\* rate_limit.py, readiness.py).
THEOREM FrontDoorTypeCorrect == Spec => [](SessionsTypeOK /\ LimiterTypeOK /\ ReadinessTypeOK)
<1>1. SessionsInv /\ LimiterInv /\ ReadinessInv
        => SessionsTypeOK /\ LimiterTypeOK /\ ReadinessTypeOK
  BY DEF SessionsInv, LimiterInv, ReadinessInv
<1> QED
  BY <1>1, SessionsInvariant, LimiterInvariant, ReadinessInvariant, PTL

=============================================================================
