------------------------------- MODULE Sessions -------------------------------
(***************************************************************************)
(* A customer's browser session: the cookies of app/accounts.py, the       *)
(* sign-in, account and sign-out routes of app/api.py that read and set    *)
(* them, and SupabaseAuthClient.  Supabase Auth issues tokens in pairs, an *)
(* access token that expires and a refresh token good for one refresh; of  *)
(* both only the pair's number is kept, 0 for none.                        *)
(*                                                                         *)
(* A visit is one request of the browser, handled once.  It carries the    *)
(* cookies of the moment it was sent; its answer changes the cookies of    *)
(* the moment it arrives, and answers arrive in any order.  What a route   *)
(* does to the customer's keys is in Accounts; here it succeeds, answers   *)
(* an error, or lets an exception through.                                 *)
(***************************************************************************)
EXTENDS Integers, Sequences

CONSTANTS
    Visits,     \* requests of the browser
    MaxGrants,  \* bound: pairs of tokens issued
    MaxFlows,   \* bound: sign-ins begun
    MaxLapses   \* bound: calls and answers that go wrong

ASSUME SessionsAssumption ==
    /\ MaxGrants \in Nat
    /\ MaxFlows \in Nat
    /\ MaxLapses \in Nat

VARIABLES
    jar,     \* browser: the four cookies; the CSRF token is there or not
    grants,  \* Supabase Auth: the pairs issued, each with its session
    ended,   \* Supabase Auth: sessions signed out
    flows,   \* sign-ins begun; a verifier is the number of its flow
    coded,   \* Supabase Auth: flows whose code was exchanged
    visit,   \* each visit
    lapses   \* what has gone wrong

authVars == <<grants, ended, coded>>
sessionVars == <<jar, authVars, flows, visit, lapses>>

VisitKinds == {"page", "read", "change", "logout", "begin", "callback"}

NoVisit == [kind |-> "page", at |-> "idle", jar |-> [access |-> 0, refresh |-> 0,
            verifier |-> 0, csrf |-> FALSE], flow |-> 0, got |-> 0, spent |-> FALSE,
            served |-> 0, barred |-> {}, reply |-> "none"]

Pairs == 0..MaxGrants
Jars == [access : Pairs, refresh : Pairs, verifier : 0..MaxFlows, csrf : BOOLEAN]

Grant(session) == [session |-> session, expired |-> FALSE, spent |-> FALSE]

\* The session of a pair is named by the first pair issued in it.
Session(g) == grants[g].session
Live(g) == Session(g) \notin ended

\* is_plausible_access_token: there is one, and its expiry has not passed.
Plausible(g) == g # 0 /\ ~grants[g].expired

\* What Supabase Auth accepts, of an access token and of a refresh token.
Accepted(g) == Live(g) /\ ~grants[g].expired
Refreshable(g) == g # 0 /\ ~grants[g].spent /\ Live(g)

\* A browser that is not signed in, or that signed in some time ago.
SessionsInit ==
    /\ \/ grants = <<>> /\ jar = NoVisit.jar
       \/ /\ grants = <<Grant(1)>>
          /\ jar = [access |-> 1, refresh |-> 1, verifier |-> 0, csrf |-> TRUE]
    /\ ended = {}
    /\ flows = 0
    /\ coded = {}
    /\ visit = [v \in Visits |-> NoVisit]
    /\ lapses = 0

-----------------------------------------------------------------------------
(* Steps of a visit.                                                        *)

Lapse == lapses < MaxLapses /\ lapses' = lapses + 1
NoLapse == UNCHANGED lapses

Moves(v, where) == visit' = [visit EXCEPT ![v].at = where]

Conclude(v, what) == visit' = [visit EXCEPT ![v].at = "answered", ![v].reply = what]

\* An exception of httpx is caught by nobody: the platform answers 500.
Crash(v) == Lapse /\ Conclude(v, "failed")

Carried(v) == visit[v].jar

\* Browser: a visit is sent with the cookies of the moment.  The page's script
\* copies the CSRF cookie, if there is one, into the header of a POST.
Send(v, kind, flow) ==
    /\ visit[v].at = "idle"
    /\ kind = "callback" <=> flow # 0
    /\ visit' = [visit EXCEPT ![v] =
           [NoVisit EXCEPT !.kind = kind, !.jar = jar, !.flow = flow, !.barred = ended,
                !.at = CASE kind \in {"read", "change"} -> "access"
                         [] kind = "callback" -> "exchange"
                         [] OTHER -> "gate"]]
    /\ UNCHANGED <<jar, authVars, flows, lapses>>

\* dcf_page: nothing is asked of anybody.
Page(v) ==
    /\ visit[v].at = "gate" /\ visit[v].kind = "page"
    /\ Conclude(v, "ok")
    /\ UNCHANGED <<jar, authVars, flows, lapses>>

\* github_login and email_login: a verifier for the browser, unless the CSRF
\* token is missing, the limit reached, the address malformed or the mail refused.
BeginFlow(v) ==
    /\ visit[v].at = "gate" /\ visit[v].kind = "begin"
    /\ \/ /\ flows < MaxFlows
          /\ flows' = flows + 1
          /\ visit' = [visit EXCEPT ![v].at = "answered", ![v].reply = "ok", ![v].flow = flows + 1]
          /\ NoLapse
       \/ Conclude(v, "refused") /\ NoLapse /\ UNCHANGED flows
       \/ Crash(v) /\ UNCHANGED flows
    /\ UNCHANGED <<jar, authVars>>

\* logout: _require_csrf first; without an access token nothing is revoked.
LogoutGate(v) ==
    /\ visit[v].at = "gate" /\ visit[v].kind = "logout"
    /\ IF ~Carried(v).csrf THEN Conclude(v, "refused")
       ELSE IF Carried(v).access = 0 THEN Conclude(v, "signed_out")
       ELSE Moves(v, "access")
    /\ UNCHANGED <<jar, authVars, flows, lapses>>

\* AccountAuthError or SupabaseError: auth_callback redirects; _account_context
\* answers 401; logout suppresses both and goes on to revoke.
Denial(v) == CASE visit[v].kind = "logout" -> <<"revoke", "none">>
               [] visit[v].kind = "callback" -> <<"answered", "refused">>
               [] OTHER -> <<"answered", "denied">>

Denied(v) == visit' = [visit EXCEPT ![v].at = Denial(v)[1], ![v].reply = Denial(v)[2]]

\* Faulty variant: a token that looks right is taken for a session.
CheckAccessLocally(v) ==
    LET g == Carried(v).access IN
    /\ visit[v].at = "access"
    /\ Moves(v, IF Plausible(g) THEN "lookup" ELSE "refresh")
    /\ UNCHANGED <<jar, authVars, flows, lapses>>

\* get_current_customer, its first half: a token whose expiry has passed is not
\* shown to Supabase; one Supabase rejects leads to the refresh as well.
CheckAccess(v) ==
    LET g == Carried(v).access IN
    /\ visit[v].at = "access"
    /\ \/ ~Plausible(g) /\ Moves(v, "refresh") /\ NoLapse
       \/ /\ Plausible(g)
          /\ \/ Moves(v, IF Accepted(g) THEN "lookup" ELSE "refresh") /\ NoLapse
             \/ Lapse /\ Moves(v, "refresh")
             \/ Crash(v)
    /\ UNCHANGED <<jar, authVars, flows>>

\* The pair Supabase issues for a refresh token, once.  Its answer may be
\* unusable, or lost.
Issue(v, g) ==
    /\ grants' = Append([grants EXCEPT ![g].spent = TRUE], Grant(Session(g)))
    /\ \/ /\ visit' = [visit EXCEPT ![v].at = "confirm", ![v].got = Len(grants) + 1,
                                     ![v].spent = TRUE]
          /\ NoLapse
       \/ /\ \E end \in {Denial(v), <<"answered", "failed">>} :
                 visit' = [visit EXCEPT ![v].at = end[1], ![v].reply = end[2], ![v].spent = TRUE]
          /\ Lapse

\* get_current_customer, its second half.
Refresh(v) ==
    LET g == Carried(v).refresh IN
    /\ visit[v].at = "refresh"
    /\ \/ Refreshable(g) /\ Len(grants) < MaxGrants /\ Issue(v, g)
       \/ ~Refreshable(g) /\ Denied(v) /\ NoLapse /\ UNCHANGED grants
       \/ /\ g # 0
          /\ (Lapse /\ Denied(v)) \/ Crash(v)
          /\ UNCHANGED grants
    /\ UNCHANGED <<jar, ended, coded, flows>>

\* get_user with the new access token.
Confirm(v) ==
    LET g == visit[v].got IN
    /\ visit[v].at = "confirm"
    /\ \/ /\ Accepted(g)
          /\ Moves(v, IF visit[v].kind = "callback" THEN "provision" ELSE "lookup")
          /\ NoLapse
       \/ ~Accepted(g) /\ Denied(v) /\ NoLapse
       \/ Lapse /\ Denied(v)
       \/ Crash(v)
    /\ UNCHANGED <<jar, authVars, flows>>

\* _account_from_user: the customer row of the session's user.
FindCustomer(v) ==
    /\ visit[v].at = "lookup"
    /\ \/ Moves(v, IF visit[v].kind = "logout" THEN "audit" ELSE "route") /\ NoLapse
       \/ Lapse /\ Denied(v)
       \/ Crash(v)
    /\ UNCHANGED <<jar, authVars, flows>>

\* The pair the visit was let in by.
Shown(v) == IF visit[v].got # 0 THEN visit[v].got ELSE Carried(v).access

\* The rest of a route: it serves the customer, or refuses (403 for the CSRF
\* token, 404, 422), or an exception leaves it.
Route(v) ==
    /\ visit[v].at = "route"
    /\ \/ /\ visit[v].kind = "change" => Carried(v).csrf
          /\ visit' = [visit EXCEPT ![v].at = "answered", ![v].reply = "ok",
                                    ![v].served = Session(Shown(v))]
          /\ NoLapse
       \/ visit[v].kind = "change" /\ Conclude(v, "error") /\ NoLapse
       \/ Crash(v)
    /\ UNCHANGED <<jar, authVars, flows>>

\* The account.logout event; only a SupabaseError of it is suppressed.
AuditLogout(v) ==
    /\ visit[v].at = "audit"
    /\ \/ Moves(v, "revoke") /\ (NoLapse \/ Lapse)
       \/ Crash(v)
    /\ UNCHANGED <<jar, authVars, flows>>

\* SupabaseAuthClient.logout with the access token the visit came with, which
\* Supabase accepts only before its expiry: all sessions of the user end.
\* Errors are ignored, whether it took effect or not.
Revoke(v) ==
    LET g == Carried(v).access IN
    /\ visit[v].at = "revoke"
    /\ Conclude(v, "signed_out")
    /\ \/ /\ ended' = IF Accepted(g)
                      THEN {Session(h) : h \in DOMAIN grants} ELSE ended
          /\ NoLapse \/ Lapse
       \/ Lapse /\ UNCHANGED ended
    /\ UNCHANGED <<jar, grants, coded, flows>>

\* complete_login: the code is exchanged with the verifier of the browser; PKCE
\* fails unless both are of one flow.  The provider may have sent an error in
\* place of a code.
Exchange(v) ==
    LET f == visit[v].flow IN
    /\ visit[v].at = "exchange"
    /\ \/ /\ Carried(v).verifier = f /\ f \notin coded /\ Len(grants) < MaxGrants
          /\ coded' = coded \cup {f}
          /\ grants' = Append(grants, Grant(Len(grants) + 1))
          /\ \/ /\ visit' = [visit EXCEPT ![v].at = "confirm", ![v].got = Len(grants) + 1]
                /\ NoLapse
             \/ Lapse /\ Conclude(v, "refused")
             \/ Crash(v)
       \/ Conclude(v, "refused") /\ NoLapse /\ UNCHANGED <<grants, coded>>
       \/ Carried(v).verifier # 0 /\ Crash(v) /\ UNCHANGED <<grants, coded>>
    /\ UNCHANGED <<jar, ended, flows>>

\* _ensure_customer and the account.login event.
Provision(v) ==
    /\ visit[v].at = "provision"
    /\ \/ Conclude(v, "ok") /\ NoLapse
       \/ Lapse /\ Conclude(v, "refused")
       \/ Crash(v)
    /\ UNCHANGED <<jar, authVars, flows>>

-----------------------------------------------------------------------------
(* Answers and cookies.                                                     *)

\* Faulty variant: only the access token of the new pair is set.
WithSessionHalf(cookies, g) == [cookies EXCEPT !.access = g]

\* set_session_cookies
WithSession(cookies, g) == [cookies EXCEPT !.access = g, !.refresh = g]

\* _with_refreshed_session: the new pair, if there is one, and a CSRF token for
\* a browser that sent none.
WithRefreshed(v) ==
    LET kept == IF visit[v].got # 0 THEN WithSession(jar, visit[v].got) ELSE jar
    IN  [kept EXCEPT !.csrf = @ \/ ~Carried(v).csrf]

SignedOut(cookies) == [cookies EXCEPT !.access = 0, !.refresh = 0, !.csrf = FALSE]

\* The cookies once the answer has arrived.  A sign-out and a 401 clear the
\* session, the callback's error the verifier; other errors set nothing.
Cookies(v) ==
    LET kind == visit[v].kind
        reply == visit[v].reply
    IN  CASE reply = "ok" /\ kind \in {"page", "read", "change"} -> WithRefreshed(v)
          [] reply = "ok" /\ kind = "begin" -> [jar EXCEPT !.verifier = visit[v].flow]
          [] reply = "ok" /\ kind = "callback" ->
                 [WithSession(jar, visit[v].got) EXCEPT !.csrf = TRUE, !.verifier = 0]
          [] reply \in {"signed_out", "denied"} -> SignedOut(jar)
          [] reply = "refused" /\ kind = "callback" -> [jar EXCEPT !.verifier = 0]
          [] OTHER -> jar

\* An answer arrives, or is lost on the way.
Arrives(v) ==
    /\ visit[v].at = "answered"
    /\ \/ Moves(v, "done") /\ jar' = Cookies(v) /\ NoLapse
       \/ Moves(v, "lost") /\ Lapse /\ UNCHANGED jar
    /\ UNCHANGED <<authVars, flows>>

\* Time passes: an access token expires.
Expire(g) ==
    /\ g \in DOMAIN grants /\ ~grants[g].expired
    /\ grants' = [grants EXCEPT ![g].expired = TRUE]
    /\ UNCHANGED <<jar, ended, coded, flows, visit, lapses>>

\* The max_age of a cookie: the access token's own lifetime, or ten minutes.
DropCookie ==
    /\ \/ /\ jar.access # 0 /\ grants[jar.access].expired
          /\ jar' = [jar EXCEPT !.access = 0]
       \/ jar.verifier # 0 /\ jar' = [jar EXCEPT !.verifier = 0]
    /\ UNCHANGED <<authVars, flows, visit, lapses>>

VisitStep(v) ==
    \/ \E kind \in VisitKinds, flow \in 0..flows : Send(v, kind, flow)
    \/ Page(v)
    \/ BeginFlow(v)
    \/ LogoutGate(v)
    \/ CheckAccess(v)
    \/ Refresh(v)
    \/ Confirm(v)
    \/ FindCustomer(v)
    \/ Route(v)
    \/ AuditLogout(v)
    \/ Revoke(v)
    \/ Exchange(v)
    \/ Provision(v)
    \/ Arrives(v)

SessionsNext ==
    \/ \E v \in Visits : VisitStep(v)
    \/ \E g \in 1..MaxGrants : Expire(g)
    \/ DropCookie

SessionsSpec == SessionsInit /\ [][SessionsNext]_sessionVars

-----------------------------------------------------------------------------

\* accounts.py:333: a token that looks right is "never an authorization
\* decision" - once a sign-out has ended a session, no visit sent later is
\* served in its name, whatever cookies it carries or gets refreshed.
EndedSessionsAreNotServed ==
    \A v \in Visits : visit[v].served # 0 => visit[v].served \notin visit[v].barred

\* The browser is left with a spent refresh token only while the answer of the
\* very visit that spent it is on its way, or because that answer was an error
\* or was lost.
SpentOnlyByFailedVisits ==
    jar.refresh # 0 /\ grants[jar.refresh].spent =>
        \E v \in Visits :
            /\ visit[v].spent /\ Carried(v).refresh = jar.refresh
            /\ ~(visit[v].at = "done" /\ visit[v].reply \in {"ok", "signed_out", "denied"})

\* A visit is told that nobody is signed in only if it carried no refresh token,
\* one that another visit spent or whose session had ended, or if a call went
\* wrong, or the access token it was just given expired before it was confirmed.
DeniedForCause ==
    \A v \in Visits : visit[v].reply = "denied" =>
        \/ lapses > 0
        \/ Carried(v).refresh = 0
        \/ ~Live(Carried(v).refresh)
        \/ \E w \in Visits \ {v} : visit[w].spent /\ Carried(w).refresh = Carried(v).refresh
        \/ visit[v].got # 0 /\ grants[visit[v].got].expired

\* A customer is not signed out by calls that go well one after another
\* (accounts.py:359): it takes a sign-out, a failure, an overlapping visit, or a
\* token that expires between the two calls of a refresh.
SignedOutForCause == SpentOnlyByFailedVisits /\ DeniedForCause

\* accounts.py:363: after a silent refresh "the caller must set new session
\* cookies on whatever response it returns".
RefreshedIsReturned ==
    \A v \in Visits :
        /\ visit[v].at = "answered" /\ visit[v].got # 0
        /\ visit[v].kind \in {"read", "change"} /\ visit[v].reply \in {"ok", "error"}
        => Cookies(v).refresh = visit[v].got

=============================================================================
