------------------------------ MODULE Accounts ------------------------------
(***************************************************************************)
(* Customer accounts and self-service API keys (app/accounts.py and the    *)
(* account routes of app/api.py) over the api_customers, api_keys and      *)
(* audit_events tables.                                                    *)
(*                                                                         *)
(* A call is one HTTP request to an account route, handled once.  Every    *)
(* database access is a request of its own (PostgREST, no transaction      *)
(* around two of them), so each is one action and calls interleave between *)
(* them.  A database access that goes wrong raises out of the handler, with *)
(* or without having taken effect; an instance killed there is no          *)
(* different.  Signing in with the provider, session cookies and the CSRF  *)
(* header decide only whether a call is let in.                            *)
(***************************************************************************)
EXTENDS Integers, FiniteSets

CONSTANTS
    Users,      \* Supabase Auth users
    Keys,       \* rows api_keys may come to hold
    Calls,      \* account requests, each handled once
    None,       \* no user, no key
    MaxKeys,    \* MAX_SELF_SERVICE_KEYS_PER_CUSTOMER
    MaxFaults   \* bound: database accesses that go wrong

ASSUME AccountsAssumption ==
    /\ IsFiniteSet(Keys)
    /\ IsFiniteSet(Calls)
    /\ None \notin Users \cup Keys
    /\ MaxKeys \in Nat
    /\ MaxFaults \in Nat

VARIABLES
    customers,  \* api_customers: the users with a row (auth_user_id is unique)
    keys,       \* api_keys
    audit,      \* audit_events, as <<action, user or key, secret>>
    stored,     \* history: the <<key, secret>> pairs api_keys has held
    overtaken,  \* history: for a create, those of its customer's other creates that
                \* inserted between its listing and its own insert
    drawn,      \* secrets generated so far; the next one is drawn + 1
    place,      \* where each call is
    op,         \* what each call asks for
    secret,     \* the secret it generated, 0 if none
    reply,      \* what it was answered
    faults      \* database accesses that have gone wrong

tableVars == <<customers, keys, audit, stored, overtaken>>
accountVars == <<customers, keys, audit, stored, overtaken, drawn, place, op, secret, reply,
                 faults>>

Kinds == {"login", "list", "create", "revoke", "rotate", "rename"}
Places == {"idle", "context", "lookup", "signup", "welcome", "list", "insert", "patch",
           "audit", "usage", "done"}
Replies == {"none", "ok", "refused", "limit", "not_found", "failed"}

KeyRow == [owner : Users \cup {None}, secret : Nat, revoked : BOOLEAN, label : {"old", "new"}]
NoRow == [owner |-> None, secret |-> 0, revoked |-> FALSE, label |-> "old"]

Op == [kind : Kinds, user : Users \cup {None}, key : Keys \cup {None}]
NoOp == [kind |-> "list", user |-> None, key |-> None]

Owned(u) == {k \in Keys : keys[k].owner = u}
Active(u) == {k \in Owned(u) : ~keys[k].revoked}

\* A deployment some of whose customers hold a key, none above the limit.
AccountsInit ==
    /\ customers \in SUBSET Users
    /\ keys \in [Keys -> {[NoRow EXCEPT !.owner = u] : u \in customers \cup {None}}]
    /\ \A u \in Users : Cardinality(Owned(u)) <= MaxKeys
    /\ audit = {}
    /\ stored = {<<k, 0>> : k \in {j \in Keys : keys[j].owner # None}}
    /\ overtaken = [c \in Calls |-> {}]
    /\ drawn = 0
    /\ place = [c \in Calls |-> "idle"]
    /\ op = [c \in Calls |-> NoOp]
    /\ secret = [c \in Calls |-> 0]
    /\ reply = [c \in Calls |-> "none"]
    /\ faults = 0

-----------------------------------------------------------------------------
(* Steps of a call.                                                         *)

Fault == faults < MaxFaults /\ faults' = faults + 1
NoFault == UNCHANGED faults

To(c, where) == place' = [place EXCEPT ![c] = where] /\ UNCHANGED reply

Answer(c, what) ==
    /\ place' = [place EXCEPT ![c] = "done"]
    /\ reply' = [reply EXCEPT ![c] = what]

\* The error of a database access leaves the handler.
Fails(c) == Fault /\ Answer(c, "failed")

\* After a write that took effect: on to the next place, or its reply is lost.
Wrote(c, next) == (NoFault /\ To(c, next)) \/ Fails(c)

\* A request reaches the sign-in callback or one of the key routes.
Arrive(c, kind, u, k) ==
    /\ place[c] = "idle"
    /\ op' = [op EXCEPT ![c] =
           [kind |-> kind, user |-> u,
            key |-> IF kind \in {"revoke", "rotate", "rename"} THEN k ELSE None]]
    /\ To(c, IF kind = "login" THEN "lookup" ELSE "context")
    /\ UNCHANGED <<tableVars, drawn, secret, faults>>

\* _account_context and _require_csrf: the session's user must have a customer
\* row; a call without a valid session or CSRF token is refused.
Context(c) ==
    /\ place[c] = "context"
    /\ \/ /\ op[c].user \in customers
          /\ To(c, IF op[c].kind \in {"list", "create", "rotate"} THEN "list" ELSE "patch")
          /\ NoFault
       \/ Answer(c, "refused") /\ NoFault
       \/ Fails(c)
    /\ UNCHANGED <<tableVars, drawn, op, secret>>

\* generate_api_key: a secret never drawn before.
GenerateSecret(c) ==
    /\ drawn' = drawn + 1
    /\ secret' = [secret EXCEPT ![c] = drawn + 1]

\* Faulty variant: the limit counts the keys beyond it.
WithinLimitLoosely(u) == Cardinality(Active(u)) <= MaxKeys

\* create_key: the limit is checked against the rows listed now.
WithinLimit(u) == Cardinality(Active(u)) < MaxKeys

\* list_customer_keys, and what list, create and rotate conclude from it.
List(c) ==
    LET u == op[c].user IN
    /\ place[c] = "list"
    /\ \/ /\ op[c].kind = "list"
          /\ To(c, "usage")
          /\ NoFault /\ UNCHANGED <<drawn, secret>>
       \/ /\ op[c].kind = "create" /\ WithinLimit(u)
          /\ GenerateSecret(c)
          /\ To(c, "insert")
          /\ NoFault
       \/ /\ op[c].kind = "create" /\ ~WithinLimit(u)
          /\ Answer(c, "limit")
          /\ NoFault /\ UNCHANGED <<drawn, secret>>
       \/ /\ op[c].kind = "rotate" /\ op[c].key \in Active(u)
          /\ GenerateSecret(c)
          /\ To(c, "patch")
          /\ NoFault
       \/ /\ op[c].kind = "rotate" /\ op[c].key \notin Active(u)
          /\ Answer(c, "not_found")
          /\ NoFault /\ UNCHANGED <<drawn, secret>>
       \/ Fails(c) /\ UNCHANGED <<drawn, secret>>
    /\ UNCHANGED <<tableVars, op>>

\* Who has listed and not yet inserted is overtaken by an insert of c.
Overtake(c) ==
    overtaken' = [e \in Calls |->
        IF place[e] = "insert" /\ e # c /\ op[e].user = op[c].user
        THEN overtaken[e] \cup {c} ELSE overtaken[e]]

\* create_customer_key: one more row, whatever was created since the listing.
Insert(c) ==
    /\ place[c] = "insert"
    /\ \/ \E k \in Owned(None) :
             /\ keys' = [keys EXCEPT ![k] =
                    [owner |-> op[c].user, secret |-> secret[c], revoked |-> FALSE,
                     label |-> "old"]]
             /\ stored' = stored \cup {<<k, secret[c]>>}
             /\ op' = [op EXCEPT ![c].key = k]
             /\ Overtake(c)
             /\ Wrote(c, "audit")
       \/ Fails(c) /\ UNCHANGED <<keys, stored, overtaken, op>>
    /\ UNCHANGED <<customers, audit, drawn, secret>>

\* Faulty variants of the PATCH's filter: a revoked key matches; any
\* customer's key matches.
MatchesRevoked(c) == keys[op[c].key].owner = op[c].user
MatchesAnyOwner(c) ==
    /\ keys[op[c].key].owner # None
    /\ op[c].kind # "revoke" => ~keys[op[c].key].revoked

\* The filter of the PATCH: the customer's own key, and for rotate and rename
\* one that is not revoked.
Matches(c) ==
    /\ keys[op[c].key].owner = op[c].user
    /\ op[c].kind # "revoke" => ~keys[op[c].key].revoked

Patched(c) ==
    LET row == keys[op[c].key] IN
    CASE op[c].kind = "revoke" -> [row EXCEPT !.revoked = TRUE]
      [] op[c].kind = "rotate" -> [row EXCEPT !.secret = secret[c]]
      [] op[c].kind = "rename" -> [row EXCEPT !.label = "new"]

\* revoke_, rotate_ and rename_customer_key.
Patch(c) ==
    /\ place[c] = "patch"
    /\ \/ /\ Matches(c)
          /\ keys' = [keys EXCEPT ![op[c].key] = Patched(c)]
          /\ stored' = stored \cup {<<op[c].key, keys'[op[c].key].secret>>}
          /\ Wrote(c, "audit")
       \/ /\ ~Matches(c)
          /\ Answer(c, "not_found")
          /\ NoFault /\ UNCHANGED <<keys, stored>>
       \/ Fails(c) /\ UNCHANGED <<keys, stored>>
    /\ UNCHANGED <<customers, audit, overtaken, drawn, op, secret>>

\* _ensure_customer: the row of the signed-in user, if it has one.
Lookup(c) ==
    /\ place[c] = "lookup"
    /\ \/ op[c].user \in customers /\ To(c, "audit") /\ NoFault
       \/ op[c].user \notin customers /\ To(c, "signup") /\ NoFault
       \/ Fails(c)
    /\ UNCHANGED <<tableVars, drawn, op, secret>>

\* create_customer: of two first logins, the unique auth_user_id lets one in.
Signup(c) ==
    /\ place[c] = "signup"
    /\ \/ /\ op[c].user \notin customers
          /\ customers' = customers \cup {op[c].user}
          /\ Wrote(c, "welcome")
       \/ /\ op[c].user \in customers
          /\ Answer(c, "failed")
          /\ NoFault /\ UNCHANGED customers
       \/ Fails(c) /\ UNCHANGED customers
    /\ UNCHANGED <<keys, audit, stored, overtaken, drawn, op, secret>>

\* The account.signup event precedes the account.login event.
Welcome(c) ==
    /\ place[c] = "welcome"
    /\ \/ audit' = audit \cup {<<"signup", op[c].user, 0>>} /\ Wrote(c, "audit")
       \/ Fails(c) /\ UNCHANGED audit
    /\ UNCHANGED <<customers, keys, stored, overtaken, drawn, op, secret>>

\* record_audit_event for the operation's own action.
Event(c) ==
    IF op[c].kind = "login" THEN <<"login", op[c].user, 0>>
    ELSE <<op[c].kind, op[c].key, secret[c]>>

\* Faulty variant: an error of the audit write is swallowed.
AuditBestEffort(c) ==
    /\ place[c] = "audit"
    /\ Answer(c, "ok")
    /\ \/ audit' = audit \cup {Event(c)} /\ NoFault
       \/ Fault /\ UNCHANGED audit
    /\ UNCHANGED <<customers, keys, stored, overtaken, drawn, op, secret>>

Audit(c) ==
    /\ place[c] = "audit"
    /\ \/ /\ audit' = audit \cup {Event(c)}
          /\ \/ /\ NoFault
                /\ IF op[c].kind \in {"rotate", "rename"} THEN To(c, "usage") ELSE Answer(c, "ok")
             \/ Fails(c)
       \/ Fails(c) /\ UNCHANGED audit
    /\ UNCHANGED <<customers, keys, stored, overtaken, drawn, op, secret>>

\* _with_usage_today: today's count of the key shown, or of every key listed.
Usage(c) ==
    /\ place[c] = "usage"
    /\ (NoFault /\ Answer(c, "ok")) \/ Fails(c)
    /\ UNCHANGED <<tableVars, drawn, op, secret>>

CallStep(c) ==
    \/ \E kind \in Kinds, u \in Users, k \in Keys : Arrive(c, kind, u, k)
    \/ Context(c)
    \/ List(c)
    \/ Insert(c)
    \/ Patch(c)
    \/ Lookup(c)
    \/ Signup(c)
    \/ Welcome(c)
    \/ Audit(c)
    \/ Usage(c)

AccountsNext == \E c \in Calls : CallStep(c)

AccountsSpec == AccountsInit /\ [][AccountsNext]_accountVars

-----------------------------------------------------------------------------

AccountsTypeOK ==
    /\ customers \subseteq Users
    /\ keys \in [Keys -> KeyRow]
    /\ audit \subseteq (Kinds \cup {"signup"}) \X (Users \cup Keys) \X Nat
    /\ stored \subseteq Keys \X Nat
    /\ overtaken \in [Calls -> SUBSET Calls]
    /\ drawn \in Nat
    /\ place \in [Calls -> Places]
    /\ op \in [Calls -> Op]
    /\ secret \in [Calls -> 0..drawn]
    /\ reply \in [Calls -> Replies]
    /\ faults \in Nat

\* accounts.py: a revoked key cannot be rotated back to a usable state, nor
\* renamed or revived - whatever a call listed before the revocation landed.
RevokedKeysAreFrozen ==
    [][\A k \in Keys : keys[k].revoked => keys'[k] = keys[k]]_accountVars

\* A key changes hands with nobody and only its owner's own call changes it.
OnlyOwnersChangeKeys ==
    [][\A k \in Keys :
          keys'[k] # keys[k] =>
              \E c \in Calls :
                  /\ place[c] \in {"insert", "patch"} /\ place'[c] # place[c]
                  /\ op'[c].key = k
                  /\ op[c].user = keys'[k].owner
                  /\ keys[k].owner \in {None, op[c].user}]_accountVars

\* The audit trail tells no event that did not happen: each is written after
\* the change it describes was committed.
AuditIsTruthful ==
    /\ \A k \in Keys, s \in 0..drawn :
          /\ <<"revoke", k, s>> \in audit => keys[k].revoked
          /\ <<"rename", k, s>> \in audit => keys[k].label = "new"
          /\ <<"create", k, s>> \in audit \/ <<"rotate", k, s>> \in audit => <<k, s>> \in stored
    /\ \A u \in Users, a \in {"login", "signup"} : <<a, u, 0>> \in audit => u \in customers

\* A change the customer was told of is in the audit trail, and the secret
\* handed out with it is one the key really had.
SuccessIsAudited ==
    \A c \in Calls :
        /\ reply[c] = "ok"
        /\ op[c].kind # "list"
        => /\ Event(c) \in audit
           /\ secret[c] # 0 => <<op[c].key, secret[c]>> \in stored

\* The audit trail and what customers are told agree with the keys
\* (accounts.py:440): no event without its change, no success without its event.
AuditAgreesWithKeys == AuditIsTruthful /\ SuccessIsAudited

\* The creates of a customer that inserted a key although another of them had
\* inserted one since they listed.
Overtaken(u) ==
    {c \in Calls : /\ op[c].kind = "create" /\ op[c].user = u /\ op[c].key # None
                   /\ overtaken[c] # {}}

\* Only creates that overlap pass the limit: a customer holds at most one key
\* too many for each create that another overtook between its listing and its
\* insert (accounts.py:424-438), and none too many where they follow one another.
LimitHoldsButForOverlaps ==
    \A u \in Users : Cardinality(Active(u)) <= MaxKeys + Cardinality(Overtaken(u))

\* README.md: customers "can create/label/revoke up to 5 active keys".
ActiveKeysWithinLimit == \A u \in Users : Cardinality(Active(u)) <= MaxKeys

=============================================================================
