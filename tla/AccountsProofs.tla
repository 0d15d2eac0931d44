--------------------------- MODULE AccountsProofs ---------------------------
(***************************************************************************)
(* Theorems about Accounts, for any users, keys, calls, limit and faults.  *)
(*                                                                         *)
(* AccountsInv is inductive.  Its table part says what api_keys and the    *)
(* history of secrets have to do with each other, its call part what a     *)
(* call knows at each of its awaits: what it was asked, whether its secret *)
(* is still unused, and what is committed before its audit event is        *)
(* written.  A step of one call can only add to what another relies on     *)
(* (Grown), so each action is examined at its own call.                    *)
(***************************************************************************)
EXTENDS Accounts, TLAPS, FiniteSetTheorems

\* A row nobody owns is blank and never had a secret; an owned row's secret is
\* one the history knows.
RowOK(k) ==
    /\ keys[k].owner = None => keys[k] = NoRow /\ \A s \in Nat : <<k, s>> \notin stored
    /\ keys[k].owner # None => <<k, keys[k].secret>> \in stored

TableOK ==
    /\ stored \subseteq Keys \X (0..drawn)
    /\ \A k \in Keys : RowOK(k)

\* What a call was asked, at each place.
CallOK(c) ==
    /\ place[c] # "idle" => op[c].user \in Users
    /\ place[c] # "done" => reply[c] = "none"
    /\ op[c].kind \in {"revoke", "rotate", "rename"} => op[c].key \in Keys
    /\ secret[c] # 0 => op[c].kind \in {"create", "rotate"}
    /\ place[c] \in {"idle", "context", "list"} => secret[c] = 0
    /\ place[c] = "context" => op[c].kind # "login"
    /\ place[c] = "list" => op[c].kind \in {"list", "create", "rotate"}
    /\ place[c] = "insert" => op[c].kind = "create" /\ secret[c] # 0
    /\ place[c] = "patch" =>
           /\ op[c].kind \in {"revoke", "rotate", "rename"}
           /\ op[c].kind = "rotate" => secret[c] # 0
    /\ place[c] = "audit" => op[c].kind # "list"
    /\ place[c] \in {"lookup", "signup", "welcome"} => op[c].kind = "login"

\* Secrets are drawn once, and one that waits to be written was never stored.
FreshSecrets ==
    /\ \A c, e \in Calls : c # e /\ secret[c] # 0 => secret[c] # secret[e]
    /\ \A c \in Calls, k \in Keys :
          place[c] \in {"insert", "patch"} /\ secret[c] # 0 => <<k, secret[c]>> \notin stored

\* What is committed before the audit event of a call is written.
Landed(c) ==
    /\ place[c] = "welcome" => op[c].user \in customers
    /\ place[c] = "audit" =>
           CASE op[c].kind = "login" -> op[c].user \in customers
             [] op[c].kind = "revoke" -> keys[op[c].key].revoked
             [] op[c].kind = "rename" -> keys[op[c].key].label = "new"
             [] OTHER -> op[c].key \in Keys /\ <<op[c].key, secret[c]>> \in stored

\* What a call that is past its audit event has told, or is about to tell.
Told(c) ==
    place[c] = "usage" \/ reply[c] = "ok" =>
        \/ op[c].kind = "list"
        \/ /\ Event(c) \in audit
           /\ secret[c] # 0 => <<op[c].key, secret[c]>> \in stored

AuditSound ==
    /\ \A k \in Keys, s \in Nat :
          /\ <<"revoke", k, s>> \in audit => keys[k].revoked
          /\ <<"rename", k, s>> \in audit => keys[k].label = "new"
          /\ <<"create", k, s>> \in audit \/ <<"rotate", k, s>> \in audit => <<k, s>> \in stored
    /\ \A u \in Users, a \in {"login", "signup"} : <<a, u, 0>> \in audit => u \in customers

AccountsInv ==
    /\ AccountsTypeOK
    /\ TableOK
    /\ FreshSecrets
    /\ AuditSound
    /\ \A c \in Calls : CallOK(c) /\ Landed(c) /\ Told(c)

\* What no step takes away.
Grown ==
    /\ customers \subseteq customers'
    /\ stored \subseteq stored'
    /\ audit \subseteq audit'
    /\ \A k \in Keys : /\ keys[k].revoked => keys'[k].revoked
                       /\ keys[k].label = "new" => keys'[k].label = "new"

Only(c) ==
    \A e \in Calls : e # c =>
        place'[e] = place[e] /\ op'[e] = op[e] /\ secret'[e] = secret[e] /\ reply'[e] = reply[e]

-----------------------------------------------------------------------------

\* A step of c keeps the invariant for every other call.
LEMMA CallsCarry ==
    ASSUME AccountsInv, NEW c \in Calls, Grown, Only(c),
           AccountsTypeOK', TableOK', FreshSecrets', AuditSound',
           CallOK(c)', Landed(c)', Told(c)'
    PROVE  AccountsInv'
<1>1. ASSUME NEW e \in Calls, e # c PROVE CallOK(e)' /\ Landed(e)' /\ Told(e)'
  <2>1. place'[e] = place[e] /\ op'[e] = op[e] /\ secret'[e] = secret[e] /\ reply'[e] = reply[e]
    BY <1>1 DEF Only
  <2>2. CallOK(e) /\ Landed(e) /\ Told(e)
    BY DEF AccountsInv
  <2>3. CallOK(e)'
    BY <2>1, <2>2 DEF CallOK
  <2>4. Told(e)'
    BY <2>1, <2>2 DEF Told, Grown, Event
  <2>5. Landed(e)'
    BY <2>1, <2>2 DEF Landed, Grown, CallOK
  <2> QED
    BY <2>3, <2>4, <2>5
<1> QED
  BY <1>1 DEF AccountsInv

\* What the trail tells stays true while nothing is taken away.
LEMMA TrailCarries ==
    ASSUME AuditSound, Grown, UNCHANGED audit
    PROVE  AuditSound'
<1>1. ASSUME NEW k \in Keys, NEW s \in Nat
      PROVE  /\ <<"revoke", k, s>> \in audit => keys'[k].revoked
             /\ <<"rename", k, s>> \in audit => keys'[k].label = "new"
             /\ <<"create", k, s>> \in audit \/ <<"rotate", k, s>> \in audit
                    => <<k, s>> \in stored'
  BY DEF AuditSound, Grown
<1>2. \A u \in Users, a \in {"login", "signup"} : <<a, u, 0>> \in audit => u \in customers'
  BY DEF AuditSound, Grown
<1> QED
  BY <1>1, <1>2 DEF AuditSound

\* A step that leaves the tables alone.
LEMMA TablesCarry ==
    ASSUME AccountsInv, UNCHANGED <<customers, keys, stored>>
    PROVE  /\ TableOK /\ UNCHANGED drawn => TableOK'
           /\ UNCHANGED audit => AuditSound'
           /\ audit \subseteq audit' => Grown
<1>1. TableOK /\ AuditSound
  BY DEF AccountsInv
<1>2. UNCHANGED drawn => TableOK'
  BY <1>1 DEF TableOK, RowOK
<1>3. UNCHANGED audit => AuditSound'
  BY <1>1 DEF AuditSound
<1>4. audit \subseteq audit' => Grown
  BY DEF Grown
<1> QED
  BY <1>2, <1>3, <1>4


LEMMA RowsAreTyped ==
    ASSUME AccountsTypeOK, NEW k \in Keys
    PROVE  /\ keys[k] \in KeyRow
           /\ keys[k].owner \in Users \cup {None} /\ keys[k].secret \in Nat
           /\ keys[k].revoked \in BOOLEAN /\ keys[k].label \in {"old", "new"}
  BY DEF AccountsTypeOK, KeyRow

LEMMA CallsAreTyped ==
    ASSUME AccountsTypeOK, NEW c \in Calls
    PROVE  /\ place[c] \in Places /\ reply[c] \in Replies
           /\ secret[c] \in 0..drawn /\ secret[c] \in Nat /\ drawn \in Nat
           /\ op[c] \in Op
           /\ op[c].kind \in Kinds
           /\ op[c].user \in Users \cup {None} /\ op[c].key \in Keys \cup {None}
  BY DEF AccountsTypeOK, Op

\* To, Answer, Fails and Wrote move one call and touch no table.
LEMMA Moves ==
    ASSUME AccountsTypeOK, NEW c \in Calls,
           \/ \E p \in Places : To(c, p)
           \/ \E a \in Replies : Answer(c, a)
    PROVE  /\ place' \in [Calls -> Places] /\ reply' \in [Calls -> Replies]
           /\ \A e \in Calls : e # c => place'[e] = place[e] /\ reply'[e] = reply[e]
  BY DEF AccountsTypeOK, To, Answer, Places, Replies

LEMMA FaultsAreTyped ==
    ASSUME AccountsTypeOK, Fault \/ NoFault
    PROVE  faults' \in Nat
  BY DEF AccountsTypeOK, Fault, NoFault

-----------------------------------------------------------------------------

LEMMA InitInv == AccountsInit => AccountsInv
<1> SUFFICES ASSUME AccountsInit PROVE AccountsInv
  OBVIOUS
<1> USE DEF AccountsInit
<1>1. keys \in [Keys -> KeyRow]
  <2>1. customers \cup {None} \subseteq Users \cup {None}
    OBVIOUS
  <2>2. ASSUME NEW u \in customers \cup {None} PROVE [NoRow EXCEPT !.owner = u] \in KeyRow
    BY <2>1, <2>2 DEF NoRow, KeyRow
  <2> QED
    BY <2>2
<1>2. AccountsTypeOK
  BY <1>1 DEF AccountsTypeOK, Places, Replies, Op, NoOp, Kinds, AccountsAssumption
<1>3. ASSUME NEW k \in Keys PROVE RowOK(k)
  <2>1. PICK u \in customers \cup {None} : keys[k] = [NoRow EXCEPT !.owner = u]
    OBVIOUS
  <2>2. keys[k].owner = u /\ keys[k].secret = 0
    BY <2>1 DEF NoRow
  <2>3. u = None => keys[k] = NoRow
    BY <2>1 DEF NoRow
  <2> QED
    BY <2>2, <2>3 DEF RowOK
<1>4. TableOK
  BY <1>3 DEF TableOK
<1>5. FreshSecrets
  BY DEF FreshSecrets
<1>6. AuditSound
  BY DEF AuditSound
<1>7. ASSUME NEW c \in Calls PROVE CallOK(c) /\ Landed(c) /\ Told(c)
  BY DEF CallOK, Landed, Told, NoOp
<1> QED
  BY <1>2, <1>4, <1>5, <1>6, <1>7 DEF AccountsInv

-----------------------------------------------------------------------------
(* The steps of a call.                                                     *)

LEMMA ArriveInv ==
    ASSUME AccountsInv, NEW c \in Calls, NEW kind \in Kinds, NEW u \in Users,
           NEW k \in Keys, Arrive(c, kind, u, k)
    PROVE  AccountsInv'
<1> USE DEF Arrive, tableVars
<1> DEFINE asked == [kind |-> kind, user |-> u,
                     key |-> IF kind \in {"revoke", "rotate", "rename"} THEN k ELSE None]
<1>1. AccountsTypeOK /\ CallOK(c)
  BY DEF AccountsInv
<1>2. /\ place' \in [Calls -> Places] /\ reply' = reply
      /\ \A e \in Calls : e # c => place'[e] = place[e]
      /\ place'[c] \in {"lookup", "context"}
      /\ place'[c] = "lookup" <=> kind = "login"
  BY <1>1 DEF To, AccountsTypeOK, Places
<1>3. /\ asked \in Op /\ op' = [op EXCEPT ![c] = asked] /\ op' \in [Calls -> Op]
      /\ \A e \in Calls : e # c => op'[e] = op[e]
      /\ op'[c] = asked
  <2>1. asked \in Op
    BY DEF Op
  <2> QED
    BY <1>1, <2>1 DEF AccountsTypeOK
<1>4. AccountsTypeOK'
  BY <1>1, <1>2, <1>3 DEF AccountsTypeOK
<1>5. Only(c)
  BY <1>2, <1>3 DEF Only
<1>6. Grown /\ TableOK' /\ AuditSound'
  BY TablesCarry DEF AccountsInv
<1>7. FreshSecrets'
  BY <1>2 DEF AccountsInv, FreshSecrets
<1>8. CallOK(c)'
  BY <1>1, <1>2, <1>3 DEF CallOK
<1>9. Landed(c)' /\ Told(c)'
  BY <1>1, <1>2 DEF CallOK, Landed, Told
<1> QED
  BY <1>4, <1>5, <1>6, <1>7, <1>8, <1>9, CallsCarry

\* A step that ends a call, or moves it, and changes nothing else but the
\* count of faults.
LEMMA MoveInv ==
    ASSUME AccountsInv, NEW c \in Calls, place[c] \notin {"idle", "done"},
           UNCHANGED <<tableVars, drawn, op, secret>>, faults' \in Nat,
           \/ \E p \in {"list", "patch", "usage", "audit", "signup"} :
                 /\ To(c, p)
                 /\ p = "list" =>
                        place[c] = "context" /\ op[c].kind \in {"list", "create", "rotate"}
                 /\ p = "patch" => place[c] = "context" /\ op[c].kind \in {"revoke", "rename"}
                 /\ p = "usage" => place[c] = "list" /\ op[c].kind = "list"
                 /\ p = "audit" => place[c] = "lookup" /\ op[c].user \in customers
                 /\ p = "signup" => place[c] = "lookup"
           \/ \E a \in Replies :
                 /\ Answer(c, a)
                 /\ a = "ok" => place[c] = "usage"
    PROVE  AccountsInv'
<1> USE DEF tableVars
<1>1. AccountsTypeOK /\ CallOK(c) /\ Landed(c) /\ Told(c)
  BY DEF AccountsInv
<1>2. /\ place' \in [Calls -> Places] /\ reply' \in [Calls -> Replies]
      /\ \A e \in Calls : e # c => place'[e] = place[e] /\ reply'[e] = reply[e]
  BY <1>1 DEF AccountsTypeOK, To, Answer, Places, Replies
<1>3. \/ /\ place'[c] \in {"list", "patch", "usage", "audit", "signup"} /\ reply'[c] = reply[c]
         /\ place'[c] = "list" =>
                place[c] = "context" /\ op[c].kind \in {"list", "create", "rotate"}
         /\ place'[c] = "patch" => place[c] = "context" /\ op[c].kind \in {"revoke", "rename"}
         /\ place'[c] = "usage" => place[c] = "list" /\ op[c].kind = "list"
         /\ place'[c] = "audit" => place[c] = "lookup" /\ op[c].user \in customers
         /\ place'[c] = "signup" => place[c] = "lookup"
      \/ place'[c] = "done" /\ (reply'[c] = "ok" => place[c] = "usage")
  BY <1>1 DEF AccountsTypeOK, To, Answer
<1>4. AccountsTypeOK'
  BY <1>1, <1>2 DEF AccountsTypeOK
<1>5. Only(c)
  BY <1>2 DEF Only
<1>6. Grown /\ TableOK' /\ AuditSound'
  BY TablesCarry DEF AccountsInv
<1>7. FreshSecrets'
  BY <1>1, <1>2, <1>3 DEF AccountsInv, FreshSecrets, CallOK
<1>8. CallOK(c)'
  BY <1>1, <1>3 DEF CallOK
<1>9. Landed(c)'
  BY <1>1, <1>3 DEF Landed, CallOK
<1>10. Told(c)'
  BY <1>1, <1>3 DEF Told, CallOK, Event
<1> QED
  BY <1>4, <1>5, <1>6, <1>7, <1>8, <1>9, <1>10, CallsCarry

LEMMA ContextInv ==
    ASSUME AccountsInv, NEW c \in Calls, Context(c)
    PROVE  AccountsInv'
<1>1. AccountsTypeOK /\ op[c].kind \in Kinds /\ CallOK(c)
  BY CallsAreTyped DEF AccountsInv
<1>2. CASE /\ op[c].user \in customers
           /\ To(c, IF op[c].kind \in {"list", "create", "rotate"} THEN "list" ELSE "patch")
  <2>1. PICK p \in {"list", "patch"} :
           /\ To(c, p)
           /\ p = "list" => op[c].kind \in {"list", "create", "rotate"}
           /\ p = "patch" => op[c].kind \in {"revoke", "rename"}
    BY <1>1, <1>2 DEF Context, CallOK, Kinds
  <2> QED
    BY <1>1, <2>1, MoveInv, FaultsAreTyped DEF Context, Fails
<1>3. CASE Answer(c, "refused") \/ Answer(c, "failed")
  BY <1>1, <1>3, MoveInv, FaultsAreTyped DEF Context, Fails, Replies
<1> QED
  BY <1>2, <1>3 DEF Context, Fails

LEMMA UsageInv ==
    ASSUME AccountsInv, NEW c \in Calls, Usage(c)
    PROVE  AccountsInv'
<1>1. AccountsTypeOK
  BY DEF AccountsInv
<1> QED
  BY <1>1, MoveInv, FaultsAreTyped DEF Usage, Fails, Replies

LEMMA LookupInv ==
    ASSUME AccountsInv, NEW c \in Calls, Lookup(c)
    PROVE  AccountsInv'
<1>1. AccountsTypeOK
  BY DEF AccountsInv
<1> QED
  BY <1>1, MoveInv, FaultsAreTyped DEF Lookup, Fails, Replies

\* create_key and rotate_key draw the secret they are about to write.
LEMMA DrawInv ==
    ASSUME AccountsInv, NEW c \in Calls, place[c] = "list", GenerateSecret(c),
           UNCHANGED <<tableVars, op, faults>>,
           \/ To(c, "insert") /\ op[c].kind = "create"
           \/ To(c, "patch") /\ op[c].kind = "rotate"
    PROVE  AccountsInv'
<1> USE DEF tableVars
<1>1. AccountsTypeOK /\ CallOK(c) /\ Landed(c) /\ Told(c) /\ TableOK
  BY DEF AccountsInv
<1>2. /\ place' \in [Calls -> Places] /\ reply' = reply
      /\ \A e \in Calls : e # c => place'[e] = place[e]
      /\ \/ place'[c] = "insert" /\ op[c].kind = "create"
         \/ place'[c] = "patch" /\ op[c].kind = "rotate"
  BY <1>1 DEF AccountsTypeOK, To, Places
<1>3. /\ drawn' = drawn + 1 /\ drawn' \in Nat /\ secret' \in [Calls -> 0..drawn']
      /\ \A e \in Calls : e # c => secret'[e] = secret[e] /\ secret[e] \in 0..drawn
      /\ secret'[c] = drawn'
  BY <1>1 DEF AccountsTypeOK, GenerateSecret
<1>4. AccountsTypeOK'
  BY <1>1, <1>2, <1>3 DEF AccountsTypeOK
<1>5. Only(c)
  BY <1>2, <1>3 DEF Only
<1>6. Grown /\ AuditSound'
  BY TablesCarry
<1>7. stored \subseteq Keys \X (0..drawn) /\ drawn \in Nat
  BY <1>1 DEF TableOK, AccountsTypeOK
<1>8. TableOK'
  <2>1. stored' \subseteq Keys \X (0..drawn')
    BY <1>3, <1>7
  <2> QED
    BY <1>1, <2>1 DEF TableOK, RowOK
<1>9. FreshSecrets'
  <2>1. FreshSecrets
    BY DEF AccountsInv
  <2>2. ASSUME NEW d \in Calls, NEW e \in Calls, d # e, secret'[d] # 0
        PROVE  secret'[d] # secret'[e]
    BY <1>3, <1>7, <2>1, <2>2 DEF FreshSecrets
  <2>3. \A k \in Keys : <<k, secret'[c]>> \notin stored'
    BY <1>3, <1>7
  <2>4. ASSUME NEW d \in Calls, NEW k \in Keys, d # c,
               place'[d] \in {"insert", "patch"}, secret'[d] # 0
        PROVE  <<k, secret'[d]>> \notin stored'
    BY <1>2, <1>3, <2>1, <2>4 DEF FreshSecrets
  <2> QED
    BY <2>2, <2>3, <2>4 DEF FreshSecrets
<1>10. CallOK(c)'
  BY <1>1, <1>2, <1>3, <1>7 DEF CallOK
<1>11. Landed(c)' /\ Told(c)'
  BY <1>1, <1>2 DEF Landed, Told, CallOK
<1> QED
  BY <1>4, <1>5, <1>6, <1>8, <1>9, <1>10, <1>11, CallsCarry

LEMMA ListInv ==
    ASSUME AccountsInv, NEW c \in Calls, List(c)
    PROVE  AccountsInv'
<1>1. AccountsTypeOK
  BY DEF AccountsInv
<1>2. CASE /\ GenerateSecret(c) /\ NoFault
           /\ \/ To(c, "insert") /\ op[c].kind = "create"
              \/ To(c, "patch") /\ op[c].kind = "rotate"
  <2>1. place[c] = "list" /\ UNCHANGED <<tableVars, op, faults>>
    BY <1>2 DEF List, NoFault
  <2> QED
    BY <1>2, <2>1, DrawInv
<1>3. CASE UNCHANGED <<drawn, secret>> /\ To(c, "usage") /\ op[c].kind = "list" /\ NoFault
  BY <1>1, <1>3, MoveInv, FaultsAreTyped DEF List
<1>4. CASE UNCHANGED <<drawn, secret>> /\ \E a \in {"limit", "not_found", "failed"} :
             Answer(c, a) /\ (Fault \/ NoFault)
  BY <1>1, <1>4, MoveInv, FaultsAreTyped DEF List, Replies
<1> QED
  BY <1>2, <1>3, <1>4 DEF List, Fails

LEMMA InsertInv ==
    ASSUME AccountsInv, NEW c \in Calls, Insert(c)
    PROVE  AccountsInv'
<1>1. AccountsTypeOK /\ CallOK(c) /\ TableOK /\ FreshSecrets /\ AuditSound /\ place[c] = "insert"
  BY DEF AccountsInv, Insert
<1>2. CASE Fails(c) /\ UNCHANGED <<keys, stored, overtaken, op>>
  BY <1>1, <1>2, MoveInv, FaultsAreTyped DEF Insert, Fails, Replies, tableVars
<1>3. ASSUME NEW k \in Owned(None),
             keys' = [keys EXCEPT ![k] =
                 [owner |-> op[c].user, secret |-> secret[c], revoked |-> FALSE, label |-> "old"]],
             stored' = stored \cup {<<k, secret[c]>>},
             op' = [op EXCEPT ![c].key = k],
             Overtake(c),
             Wrote(c, "audit")
      PROVE  AccountsInv'
  <2>1. /\ k \in Keys /\ keys[k] = NoRow /\ \A s \in Nat : <<k, s>> \notin stored
        /\ op[c].user \in Users /\ op[c].user # None
        /\ op[c].kind = "create" /\ secret[c] # 0 /\ secret[c] \in 0..drawn /\ drawn \in Nat
    BY <1>1, <1>3, AccountsAssumption, CallsAreTyped
       DEF Owned, TableOK, RowOK, CallOK, Insert
  <2> DEFINE fresh == [owner |-> op[c].user, secret |-> secret[c], revoked |-> FALSE,
                       label |-> "old"]
  <2>2. /\ fresh \in KeyRow /\ fresh.owner = op[c].user /\ fresh.secret = secret[c]
        /\ fresh.revoked = FALSE
    BY <2>1 DEF KeyRow
  <2>3. /\ keys' \in [Keys -> KeyRow] /\ keys'[k] = fresh
        /\ \A j \in Keys : j # k => keys'[j] = keys[j]
    BY <1>1, <1>3, <2>1, <2>2 DEF AccountsTypeOK
  <2>4. /\ op' \in [Calls -> Op] /\ op'[c].key = k /\ op'[c].kind = "create"
        /\ op'[c].user = op[c].user
        /\ \A e \in Calls : e # c => op'[e] = op[e]
    <3> DEFINE named == [op[c] EXCEPT !.key = k]
    <3>1. op[c] \in Op /\ op \in [Calls -> Op]
      BY <1>1, CallsAreTyped DEF AccountsTypeOK
    <3>2. /\ named \in Op /\ named.key = k
          /\ named.kind = op[c].kind /\ named.user = op[c].user
      BY <2>1, <3>1 DEF Op
    <3>3. op' = [op EXCEPT ![c] = named]
      BY <1>3
    <3> QED
      BY <2>1, <3>1, <3>2, <3>3
  <2>5. /\ place' \in [Calls -> Places] /\ reply' \in [Calls -> Replies] /\ faults' \in Nat
        /\ \A e \in Calls : e # c => place'[e] = place[e] /\ reply'[e] = reply[e]
        /\ \/ place'[c] = "audit" /\ reply'[c] = reply[c]
           \/ place'[c] = "done" /\ reply'[c] = "failed"
    BY <1>1, <1>3, FaultsAreTyped
       DEF Wrote, Fails, To, Answer, AccountsTypeOK, Places, Replies
  <2>6. UNCHANGED <<customers, audit, drawn, secret>>
    BY DEF Insert
  <2>7. AccountsTypeOK'
    <3>1. overtaken' \in [Calls -> SUBSET Calls]
      BY <1>1, <1>3 DEF Overtake, AccountsTypeOK
    <3> QED
      BY <1>1, <1>3, <2>1, <2>3, <2>4, <2>5, <2>6, <3>1 DEF AccountsTypeOK
  <2>8. Only(c)
    BY <2>4, <2>5, <2>6 DEF Only
  <2>9. Grown
    BY <1>3, <2>1, <2>3, <2>6 DEF Grown, NoRow
  <2>10. TableOK'
    <3>1. stored' \subseteq Keys \X (0..drawn')
      BY <1>1, <1>3, <2>1, <2>6 DEF TableOK
    <3>2. RowOK(k)'
      BY <1>3, <2>1, <2>2, <2>3 DEF RowOK
    <3>3. ASSUME NEW j \in Keys, j # k PROVE RowOK(j)'
      BY <1>1, <1>3, <2>3, <3>3 DEF RowOK, TableOK
    <3> QED
      BY <3>1, <3>2, <3>3 DEF TableOK
  <2>11. FreshSecrets'
    <3>1. ASSUME NEW e \in Calls, NEW j \in Keys,
                 place'[e] \in {"insert", "patch"}, secret'[e] # 0
          PROVE  <<j, secret'[e]>> \notin stored'
      <4>1. e # c /\ secret[e] # secret[c] /\ <<j, secret[e]>> \notin stored
        BY <1>1, <2>1, <2>5, <2>6, <3>1 DEF FreshSecrets
      <4> QED
        BY <1>3, <2>6, <4>1
    <3> QED
      BY <1>1, <2>6, <3>1 DEF FreshSecrets
  <2>12. AuditSound'
    BY <1>1, <2>6, <2>9, TrailCarries
  <2>13. CallOK(c)'
    BY <1>1, <2>1, <2>4, <2>5, <2>6 DEF CallOK
  <2>14. Landed(c)' /\ Told(c)'
    BY <1>1, <1>3, <2>1, <2>4, <2>5, <2>6 DEF Landed, Told, CallOK
  <2> QED
    BY <2>7, <2>8, <2>9, <2>10, <2>11, <2>12, <2>13, <2>14, CallsCarry
<1> QED
  BY <1>2, <1>3 DEF Insert

\* A PATCH that matches its row.
LEMMA PatchLands ==
    ASSUME AccountsInv, NEW c \in Calls, Patch(c), Matches(c),
           keys' = [keys EXCEPT ![op[c].key] = Patched(c)],
           stored' = stored \cup {<<op[c].key, keys'[op[c].key].secret>>},
           Wrote(c, "audit")
    PROVE  AccountsInv'
<1>1. AccountsTypeOK /\ CallOK(c) /\ TableOK /\ FreshSecrets /\ AuditSound /\ place[c] = "patch"
  BY DEF AccountsInv, Patch
<1> PICK k \in Keys : k = op[c].key
  BY <1>1 DEF CallOK
<1> DEFINE row == keys[k]
           new == Patched(c)
<1>2. /\ op[c].user \in Users /\ op[c].user # None
      /\ op[c].kind \in {"revoke", "rotate", "rename"}
      /\ op[c].kind = "rotate" => secret[c] # 0
      /\ op[c].kind # "rotate" => secret[c] = 0
      /\ secret[c] \in 0..drawn /\ drawn \in Nat
  BY <1>1, AccountsAssumption, CallsAreTyped DEF CallOK
<1>3. /\ row \in KeyRow /\ row.owner = op[c].user /\ row.owner # None
      /\ <<k, row.secret>> \in stored /\ row.secret \in 0..drawn
  <2>1. row \in KeyRow /\ row.owner = op[c].user /\ row.owner # None
    BY <1>1, <1>2, RowsAreTyped DEF Matches
  <2>2. <<k, row.secret>> \in stored
    BY <1>1, <1>2, <2>1 DEF TableOK, RowOK
  <2> QED
    BY <1>1, <2>1, <2>2 DEF TableOK
<1>4. /\ new \in KeyRow /\ new.owner = row.owner
      /\ row.revoked => new.revoked
      /\ row.label = "new" => new.label = "new"
      /\ op[c].kind = "revoke" => new.revoked
      /\ op[c].kind = "rename" => new.label = "new"
      /\ op[c].kind = "rotate" => new.secret = secret[c]
      /\ op[c].kind # "rotate" => new.secret = row.secret
      /\ new.secret \in 0..drawn
  <2>1. CASE op[c].kind = "revoke"
    <3>1. new = [row EXCEPT !.revoked = TRUE]
      BY <2>1 DEF Patched
    <3> QED
      BY <1>3, <2>1, <3>1 DEF KeyRow
  <2>2. CASE op[c].kind = "rotate"
    <3>1. new = [row EXCEPT !.secret = secret[c]]
      BY <2>2 DEF Patched
    <3> QED
      BY <1>2, <1>3, <2>2, <3>1 DEF KeyRow
  <2>3. CASE op[c].kind = "rename"
    <3>1. new = [row EXCEPT !.label = "new"]
      BY <2>3 DEF Patched
    <3> QED
      BY <1>3, <2>3, <3>1 DEF KeyRow
  <2> QED
    BY <1>2, <2>1, <2>2, <2>3
<1>5. /\ keys' \in [Keys -> KeyRow] /\ keys'[k] = new
      /\ \A j \in Keys : j # k => keys'[j] = keys[j]
  <2>1. keys' = [keys EXCEPT ![k] = new] /\ keys \in [Keys -> KeyRow]
    BY <1>1 DEF AccountsTypeOK
  <2> HIDE DEF new
  <2> QED
    BY <1>2, <1>4, <2>1
<1>6. stored' = stored \cup {<<k, new.secret>>}
  BY <1>5
<1>7. /\ place' \in [Calls -> Places] /\ reply' \in [Calls -> Replies] /\ faults' \in Nat
      /\ \A e \in Calls : e # c => place'[e] = place[e] /\ reply'[e] = reply[e]
      /\ \/ place'[c] = "audit" /\ reply'[c] = reply[c]
         \/ place'[c] = "done" /\ reply'[c] = "failed"
  BY <1>1, FaultsAreTyped DEF Wrote, Fails, To, Answer, AccountsTypeOK, Places, Replies
<1>8. UNCHANGED <<customers, audit, overtaken, drawn, op, secret>>
  BY DEF Patch
<1> HIDE DEF new
<1>9. AccountsTypeOK'
  BY <1>1, <1>2, <1>4, <1>5, <1>6, <1>7, <1>8 DEF AccountsTypeOK
<1>10. Only(c)
  BY <1>7, <1>8 DEF Only
<1>11. Grown
  BY <1>2, <1>4, <1>5, <1>6, <1>8 DEF Grown
<1>12. TableOK'
  <2>1. stored' \subseteq Keys \X (0..drawn')
    BY <1>1, <1>2, <1>4, <1>6, <1>8 DEF TableOK
  <2>2. RowOK(k)'
    BY <1>3, <1>4, <1>5, <1>6 DEF RowOK
  <2>3. ASSUME NEW j \in Keys, j # k PROVE RowOK(j)'
    BY <1>1, <1>5, <1>6, <2>3 DEF RowOK, TableOK
  <2> QED
    BY <2>1, <2>2, <2>3 DEF TableOK
<1>13. FreshSecrets'
  <2>1. ASSUME NEW e \in Calls, NEW j \in Keys,
               place'[e] \in {"insert", "patch"}, secret'[e] # 0
        PROVE  <<j, secret'[e]>> \notin stored'
    <3>1. e # c /\ secret[e] # secret[c] /\ secret[e] # 0 /\ place[e] \in {"insert", "patch"}
      BY <1>1, <1>7, <1>8, <2>1 DEF FreshSecrets
    <3>2. <<j, secret[e]>> \notin stored /\ <<k, secret[e]>> \notin stored
      BY <1>1, <1>2, <3>1 DEF FreshSecrets
    <3>3. <<j, secret[e]>> # <<k, new.secret>>
      BY <1>3, <1>4, <3>1, <3>2
    <3> QED
      BY <1>6, <1>8, <3>2, <3>3
  <2> QED
    BY <1>1, <1>8, <2>1 DEF FreshSecrets
<1>14. AuditSound'
  BY <1>1, <1>8, <1>11, TrailCarries
<1>15. CallOK(c)'
  BY <1>1, <1>2, <1>7, <1>8 DEF CallOK
<1>16. Landed(c)' /\ Told(c)'
  BY <1>1, <1>2, <1>4, <1>5, <1>6, <1>7, <1>8 DEF Landed, Told, CallOK
<1> QED
  BY <1>9, <1>10, <1>11, <1>12, <1>13, <1>14, <1>15, <1>16, CallsCarry

LEMMA PatchInv ==
    ASSUME AccountsInv, NEW c \in Calls, Patch(c)
    PROVE  AccountsInv'
<1>1. AccountsTypeOK
  BY DEF AccountsInv
<1>2. CASE /\ Matches(c)
           /\ keys' = [keys EXCEPT ![op[c].key] = Patched(c)]
           /\ stored' = stored \cup {<<op[c].key, keys'[op[c].key].secret>>}
           /\ Wrote(c, "audit")
  BY <1>2, PatchLands
<1>3. CASE UNCHANGED <<keys, stored>> /\ \E a \in {"not_found", "failed"} :
             Answer(c, a) /\ (Fault \/ NoFault)
  BY <1>1, <1>3, MoveInv, FaultsAreTyped DEF Patch, Replies, tableVars
<1> QED
  BY <1>2, <1>3 DEF Patch, Fails

LEMMA SignupInv ==
    ASSUME AccountsInv, NEW c \in Calls, Signup(c)
    PROVE  AccountsInv'
<1>1. AccountsTypeOK /\ CallOK(c) /\ TableOK /\ FreshSecrets /\ AuditSound /\ place[c] = "signup"
  BY DEF AccountsInv, Signup
<1>2. CASE UNCHANGED customers /\ Answer(c, "failed") /\ (Fault \/ NoFault)
  BY <1>1, <1>2, MoveInv, FaultsAreTyped DEF Signup, Replies, tableVars
<1>3. CASE customers' = customers \cup {op[c].user} /\ Wrote(c, "welcome")
  <2>1. op[c].user \in Users /\ op[c].kind = "login"
    BY <1>1 DEF CallOK
  <2>2. /\ place' \in [Calls -> Places] /\ reply' \in [Calls -> Replies] /\ faults' \in Nat
        /\ \A e \in Calls : e # c => place'[e] = place[e] /\ reply'[e] = reply[e]
        /\ \/ place'[c] = "welcome" /\ reply'[c] = reply[c]
           \/ place'[c] = "done" /\ reply'[c] = "failed"
    BY <1>1, <1>3, FaultsAreTyped DEF Wrote, Fails, To, Answer, AccountsTypeOK, Places, Replies
  <2>3. UNCHANGED <<keys, audit, stored, overtaken, drawn, op, secret>>
    BY DEF Signup
  <2>4. AccountsTypeOK'
    BY <1>1, <1>3, <2>1, <2>2, <2>3 DEF AccountsTypeOK
  <2>5. Only(c)
    BY <2>2, <2>3 DEF Only
  <2>6. Grown
    BY <1>3, <2>3 DEF Grown
  <2>7. TableOK'
    BY <1>1, <2>3 DEF TableOK, RowOK
  <2>8. FreshSecrets'
    BY <1>1, <2>2, <2>3 DEF FreshSecrets
  <2>9. AuditSound'
    BY <1>1, <2>3, <2>6, TrailCarries
  <2>10. CallOK(c)'
    BY <1>1, <2>1, <2>2, <2>3 DEF CallOK
  <2>11. Landed(c)' /\ Told(c)'
    BY <1>1, <1>3, <2>1, <2>2, <2>3 DEF Landed, Told, CallOK
  <2> QED
    BY <2>4, <2>5, <2>6, <2>7, <2>8, <2>9, <2>10, <2>11, CallsCarry
<1> QED
  BY <1>2, <1>3 DEF Signup, Fails

\* An audit event that is written tells of what is committed: at account.signup
\* the customer's row, at the others what Landed says.
LEMMA EventIsTrue ==
    ASSUME AccountsTypeOK, AuditSound, NEW c \in Calls, NEW event,
           audit' = audit \cup {event}, UNCHANGED <<customers, keys, stored>>,
           NEW a \in Kinds \cup {"signup"}, NEW x \in Users \cup Keys, NEW s \in Nat,
           event = <<a, x, s>>,
           a \in {"login", "signup"} => x \in customers,
           a = "revoke" => x \in Keys /\ keys[x].revoked,
           a = "rename" => x \in Keys /\ keys[x].label = "new",
           a \in {"create", "rotate"} => <<x, s>> \in stored
    PROVE  /\ AuditSound'
           /\ audit' \subseteq (Kinds \cup {"signup"}) \X (Users \cup Keys) \X Nat
<1>1. ASSUME NEW k \in Keys, NEW t \in Nat
      PROVE  /\ <<"revoke", k, t>> \in audit' => keys'[k].revoked
             /\ <<"rename", k, t>> \in audit' => keys'[k].label = "new"
             /\ <<"create", k, t>> \in audit' \/ <<"rotate", k, t>> \in audit'
                    => <<k, t>> \in stored'
  BY DEF AuditSound
<1>2. \A u \in Users, b \in {"login", "signup"} : <<b, u, 0>> \in audit' => u \in customers'
  BY DEF AuditSound
<1>3. audit' \subseteq (Kinds \cup {"signup"}) \X (Users \cup Keys) \X Nat
  BY DEF AccountsTypeOK
<1> QED
  BY <1>1, <1>2, <1>3 DEF AuditSound

LEMMA WelcomeInv ==
    ASSUME AccountsInv, NEW c \in Calls, Welcome(c)
    PROVE  AccountsInv'
<1>1. /\ AccountsTypeOK /\ CallOK(c) /\ Landed(c) /\ TableOK /\ FreshSecrets /\ AuditSound
      /\ place[c] = "welcome"
  BY DEF AccountsInv, Welcome
<1>2. CASE UNCHANGED audit /\ Fails(c)
  BY <1>1, <1>2, MoveInv, FaultsAreTyped DEF Welcome, Fails, Replies, tableVars
<1>3. CASE audit' = audit \cup {<<"signup", op[c].user, 0>>} /\ Wrote(c, "audit")
  <2>1. op[c].user \in Users /\ op[c].kind = "login" /\ op[c].user \in customers
    BY <1>1 DEF CallOK, Landed
  <2>2. /\ place' \in [Calls -> Places] /\ reply' \in [Calls -> Replies] /\ faults' \in Nat
        /\ \A e \in Calls : e # c => place'[e] = place[e] /\ reply'[e] = reply[e]
        /\ \/ place'[c] = "audit" /\ reply'[c] = reply[c]
           \/ place'[c] = "done" /\ reply'[c] = "failed"
    BY <1>1, <1>3, FaultsAreTyped DEF Wrote, Fails, To, Answer, AccountsTypeOK, Places, Replies
  <2>3. UNCHANGED <<customers, keys, stored, overtaken, drawn, op, secret>>
    BY DEF Welcome
  <2>4. AuditSound' /\ audit' \subseteq (Kinds \cup {"signup"}) \X (Users \cup Keys) \X Nat
    BY <1>1, <1>3, <2>1, <2>3, EventIsTrue
  <2>5. AccountsTypeOK'
    BY <1>1, <2>2, <2>3, <2>4 DEF AccountsTypeOK
  <2>6. Only(c)
    BY <2>2, <2>3 DEF Only
  <2>7. Grown /\ TableOK'
    BY <1>1, <1>3, <2>3, TablesCarry
  <2>8. FreshSecrets'
    BY <1>1, <2>2, <2>3 DEF FreshSecrets
  <2>9. CallOK(c)'
    BY <1>1, <2>1, <2>2, <2>3 DEF CallOK
  <2>10. Landed(c)' /\ Told(c)'
    BY <1>1, <2>1, <2>2, <2>3 DEF Landed, Told, CallOK
  <2> QED
    BY <2>4, <2>5, <2>6, <2>7, <2>8, <2>9, <2>10, CallsCarry
<1> QED
  BY <1>2, <1>3 DEF Welcome

LEMMA AuditInv ==
    ASSUME AccountsInv, NEW c \in Calls, Audit(c)
    PROVE  AccountsInv'
<1>1. /\ AccountsTypeOK /\ CallOK(c) /\ Landed(c) /\ TableOK /\ FreshSecrets /\ AuditSound
      /\ place[c] = "audit"
  BY DEF AccountsInv, Audit
<1>2. CASE UNCHANGED audit /\ Fails(c)
  BY <1>1, <1>2, MoveInv, FaultsAreTyped DEF Audit, Fails, Replies, tableVars
<1>3. CASE /\ audit' = audit \cup {Event(c)}
           /\ \/ NoFault /\ To(c, "usage")
              \/ NoFault /\ Answer(c, "ok")
              \/ Fails(c)
  <2>1. /\ op[c].user \in Users /\ op[c].kind \in Kinds /\ op[c].kind # "list"
        /\ secret[c] \in Nat
        /\ op[c].kind \in {"revoke", "rotate", "rename"} => op[c].key \in Keys
        /\ secret[c] # 0 => op[c].kind \in {"create", "rotate"}
    BY <1>1, CallsAreTyped DEF CallOK
  <2>2. /\ place' \in [Calls -> Places] /\ reply' \in [Calls -> Replies] /\ faults' \in Nat
        /\ \A e \in Calls : e # c => place'[e] = place[e] /\ reply'[e] = reply[e]
        /\ \/ place'[c] = "usage" /\ reply'[c] = reply[c]
           \/ place'[c] = "done"
    BY <1>1, <1>3, FaultsAreTyped DEF Fails, To, Answer, AccountsTypeOK, Places, Replies
  <2>3. UNCHANGED <<customers, keys, stored, overtaken, drawn, op, secret>>
    BY DEF Audit
  <2>4. PICK a \in Kinds, x \in Users \cup Keys, s \in Nat :
           /\ Event(c) = <<a, x, s>>
           /\ a \in {"login", "signup"} => x \in customers
           /\ a = "revoke" => x \in Keys /\ keys[x].revoked
           /\ a = "rename" => x \in Keys /\ keys[x].label = "new"
           /\ a \in {"create", "rotate"} => <<x, s>> \in stored
    <3>1. CASE op[c].kind = "login"
      <4>1. Event(c) = <<"login", op[c].user, 0>> /\ op[c].user \in customers
        BY <1>1, <3>1 DEF Event, Landed
      <4> QED
        BY <2>1, <3>1, <4>1
    <3>2. CASE op[c].kind # "login"
      <4>1. /\ Event(c) = <<op[c].kind, op[c].key, secret[c]>>
            /\ op[c].kind \in {"create", "revoke", "rotate", "rename"}
        BY <2>1, <3>2 DEF Event, Kinds
      <4>2. /\ op[c].kind = "revoke" => keys[op[c].key].revoked
            /\ op[c].kind = "rename" => keys[op[c].key].label = "new"
            /\ op[c].kind \in {"create", "rotate"} =>
                  op[c].key \in Keys /\ <<op[c].key, secret[c]>> \in stored
        BY <1>1, <4>1 DEF Landed
      <4> QED
        BY <2>1, <4>1, <4>2
    <3> QED
      BY <3>1, <3>2
  <2>5. AuditSound' /\ audit' \subseteq (Kinds \cup {"signup"}) \X (Users \cup Keys) \X Nat
    BY <1>1, <1>3, <2>3, <2>4, EventIsTrue
  <2>6. AccountsTypeOK'
    BY <1>1, <2>2, <2>3, <2>5 DEF AccountsTypeOK
  <2>7. Only(c)
    BY <2>2, <2>3 DEF Only
  <2>8. Grown /\ TableOK'
    BY <1>1, <1>3, <2>3, TablesCarry
  <2>9. FreshSecrets'
    BY <1>1, <2>2, <2>3 DEF FreshSecrets
  <2>10. CallOK(c)'
    BY <1>1, <2>1, <2>2, <2>3 DEF CallOK
  <2>11. Landed(c)'
    BY <1>1, <2>2 DEF Landed
  <2>12. Told(c)'
    <3>1. Event(c) \in audit' /\ Event(c)' = Event(c)
      BY <1>3, <2>3 DEF Event
    <3>2. secret[c] # 0 => <<op[c].key, secret[c]>> \in stored
      BY <1>1, <2>1 DEF Landed
    <3> QED
      BY <2>3, <3>1, <3>2 DEF Told
  <2> QED
    BY <2>5, <2>6, <2>7, <2>8, <2>9, <2>10, <2>11, <2>12, CallsCarry
<1> QED
  BY <1>2, <1>3 DEF Audit

-----------------------------------------------------------------------------

LEMMA StepInv ==
    ASSUME AccountsInv, [AccountsNext]_accountVars
    PROVE  AccountsInv'
<1>1. CASE UNCHANGED accountVars
  <2> USE <1>1 DEF accountVars
  <2>1. AccountsTypeOK' /\ TableOK'
    BY DEF AccountsInv, AccountsTypeOK, TableOK, RowOK
  <2>2. FreshSecrets' /\ AuditSound'
    BY DEF AccountsInv, FreshSecrets, AuditSound
  <2>3. ASSUME NEW c \in Calls PROVE CallOK(c)' /\ Landed(c)' /\ Told(c)'
    <3>1. CallOK(c) /\ Landed(c) /\ Told(c)
      BY DEF AccountsInv
    <3>2. CallOK(c)'
      BY <3>1 DEF CallOK
    <3>3. Landed(c)'
      BY <3>1 DEF Landed
    <3>4. Told(c)'
      BY <3>1 DEF Told, Event
    <3> QED
      BY <3>2, <3>3, <3>4
  <2> QED
    BY <2>1, <2>2, <2>3 DEF AccountsInv
<1>2. ASSUME NEW c \in Calls, CallStep(c) PROVE AccountsInv'
  BY <1>2, ArriveInv, ContextInv, ListInv, InsertInv, PatchInv, LookupInv, SignupInv,
     WelcomeInv, AuditInv, UsageInv DEF CallStep
<1> QED
  BY <1>1, <1>2 DEF AccountsNext

\* The invariant every theorem below rests on.
THEOREM Invariant == AccountsSpec => []AccountsInv
<1>1. AccountsInv /\ [AccountsNext]_accountVars => AccountsInv'
  BY StepInv
<1> QED
  BY InitInv, <1>1, PTL DEF AccountsSpec

\* Type correctness, for any number of users, keys and calls.
THEOREM TypeCorrect == AccountsSpec => []AccountsTypeOK
<1>1. AccountsInv => AccountsTypeOK
  BY DEF AccountsInv
<1> QED
  BY Invariant, <1>1, PTL

\* audit_events tells no event that did not happen, whatever overlaps or fails:
\* each handler writes its event after the change it describes.
THEOREM AuditNeverLies == AccountsSpec => []AuditIsTruthful
<1>1. AccountsInv => AuditIsTruthful
  BY DEF AccountsInv, AuditSound, AccountsTypeOK, AuditIsTruthful
<1> QED
  BY Invariant, <1>1, PTL

\* A customer who was told of a change finds it in the audit trail, and a secret
\* handed out is one api_keys really held for that key.
THEOREM SuccessLeavesATrace == AccountsSpec => []SuccessIsAudited
<1>1. AccountsInv => SuccessIsAudited
  BY DEF AccountsInv, Told, SuccessIsAudited
<1> QED
  BY Invariant, <1>1, PTL

\* Both together: the audit trail, what customers are told and the keys agree.
THEOREM AuditAgrees == AccountsSpec => []AuditAgreesWithKeys
  BY AuditNeverLies, SuccessLeavesATrace, PTL DEF AuditAgreesWithKeys

-----------------------------------------------------------------------------

\* What one step does to one key: nothing, a create of a blank row, or a PATCH
\* by its owner that matched the row as it is now.
LEMMA KeySteps ==
    ASSUME AccountsInv, NEW c \in Calls, CallStep(c), NEW k \in Keys, keys'[k] # keys[k]
    PROVE  /\ place[c] \in {"insert", "patch"} /\ place'[c] # place[c]
           /\ op'[c].key = k /\ op[c].user = keys'[k].owner
           /\ keys[k].owner \in {None, op[c].user}
           /\ ~keys[k].revoked
<1>1. AccountsTypeOK /\ CallOK(c) /\ TableOK /\ place[c] \in Places
  BY CallsAreTyped DEF AccountsInv
<1>2. Insert(c) \/ Patch(c)
  BY DEF CallStep, Arrive, Context, List, Lookup, Signup, Welcome, Audit, Usage, tableVars
<1>3. /\ place'[c] # place[c]
      /\ place[c] \in {"insert", "patch"}
  BY <1>1, <1>2 DEF Insert, Patch, Wrote, Fails, To, Answer, AccountsTypeOK
<1>4. CASE Insert(c)
  <2> DEFINE fresh == [owner |-> op[c].user, secret |-> secret[c], revoked |-> FALSE,
                       label |-> "old"]
  <2>1. PICK j \in Owned(None) : /\ keys' = [keys EXCEPT ![j] = fresh]
                                 /\ op' = [op EXCEPT ![c].key = j]
    BY <1>4 DEF Insert
  <2>2. j = k /\ keys'[k] = fresh
    BY <1>1, <2>1 DEF AccountsTypeOK, Owned
  <2>3. op'[c].key = k
    BY <1>1, <2>1, <2>2 DEF AccountsTypeOK, Op
  <2>4. keys[k].owner = None /\ keys[k] = NoRow
    BY <1>1, <2>1, <2>2 DEF Owned, TableOK, RowOK
  <2> QED
    BY <1>3, <2>2, <2>3, <2>4 DEF NoRow
<1>5. CASE Patch(c)
  <2>1. /\ Matches(c) /\ keys' = [keys EXCEPT ![op[c].key] = Patched(c)] /\ op' = op
    BY <1>5 DEF Patch, Fails
  <2>2. k = op[c].key /\ keys'[k] = Patched(c)
    BY <1>1, <2>1 DEF AccountsTypeOK
  <2>3. keys[k].owner = op[c].user /\ keys[k] \in KeyRow
    BY <1>1, <2>1, <2>2, RowsAreTyped DEF Matches
  <2>4. op[c].kind \in {"revoke", "rotate", "rename"}
    BY <1>1, <1>5 DEF CallOK, Patch
  <2>5. Patched(c).owner = op[c].user
    BY <2>2, <2>3, <2>4 DEF Patched, KeyRow
  <2>6. ~keys[k].revoked
    <3>1. CASE op[c].kind = "revoke"
      <4>1. Patched(c) = [keys[k] EXCEPT !.revoked = TRUE]
        BY <2>2, <3>1 DEF Patched
      <4>2. keys[k].revoked => Patched(c) = keys[k]
        BY <2>3, <4>1 DEF KeyRow
      <4> QED
        BY <2>2, <4>2
    <3>2. CASE op[c].kind # "revoke"
      BY <2>1, <2>2, <3>2 DEF Matches
    <3> QED
      BY <3>1, <3>2
  <2> QED
    BY <1>3, <2>1, <2>2, <2>3, <2>5, <2>6
<1> QED
  BY <1>2, <1>4, <1>5

\* A revoked key cannot be rotated, renamed or revived, however long ago the
\* call that tries listed it as active.
THEOREM RevokedStaysRevoked == AccountsSpec => RevokedKeysAreFrozen
<1>1. AccountsInv /\ [AccountsNext]_accountVars
         => [\A k \in Keys : keys[k].revoked => keys'[k] = keys[k]]_accountVars
  BY KeySteps DEF AccountsNext
<1> QED
  BY Invariant, <1>1, PTL DEF AccountsSpec, RevokedKeysAreFrozen

\* No customer's call touches a key of another: a row changes only by the insert
\* that gives it its owner and by PATCHes of that owner's calls.
THEOREM KeysHaveOneMaster == AccountsSpec => OnlyOwnersChangeKeys
<1>1. ASSUME AccountsInv, [AccountsNext]_accountVars, accountVars' # accountVars,
             NEW k \in Keys, keys'[k] # keys[k]
      PROVE  \E c \in Calls :
                /\ place[c] \in {"insert", "patch"} /\ place'[c] # place[c]
                /\ op'[c].key = k
                /\ op[c].user = keys'[k].owner
                /\ keys[k].owner \in {None, op[c].user}
  BY <1>1, KeySteps DEF AccountsNext
<1>2. AccountsInv /\ [AccountsNext]_accountVars
         => [\A k \in Keys :
               keys'[k] # keys[k] =>
                   \E c \in Calls :
                       /\ place[c] \in {"insert", "patch"} /\ place'[c] # place[c]
                       /\ op'[c].key = k
                       /\ op[c].user = keys'[k].owner
                       /\ keys[k].owner \in {None, op[c].user}]_accountVars
  BY <1>1
<1> QED
  BY Invariant, <1>2, PTL DEF AccountsSpec, OnlyOwnersChangeKeys

-----------------------------------------------------------------------------

\* Creates that have passed the limit check and are yet to insert their row, and
\* where a create is once its insert is over.
Pending(u) == {c \in Calls : place[c] = "insert" /\ op[c].user = u}
Settled == {"audit", "usage", "done"}

\* A pending create left the limit room for its row when it listed; since then
\* it has lost the room of the creates that overtook it, and of nothing else.
OverlapInv ==
    /\ \A c, e \in Calls : e \in overtaken[c] => place[e] \in Settled
    /\ \A c \in Calls : op[c].kind = "create" /\ op[c].key # None => place[c] \in Settled
    /\ \A u \in Users, c \in Calls :
          c \in Pending(u) =>
              Cardinality(Active(u)) < MaxKeys + Cardinality(overtaken[c])
    /\ LimitHoldsButForOverlaps

LEMMA CountsAreTyped ==
    ASSUME AccountsTypeOK, NEW u, NEW c \in Calls
    PROVE  /\ IsFiniteSet(Active(u)) /\ Cardinality(Active(u)) \in Nat
           /\ IsFiniteSet(Overtaken(u)) /\ Cardinality(Overtaken(u)) \in Nat
           /\ IsFiniteSet(overtaken[c]) /\ Cardinality(overtaken[c]) \in Nat
           /\ MaxKeys \in Nat
<1>1. /\ Active(u) \in SUBSET Keys /\ Overtaken(u) \in SUBSET Calls
      /\ overtaken[c] \in SUBSET Calls
  BY DEF Active, Owned, Overtaken, AccountsTypeOK
<1> QED
  BY <1>1, AccountsAssumption, FS_Subset, FS_CardinalityType

\* The insert of c takes effect, its reply lost or not.
Lands(c) ==
    /\ place[c] = "insert"
    /\ \E k \in Owned(None) :
          /\ keys' = [keys EXCEPT ![k] =
                 [owner |-> op[c].user, secret |-> secret[c], revoked |-> FALSE,
                  label |-> "old"]]
          /\ op' = [op EXCEPT ![c].key = k]
          /\ Overtake(c)
          /\ Wrote(c, "audit")

LEMMA OthersStay ==
    ASSUME AccountsTypeOK, NEW c \in Calls, CallStep(c), NEW e \in Calls, e # c
    PROVE  place'[e] = place[e] /\ op'[e] = op[e]
  BY DEF CallStep, Arrive, Context, List, Insert, Patch, Lookup, Signup, Welcome,
     Audit, Usage, To, Answer, Wrote, Fails, AccountsTypeOK, tableVars

\* A step that inserts nothing gives nobody an active key, and makes a create wait
\* to insert only below the limit.
LEMMA QuietSteps ==
    ASSUME AccountsInv, NEW c \in Calls, CallStep(c), ~Lands(c)
    PROVE  /\ UNCHANGED overtaken
           /\ \A u \in Users : Active(u)' \subseteq Active(u)
           /\ place[c] \in Settled => place'[c] \in Settled
           /\ \/ op'[c] = op[c]
              \/ op'[c].kind = "create" => op'[c].key = None
           /\ place'[c] = "insert" => op'[c] = op[c] /\ WithinLimit(op[c].user)
<1>1. AccountsTypeOK
  BY DEF AccountsInv
<1>2. ASSUME Insert(c)
      PROVE  UNCHANGED <<keys, overtaken, op>> /\ Fails(c) /\ place[c] = "insert"
  BY <1>2 DEF Insert, Lands
<1>3. UNCHANGED overtaken
  BY <1>2 DEF CallStep, Arrive, Context, List, Patch, Lookup, Signup, Welcome, Audit, Usage,
     tableVars
<1>4. ASSUME NEW u \in Users, NEW k \in Keys, k \in Active(u)', k \notin Active(u)
      PROVE  FALSE
  <2>1. keys'[k].owner = u /\ ~keys'[k].revoked /\ keys'[k] # keys[k]
    BY <1>4 DEF Active, Owned
  <2>2. /\ place[c] \in {"insert", "patch"} /\ op'[c].key = k
        /\ op[c].user = u /\ ~keys[k].revoked
    BY <2>1, KeySteps
  <2>3. Insert(c) \/ Patch(c)
    BY <2>2 DEF CallStep, Arrive, Context, List, Lookup, Signup, Welcome, Audit, Usage
  <2>4. Patch(c)
    BY <1>2, <2>1, <2>3
  <2>5. Matches(c) /\ op[c].key = k
    BY <2>1, <2>2, <2>4 DEF Patch, Fails
  <2> QED
    BY <1>4, <2>2, <2>5 DEF Matches, Active, Owned
<1>5. \A u \in Users : Active(u)' \subseteq Active(u)
  BY <1>4 DEF Active, Owned
<1>6. place[c] \in Settled => place'[c] \in Settled
  BY <1>1 DEF Settled, CallStep, Arrive, Context, List, Insert, Patch, Lookup, Signup, Welcome,
     Audit, Usage, To, Answer, Fails, AccountsTypeOK
<1>7. \/ op'[c] = op[c]
      \/ op'[c].kind = "create" => op'[c].key = None
  <2>1. CASE \E kind \in Kinds, u \in Users, k \in Keys : Arrive(c, kind, u, k)
    <3>1. PICK kind \in Kinds, u \in Users, k \in Keys : Arrive(c, kind, u, k)
      BY <2>1
    <3>2. op'[c] = [kind |-> kind, user |-> u,
                    key |-> IF kind \in {"revoke", "rotate", "rename"} THEN k ELSE None]
      BY <1>1, <3>1 DEF Arrive, AccountsTypeOK
    <3> QED
      BY <3>2
  <2>2. CASE ~\E kind \in Kinds, u \in Users, k \in Keys : Arrive(c, kind, u, k)
    <3>1. op' = op
      BY <1>2, <2>2 DEF CallStep, Context, List, Patch, Lookup, Signup, Welcome, Audit, Usage
    <3> QED
      BY <3>1
  <2> QED
    BY <2>1, <2>2
<1>8. ASSUME place'[c] = "insert" PROVE op'[c] = op[c] /\ WithinLimit(op[c].user)
  <2>1. List(c)
    BY <1>1, <1>2, <1>8 DEF CallStep, Arrive, Context, Patch, Lookup, Signup, Welcome, Audit,
       Usage, Wrote, Fails, To, Answer, AccountsTypeOK
  <2> QED
    BY <1>1, <1>8, <2>1 DEF List, To, Answer, Fails, AccountsTypeOK
<1> QED
  BY <1>3, <1>5, <1>6, <1>7, <1>8

LEMMA QuietOverlap ==
    ASSUME AccountsInv, OverlapInv, NEW c \in Calls, CallStep(c), ~Lands(c), AccountsTypeOK'
    PROVE  OverlapInv'
<1>1. AccountsTypeOK
  BY DEF AccountsInv
<1>2. /\ overtaken' = overtaken
      /\ \A u \in Users : Active(u)' \subseteq Active(u)
      /\ place[c] \in Settled => place'[c] \in Settled
      /\ \/ op'[c] = op[c]
         \/ op'[c].kind = "create" => op'[c].key = None
      /\ place'[c] = "insert" => op'[c] = op[c] /\ WithinLimit(op[c].user)
  BY QuietSteps
<1>3. \A e \in Calls : e # c => place'[e] = place[e] /\ op'[e] = op[e]
  BY <1>1, OthersStay
<1>4. ASSUME NEW u \in Users
      PROVE  /\ Cardinality(Active(u)') \in Nat /\ Cardinality(Active(u)) \in Nat
             /\ Cardinality(Active(u)') <= Cardinality(Active(u))
  BY <1>1, <1>2, CountsAreTyped, FS_Subset, FS_CardinalityType
<1>5. \A d, e \in Calls : e \in overtaken'[d] => place'[e] \in Settled
  BY <1>2, <1>3 DEF OverlapInv
<1>6. ASSUME NEW e \in Calls, op'[e].kind = "create", op'[e].key # None
      PROVE  place'[e] \in Settled
  BY <1>2, <1>3, <1>6 DEF OverlapInv
<1>7. ASSUME NEW u \in Users, NEW e \in Calls, e \in Pending(u)'
      PROVE  Cardinality(Active(u)') < MaxKeys + Cardinality(overtaken'[e])
  <2>1. Cardinality(overtaken[e]) \in Nat /\ MaxKeys \in Nat
    BY <1>1, CountsAreTyped
  <2>2. Cardinality(Active(u)) < MaxKeys + Cardinality(overtaken[e])
    <3>1. CASE e # c
      BY <1>3, <1>7, <3>1 DEF OverlapInv, Pending
    <3>2. CASE e = c
      <4>1. WithinLimit(u)
        BY <1>2, <1>7, <3>2 DEF Pending
      <4> QED
        BY <1>4, <2>1, <4>1 DEF WithinLimit
    <3> QED
      BY <3>1, <3>2
  <2> QED
    BY <1>2, <1>4, <2>1, <2>2
<1>8. ASSUME NEW u \in Users
      PROVE  Cardinality(Active(u)') <= MaxKeys + Cardinality(Overtaken(u)')
  <2>1. Overtaken(u) \subseteq Overtaken(u)'
    <3>1. ASSUME NEW e \in Overtaken(u) PROVE e \in Overtaken(u)'
      <4>1. CASE e # c
        BY <1>2, <1>3, <4>1 DEF Overtaken
      <4>2. CASE e = c
        <5>1. place[c] \in Settled /\ op[c].kind = "create"
          BY <4>2 DEF Overtaken, OverlapInv
        <5>2. op' = op
          BY <5>1 DEF Settled, CallStep, Arrive, Context, List, Insert, Patch, Lookup, Signup,
             Welcome, Audit, Usage
        <5> QED
          BY <1>2, <4>2, <5>2 DEF Overtaken
      <4> QED
        BY <4>1, <4>2
    <3> QED
      BY <3>1
  <2>2. IsFiniteSet(Overtaken(u)') /\ Cardinality(Overtaken(u)') \in Nat
    <3>1. Overtaken(u)' \in SUBSET Calls
      BY DEF Overtaken
    <3> QED
      BY <3>1, AccountsAssumption, FS_Subset, FS_CardinalityType
  <2>3. Cardinality(Overtaken(u)) <= Cardinality(Overtaken(u)')
    BY <2>1, <2>2, FS_Subset
  <2>4. /\ Cardinality(Active(u)) <= MaxKeys + Cardinality(Overtaken(u))
        /\ Cardinality(Overtaken(u)) \in Nat /\ MaxKeys \in Nat
    BY <1>1, CountsAreTyped DEF OverlapInv, LimitHoldsButForOverlaps
  <2> QED
    BY <1>4, <2>2, <2>3, <2>4
<1> QED
  BY <1>5, <1>6, <1>7, <1>8 DEF OverlapInv, LimitHoldsButForOverlaps

\* An insert takes one place of its customer: from the creates that still wait,
\* which it overtakes, and from the limit only if c itself was overtaken.
LEMMA LandingOverlap ==
    ASSUME AccountsInv, OverlapInv, NEW c \in Calls, CallStep(c), Lands(c), AccountsTypeOK'
    PROVE  OverlapInv'
<1>1. AccountsTypeOK /\ CallOK(c) /\ place[c] = "insert"
  BY DEF AccountsInv, Lands
<1>2. PICK k \in Owned(None) :
         /\ keys' = [keys EXCEPT ![k] =
                [owner |-> op[c].user, secret |-> secret[c], revoked |-> FALSE,
                 label |-> "old"]]
         /\ op' = [op EXCEPT ![c].key = k]
         /\ Overtake(c)
         /\ Wrote(c, "audit")
  BY DEF Lands
<1>3. /\ op[c].user \in Users /\ op[c].kind = "create" /\ k \in Keys /\ k # None
      /\ op[c] \in Op
  BY <1>1, <1>2, AccountsAssumption, CallsAreTyped DEF CallOK, Owned
<1>4. /\ place'[c] \in Settled
      /\ op'[c].kind = "create" /\ op'[c].user = op[c].user /\ op'[c].key = k
  <2>1. place'[c] \in Settled
    BY <1>1, <1>2 DEF Wrote, Fails, To, Answer, AccountsTypeOK, Settled
  <2>2. op'[c] = [op[c] EXCEPT !.key = k]
    BY <1>1, <1>2 DEF AccountsTypeOK
  <2> QED
    BY <1>3, <2>1, <2>2 DEF Op
<1>5. \A e \in Calls : e # c => place'[e] = place[e] /\ op'[e] = op[e]
  BY <1>1, OthersStay
<1>6. /\ overtaken'[c] = overtaken[c]
      /\ \A e \in Calls : /\ overtaken[e] \subseteq overtaken'[e]
                          /\ overtaken'[e] \subseteq overtaken[e] \cup {c}
      /\ \A e \in Calls : place[e] = "insert" /\ e # c /\ op[e].user = op[c].user
                              => overtaken'[e] = overtaken[e] \cup {c}
  BY <1>2 DEF Overtake
<1> PICK v \in Users : v = op[c].user
  BY <1>3
<1>7. /\ Active(v)' \subseteq Active(v) \cup {k}
      /\ \A u \in Users : u # v => Active(u)' \subseteq Active(u)
  <2>1. /\ keys'[k].owner = op[c].user
        /\ \A j \in Keys : j # k => keys'[j] = keys[j]
    BY <1>1, <1>2, <1>3 DEF AccountsTypeOK
  <2> QED
    BY <2>1 DEF Active, Owned
<1>8. c \in Pending(v) /\ c \notin Overtaken(v)
  BY <1>1, <1>3 DEF Pending, Overtaken, OverlapInv, Settled
<1>9. ASSUME NEW u \in Users
      PROVE  /\ Cardinality(Active(u)') \in Nat /\ Cardinality(Active(u)) \in Nat
             /\ Cardinality(Active(u)') <= Cardinality(Active(u)) + 1
             /\ u # v => Cardinality(Active(u)') <= Cardinality(Active(u))
  <2>1. IsFiniteSet(Active(u)) /\ Cardinality(Active(u)) \in Nat
    BY <1>1, CountsAreTyped
  <2>2. /\ IsFiniteSet(Active(u) \cup {k})
        /\ Cardinality(Active(u) \cup {k}) <= Cardinality(Active(u)) + 1
    <3>1. /\ IsFiniteSet(Active(u) \cup {k})
          /\ \/ Cardinality(Active(u) \cup {k}) = Cardinality(Active(u))
             \/ Cardinality(Active(u) \cup {k}) = Cardinality(Active(u)) + 1
      BY <2>1, FS_AddElement
    <3> QED
      BY <2>1, <3>1
  <2>3. Active(u)' \subseteq Active(u) \cup {k}
    BY <1>7
  <2>4. /\ Cardinality(Active(u)') \in Nat
        /\ Cardinality(Active(u)') <= Cardinality(Active(u) \cup {k})
        /\ Cardinality(Active(u) \cup {k}) \in Nat
    BY <2>2, <2>3, FS_Subset, FS_CardinalityType
  <2>5. u # v => Cardinality(Active(u)') <= Cardinality(Active(u))
    BY <1>7, <2>1, FS_Subset
  <2> QED
    BY <2>1, <2>2, <2>4, <2>5
<1>10. \A d, e \in Calls : e \in overtaken'[d] => place'[e] \in Settled
  BY <1>4, <1>5, <1>6 DEF OverlapInv
<1>11. \A e \in Calls : op'[e].kind = "create" /\ op'[e].key # None => place'[e] \in Settled
  BY <1>4, <1>5 DEF OverlapInv
<1>12. ASSUME NEW u \in Users, NEW e \in Calls, e \in Pending(u)'
       PROVE  Cardinality(Active(u)') < MaxKeys + Cardinality(overtaken'[e])
  <2>1. e # c /\ place[e] = "insert" /\ op[e].user = u /\ e \in Pending(u)
    BY <1>4, <1>5, <1>12 DEF Pending, Settled
  <2>2. /\ Cardinality(Active(u)) < MaxKeys + Cardinality(overtaken[e])
        /\ Cardinality(overtaken[e]) \in Nat /\ IsFiniteSet(overtaken[e]) /\ MaxKeys \in Nat
    BY <1>1, <2>1, CountsAreTyped DEF OverlapInv
  <2>3. CASE u = v
    <3>1. overtaken'[e] = overtaken[e] \cup {c} /\ c \notin overtaken[e]
      BY <1>1, <1>6, <2>1, <2>3 DEF OverlapInv, Settled
    <3>2. Cardinality(overtaken'[e]) = Cardinality(overtaken[e]) + 1
      BY <2>2, <3>1, FS_AddElement
    <3> QED
      BY <1>9, <2>2, <3>2
  <2>4. CASE u # v
    <3>1. overtaken'[e] = overtaken[e]
      BY <1>2, <2>1, <2>4 DEF Overtake
    <3> QED
      BY <1>9, <2>2, <2>4, <3>1
  <2> QED
    BY <2>3, <2>4
<1>13. ASSUME NEW u \in Users
       PROVE  Cardinality(Active(u)') <= MaxKeys + Cardinality(Overtaken(u)')
  <2>1. Overtaken(u) \subseteq Overtaken(u)'
    <3>1. ASSUME NEW e \in Overtaken(u) PROVE e \in Overtaken(u)'
      BY <1>3, <1>4, <1>5, <1>6 DEF Overtaken
    <3> QED
      BY <3>1
  <2>2. IsFiniteSet(Overtaken(u)') /\ Cardinality(Overtaken(u)') \in Nat
    <3>1. Overtaken(u)' \in SUBSET Calls
      BY DEF Overtaken
    <3> QED
      BY <3>1, AccountsAssumption, FS_Subset, FS_CardinalityType
  <2>3. Cardinality(Overtaken(u)) <= Cardinality(Overtaken(u)')
    BY <2>1, <2>2, FS_Subset
  <2>4. /\ Cardinality(Active(u)) <= MaxKeys + Cardinality(Overtaken(u))
        /\ IsFiniteSet(Overtaken(u)) /\ Cardinality(Overtaken(u)) \in Nat /\ MaxKeys \in Nat
        /\ Cardinality(overtaken[c]) \in Nat
    BY <1>1, CountsAreTyped DEF OverlapInv, LimitHoldsButForOverlaps
  <2>5. CASE u # v
    BY <1>9, <2>2, <2>3, <2>4, <2>5
  <2>6. CASE u = v /\ overtaken[c] = {}
    <3>1. Cardinality(Active(u)) < MaxKeys + Cardinality(overtaken[c])
      BY <1>8, <2>6 DEF OverlapInv
    <3>2. Cardinality(overtaken[c]) = 0
      BY <2>6, FS_EmptySet
    <3> QED
      BY <1>9, <2>2, <2>4, <3>1, <3>2
  <2>7. CASE u = v /\ overtaken[c] # {}
    <3>1. c \in Overtaken(u)' /\ c \notin Overtaken(u)
      BY <1>3, <1>4, <1>6, <1>8, <2>7 DEF Overtaken
    <3>2. Overtaken(u) \cup {c} \subseteq Overtaken(u)'
      BY <2>1, <3>1
    <3>3. Cardinality(Overtaken(u) \cup {c}) = Cardinality(Overtaken(u)) + 1
      BY <2>4, <3>1, FS_AddElement
    <3>4. Cardinality(Overtaken(u) \cup {c}) <= Cardinality(Overtaken(u)')
      BY <2>2, <3>2, FS_Subset
    <3> QED
      BY <1>9, <2>2, <2>4, <3>3, <3>4
  <2> QED
    BY <2>5, <2>6, <2>7
<1> QED
  BY <1>10, <1>11, <1>12, <1>13 DEF OverlapInv, LimitHoldsButForOverlaps

\* Nothing but creates that overlap can take a customer past the limit, and each
\* that another overtook by one key only: create lists the keys and inserts in two
\* requests.
THEOREM LimitIsPassedOnlyByOverlaps == AccountsSpec => []LimitHoldsButForOverlaps
<1>1. AccountsInit => OverlapInv
  <2> SUFFICES ASSUME AccountsInit PROVE OverlapInv
    OBVIOUS
  <2>1. \A c, e \in Calls : overtaken[c] = {} /\ op[c].key = None /\ place[c] = "idle"
    BY DEF AccountsInit, NoOp
  <2>2. ASSUME NEW u \in Users
        PROVE  Cardinality(Active(u)) <= MaxKeys + Cardinality(Overtaken(u))
    <3>1. Overtaken(u) = {}
      BY <2>1 DEF Overtaken
    <3>2. Active(u) \in SUBSET Owned(u) /\ Owned(u) \in SUBSET Keys
      BY DEF Active, Owned
    <3>3. IsFiniteSet(Owned(u))
      BY <3>2, FS_Subset, AccountsAssumption
    <3>4. /\ Cardinality(Active(u)) <= Cardinality(Owned(u))
          /\ Cardinality(Active(u)) \in Nat /\ Cardinality(Owned(u)) \in Nat
      BY <3>2, <3>3, FS_Subset, FS_CardinalityType
    <3>5. Cardinality(Owned(u)) <= MaxKeys /\ MaxKeys \in Nat
      BY AccountsAssumption DEF AccountsInit
    <3>6. Cardinality(Overtaken(u)) = 0
      BY <3>1, FS_EmptySet
    <3> QED
      BY <3>4, <3>5, <3>6
  <2> QED
    BY <2>1, <2>2 DEF OverlapInv, LimitHoldsButForOverlaps, Pending
<1>2. ASSUME AccountsInv, AccountsInv', OverlapInv, [AccountsNext]_accountVars
      PROVE  OverlapInv'
  <2>1. AccountsTypeOK'
    BY <1>2 DEF AccountsInv
  <2>2. CASE UNCHANGED accountVars
    BY <1>2, <2>2
       DEF accountVars, OverlapInv, LimitHoldsButForOverlaps, Active, Owned, Pending, Overtaken
  <2>3. ASSUME NEW c \in Calls, CallStep(c) PROVE OverlapInv'
    BY <1>2, <2>1, <2>3, QuietOverlap, LandingOverlap
  <2> QED
    BY <1>2, <2>2, <2>3 DEF AccountsNext
<1>3. OverlapInv => LimitHoldsButForOverlaps
  BY DEF OverlapInv
<1> QED
  BY Invariant, <1>1, <1>2, <1>3, PTL DEF AccountsSpec

=============================================================================
