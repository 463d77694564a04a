---------------------------- MODULE AccessProofs ----------------------------
(***************************************************************************)
(* Safety of access control, for any number of users, tenants, keys and    *)
(* requests.  Everything rests on one fact: of what a request was allowed  *)
(* by, nothing is taken back but a key, and a key only by its revocation.  *)
(* So what the gate read is still true when the handler runs.              *)
(***************************************************************************)
EXTENDS Access, TLAPS

\* A credential as clients present it.
Presented == {Anonymous} \cup AccessTokens \cup PresentedKey

\* The records of requests: between arrival and gate they are rewritten field by field.
Shaped(r) ==
    \/ req[r].pc \in {"authn", "resolve"}
         /\ DOMAIN req[r] = {"pc", "cred", "tenant", "op", "began", "good"}
    \/ req[r].pc \in {"idle", "handler"}

\* A request under way has what it asks for, and no more time than RequestTimeout.
Underway(r) ==
    req[r].pc # "idle" =>
        /\ req[r].tenant \in Tenant /\ req[r].op \in Op[req[r].tenant]
        /\ req[r].cred \in Presented
        /\ req[r].began \in Nat /\ req[r].began <= now /\ now <= req[r].began + RequestTimeout
        /\ IsMachine(req[r].cred) => key[req[r].cred.key] # None

\* Before authentication: what is accepted now was good on arrival.
Awaiting(r) == req[r].pc = "authn" /\ Accepted(req[r].cred) => req[r].good

\* After it: a key that is revoked by now was not when the request arrived.
Admitted(r) ==
    req[r].pc \in {"resolve", "handler"} =>
        /\ req[r].cred \in AccessTokens \cup PresentedKey
        /\ req[r].good
        /\ IsMachine(req[r].cred) /\ key[req[r].cred.key].revoked # None =>
              req[r].began <= key[req[r].cred.key].revoked

\* Past the gate: the tables allow what the gate allowed.
Person(r) ==
    LET c == req[r].cred
        t == req[r].tenant
        p == Needs[req[r].op]
    IN  /\ IsMember(t, c.user)
        /\ p # "" => p \in rolePerms[RoleOf(t, c.user)]
        /\ req[r].role = RoleOf(t, c.user)

KeyHolder(r) ==
    LET c == req[r].cred
        t == req[r].tenant
        p == Needs[req[r].op]
    IN  /\ key[c.key].tenant = t
        /\ p # "" => p \in key[c.key].scopes
        /\ req[r].role = None

Passed(r) ==
    req[r].pc = "handler" => IF IsMachine(req[r].cred) THEN KeyHolder(r) ELSE Person(r)

RequestInv ==
    /\ DOMAIN req = Request
    /\ \A r \in Request : Shaped(r) /\ Underway(r) /\ Awaiting(r) /\ Admitted(r) /\ Passed(r)

TablesInv ==
    /\ now \in Time
    /\ member \in [Tenant -> [User -> Membership \cup {None}]]
    /\ key \in [Key -> APIKey \cup {None}]
    /\ trail \in [Key -> Seq(Entry)]

IInv == TablesInv /\ RequestInv

\* Of the tables nothing is taken back but a key, by its revocation.
Kept ==
    /\ \A k \in Key : key[k] # None =>
        \/ key'[k] = key[k]
        \/ key[k].revoked = None /\ key'[k] = [key[k] EXCEPT !.revoked = now]
    /\ \A t \in Tenant, u \in User : IsMember(t, u) => member'[t][u] = member[t][u]

-----------------------------------------------------------------------------
\* None is not a record of a table or a role.
LEMMA NoneIsNothing ==
    /\ None \notin Role /\ None \notin User /\ None \notin Key /\ None \notin Nat
BY AccessAssumption

\* What people's credentials and keys are made of.
LEMMA Credentials ==
    /\ \A c \in AccessTokens : c.kind = "jwt" /\ c.user \in User /\ c.exp \in Nat
    /\ \A c \in PresentedKey : c.kind = "api_key" /\ c.key \in Key
    /\ Anonymous.kind = "none"
    /\ Credential \subseteq Presented
<1>1. /\ \A c \in AccessTokens : c.kind = "jwt" /\ c.user \in User /\ c.exp \in Nat
      /\ \A c \in PresentedKey : c.kind = "api_key" /\ c.key \in Key
      /\ Anonymous.kind = "none"
  BY DEF AccessTokens, PresentedKey, Anonymous
<1>2. {i + AccessTTL : i \in MintedAt} \subseteq Nat /\ Caller \subseteq User
  BY AccessAssumption
<1>3. [kind : {"jwt"}, user : Caller, exp : {i + AccessTTL : i \in MintedAt}] \subseteq AccessTokens
  BY <1>2 DEF AccessTokens
<1>4. QED BY <1>1, <1>3 DEF Credential, Presented

\* A row of api_keys that is on record has its fields.
LEMMA KeyFields ==
    ASSUME TablesInv, NEW k \in Key, key[k] # None
    PROVE  /\ key[k] \in APIKey
           /\ key[k].tenant \in Tenant /\ key[k].creator \in User
           /\ key[k].scopes \subseteq AllPerms
           /\ key[k].expires \in Nat \cup {None} /\ key[k].revoked \in Time \cup {None}
<1>1. key[k] \in APIKey
  BY DEF TablesInv
<1>2. QED BY <1>1 DEF APIKey

\* A membership that is on record has its fields.
LEMMA MemberFields ==
    ASSUME TablesInv, NEW t \in Tenant, NEW u \in User, IsMember(t, u)
    PROVE  /\ member[t][u] \in Membership /\ RoleOf(t, u) \in Role
           /\ member[t][u].by \in User \cup {None}
<1>1. member[t][u] \in Membership
  BY DEF TablesInv, IsMember
<1>2. QED BY <1>1 DEF Membership, RoleOf

\* A key that is kept stays a key, with everything but its revocation as it was.
LEMMA KeptKey ==
    ASSUME TablesInv, Kept, NEW k \in Key, key[k] # None
    PROVE  /\ key'[k] \in APIKey /\ key'[k] # None
           /\ key'[k].tenant = key[k].tenant /\ key'[k].creator = key[k].creator
           /\ key'[k].scopes = key[k].scopes /\ key'[k].expires = key[k].expires
           /\ \/ key'[k].revoked = key[k].revoked
              \/ key[k].revoked = None /\ key'[k].revoked = now
<1>1. key[k] \in APIKey
  BY KeyFields
<1>2. CASE key'[k] = key[k]
  BY <1>1, <1>2
<1>3. CASE key[k].revoked = None /\ key'[k] = [key[k] EXCEPT !.revoked = now]
  <2>1. [key[k] EXCEPT !.revoked = now] \in APIKey
    BY <1>1 DEF APIKey, TablesInv
  <2>2. /\ key'[k].tenant = key[k].tenant /\ key'[k].creator = key[k].creator
        /\ key'[k].scopes = key[k].scopes /\ key'[k].expires = key[k].expires
        /\ key'[k].revoked = now
    BY <1>1, <1>3 DEF APIKey
  <2>3. key'[k] # None
    BY <1>3, <2>1, NoneAssumption
  <2>4. QED BY <1>3, <2>1, <2>2, <2>3
<1>4. QED BY <1>2, <1>3 DEF Kept

\* What is accepted after a step was accepted before it, if it could be presented before.
LEMMA AcceptedBefore ==
    ASSUME TablesInv, Kept, now' \in Nat, now <= now', NEW c \in Presented,
           IsMachine(c) => key[c.key] # None, Accepted(c)'
    PROVE  Accepted(c)
<1>1. now \in Nat /\ Leeway \in Nat
  BY AccessAssumption DEF TablesInv, Time
<1>2. CASE c \in AccessTokens
  BY <1>1, <1>2, Credentials DEF Accepted, Parse
<1>3. CASE c \in PresentedKey
  <2>1. c.kind = "api_key" /\ c.key \in Key /\ key[c.key] # None
    BY <1>3, Credentials DEF IsMachine
  <2>2. key'[c.key].revoked = None /\ (key'[c.key].expires # None => key'[c.key].expires > now')
    BY <2>1 DEF Accepted, KeyLive
  <2>3. /\ key'[c.key].expires = key[c.key].expires
        /\ key'[c.key].revoked = key[c.key].revoked \/ key'[c.key].revoked = now
    BY <2>1, KeptKey
  <2>4. key[c.key].revoked = None
    BY <1>1, <2>2, <2>3, NoneIsNothing
  <2>5. key[c.key].expires # None => key[c.key].expires > now
    BY <1>1, <2>1, <2>2, <2>3, KeyFields
  <2>6. QED BY <2>1, <2>4, <2>5 DEF Accepted, KeyLive
<1>4. CASE c = Anonymous
  BY <1>4, Credentials DEF Accepted
<1>5. QED BY <1>2, <1>3, <1>4 DEF Presented

\* A request that is not touched keeps all that is true of it, while the tables are kept and
\* its time is not over.
LEMMA RequestStays ==
    ASSUME IInv, Kept, NEW q \in Request, req'[q] = req[q],
           now' \in Nat, now <= now',
           req[q].pc # "idle" => now' <= req[q].began + RequestTimeout
    PROVE  (Shaped(q) /\ Underway(q) /\ Awaiting(q) /\ Admitted(q) /\ Passed(q))'
<1> DEFINE c == req[q].cred
<1>1. Shaped(q) /\ Underway(q) /\ Awaiting(q) /\ Admitted(q) /\ Passed(q) /\ TablesInv
  BY DEF IInv, RequestInv
<1>2. now \in Nat /\ RequestTimeout \in Nat
  BY <1>1, AccessAssumption DEF TablesInv, Time
<1>3. CASE req[q].pc = "idle"
  BY <1>3 DEF Shaped, Underway, Awaiting, Admitted, Passed
<1>4. CASE req[q].pc # "idle"
  <2>1. c \in Presented /\ req[q].tenant \in Tenant /\ req[q].began \in Nat
    BY <1>1, <1>4 DEF Underway
  <2>2. IsMachine(c) => c.key \in Key /\ key[c.key] # None
    BY <1>1, <1>4, <2>1, Credentials DEF Underway, IsMachine, Presented
  <2>3. ~IsMachine(c) /\ c # Anonymous => c.user \in User
    BY <2>1, Credentials DEF IsMachine, Presented
  <2>4. Shaped(q)'
    BY <1>1 DEF Shaped
  <2>5. Underway(q)'
    <3>1. IsMachine(c) => key'[c.key] # None
      BY <1>1, <2>2, KeptKey
    <3>2. QED BY <1>1, <1>2, <1>4, <2>1, <3>1 DEF Underway, IsMachine
  <2>6. Awaiting(q)'
    <3>1. SUFFICES ASSUME req[q].pc = "authn", Accepted(c)' PROVE req[q].good
      BY DEF Awaiting
    <3>2. Accepted(c)
      BY <1>1, <2>1, <2>2, <3>1, AcceptedBefore
    <3>3. QED BY <1>1, <3>1, <3>2 DEF Awaiting
  <2>7. Admitted(q)'
    <3>1. SUFFICES ASSUME req[q].pc \in {"resolve", "handler"} PROVE Admitted(q)'
      BY DEF Admitted
    <3>2. c \in AccessTokens \cup PresentedKey /\ req[q].good
      BY <1>1, <3>1 DEF Admitted
    <3>3. ASSUME IsMachine(c), key'[c.key].revoked # None
          PROVE  req[q].began <= key'[c.key].revoked
      <4>1. \/ key'[c.key].revoked = key[c.key].revoked
            \/ key[c.key].revoked = None /\ key'[c.key].revoked = now
        BY <1>1, <2>2, <3>3, KeptKey
      <4>2. req[q].began <= now
        BY <1>1, <1>4 DEF Underway
      <4>3. QED BY <1>1, <3>1, <3>3, <4>1, <4>2 DEF Admitted
    <3>4. QED BY <3>2, <3>3 DEF Admitted, IsMachine
  <2>8. Passed(q)'
    <3>1. SUFFICES ASSUME req[q].pc = "handler" PROVE Passed(q)'
      BY DEF Passed
    <3>2. CASE IsMachine(c)
      <4>1. KeyHolder(q)
        BY <1>1, <3>1, <3>2 DEF Passed
      <4>2. key'[c.key].tenant = key[c.key].tenant /\ key'[c.key].scopes = key[c.key].scopes
        BY <1>1, <2>2, <3>2, KeptKey
      <4>3. KeyHolder(q)'
        BY <4>1, <4>2 DEF KeyHolder
      <4>4. QED BY <3>2, <4>3 DEF Passed, IsMachine
    <3>3. CASE ~IsMachine(c)
      <4>1. Person(q)
        BY <1>1, <3>1, <3>3 DEF Passed
      <4>2. c.user \in User
        BY <1>1, <3>1, <3>3, Credentials DEF Admitted, IsMachine
      <4>3. member'[req[q].tenant][c.user] = member[req[q].tenant][c.user]
        BY <2>1, <4>1, <4>2 DEF Kept, Person
      <4>4. Person(q)'
        BY <4>1, <4>3 DEF Person, IsMember, RoleOf
      <4>5. QED BY <3>3, <4>4 DEF Passed, IsMachine
    <3>4. QED BY <3>2, <3>3
  <2>9. QED BY <2>4, <2>5, <2>6, <2>7, <2>8
<1>5. QED BY <1>3, <1>4
-----------------------------------------------------------------------------
(* The kinds of steps: most of them leave the tables alone. *)

\* A request ends, arrives, is authenticated, or passes the gate.
Ends(r) == Reject(r)

Arrives(r) ==
    \E c \in Credential, t \in Tenant : \E op \in Op[t] : Arrive(r, c, t, op)

Authenticates(r) ==
    /\ req[r].pc = "authn" /\ Accepted(req[r].cred)
    /\ Pass(r, [req[r] EXCEPT !.pc = "resolve"])

Resolves(r) == req[r].pc = "resolve" /\ ResolveTenant(r) /\ ~Reject(r)

\* A handler writes a membership, a key, or a key's revocation.
Writes(r, op) ==
    /\ req[r].pc = "handler" /\ req[r].op = op
    /\ req' = [req EXCEPT ![r] = NoReq] /\ now' = now

GrantsRole(r, u, role) ==
    /\ Writes(r, "addMember") /\ UNCHANGED <<key, trail>>
    /\ mayGrantRole(req[r].role, role) /\ Joins(req[r].tenant, u)
    /\ member' = [member EXCEPT ![req[r].tenant][u] =
                     [role |-> role, by |-> IF IsMachine(req[r].cred) THEN None
                                            ELSE req[r].cred.user]]

MintsKey(r, k, a) ==
    /\ Writes(r, "createKey") /\ UNCHANGED member
    /\ key[k] = None /\ ValidMint(req[r].cred, a.scopes, a.expires)
    /\ key' = [key EXCEPT ![k] = [tenant |-> req[r].tenant, creator |-> req[r].cred.user,
                                  scopes |-> a.scopes, expires |-> a.expires, revoked |-> None]]
    /\ AuditKey(k, "create", req[r].cred.user)

RevokesKey(r, k) ==
    /\ Writes(r, "revokeKey") /\ UNCHANGED member
    /\ ~IsMachine(req[r].cred) /\ Revocable(r, k)
    /\ key' = [key EXCEPT ![k].revoked = now]
    /\ AuditKey(k, "revoke", req[r].cred.user)

\* Every step is one of these.
LEMMA StepKinds ==
    ASSUME [Next]_vars
    PROVE  \/ UNCHANGED vars
           \/ Tick
           \/ \E r \in Request :
                \/ Ends(r) \/ Arrives(r) \/ Authenticates(r) \/ Resolves(r)
                \/ \E u \in User, role \in Role : GrantsRole(r, u, role)
                \/ \E k \in Key, a \in Asked : MintsKey(r, k, a)
                \/ \E k \in Key : RevokesKey(r, k)
<1>1. ASSUME NEW r \in Request, Authenticate(r)
      PROVE  Ends(r) \/ Authenticates(r)
  BY <1>1 DEF Authenticate, Ends, Authenticates
<1>2. ASSUME NEW r \in Request, ResolveTenant(r)
      PROVE  Ends(r) \/ Resolves(r)
  BY <1>2 DEF Ends, Resolves, ResolveTenant
<1>3. ASSUME NEW r \in Request, NEW u \in User, NEW role \in Role, handleAddMember(r, u, role)
      PROVE  Ends(r) \/ GrantsRole(r, u, role)
  BY <1>3 DEF handleAddMember, AddMember, Done, Ends, GrantsRole, Writes
<1>4. ASSUME NEW r \in Request, NEW k \in Key, NEW a \in Asked,
             handleCreateAPIKey(r, k, a.scopes, a.expires)
      PROVE  Ends(r) \/ MintsKey(r, k, a)
  BY <1>4 DEF handleCreateAPIKey, Mint, Done, Ends, MintsKey, Writes
<1>5. ASSUME NEW r \in Request, NEW k \in Key, handleRevokeAPIKey(r, k)
      PROVE  Ends(r) \/ RevokesKey(r, k)
  BY <1>5 DEF handleRevokeAPIKey, Revoke, Done, Ends, RevokesKey, Writes
<1>6. ASSUME NEW r \in Request, handleOther(r) \/ Cancel(r)
      PROVE  Ends(r)
  BY <1>6 DEF handleOther, Done, Cancel, Ends, Reject
<1>7. ASSUME NEW r \in Request, Serve(r) \/ Cancel(r)
      PROVE  \/ Ends(r) \/ Arrives(r) \/ Authenticates(r) \/ Resolves(r)
             \/ \E u \in User, role \in Role : GrantsRole(r, u, role)
             \/ \E k \in Key, a \in Asked : MintsKey(r, k, a)
             \/ \E k \in Key : RevokesKey(r, k)
  BY <1>1, <1>2, <1>3, <1>4, <1>5, <1>6, <1>7 DEF Serve
<1>8. QED BY <1>7 DEF Next, Arrives

\* Of the tables nothing is taken back.
LEMMA KeptStep ==
    ASSUME IInv, [Next]_vars
    PROVE  Kept
<1> USE DEF IInv
<1>1. CASE UNCHANGED <<member, key>>
  BY <1>1 DEF Kept
<1>2. ASSUME NEW r \in Request, NEW u \in User, NEW role \in Role, GrantsRole(r, u, role)
      PROVE  Kept
  <2>1. key' = key /\ req[r].tenant \in Tenant /\ ~IsMember(req[r].tenant, u)
    BY <1>2 DEF GrantsRole, Writes, Joins, RequestInv, Underway
  <2>2. ASSUME NEW t \in Tenant, NEW v \in User, IsMember(t, v)
        PROVE  member'[t][v] = member[t][v]
    BY <1>2, <2>1, <2>2 DEF GrantsRole, TablesInv, IsMember
  <2>3. QED BY <2>1, <2>2 DEF Kept
<1>3. ASSUME NEW r \in Request, NEW k \in Key, NEW a \in Asked, MintsKey(r, k, a)
      PROVE  Kept
  BY <1>3 DEF MintsKey, Kept, TablesInv
<1>4. ASSUME NEW r \in Request, NEW k \in Key, RevokesKey(r, k)
      PROVE  Kept
  <2>1. /\ member' = member /\ key[k] # None /\ key[k].revoked = None
        /\ key' = [key EXCEPT ![k].revoked = now]
    BY <1>4 DEF RevokesKey, Revocable
  <2>2. key'[k] = [key[k] EXCEPT !.revoked = now] /\ \A j \in Key : j # k => key'[j] = key[j]
    BY <2>1 DEF TablesInv
  <2>3. QED BY <2>1, <2>2 DEF Kept
<1>5. QED
  BY <1>1, <1>2, <1>3, <1>4, StepKinds
  DEF vars, Tick, Ends, Reject, Arrives, Arrive, Pass, Authenticates, Resolves, ResolveTenant

\* Who is at a handler: a person of the tenant or a key of it.
LEMMA AtTheHandler ==
    ASSUME IInv, NEW r \in Request, req[r].pc = "handler"
    PROVE  /\ req[r].tenant \in Tenant /\ req[r].op \in DOMAIN Needs
           /\ req[r].cred \in AccessTokens \cup PresentedKey
           /\ IsMachine(req[r].cred) =>
                req[r].cred.key \in Key /\ key[req[r].cred.key] # None /\ KeyHolder(r)
           /\ ~IsMachine(req[r].cred) => req[r].cred.user \in User /\ Person(r)
<1>1. Underway(r) /\ Admitted(r) /\ Passed(r)
  BY DEF IInv, RequestInv
<1>2. req[r].tenant \in Tenant /\ req[r].op \in Op[req[r].tenant]
  BY <1>1 DEF Underway
<1>3. req[r].op \in DOMAIN Needs
  <2>1. Op[req[r].tenant] \subseteq DOMAIN Needs
    BY <1>2, AccessAssumption
  <2>2. QED BY <1>2, <2>1
<1>4. req[r].cred \in AccessTokens \cup PresentedKey
  BY <1>1 DEF Admitted
<1>5. IsMachine(req[r].cred) =>
        req[r].cred.key \in Key /\ key[req[r].cred.key] # None /\ KeyHolder(r)
  BY <1>1, <1>4, Credentials DEF IsMachine, Underway, Passed
<1>6. ~IsMachine(req[r].cred) => req[r].cred.user \in User /\ Person(r)
  BY <1>1, <1>4, Credentials DEF IsMachine, Passed
<1>7. QED BY <1>2, <1>3, <1>4, <1>5, <1>6

\* The row of a new key.
LEMMA MintedRow ==
    ASSUME IInv, NEW r \in Request, NEW k \in Key, NEW a \in Asked, MintsKey(r, k, a)
    PROVE  [tenant |-> req[r].tenant, creator |-> req[r].cred.user, scopes |-> a.scopes,
            expires |-> a.expires, revoked |-> None] \in APIKey
<1>1. req[r].tenant \in Tenant /\ req[r].cred.user \in User
  BY AtTheHandler DEF MintsKey, Writes, ValidMint
<1>2. a.scopes \subseteq AllPerms /\ a.expires \in Nat \cup {None}
  BY AccessAssumption DEF MintsKey, ValidMint, ValidateKeyScopes
<1>3. QED BY <1>1, <1>2 DEF APIKey

\* The tables keep their types.
LEMMA TablesStep ==
    ASSUME IInv, [Next]_vars
    PROVE  TablesInv'
<1>1. TablesInv
  BY DEF IInv
<1>2. CASE UNCHANGED <<member, key, trail>> /\ (now' = now \/ Tick)
  <2>1. now' \in Time
    BY <1>1, <1>2, AccessAssumption DEF TablesInv, Tick, Time
  <2>2. QED BY <1>1, <1>2, <2>1 DEF TablesInv
<1>3. ASSUME NEW r \in Request, NEW u \in User, NEW role \in Role, GrantsRole(r, u, role)
      PROVE  TablesInv'
  <2> DEFINE g == IF IsMachine(req[r].cred) THEN None ELSE req[r].cred.user
             m == [role |-> role, by |-> g]
  <2>1. req[r].tenant \in Tenant /\ g \in User \cup {None}
    BY <1>3, AtTheHandler DEF GrantsRole, Writes
  <2>2. m \in Membership
    BY <2>1 DEF Membership
  <2>3. member' = [member EXCEPT ![req[r].tenant][u] = m]
    BY <1>3 DEF GrantsRole
  <2> HIDE DEF g, m
  <2>4. member' \in [Tenant -> [User -> Membership \cup {None}]]
    BY <1>1, <2>1, <2>2, <2>3 DEF TablesInv
  <2>5. QED BY <1>1, <1>3, <2>4 DEF TablesInv, GrantsRole, Writes
<1>4. ASSUME NEW r \in Request, NEW k \in Key, NEW a \in Asked, MintsKey(r, k, a)
      PROVE  TablesInv'
  <2>1. req[r].cred.user \in User
    BY <1>4, AtTheHandler DEF MintsKey, Writes, ValidMint
  <2>3. [tenant |-> req[r].tenant, creator |-> req[r].cred.user, scopes |-> a.scopes,
         expires |-> a.expires, revoked |-> None] \in APIKey
    BY <1>4, MintedRow
  <2>4. key' \in [Key -> APIKey \cup {None}]
    BY <1>1, <1>4, <2>3 DEF MintsKey, TablesInv
  <2>5. [action |-> "create", actor |-> req[r].cred.user] \in Entry
    BY <2>1 DEF Entry
  <2>6. trail' \in [Key -> Seq(Entry)]
    BY <1>1, <1>4, <2>5 DEF MintsKey, AuditKey, TablesInv
  <2>7. QED BY <1>1, <1>4, <2>4, <2>6 DEF TablesInv, MintsKey, Writes
<1>5. ASSUME NEW r \in Request, NEW k \in Key, RevokesKey(r, k)
      PROVE  TablesInv'
  <2>1. req[r].cred.user \in User
    BY <1>5, AtTheHandler DEF RevokesKey, Writes
  <2>2. key[k] # None /\ key[k] \in APIKey
    BY <1>1, <1>5, KeyFields DEF RevokesKey, Revocable
  <2>3. [key[k] EXCEPT !.revoked = now] \in APIKey
    BY <1>1, <2>2 DEF APIKey, TablesInv
  <2>4. key' \in [Key -> APIKey \cup {None}]
    BY <1>1, <1>5, <2>3 DEF RevokesKey, TablesInv
  <2>5. [action |-> "revoke", actor |-> req[r].cred.user] \in Entry
    BY <2>1 DEF Entry
  <2>6. trail' \in [Key -> Seq(Entry)]
    BY <1>1, <1>5, <2>5 DEF RevokesKey, AuditKey, TablesInv
  <2>7. QED BY <1>1, <1>5, <2>4, <2>6 DEF TablesInv, RevokesKey, Writes
<1>6. QED
  BY <1>2, <1>3, <1>4, <1>5, StepKinds
  DEF vars, Tick, Ends, Reject, Arrives, Arrive, Pass, Authenticates, Resolves, ResolveTenant

\* The requests keep what is true of them.
LEMMA RequestStep ==
    ASSUME IInv, [Next]_vars
    PROVE  RequestInv'
<1> DEFINE Good(q) == Shaped(q) /\ Underway(q) /\ Awaiting(q) /\ Admitted(q) /\ Passed(q)
<1>1. TablesInv /\ DOMAIN req = Request /\ Kept /\ TablesInv'
  BY KeptStep, TablesStep DEF IInv, RequestInv
<1>2. now \in Nat /\ now' \in Nat /\ RequestTimeout \in Nat /\ Leeway \in Nat
  BY <1>1, AccessAssumption DEF TablesInv, Time
<1>3. ASSUME NEW q \in Request, req'[q] = req[q], now' = now
      PROVE  Good(q)'
  <2>1. req[q].pc # "idle" => now' <= req[q].began + RequestTimeout
    BY <1>3 DEF IInv, RequestInv, Underway
  <2>2. QED BY <1>1, <1>2, <1>3, <2>1, RequestStays
<1>4. CASE UNCHANGED vars
  BY <1>1, <1>3, <1>4 DEF vars, RequestInv
<1>5. CASE Tick
  <2>1. ASSUME NEW q \in Request PROVE Good(q)'
    <3>1. req'[q] = req[q] /\ now' = now + 1
      BY <1>5 DEF Tick
    <3>2. req[q].pc # "idle" => req[q].began \in Nat /\ now < req[q].began + RequestTimeout
      BY <1>5 DEF Tick, InFlight, IInv, RequestInv, Underway
    <3>3. QED BY <1>1, <1>2, <3>1, <3>2, RequestStays
  <2>2. QED BY <1>1, <1>5, <2>1 DEF RequestInv, Tick
<1>6. ASSUME NEW r \in Request, NEW x, req' = [req EXCEPT ![r] = x], now' = now, Good(r)'
      PROVE  RequestInv'
  <2>1. DOMAIN req' = Request /\ \A q \in Request : q # r => req'[q] = req[q]
    BY <1>1, <1>6
  <2>2. QED BY <1>3, <1>6, <2>1 DEF RequestInv
<1>7. ASSUME NEW r \in Request, req' = [req EXCEPT ![r] = NoReq], now' = now
      PROVE  RequestInv'
  <2>1. req'[r].pc = "idle"
    BY <1>1, <1>7 DEF NoReq
  <2>2. Good(r)'
    BY <2>1 DEF Shaped, Underway, Awaiting, Admitted, Passed
  <2>3. QED BY <1>6, <1>7, <2>2
<1>8. ASSUME NEW r \in Request, Arrives(r)
      PROVE  RequestInv'
  <2>0. PICK c \in Credential, t \in Tenant : \E op \in Op[t] : Arrive(r, c, t, op)
    BY <1>8 DEF Arrives
  <2>1. PICK op \in Op[t] : Arrive(r, c, t, op)
    BY <2>0
  <2> DEFINE x == [pc |-> "authn", cred |-> c, tenant |-> t, op |-> op, began |-> now,
                   good |-> GoodOnArrival(c)]
  <2>2. /\ req' = [req EXCEPT ![r] = x]
        /\ UNCHANGED <<now, member, key, trail>> /\ Issued(c)
    BY <2>1 DEF Arrive, Pass
  <2>3. req'[r] = x
    BY <1>1, <2>2
  <2>4. /\ req'[r].pc = "authn" /\ req'[r].cred = c /\ req'[r].tenant = t /\ req'[r].op = op
        /\ req'[r].began = now
        /\ DOMAIN req'[r] = {"pc", "cred", "tenant", "op", "began", "good"}
    BY <2>3
  <2>5. c \in Presented
    BY Credentials
  <2>6. Underway(r)'
    BY <1>2, <2>2, <2>4, <2>5 DEF Underway, Issued, IsMachine
  <2>7. Awaiting(r)'
    <3>1. req'[r].good = GoodOnArrival(c)
      <4>1. x.good = GoodOnArrival(c)
        BY Zenon
      <4> HIDE DEF x
      <4>2. req'[r].good = x.good
        BY <2>3, Zenon
      <4>3. QED BY <4>1, <4>2, Zenon
    <3>2. Accepted(c) => GoodOnArrival(c)
      BY DEF Accepted, GoodOnArrival, Parse, KeyLive
    <3>3. Accepted(c)' <=> Accepted(c)
      BY <2>2 DEF Accepted, Parse, KeyLive
    <3>4. Accepted(c)' => req'[r].good
      BY <3>1, <3>2, <3>3, Zenon
    <3>5. Accepted(req[r].cred)' => Accepted(c)'
      BY <2>4 DEF Accepted, Parse, KeyLive
    <3>6. QED BY <3>4, <3>5 DEF Awaiting
  <2>8. Shaped(r)' /\ Admitted(r)' /\ Passed(r)'
    BY <2>4 DEF Shaped, Admitted, Passed
  <2>9. QED BY <1>6, <2>2, <2>6, <2>7, <2>8
<1>9. ASSUME NEW r \in Request, Authenticates(r)
      PROVE  RequestInv'
  <2> DEFINE x == [req[r] EXCEPT !.pc = "resolve"]
  <2>1. /\ req[r].pc = "authn" /\ Accepted(req[r].cred)
        /\ req' = [req EXCEPT ![r] = x] /\ UNCHANGED <<now, member, key, trail>>
    BY <1>9 DEF Authenticates, Pass
  <2>2. Good(r)
    BY DEF IInv, RequestInv
  <2>3. req'[r] = x /\ DOMAIN req[r] = {"pc", "cred", "tenant", "op", "began", "good"}
    BY <1>1, <2>1, <2>2 DEF Shaped
  <2>4. /\ req'[r].pc = "resolve" /\ req'[r].cred = req[r].cred /\ req'[r].tenant = req[r].tenant
        /\ req'[r].op = req[r].op /\ req'[r].began = req[r].began /\ req'[r].good = req[r].good
        /\ DOMAIN req'[r] = {"pc", "cred", "tenant", "op", "began", "good"}
    BY <2>3
  <2>5. Underway(r)'
    BY <2>1, <2>2, <2>4 DEF Underway, IsMachine
  <2>6. Admitted(r)'
    <3>1. req'[r].good
      BY <2>1, <2>2, <2>4 DEF Awaiting
    <3>2. req[r].cred \in Presented \ {Anonymous}
      BY <2>1, <2>2, Credentials DEF Underway, Accepted
    <3>3. req[r].cred.kind = "api_key" => key[req[r].cred.key].revoked = None
      BY <2>1 DEF Accepted, KeyLive
    <3>4. QED BY <2>1, <2>4, <3>1, <3>2, <3>3 DEF Admitted, Presented, IsMachine
  <2>7. Shaped(r)' /\ Awaiting(r)' /\ Passed(r)'
    BY <2>4 DEF Shaped, Awaiting, Passed
  <2>8. QED BY <1>6, <2>1, <2>5, <2>6, <2>7
<1>10. ASSUME NEW r \in Request, Resolves(r)
       PROVE  RequestInv'
  <2> DEFINE c == req[r].cred
             t == req[r].tenant
             x == [pc |-> "handler", cred |-> c, tenant |-> t, op |-> req[r].op,
                   began |-> req[r].began, good |-> req[r].good, role |-> ActingRole(c, t)]
  <2>1. /\ req[r].pc = "resolve" /\ Gate(c, t) /\ Required(c, t, req[r].op)
        /\ req' = [req EXCEPT ![r] = x] /\ UNCHANGED <<now, member, key, trail>>
    BY <1>10 DEF Resolves, ResolveTenant, Pass
  <2>2. Good(r)
    BY DEF IInv, RequestInv
  <2>3. req'[r] = x
    BY <1>1, <2>1
  <2>4. /\ req'[r].pc = "handler" /\ req'[r].cred = c /\ req'[r].tenant = t
        /\ req'[r].op = req[r].op /\ req'[r].began = req[r].began /\ req'[r].good = req[r].good
        /\ req'[r].role = ActingRole(c, t)
    BY <2>3
  <2>5. Underway(r)' /\ Admitted(r)'
    BY <2>1, <2>2, <2>4 DEF Underway, Admitted, IsMachine
  <2>6. Passed(r)'
    <3>1. CASE IsMachine(c)
      <4>1. KeyHolder(r)'
        BY <2>1, <2>4, <3>1 DEF KeyHolder, Gate, KeyFitsPath, Required, Allows, ActingRole
      <4>2. QED BY <2>4, <3>1, <4>1 DEF Passed, IsMachine
    <3>2. CASE ~IsMachine(c)
      <4>1. Person(r)'
        BY <2>1, <2>4, <3>2 DEF Person, Gate, Required, Allows, ActingRole, IsMember, RoleOf
      <4>2. QED BY <2>4, <3>2, <4>1 DEF Passed, IsMachine
    <3>3. QED BY <3>1, <3>2
  <2>7. Shaped(r)' /\ Awaiting(r)'
    BY <2>4 DEF Shaped, Awaiting
  <2>8. QED BY <1>6, <2>1, <2>5, <2>6, <2>7
<1>11. QED
  BY <1>4, <1>5, <1>7, <1>8, <1>9, <1>10, StepKinds
  DEF Ends, Reject, GrantsRole, MintsKey, RevokesKey, Writes

\* The inductive invariant.
LEMMA Invariance == Spec => []IInv
<1>1. Init => IInv
  <2>1. SUFFICES ASSUME Init PROVE IInv
    OBVIOUS
  <2>2. [role |-> "owner", by |-> None] \in Membership
    BY DEF Membership, Role
  <2>3. TablesInv
    BY <2>1, <2>2, AccessAssumption DEF Init, TablesInv, Time
  <2>4. DOMAIN req = Request /\ \A r \in Request : req[r].pc = "idle"
    BY <2>1 DEF Init, NoReq
  <2>5. RequestInv
    BY <2>4 DEF RequestInv, Shaped, Underway, Awaiting, Admitted, Passed
  <2>6. QED BY <2>3, <2>5 DEF IInv
<1>2. IInv /\ [Next]_vars => IInv'
  BY TablesStep, RequestStep DEF IInv
<1>3. QED BY <1>1, <1>2, PTL DEF Spec
-----------------------------------------------------------------------------
\* The types of the tables and of the requests: past authentication a request presents a token
\* or a key that is on record.
THEOREM TypeCorrect == Spec => []TypeOK
<1>1. ASSUME IInv, NEW r \in InFlight
      PROVE  /\ req[r].pc \in {"authn", "resolve", "handler"}
             /\ req[r].tenant \in Tenant /\ req[r].op \in Op[req[r].tenant]
             /\ req[r].pc # "authn" => req[r].cred \in AccessTokens \cup PresentedKey
  BY <1>1 DEF IInv, RequestInv, InFlight, Shaped, Underway, Admitted
<1>2. IInv => TypeOK
  BY <1>1 DEF IInv, TablesInv, TypeOK
<1>3. QED BY <1>2, Invariance, PTL

\* A key is never brought back or widened, and a membership stays as it was granted: nothing in
\* the code takes back what the gate has read but the revocation of a key.
THEOREM NothingElseChanges == Spec => OnlyRevocation
<1>1. IInv /\ [Next]_vars =>
        [/\ \A k \in Key : key[k] # None =>
              \/ key'[k] = key[k]
              \/ key[k].revoked = None /\ key'[k] = [key[k] EXCEPT !.revoked = now]
         /\ \A t \in Tenant, u \in User : IsMember(t, u) => member'[t][u] = member[t][u]]_vars
  BY KeptStep DEF Kept
<1>2. QED BY <1>1, Invariance, PTL DEF Spec, OnlyRevocation

\* A handler runs only for those whom the tables allow the route when it runs, although the gate
\* read them in an earlier transaction.
THEOREM TenantsIsolated == Spec => []Isolation
<1>1. ASSUME IInv, NEW r \in AtHandler
      PROVE  IF IsMachine(req[r].cred) THEN KeyHolder(r) ELSE Person(r)
  BY <1>1 DEF IInv, RequestInv, Passed, AtHandler
<1>2. IInv => Isolation
  BY <1>1 DEF Isolation, KeyHolder, Person
<1>3. QED BY <1>2, Invariance, PTL

\* The role a handler acts with is the member's role at that moment.
THEOREM RolesAreCurrent == Spec => []RoleIsCurrent
<1>1. ASSUME IInv, NEW r \in AtHandler, ~IsMachine(req[r].cred)
      PROVE  Person(r)
  BY <1>1 DEF IInv, RequestInv, Passed, AtHandler
<1>2. IInv => RoleIsCurrent
  BY <1>1 DEF RoleIsCurrent, Person
<1>3. QED BY <1>2, Invariance, PTL

\* A credential that was dead on arrival runs no handler, and a revoked key none after the
\* requests that it had under way.
THEOREM CredentialsStop == Spec => []DeadCredentialsStop
<1>1. ASSUME IInv, NEW r \in AtHandler
      PROVE  /\ req[r].good
             /\ IsMachine(req[r].cred) /\ key[req[r].cred.key].revoked # None =>
                  now <= key[req[r].cred.key].revoked + RequestTimeout
  <2>1. r \in Request /\ req[r].pc = "handler" /\ Underway(r) /\ Admitted(r) /\ TablesInv
    BY <1>1 DEF IInv, RequestInv, AtHandler
  <2>2. req[r].good
    BY <2>1 DEF Admitted
  <2>3. ASSUME IsMachine(req[r].cred), key[req[r].cred.key].revoked # None
        PROVE  now <= key[req[r].cred.key].revoked + RequestTimeout
    <3>1. key[req[r].cred.key].revoked \in Nat
      BY <1>1, <2>1, <2>3, AtTheHandler, KeyFields DEF Time
    <3>2. req[r].began <= key[req[r].cred.key].revoked
      BY <2>1, <2>3 DEF Admitted
    <3>3. /\ now \in Nat /\ req[r].began \in Nat /\ RequestTimeout \in Nat
          /\ now <= req[r].began + RequestTimeout
      BY <2>1, AccessAssumption DEF Underway, TablesInv, Time
    <3>4. QED BY <3>1, <3>2, <3>3
  <2>4. QED BY <2>2, <2>3
<1>2. IInv => DeadCredentialsStop
  BY <1>1 DEF DeadCredentialsStop
<1>3. QED BY <1>2, Invariance, PTL
-----------------------------------------------------------------------------
(* Rights do not grow. *)

\* Who may manage keys may do everything a key can be given.
LEMMA ManagersCover ==
    ASSUME NEW role \in Role, "apikey:manage" \in rolePerms[role]
    PROVE  AllPerms \ keyForbiddenPerms \subseteq rolePerms[role]
<1>1. AllPerms = rolePerms["owner"] \cup rolePerms["admin"] \cup rolePerms["member"]
  BY DEF AllPerms, Role
<1>2. rolePerms["member"] \subseteq rolePerms["admin"]
  BY DEF rolePerms
<1>3. rolePerms["admin"] \subseteq rolePerms["owner"]
  BY DEF rolePerms
<1>4. rolePerms["owner"] \ keyForbiddenPerms \subseteq rolePerms["admin"]
  BY DEF rolePerms, keyForbiddenPerms
<1>5. "apikey:manage" \notin rolePerms["member"]
  BY DEF rolePerms
<1>6. QED BY <1>1, <1>2, <1>3, <1>4, <1>5 DEF Role

\* No chain of grants leads to a role above the granter's.
THEOREM NoRoleGrows == Spec => []NoEscalation
<1> DEFINE Fits(t, u) == LET g == member[t][u].by
                         IN  g # None /\ IsMember(t, g) /\ Rank(RoleOf(t, g)) >= Rank(RoleOf(t, u))
<1>1. Init => NoEscalation
  BY AccessAssumption DEF Init, NoEscalation, IsMember
<1>2. ASSUME IInv, NoEscalation, [Next]_vars
      PROVE  NoEscalation'
  <2>0. TablesInv /\ Kept
    BY <1>2, KeptStep DEF IInv
  <2>1. ASSUME NEW t \in Tenant, NEW u \in User, IsMember(t, u), u # Founder[t]
        PROVE  Fits(t, u)'
    <3>1. member[t][u].by # None /\ IsMember(t, member[t][u].by) /\ Fits(t, u)
      BY <1>2, <2>1 DEF NoEscalation
    <3>2. member[t][u].by \in User
      BY <2>0, <2>1, <3>1, MemberFields
    <3>3. /\ member'[t][u] = member[t][u]
          /\ member'[t][member[t][u].by] = member[t][member[t][u].by]
      BY <2>0, <2>1, <3>1, <3>2 DEF Kept
    <3>4. QED BY <3>1, <3>3 DEF IsMember, RoleOf
  <2>2. ASSUME NEW r \in Request, NEW v \in User, NEW role \in Role, GrantsRole(r, v, role),
               NEW T \in Tenant, T = req[r].tenant
        PROVE  Fits(T, v)'
    <3> DEFINE c == req[r].cred
    <3>1. /\ T \in Tenant /\ c \in AccessTokens \cup PresentedKey
          /\ IsMachine(c) => KeyHolder(r)
          /\ ~IsMachine(c) => c.user \in User /\ Person(r)
      BY <1>2, <2>2, AtTheHandler DEF GrantsRole, Writes
    <3>2. Rank(req[r].role) >= Rank(role) /\ Rank(role) > 0 /\ ~IsMember(T, v)
      BY <2>2 DEF GrantsRole, mayGrantRole, Joins
    <3>3. ~IsMachine(c)
      <4>1. SUFFICES ASSUME IsMachine(c) PROVE FALSE
        OBVIOUS
      <4>2. req[r].role = None /\ None \notin Role
        BY <3>1, <4>1, AccessAssumption DEF KeyHolder
      <4>3. Rank(req[r].role) = 0
        BY <4>2 DEF Rank, Role
      <4>4. Rank(role) \in Nat
        BY DEF Rank, Role
      <4>5. QED BY <3>2, <4>3, <4>4
    <3>4. IsMember(T, c.user) /\ req[r].role = RoleOf(T, c.user) /\ c.user # v /\ c.user \in User
      BY <2>2, <3>1, <3>2, <3>3 DEF Person
    <3>5. member' = [member EXCEPT ![T][v] = [role |-> role, by |-> c.user]]
      BY <2>2, <3>3 DEF GrantsRole
    <3>6. /\ member'[T][v].role = role /\ member'[T][v].by = c.user
          /\ member'[T][c.user] = member[T][c.user]
      BY <2>0, <3>1, <3>4, <3>5 DEF TablesInv
    <3>7. c.user # None
      BY <3>4, NoneIsNothing
    <3>8. member'[T][v] # None
      <4>1. [role |-> role, by |-> c.user] \in Membership
        BY <3>4 DEF Membership
      <4>2. member'[T][v] = [role |-> role, by |-> c.user]
        BY <2>0, <3>1, <3>5 DEF TablesInv
      <4>3. QED BY <4>1, <4>2, NoneAssumption
    <3>9. Rank(member'[T][c.user].role) >= Rank(member'[T][v].role)
      BY <3>2, <3>4, <3>6 DEF RoleOf
    <3>10. member'[T][c.user] # None
      BY <3>4, <3>6 DEF IsMember
    <3>11. QED BY <3>6, <3>7, <3>8, <3>9, <3>10 DEF IsMember, RoleOf
  <2>3. CASE member' = member
    BY <1>2, <2>3 DEF NoEscalation, IsMember, RoleOf
  <2>4. ASSUME NEW r \in Request, NEW v \in User, NEW role \in Role, GrantsRole(r, v, role)
        PROVE  NoEscalation'
    <3>1. req[r].tenant \in Tenant
      BY <1>2, <2>4, AtTheHandler DEF GrantsRole, Writes
    <3>2. ASSUME NEW t \in Tenant, NEW u \in User, IsMember(t, u)', u # Founder[t]
          PROVE  Fits(t, u)'
      <4>1. CASE IsMember(t, u)
        BY <2>1, <3>2, <4>1
      <4>2. CASE ~IsMember(t, u)
        <5>1. t = req[r].tenant /\ u = v
          BY <2>0, <2>4, <3>1, <3>2, <4>2 DEF GrantsRole, TablesInv, IsMember
        <5>2. QED BY <2>2, <2>4, <5>1
      <4>3. QED BY <4>1, <4>2
    <3>3. QED BY <3>2 DEF NoEscalation
  <2>5. QED
    BY <1>2, <2>3, <2>4, StepKinds
    DEF vars, Tick, Ends, Reject, Arrives, Arrive, Pass, Authenticates, Resolves, ResolveTenant,
        MintsKey, RevokesKey
<1>3. QED BY <1>1, <1>2, Invariance, PTL DEF Spec

\* Who writes to the keys may manage them, as the tables stand.
LEMMA ManagerWrites ==
    ASSUME IInv, NEW r \in Request, ~IsMachine(req[r].cred),
           Writes(r, "createKey") \/ Writes(r, "revokeKey")
    PROVE  /\ req[r].tenant \in Tenant /\ req[r].cred.user \in User
           /\ IsMember(req[r].tenant, req[r].cred.user)
           /\ RoleOf(req[r].tenant, req[r].cred.user) \in Role
           /\ "apikey:manage" \in rolePerms[RoleOf(req[r].tenant, req[r].cred.user)]
<1>1. Person(r) /\ req[r].tenant \in Tenant /\ req[r].cred.user \in User
  BY AtTheHandler DEF Writes
<1>2. Needs[req[r].op] = "apikey:manage"
  <2>1. req[r].op = "createKey" \/ req[r].op = "revokeKey"
    BY DEF Writes
  <2>2. Needs["createKey"] = "apikey:manage" /\ Needs["revokeKey"] = "apikey:manage"
    BY DEF Needs
  <2>3. QED BY <2>1, <2>2
<1>3. IsMember(req[r].tenant, req[r].cred.user)
  BY <1>1 DEF Person
<1>4. "apikey:manage" \in rolePerms[RoleOf(req[r].tenant, req[r].cred.user)]
  BY <1>1, <1>2 DEF Person
<1>5. RoleOf(req[r].tenant, req[r].cred.user) \in Role
  BY <1>1, <1>3, MemberFields DEF IInv
<1>6. QED BY <1>1, <1>3, <1>4, <1>5

\* The tables of a step that is not a grant, a minting or a revocation.
LEMMA KeysUntouched ==
    ASSUME [Next]_vars
    PROVE  \/ UNCHANGED <<key, trail>>
           \/ \E r \in Request, k \in Key : RevokesKey(r, k) \/ \E a \in Asked : MintsKey(r, k, a)
BY StepKinds
DEF vars, Tick, Ends, Reject, Arrives, Arrive, Pass, Authenticates, Resolves, ResolveTenant, GrantsRole

\* A key can do nothing that its creator could not, and nothing that is kept to people, for as
\* long as it lives.
THEOREM KeysStayBounded == Spec => []KeysBounded
<1> DEFINE Bounded(k) ==
        /\ IsMember(key[k].tenant, key[k].creator)
        /\ key[k].scopes \subseteq rolePerms[RoleOf(key[k].tenant, key[k].creator)]
        /\ key[k].scopes \cap keyForbiddenPerms = {}
<1>1. Init => KeysBounded
  BY DEF Init, KeysBounded
<1>2. ASSUME IInv, KeysBounded, [Next]_vars
      PROVE  KeysBounded'
  <2>0. TablesInv /\ Kept
    BY <1>2, KeptStep DEF IInv
  <2>1. ASSUME NEW k \in Key, key[k] # None
        PROVE  Bounded(k)'
    <3>1. /\ key'[k].tenant = key[k].tenant /\ key'[k].creator = key[k].creator
          /\ key'[k].scopes = key[k].scopes
      BY <2>0, <2>1, KeptKey
    <3>2. key[k].tenant \in Tenant /\ key[k].creator \in User
      BY <2>0, <2>1, KeyFields
    <3>3. Bounded(k)
      BY <1>2, <2>1 DEF KeysBounded
    <3>4. member'[key[k].tenant][key[k].creator] = member[key[k].tenant][key[k].creator]
      BY <2>0, <3>2, <3>3 DEF Kept
    <3>5. QED BY <3>1, <3>3, <3>4 DEF IsMember, RoleOf
  <2>2. ASSUME NEW r \in Request, NEW k \in Key, NEW a \in Asked, MintsKey(r, k, a)
        PROVE  Bounded(k)'
    <3> DEFINE c == req[r].cred
    <3>1. /\ Writes(r, "createKey") /\ ~IsMachine(c) /\ member' = member
          /\ a.scopes \subseteq AllPerms \ keyForbiddenPerms
      BY <2>2 DEF MintsKey, ValidMint, ValidateKeyScopes
    <3>2. /\ IsMember(req[r].tenant, c.user) /\ RoleOf(req[r].tenant, c.user) \in Role
          /\ "apikey:manage" \in rolePerms[RoleOf(req[r].tenant, c.user)]
      BY <1>2, <3>1, ManagerWrites
    <3>3. AllPerms \ keyForbiddenPerms \subseteq rolePerms[RoleOf(req[r].tenant, c.user)]
      BY <3>2, ManagersCover
    <3>4. /\ key'[k].tenant = req[r].tenant /\ key'[k].creator = c.user
          /\ key'[k].scopes = a.scopes
      BY <2>0, <2>2 DEF MintsKey, TablesInv
    <3>5. a.scopes \subseteq rolePerms[RoleOf(req[r].tenant, c.user)]
            /\ a.scopes \cap keyForbiddenPerms = {}
      BY <3>1, <3>3
    <3>6. QED BY <3>1, <3>2, <3>4, <3>5 DEF IsMember, RoleOf
  <2>3. ASSUME NEW k \in Key, key'[k] # None
        PROVE  key[k] # None \/ \E r \in Request, a \in Asked : MintsKey(r, k, a)
    <3>1. ASSUME NEW r \in Request, NEW j \in Key, NEW a \in Asked, MintsKey(r, j, a), j # k
          PROVE  key'[k] = key[k]
      BY <2>0, <3>1 DEF MintsKey, TablesInv
    <3>2. ASSUME NEW r \in Request, NEW j \in Key, RevokesKey(r, j)
          PROVE  key[k] # None
      BY <2>0, <2>3, <3>2 DEF RevokesKey, Revocable, TablesInv
    <3>3. QED BY <1>2, <2>3, <3>1, <3>2, KeysUntouched
  <2>4. QED BY <2>1, <2>2, <2>3 DEF KeysBounded
<1>3. QED BY <1>1, <1>2, Invariance, PTL DEF Spec

\* The trail of a key is its life: its creation by its creator, its revocation by a manager, and
\* nothing else.
THEOREM TrailsAreLives == Spec => []KeyTrail
<1> DEFINE Manager(k)  == /\ trail[k][2].action = "revoke"
                          /\ IsMember(key[k].tenant, trail[k][2].actor)
                          /\ "apikey:manage" \in rolePerms[RoleOf(key[k].tenant, trail[k][2].actor)]
           Told(k) ==
             /\ key[k] = None => Len(trail[k]) = 0
             /\ key[k] # None => trail[k][1] = [action |-> "create", actor |-> key[k].creator]
             /\ key[k] # None /\ key[k].revoked = None => Len(trail[k]) = 1
             /\ key[k] # None /\ key[k].revoked # None => Len(trail[k]) = 2 /\ Manager(k)
           Creation(k) == IF key[k] = None THEN 0 ELSE 1
           End(k)      == IF key[k] # None /\ key[k].revoked # None THEN 1 ELSE 0
           Life(k)     == /\ Len(trail[k]) = Creation(k) + End(k)
                          /\ Creation(k) = 1 =>
                                trail[k][1] = [action |-> "create", actor |-> key[k].creator]
                          /\ End(k) = 1 => Manager(k)
<1>0. ASSUME KeyTrail, NEW k \in Key PROVE Told(k)
  <2>1. Life(k)
    BY <1>0, Zenon DEF KeyTrail
  <2>2. CASE key[k] = None
    BY <2>1, <2>2
  <2>3. CASE key[k] # None /\ key[k].revoked = None
    BY <2>1, <2>3
  <2>4. CASE key[k] # None /\ key[k].revoked # None
    BY <2>1, <2>4
  <2>5. QED BY <2>2, <2>3, <2>4
<1>1. Init => KeyTrail
  BY DEF Init, KeyTrail
<1>2. ASSUME IInv, KeyTrail, [Next]_vars
      PROVE  KeyTrail'
  <2>0. TablesInv /\ Kept /\ \A k \in Key : Told(k) /\ trail[k] \in Seq(Entry)
    BY <1>0, <1>2, KeptStep DEF IInv, TablesInv
  <2>1. ASSUME NEW k \in Key, key'[k] = key[k], trail'[k] = trail[k]
        PROVE  Told(k)'
    <3>1. CASE key[k] # None /\ key[k].revoked # None
      <4>1. /\ key[k].tenant \in Tenant /\ Len(trail[k]) = 2 /\ Manager(k)
        BY <2>0, <3>1, KeyFields
      <4>0. trail[k] \in Seq(Entry) /\ Len(trail[k]) = 2
        BY <2>0, <4>1
      <4>2. trail[k][2] \in Entry
        BY <4>0
      <4>3. trail[k][2].actor \in User
        BY <4>2 DEF Entry
      <4>4. member'[key[k].tenant][trail[k][2].actor] = member[key[k].tenant][trail[k][2].actor]
        BY <2>0, <4>1, <4>3 DEF Kept
      <4>5. Manager(k)'
        BY <2>1, <4>1, <4>4 DEF IsMember, RoleOf
      <4>6. QED BY <2>0, <2>1, <3>1, <4>1, <4>5
    <3>2. CASE ~(key[k] # None /\ key[k].revoked # None)
      BY <2>0, <2>1, <3>2
    <3>3. QED BY <3>1, <3>2
  <2>2. ASSUME NEW r \in Request, NEW k \in Key, NEW a \in Asked, MintsKey(r, k, a)
        PROVE  Told(k)'
    <3>1. key[k] = None /\ Len(trail[k]) = 0 /\ trail[k] \in Seq(Entry)
      BY <2>0, <2>2 DEF MintsKey
    <3>2. trail'[k] = Append(trail[k], [action |-> "create", actor |-> req[r].cred.user])
      BY <2>0, <2>2 DEF MintsKey, AuditKey, TablesInv
    <3>3. Len(trail'[k]) = 1 /\ trail'[k][1] = [action |-> "create", actor |-> req[r].cred.user]
      BY <3>1, <3>2
    <3>4. key'[k].creator = req[r].cred.user /\ key'[k].revoked = None
      BY <2>0, <2>2 DEF MintsKey, TablesInv
    <3>5. key'[k] # None
      BY <1>2, <2>0, <2>2, MintedRow, NoneAssumption DEF MintsKey, TablesInv
    <3>6. QED BY <3>3, <3>4, <3>5
  <2>3. ASSUME NEW r \in Request, NEW k \in Key, RevokesKey(r, k)
        PROVE  Told(k)'
    <3> DEFINE e == [action |-> "revoke", actor |-> req[r].cred.user]
    <3>1. /\ key[k] # None /\ key[k].tenant = req[r].tenant /\ key[k].revoked = None
          /\ ~IsMachine(req[r].cred) /\ Writes(r, "revokeKey") /\ member' = member
      BY <2>3 DEF RevokesKey, Revocable
    <3>2. /\ Len(trail[k]) = 1 /\ trail[k] \in Seq(Entry)
          /\ trail[k][1] = [action |-> "create", actor |-> key[k].creator]
      BY <2>0, <3>1
    <3>3. trail'[k] = Append(trail[k], e)
      BY <2>0, <2>3 DEF RevokesKey, AuditKey, TablesInv
    <3>4. e \in Entry
      BY <1>2, <3>1, ManagerWrites DEF Entry
    <3>5. Len(trail'[k]) = 2 /\ trail'[k][1] = trail[k][1] /\ trail'[k][2] = e
      BY <3>2, <3>3, <3>4
    <3>6. /\ key'[k] # None /\ key'[k].tenant = req[r].tenant /\ key'[k].creator = key[k].creator
      BY <2>0, <3>1, KeptKey
    <3>7. key'[k].revoked # None
      <4>1. key[k] \in APIKey /\ key'[k] = [key[k] EXCEPT !.revoked = now]
        BY <2>0, <2>3, <3>1, KeyFields DEF RevokesKey, TablesInv
      <4>2. key'[k].revoked = now
        BY <4>1 DEF APIKey
      <4>3. QED BY <2>0, <4>2, NoneIsNothing DEF TablesInv, Time
    <3>8. /\ IsMember(req[r].tenant, req[r].cred.user)
          /\ "apikey:manage" \in rolePerms[RoleOf(req[r].tenant, req[r].cred.user)]
      BY <1>2, <3>1, ManagerWrites
    <3>9. Manager(k)'
      BY <3>1, <3>5, <3>6, <3>8 DEF IsMember, RoleOf
    <3>10. QED BY <3>2, <3>5, <3>6, <3>7, <3>9
  <2>4. ASSUME NEW r \in Request, NEW j \in Key, NEW k \in Key, j # k,
               RevokesKey(r, j) \/ \E a \in Asked : MintsKey(r, j, a)
        PROVE  key'[k] = key[k] /\ trail'[k] = trail[k]
    BY <2>0, <2>4 DEF RevokesKey, MintsKey, AuditKey, TablesInv
  <2>5. ASSUME NEW k \in Key
        PROVE  Told(k)'
    BY <1>2, <2>1, <2>2, <2>3, <2>4, KeysUntouched
  <2>6. ASSUME NEW k \in Key
        PROVE  Life(k)'
    <3>1. Told(k)'
      BY <2>5
    <3>2. CASE key'[k] = None
      BY <3>1, <3>2
    <3>3. CASE key'[k] # None /\ key'[k].revoked = None
      BY <3>1, <3>3
    <3>4. CASE key'[k] # None /\ key'[k].revoked # None
      BY <3>1, <3>4
    <3>5. QED BY <3>2, <3>3, <3>4
  <2>7. QED BY <2>6, Zenon DEF KeyTrail
<1>3. QED BY <1>1, <1>2, Invariance, PTL DEF Spec
\* Neither grants nor keys give anyone more than the one who gave it had (mayGrantRole, CreateKey).
THEOREM RightsDoNotGrow == Spec => []NothingGrows
  <1>1. NoEscalation /\ KeysBounded => NothingGrows
    BY DEF NothingGrows
  <1> QED
    BY <1>1, NoRoleGrows, KeysStayBounded, PTL

\* What ResolveTenant allowed holds when the handler runs.
THEOREM GateStillHolds == Spec => []GateStands
  <1>1. Isolation /\ RoleIsCurrent => GateStands
    BY DEF GateStands
  <1> QED
    BY <1>1, TenantsIsolated, RolesAreCurrent, PTL
=============================================================================
