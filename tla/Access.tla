------------------------------- MODULE Access -------------------------------
(***************************************************************************)
(* Who may do what in a tenant: authentication (internal/authn), the       *)
(* membership gate (internal/tenant), roles and scopes (internal/authz),   *)
(* and the handlers that change them, as internal/httpx/router.go strings  *)
(* them together.  A request authenticates, is resolved to a tenant and    *)
(* runs its handler, each in a transaction of its own, so what one of them *)
(* read may have changed when the next one acts on it.                     *)
(***************************************************************************)
EXTENDS Integers, FiniteSets, Sequences

CONSTANTS
    User, Tenant, Key,
    Founder,        \* the owner each tenant was created with (module Account)
    Request,        \* the requests being served at one time
    Caller,         \* the users who call; the others are only made members
    Op,             \* the routes that they use, in each tenant
    Asked,          \* what they ask for when they create a key: scopes and an expiry
    None,
    AccessTTL, Leeway, RequestTimeout,
    MintedAt,       \* the instants at which access tokens are minted
    MaxTime,        \* bound: instants
    MaxGrants       \* bound: memberships granted

\* authz/roles.go.
Role == {"owner", "admin", "member"}

rolePerms == [
    member |-> {"tenant:read", "member:read", "project:read", "invoice:read"},
    admin  |-> {"tenant:read", "member:read", "member:manage", "project:read", "project:write",
                "invoice:read", "invoice:write", "invoice:settle", "apikey:read",
                "apikey:manage", "webhook:read", "webhook:manage", "audit:read"},
    owner  |-> {"tenant:read", "tenant:manage", "member:read", "member:manage", "project:read",
                "project:write", "invoice:read", "invoice:write", "invoice:settle",
                "apikey:read", "apikey:manage", "webhook:read", "webhook:manage", "audit:read"}]

AllPerms == UNION {rolePerms[r] : r \in Role}

keyForbiddenPerms == {"tenant:manage", "member:manage", "apikey:manage"}

\* router.go: what each tenant route requires; "" is a route without authz.Require.
Needs == [
    getTenant    |-> "",               listMembers  |-> "",             addMember   |-> "",
    listAudit    |-> "audit:read",     readInvoice  |-> "invoice:read", writeInvoice |-> "invoice:write",
    settleInvoice |-> "invoice:settle", readWebhook |-> "webhook:read",
    manageWebhook |-> "webhook:manage", listKeys    |-> "apikey:read",  createKey   |-> "apikey:manage",
    revokeKey    |-> "apikey:manage",  readProject  |-> "project:read", writeProject |-> "project:write"]

ASSUME AccessAssumption ==
    /\ Founder \in [Tenant -> User]
    /\ Caller \subseteq User
    /\ Op \in [Tenant -> SUBSET DOMAIN Needs]
    /\ \A a \in Asked : a.expires \in Nat \cup {None}
    /\ User \cap Key = {} /\ None \notin User \cup Key \cup Tenant \cup Role \cup Nat
    /\ AccessTTL \in Nat \ {0} /\ Leeway \in Nat /\ RequestTimeout \in Nat
    /\ MintedAt \subseteq Nat /\ MaxTime \in Nat /\ MaxGrants \in Nat

VARIABLES
    now,
    member,     \* memberships: the role, and who granted it
    key,        \* api_keys
    trail,      \* the audit entries of a key, in the order they were written
    req         \* the requests being served

vars == <<now, member, key, trail, req>>

Time == 0 .. MaxTime

\* by: the granting member, a history column; the founder's own membership has none.
Membership == [role : Role, by : User \cup {None}]

APIKey == [tenant : Tenant, creator : User, scopes : SUBSET AllPerms,
           expires : Nat \cup {None}, revoked : Time \cup {None}]

Entry == [action : {"create", "revoke"}, actor : User]

\* NULL is no row.
ASSUME NoneAssumption == None \notin Membership /\ None \notin APIKey

IsMember(t, u) == member[t][u] # None
RoleOf(t, u)   == member[t][u].role
Granted        == {x \in Tenant \X User : IsMember(x[1], x[2]) /\ x[2] # Founder[x[1]]}
-----------------------------------------------------------------------------
(* Credentials and principals. *)

\* Authorization: no header, an access token with its expiry, or an API key.
Anonymous    == [kind |-> "none"]
AccessTokens == [kind : {"jwt"}, user : User, exp : Nat]
PresentedKey == [kind : {"api_key"}, key : Key]

\* What clients can hold: a token from any instant up to now (TokenIssuer.Mint), a key that
\* was shown.  A credential that this service did not issue gets the answer of a dead one.
Issued(c) ==
    /\ c.kind = "jwt" => c.exp - AccessTTL \in 0 .. now
    /\ c.kind = "api_key" => key[c.key] # None

\* TokenIssuer.Parse, of what this service can have signed.
Parse(c) == now < c.exp + Leeway

\* Mutant: revocation is not looked at.
KeyLiveUnlessExpired(k) == key[k] # None /\ (key[k].expires # None => key[k].expires > now)

\* APIKeyStore.Authenticate.  It also writes last_used_at, which nothing here reads.
KeyLive(k) ==
    /\ key[k] # None
    /\ key[k].revoked = None
    /\ key[k].expires # None => key[k].expires > now

Accepted(c) == \/ c.kind = "jwt" /\ Parse(c)
               \/ c.kind = "api_key" /\ KeyLive(c.key)

\* The credential was good when the request arrived: a history value.
GoodOnArrival(c) ==
    \/ c.kind = "jwt" /\ now < c.exp + Leeway
    \/ /\ c.kind = "api_key" /\ key[c.key] # None /\ key[c.key].revoked = None
       /\ key[c.key].expires # None => key[c.key].expires > now

IsMachine(c) == c.kind = "api_key"

NoReq == [pc |-> "idle"]

InFlight == {r \in Request : req[r].pc # "idle"}
AtHandler == {r \in Request : req[r].pc = "handler"}

\* The request's answer, without the handler having run.
Reject(r) ==
    /\ req' = [req EXCEPT ![r] = NoReq]
    /\ UNCHANGED <<now, member, key, trail>>

Pass(r, next) ==
    /\ req' = [req EXCEPT ![r] = next]
    /\ UNCHANGED <<now, member, key, trail>>

Arrive(r, c, t, op) ==
    /\ req[r].pc = "idle" /\ Issued(c)
    /\ Pass(r, [pc |-> "authn", cred |-> c, tenant |-> t, op |-> op, began |-> now,
                good |-> GoodOnArrival(c)])

\* Authenticator.Middleware: no usable header goes on without a principal, and ResolveTenant
\* answers 401; a credential that is presented and not accepted is a 401 at once.
Authenticate(r) ==
    /\ req[r].pc = "authn"
    /\ \/ ~Accepted(req[r].cred) /\ Reject(r)
       \/ Accepted(req[r].cred) /\ Pass(r, [req[r] EXCEPT !.pc = "resolve"])
-----------------------------------------------------------------------------
(* Resolution: the tenant of the path, and the permission of the route. *)

\* A key acts in its own tenant only.
KeyFitsPath(c, t) == key[c.key].tenant = t

\* Principal.Allows; scopes are those of the key's row, which never change.
Allows(c, t, p) == IF IsMachine(c) THEN p \in key[c.key].scopes
                                   ELSE p \in rolePerms[RoleOf(t, c.user)]

\* authz.Require of the route, if it has one.
Required(c, t, op) == Needs[op] = "" \/ Allows(c, t, Needs[op])

\* tenant.Store.Resolve, and its counterpart for keys.
Gate(c, t) == IF IsMachine(c) THEN KeyFitsPath(c, t) ELSE IsMember(t, c.user)

\* Mutant: the best role that the user has anywhere.
ActingRoleAnywhere(c, t) ==
    IF IsMachine(c) THEN None
    ELSE IF \E s \in Tenant : IsMember(s, c.user) /\ RoleOf(s, c.user) = "owner" THEN "owner"
    ELSE RoleOf(t, c.user)

\* The role the handler will act with: auth.Role(), empty for a key.
ActingRole(c, t) == IF IsMachine(c) THEN None ELSE RoleOf(t, c.user)

\* ResolveTenant reads the membership in a transaction of its own; Require looks at the result.
ResolveTenant(r) ==
    LET c == req[r].cred
        t == req[r].tenant
    IN  /\ req[r].pc = "resolve"
        /\ \/ ~(Gate(c, t) /\ Required(c, t, req[r].op)) /\ Reject(r)
           \/ /\ Gate(c, t) /\ Required(c, t, req[r].op)
              /\ Pass(r, [pc |-> "handler", cred |-> c, tenant |-> t, op |-> req[r].op,
                          began |-> req[r].began, good |-> req[r].good,
                          role |-> ActingRole(c, t)])
-----------------------------------------------------------------------------
(* Handlers. *)

\* The handler's transaction commits and the request is answered.
Done(r) ==
    /\ req[r].pc = "handler"
    /\ req' = [req EXCEPT ![r] = NoReq]
    /\ UNCHANGED now

Rank(role) == CASE role = "owner" -> 3 [] role = "admin" -> 2 [] role = "member" -> 1 [] OTHER -> 0

\* Mutant: anyone who passed the gate may grant any role but owner.
mayGrantRoleBelowOwner(actor, target) == target # "owner" \/ actor = "owner"

mayGrantRole(actor, target) == Rank(actor) >= Rank(target) /\ Rank(target) > 0

\* The primary key of memberships: a row that is there is a 409.
Joins(t, u) == ~IsMember(t, u)

\* tenant.Store.AddMember, for someone who has an account.
AddMember(r, u, role) ==
    LET t == req[r].tenant
    IN  \/ ~Joins(t, u) /\ Reject(r)
        \/ /\ Joins(t, u)
           /\ member' = [member EXCEPT ![t][u] =
                            [role |-> role, by |-> IF IsMachine(req[r].cred) THEN None
                                                   ELSE req[r].cred.user]]
           /\ Done(r)
           /\ UNCHANGED <<key, trail>>

\* POST /members: the role that ResolveTenant read decides what may be granted.
handleAddMember(r, u, role) ==
    /\ req[r].pc = "handler" /\ req[r].op = "addMember"
    /\ Cardinality(Granted) < MaxGrants
    /\ \/ ~mayGrantRole(req[r].role, role) /\ Reject(r)
       \/ mayGrantRole(req[r].role, role) /\ AddMember(r, u, role)

ValidateKeyScopes(scopes) ==
    scopes # {} /\ scopes \subseteq AllPerms \ keyForbiddenPerms

\* Mint wants an expiry in the future, and a person.
ValidMint(c, scopes, expires) ==
    /\ ~IsMachine(c)
    /\ ValidateKeyScopes(scopes)
    /\ expires # None => expires > now

\* Mutant: the entry is written after the transaction, and lost.
AuditKeyLater(k, action, actor) ==
    trail' \in {trail, [trail EXCEPT ![k] = Append(@, [action |-> action, actor |-> actor])]}

\* audit.Write in the caller's transaction.
AuditKey(k, action, actor) ==
    trail' = [trail EXCEPT ![k] = Append(@, [action |-> action, actor |-> actor])]

\* The row and its audit entry, in one transaction.
Mint(r, k, scopes, expires) ==
    LET c == req[r].cred
    IN  \/ ~ValidMint(c, scopes, expires) /\ Reject(r)
        \/ /\ ValidMint(c, scopes, expires)
           /\ key' = [key EXCEPT ![k] = [tenant |-> req[r].tenant, creator |-> c.user,
                                         scopes |-> scopes, expires |-> expires,
                                         revoked |-> None]]
           /\ AuditKey(k, "create", c.user)
           /\ Done(r)
           /\ UNCHANGED member

\* POST /api-keys.
handleCreateAPIKey(r, k, scopes, expires) ==
    /\ req[r].pc = "handler" /\ req[r].op = "createKey"
    /\ key[k] = None
    /\ Mint(r, k, scopes, expires)

\* WHERE id = $1 AND tenant_id = $2 AND revoked_at IS NULL.
Revocable(r, k) ==
    key[k] # None /\ key[k].tenant = req[r].tenant /\ key[k].revoked = None

\* The key of another tenant is a 404, a revoked one a 204 without an entry.  The instant kept is
\* that of the commit, from which on the key is refused; revoked_at is that of the transaction's
\* begin, which the code only compares with NULL.
Revoke(r, k) ==
    LET c == req[r].cred
    IN  \/ (IsMachine(c) \/ ~Revocable(r, k)) /\ Reject(r)
        \/ /\ ~IsMachine(c) /\ Revocable(r, k)
           /\ key' = [key EXCEPT ![k].revoked = now]
           /\ AuditKey(k, "revoke", c.user)
           /\ Done(r)
           /\ UNCHANGED member

\* DELETE /api-keys/{keyID}.
handleRevokeAPIKey(r, k) ==
    /\ req[r].pc = "handler" /\ req[r].op = "revokeKey"
    /\ Revoke(r, k)

\* The other routes change nothing that this module is about, whatever they answer.
handleOther(r) ==
    /\ req[r].pc = "handler" /\ req[r].op \notin {"addMember", "createKey", "revokeKey"}
    /\ Done(r)
    /\ UNCHANGED <<member, key, trail>>

\* The client hangs up, a transaction fails or the process dies.
Cancel(r) == req[r].pc # "idle" /\ Reject(r)

\* A request is cut off when it has lasted for RequestTimeout (router.go, middleware.Timeout).
Tick ==
    /\ now < MaxTime
    /\ \A r \in InFlight : now < req[r].began + RequestTimeout
    /\ now' = now + 1
    /\ UNCHANGED <<member, key, trail, req>>
-----------------------------------------------------------------------------
Init ==
    /\ now = 0
    /\ member = [t \in Tenant |-> [u \in User |->
                    IF u = Founder[t] THEN [role |-> "owner", by |-> None] ELSE None]]
    /\ key = [k \in Key |-> None]
    /\ trail = [k \in Key |-> <<>>]
    /\ req = [r \in Request |-> NoReq]

Credential == {Anonymous} \cup PresentedKey
                \cup [kind : {"jwt"}, user : Caller, exp : {i + AccessTTL : i \in MintedAt}]

Serve(r) ==
    \/ Authenticate(r) \/ ResolveTenant(r)
    \/ \E u \in User, role \in Role : handleAddMember(r, u, role)
    \/ \E k \in Key, a \in Asked : handleCreateAPIKey(r, k, a.scopes, a.expires)
    \/ \E k \in Key : handleRevokeAPIKey(r, k)
    \/ handleOther(r)

Next ==
    \/ \E r \in Request, c \in Credential, t \in Tenant : \E op \in Op[t] : Arrive(r, c, t, op)
    \/ \E r \in Request : Serve(r) \/ Cancel(r)
    \/ Tick

Spec == Init /\ [][Next]_vars
-----------------------------------------------------------------------------
(* Properties. *)

\* The values of the tables and of the requests; a request past authentication presents a
\* credential that is on record.
TypeOK ==
    /\ now \in Time
    /\ member \in [Tenant -> [User -> Membership \cup {None}]]
    /\ key \in [Key -> APIKey \cup {None}]
    /\ \A r \in InFlight :
        /\ req[r].pc \in {"authn", "resolve", "handler"}
        /\ req[r].tenant \in Tenant /\ req[r].op \in Op[req[r].tenant]
        /\ req[r].pc # "authn" => req[r].cred \in AccessTokens \cup PresentedKey

\* No role grows out of a smaller one (mayGrantRole): every membership but the founder's was
\* granted by a member of the same tenant, a person, whose role ranks at least as high.
NoEscalation ==
    \A t \in Tenant, u \in User : IsMember(t, u) /\ u # Founder[t] =>
        LET g == member[t][u].by
        IN  g # None /\ IsMember(t, g) /\ Rank(RoleOf(t, g)) >= Rank(RoleOf(t, u))

\* A key can do nothing its creator could not, and nothing that is kept to people
\* (authz/keys.go), also when the role was read before and the key is used long after.
KeysBounded ==
    \A k \in Key : key[k] # None =>
        /\ IsMember(key[k].tenant, key[k].creator)
        /\ key[k].scopes \subseteq rolePerms[RoleOf(key[k].tenant, key[k].creator)]
        /\ key[k].scopes \cap keyForbiddenPerms = {}

\* Rights do not grow, by grants of roles or through keys.
NothingGrows == NoEscalation /\ KeysBounded

\* The trail of a key is its life (ADR-006): one entry when it exists, by its creator, and one
\* more when it is revoked, by a member who may manage keys; none for a repeated revocation.
KeyTrail ==
    \A k \in Key :
        LET creation == IF key[k] = None THEN 0 ELSE 1
            end      == IF key[k] # None /\ key[k].revoked # None THEN 1 ELSE 0
        IN  /\ Len(trail[k]) = creation + end
            /\ creation = 1 => trail[k][1] = [action |-> "create", actor |-> key[k].creator]
            /\ end = 1 => /\ trail[k][2].action = "revoke"
                          /\ IsMember(key[k].tenant, trail[k][2].actor)
                          /\ "apikey:manage" \in rolePerms[RoleOf(key[k].tenant, trail[k][2].actor)]

\* A handler runs only for a member of the tenant in the path whose role allows the route, or
\* for a key of that tenant with the scope, as the tables stand when it runs and not only as
\* they stood when ResolveTenant read them.
Isolation ==
    \A r \in AtHandler :
        LET c == req[r].cred
            t == req[r].tenant
            p == Needs[req[r].op]
        IN  IF IsMachine(c)
            THEN key[c.key].tenant = t /\ (p # "" => p \in key[c.key].scopes)
            ELSE IsMember(t, c.user) /\ (p # "" => p \in rolePerms[RoleOf(t, c.user)])

\* The role a handler acts with is the member's role at that moment: the gate's transaction and
\* the handler's are two, and nothing in between changes a role.
RoleIsCurrent ==
    \A r \in AtHandler : ~IsMachine(req[r].cred) =>
        IsMember(req[r].tenant, req[r].cred.user)
        /\ req[r].role = RoleOf(req[r].tenant, req[r].cred.user)

\* What the gate allowed in its own transaction is allowed when the handler runs.
GateStands == Isolation /\ RoleIsCurrent

\* A credential that had expired or been revoked when a request arrived never runs a handler,
\* and a revoked key runs none later than RequestTimeout after its revocation committed: the
\* requests it had under way are the last.
DeadCredentialsStop ==
    \A r \in AtHandler :
        LET c == req[r].cred
        IN  /\ req[r].good
            /\ IsMachine(c) /\ key[c.key].revoked # None =>
                  now <= key[c.key].revoked + RequestTimeout

\* A key is never brought back or widened: of its row only the revocation is ever written, once
\* (Revoke's WHERE revoked_at IS NULL), besides last_used_at, and a membership stays as it was
\* granted.
OnlyRevocation ==
    [][/\ \A k \in Key : key[k] # None =>
            \/ key'[k] = key[k]
            \/ key[k].revoked = None /\ key'[k] = [key[k] EXCEPT !.revoked = now]
       /\ \A t \in Tenant, u \in User : IsMember(t, u) => member'[t][u] = member[t][u]]_vars
=============================================================================
