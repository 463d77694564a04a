------------------------------- MODULE Account -------------------------------
(***************************************************************************)
(* Accounts and the tenants they found: registration, login and POST       *)
(* /v1/tenants of internal/httpx/handlers_auth.go over internal/authn and  *)
(* internal/tenant.  A registration is a row in users, then a tenant with  *)
(* its owner, then a login, each a transaction of its own; a request may   *)
(* end between any two of them and other requests run there.  Passwords    *)
(* are compared, not hashed; what a login stores is module Session.        *)
(***************************************************************************)
EXTENDS Integers, FiniteSets

CONSTANTS
    Request,        \* the requests being served at one time
    Email,          \* addresses, as NormalizeEmail leaves them
    LongEmail,      \* those whose local part makes a workspace name that is too long
    Password,       \* passwords that are strong enough
    Credential,     \* the addresses and passwords clients present, right or wrong
    ChosenSlug,     \* slugs a client may ask for
    DerivedSlug,    \* what slugFromName makes of the names in use, which collide
    Seed,           \* what cmd/migrate seed creates: [email, password, slug]
    Suffixed,       \* the derived slug with a random suffix
    None,
    MaxFaults,      \* bound: requests cut off, failing logins, suffixes that collide
    MaxTenants,     \* bound: rows of tenants
    MaxOwned        \* bound: an account with that many tenants asks for no more

ASSUME AccountAssumption ==
    /\ LongEmail \subseteq Email /\ Credential \subseteq Email \X Password
    /\ Seed \subseteq [email : Email, password : Password, slug : ChosenSlug]
    /\ DerivedSlug \notin Suffixed
    /\ None \notin Password /\ None \notin Nat
    /\ MaxFaults \in Nat /\ MaxTenants \in Nat /\ MaxOwned \in Nat

VARIABLES
    user,       \* users: the password of an account, None without one
    tenant,     \* tenants
    member,     \* memberships that a founding grants
    session,    \* accounts whose client holds an access token
    pc, req,    \* the next transaction of a request, and what it asks
    founded,    \* the tenant the request has founded
    answer,     \* the response the last step sent, if it sent one
    faults

vars == <<user, tenant, member, session, pc, req, founded, answer, faults>>

Slug == ChosenSlug \cup Suffixed \cup {DerivedSlug}
Id   == 1 .. MaxTenants

Tenant     == [id : Id, slug : Slug]
Membership == [tenant : Id, user : Email, role : {"owner"}]

\* What a client asks for: slug "" leaves the slug to the server.  One wish stands for all
\* those that are refused for the same reason.
Wish == [name : {"fits"}, slug : ChosenSlug \cup {"", "malformed"}]
          \cup [name : {"blank", "long"}, slug : {""}]

\* valid: the tenant the request describes passes validateNewTenant.
Ask == [kind : {"register", "create", "login"}, email : Email, password : Password \cup {None},
        slug : ChosenSlug \cup {""}, valid : BOOLEAN]

\* None is no request.
ASSUME NoneAssumption == None \notin Ask

Owns(e) == \E m \in member : m.user = e

Taken(s) == \E t \in tenant : t.slug = s

NoAnswer == [code |-> "none"]

Start(r, in, first) ==
    /\ pc[r] = "idle"
    /\ pc' = [pc EXCEPT ![r] = first]
    /\ req' = [req EXCEPT ![r] = in]
    /\ answer' = NoAnswer
    /\ UNCHANGED <<user, tenant, member, session, founded, faults>>

\* The response.  No property looks at those that are not to a registration.
Finish(r, code, tenants) ==
    /\ pc' = [pc EXCEPT ![r] = "idle"]
    /\ req' = [req EXCEPT ![r] = None]
    /\ founded' = [founded EXCEPT ![r] = None]
    /\ answer' = IF req[r].kind = "register"
                 THEN [code |-> code, email |-> req[r].email, password |-> req[r].password,
                       tenant |-> founded[r], tenants |-> tenants]
                 ELSE NoAnswer

\* Passes to the next transaction.
Goto(r, next) ==
    /\ pc' = [pc EXCEPT ![r] = next]
    /\ answer' = NoAnswer
    /\ UNCHANGED req
-----------------------------------------------------------------------------
(* Requests. *)

\* handleRegister's default name for a workspace comes from the address.
Workspace(e, w) ==
    IF w.name # "blank" THEN w.name ELSE IF e \in LongEmail THEN "long" ELSE "fits"

validateNewTenant(e, w) == Workspace(e, w) = "fits" /\ w.slug # "malformed"

\* The slug as it is used once the tenant is known to be valid.
UsableSlug(e, w) == IF validateNewTenant(e, w) THEN w.slug ELSE ""

\* An address that does not parse or a weak password is a 400 and changes nothing.  Whether
\* the tenant is valid is found out here and looked at when the account exists.
handleRegister(r, e, p, w) ==
    Start(r, [kind |-> "register", email |-> e, password |-> p,
              slug |-> UsableSlug(e, w), valid |-> validateNewTenant(e, w)], "user")

handleLogin(r, e, p) ==
    Start(r, [kind |-> "login", email |-> e, password |-> p,
              slug |-> "", valid |-> FALSE], "login")

\* The bound MaxOwned on what clients ask for; the code sets none.
MayAsk(e) ==
    LET asked == {q \in Request : req[q] # None /\ req[q].kind = "create" /\ req[q].email = e}
    IN  Cardinality({m \in member : m.user = e}) + Cardinality(asked) < MaxOwned

\* An access token names the account; a blank name is a 400.
handleCreateTenant(r, e, w) ==
    /\ e \in session /\ w.name # "blank" /\ MayAsk(e)
    /\ Start(r, [kind |-> "create", email |-> e, password |-> None,
                 slug |-> UsableSlug(e, w), valid |-> validateNewTenant(e, w)], "tenant")
-----------------------------------------------------------------------------
(* The transactions of a request. *)

\* The unique index on users.email.
NewAccount(e) == user[e] = None

\* UserStore.Create.
CreateUser(r) ==
    LET e == req[r].email
    IN  /\ pc[r] = "user"
        /\ \/ /\ NewAccount(e)
              /\ user' = [user EXCEPT ![e] = req[r].password]
              /\ Goto(r, "tenant")
              /\ UNCHANGED founded
           \/ /\ ~NewAccount(e)
              /\ Finish(r, "emailtaken", {})
              /\ UNCHANGED user
        /\ UNCHANGED <<tenant, member, session, faults>>

Slugged(in) == IF in.slug = "" THEN DerivedSlug ELSE in.slug

\* A registration goes on to its login, POST /v1/tenants has its answer.
Continue(r, id) ==
    \/ /\ req[r].kind = "register"
       /\ Goto(r, "login")
       /\ founded' = [founded EXCEPT ![r] = id]
    \/ /\ req[r].kind = "create"
       /\ Finish(r, "created", {})

\* Mutant: the membership is written by a transaction of its own, which may fail.
FoundApart(r, s) ==
    LET id == Cardinality(tenant) + 1
    IN  /\ id \in Id
        /\ tenant' = tenant \cup {[id |-> id, slug |-> s]}
        /\ \/ member' = member \cup {[tenant |-> id, user |-> req[r].email, role |-> "owner"]}
           \/ member' = member
        /\ Continue(r, id)

\* CreateForUser's transaction: the tenant and its owner's membership.
Found(r, s) ==
    LET id == Cardinality(tenant) + 1
    IN  /\ id \in Id
        /\ tenant' = tenant \cup {[id |-> id, slug |-> s]}
        /\ member' = member \cup {[tenant |-> id, user |-> req[r].email, role |-> "owner"]}
        /\ Continue(r, id)

\* Mutant: a slug that is taken is reported, whoever chose it.
RetriesNever(in) == FALSE

\* Only a slug the client did not choose is tried again.
Retries(in) == in.slug = ""

\* createTenantWithUniqueSlug, the first insert.
CreateForUser(r) ==
    LET s == Slugged(req[r])
    IN  /\ pc[r] = "tenant"
        /\ \/ /\ ~req[r].valid
              /\ Finish(r, "invalid", {})
              /\ UNCHANGED <<tenant, member>>
           \/ /\ req[r].valid /\ ~Taken(s)
              /\ Found(r, s)
           \/ /\ req[r].valid /\ Taken(s) /\ Retries(req[r])
              /\ Goto(r, "retry")
              /\ UNCHANGED <<tenant, member, founded>>
           \/ /\ req[r].valid /\ Taken(s) /\ ~Retries(req[r])
              /\ Finish(r, "slugtaken", {})
              /\ UNCHANGED <<tenant, member>>
        /\ UNCHANGED <<user, session, faults>>

\* The unique index on tenants.slug.
SuffixFree(s) == ~Taken(s)

\* Its second insert, with a random suffix.  A suffix that is taken counts as a fault.
RetrySuffixed(r, s) ==
    /\ pc[r] = "retry"
    /\ \/ /\ SuffixFree(s)
          /\ Found(r, s)
          /\ UNCHANGED faults
       \/ /\ ~SuffixFree(s) /\ faults > 0
          /\ faults' = faults - 1
          /\ Finish(r, "slugtaken", {})
          /\ UNCHANGED <<tenant, member>>
    /\ UNCHANGED <<user, session>>

\* Service.Login up to the session's start.  An unknown address and a wrong password look alike.
Login(r) ==
    /\ pc[r] = "login"
    /\ \/ /\ user[req[r].email] = req[r].password
          /\ Goto(r, "list")
          /\ UNCHANGED founded
       \/ /\ user[req[r].email] # req[r].password
          /\ Finish(r, "unauthorized", {})
    /\ UNCHANGED <<user, tenant, member, session, faults>>

\* Mutant: the list of tenants is the one from before the registration's own.
TenantsForStale(r) == {m.tenant : m \in {n \in member : n.user = req[r].email}} \ {founded[r]}

\* ListForUser.
TenantsFor(r) == {m.tenant : m \in {n \in member : n.user = req[r].email}}

\* tenantsFor and the session that the client is given.
Respond(r) ==
    /\ pc[r] = "list"
    /\ session' = session \cup {req[r].email}
    /\ Finish(r, "created", TenantsFor(r))
    /\ UNCHANGED <<user, tenant, member, faults>>

\* The session cannot be started or the list not read: a registration is reported as created
\* without a session, a login as an error.
LoginFails(r) ==
    /\ pc[r] \in {"login", "list"} /\ faults > 0
    /\ faults' = faults - 1
    /\ Finish(r, "nosession", {})
    /\ UNCHANGED <<user, tenant, member, session>>

\* The request ends before its next transaction: the process dies, the client hangs up, the
\* request times out, or the transaction fails.
CutOff(r) ==
    /\ pc[r] # "idle" /\ faults > 0
    /\ faults' = faults - 1
    /\ Finish(r, "error", {})
    /\ UNCHANGED <<user, tenant, member, session>>

\* cmd/migrate seed: CreateTenantWithOwner writes the account, the tenant and the membership in
\* one transaction, or nothing.
CreateTenantWithOwner(d) ==
    LET id == Cardinality(tenant) + 1
    IN  /\ user[d.email] = None /\ ~Taken(d.slug) /\ id \in Id
        /\ user' = [user EXCEPT ![d.email] = d.password]
        /\ tenant' = tenant \cup {[id |-> id, slug |-> d.slug]}
        /\ member' = member \cup {[tenant |-> id, user |-> d.email, role |-> "owner"]}
        /\ answer' = NoAnswer
        /\ UNCHANGED <<session, pc, req, founded, faults>>
-----------------------------------------------------------------------------
Init ==
    /\ user = [e \in Email |-> None]
    /\ tenant = {} /\ member = {} /\ session = {}
    /\ pc = [r \in Request |-> "idle"]
    /\ req = [r \in Request |-> None]
    /\ founded = [r \in Request |-> None]
    /\ answer = NoAnswer
    /\ faults = MaxFaults

\* A request that is being served goes on.
Step(r) ==
    \/ CreateUser(r) \/ CreateForUser(r) \/ Login(r) \/ Respond(r)
    \/ \E s \in Suffixed : RetrySuffixed(r, s)

Next ==
    \/ \E r \in Request, c \in Credential :
        handleLogin(r, c[1], c[2]) \/ \E w \in Wish : handleRegister(r, c[1], c[2], w)
    \/ \E r \in Request, e \in Email, w \in Wish : handleCreateTenant(r, e, w)
    \/ \E r \in Request : Step(r) \/ LoginFails(r) \/ CutOff(r)
    \/ \E d \in Seed : CreateTenantWithOwner(d)

Spec == Init /\ [][Next]_vars

\* The owner of an account logs in while it has no token, and asks for a tenant with a name
\* that fits.
LogsIn(e)    == e \notin session /\ \E r \in Request : handleLogin(r, e, user[e])
AsksAgain(e) == \E r \in Request : handleCreateTenant(r, e, [name |-> "fits", slug |-> ""])

\* Requests are served to their end, and the owner of an account does not give up.
Fairness ==
    /\ \A r \in Request : WF_vars(Step(r))
    /\ \A e \in Email : SF_vars(LogsIn(e)) /\ SF_vars(AsksAgain(e))

FairSpec == Spec /\ Fairness
-----------------------------------------------------------------------------
(* Properties. *)

\* The values of the tables and of the requests: a request to found a tenant is for an account.
TypeOK ==
    /\ user \in [Email -> Password \cup {None}]
    /\ tenant \subseteq Tenant /\ member \subseteq Membership
    /\ session \subseteq {e \in Email : user[e] # None}
    /\ pc \in [Request -> {"idle", "user", "tenant", "retry", "login", "list"}]
    /\ req \in [Request -> Ask \cup {None}]
    /\ founded \in [Request -> Id \cup {None}]
    /\ faults \in 0 .. MaxFaults
    /\ \A r \in Request :
        /\ pc[r] = "idle" <=> req[r] = None
        /\ pc[r] \in {"tenant", "retry", "list"} => user[req[r].email] # None

\* No tenant without an owner, whatever fails (CreateForUser: "a failure leaves no tenant nobody
\* owns"), and no owner that is not an account.
EveryTenantOwned ==
    /\ \A t \in tenant : \E m \in member : m.tenant = t.id /\ m.role = "owner"
    /\ \A m \in member : user[m.user] # None /\ \E t \in tenant : t.id = m.tenant

\* A slug names one tenant, though requests derive the same slug at the same time and retry.
SlugsDistinct ==
    /\ \A t, u \in tenant : t.slug = u.slug => t = u
    /\ \A t, u \in tenant : t.id = u.id => t = u

\* The tenants are sound: each has its owner and a name of its own.
TenantsSound == EveryTenantOwned /\ SlugsDistinct

\* A registration that is answered as created, with or without a session, has left an account
\* that its password opens and a tenant it owns; a session lists that tenant (handleRegister).
RegistrationHolds ==
    answer.code \in {"created", "nosession"} =>
        /\ user[answer.email] = answer.password
        /\ [tenant |-> answer.tenant, user |-> answer.email, role |-> "owner"] \in member
        /\ answer.code = "created" => answer.tenant \in answer.tenants

\* Registering an address again, at once or later, never changes the account (the unique index
\* on users.email): its password stays the first one.
AccountStands ==
    [][\A e \in Email : user[e] # None => user'[e] = user[e]]_vars

\* The state a failed registration leaves is recoverable by its user (handleRegister: "they can
\* log in, see an empty tenant list, and create one"): an account whose owner keeps trying comes
\* to own a tenant.
Recovers == \A e \in Email : user[e] # None ~> Owns(e)
=============================================================================
