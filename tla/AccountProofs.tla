---------------------------- MODULE AccountProofs ----------------------------
(***************************************************************************)
(* Safety of registration and of the founding of tenants, for any number   *)
(* of requests, addresses and tenants.  Rows are only ever added, and each *)
(* step of a request leaves behind what its next step relies on.           *)
(***************************************************************************)
EXTENDS Account, FiniteSetTheorems, TLAPS

Owner(id, e) == [tenant |-> id, user |-> e, role |-> "owner"]

\* What a request under way can rely on: the account it has made or been let into, and the
\* tenant it has founded.
Progress(r) ==
    pc[r] # "idle" =>
        /\ req[r] \in Ask
        /\ req[r].kind = "register" => req[r].password \in Password
        /\ req[r].kind = "register" /\ pc[r] # "user" => user[req[r].email] = req[r].password
        /\ req[r].kind = "register" /\ pc[r] \in {"login", "list"} =>
              founded[r] \in Id /\ Owner(founded[r], req[r].email) \in member
        /\ req[r].kind = "create" => pc[r] \in {"tenant", "retry"} /\ user[req[r].email] # None
        /\ req[r].kind = "login" => pc[r] \in {"login", "list"} /\ req[r].password \in Password
        /\ pc[r] = "list" => user[req[r].email] = req[r].password

Tables ==
    /\ user \in [Email -> Password \cup {None}]
    /\ tenant \subseteq Tenant /\ member \subseteq Membership
    /\ session \subseteq {e \in Email : user[e] # None}
    /\ faults \in 0 .. MaxFaults

Requests ==
    /\ pc \in [Request -> {"idle", "user", "tenant", "retry", "login", "list"}]
    /\ req \in [Request -> Ask \cup {None}]
    /\ founded \in [Request -> Id \cup {None}]
    /\ \A r \in Request : (pc[r] = "idle" <=> req[r] = None) /\ Progress(r)

\* The tenants are numbered by how many there were.
Numbered ==
    /\ IsFiniteSet(tenant)
    /\ \A t \in tenant : t.id <= Cardinality(tenant)

IInv == Tables /\ Requests /\ Numbered /\ EveryTenantOwned /\ SlugsDistinct /\ RegistrationHolds
-----------------------------------------------------------------------------
(* The kinds of steps. *)

Begins(r, in, first) ==
    /\ Start(r, in, first) /\ in \in Ask
    /\ \/ in.kind = "register" /\ first = "user" /\ in.password \in Password
       \/ in.kind = "login" /\ first = "login" /\ in.password \in Password
       \/ in.kind = "create" /\ first = "tenant" /\ in.email \in session

Registers(r) ==
    /\ pc[r] = "user" /\ user[req[r].email] = None
    /\ user' = [user EXCEPT ![req[r].email] = req[r].password]
    /\ Goto(r, "tenant")
    /\ UNCHANGED <<tenant, member, session, founded, faults>>

Founds(r, s) ==
    /\ pc[r] \in {"tenant", "retry"} /\ s \in Slug /\ ~Taken(s) /\ Found(r, s)
    /\ UNCHANGED <<user, session, faults>>

\* A request passes on to the next transaction.
Moves(r, next) ==
    /\ Goto(r, next)
    /\ \/ pc[r] = "tenant" /\ next = "retry"
       \/ pc[r] = "login" /\ next = "list" /\ user[req[r].email] = req[r].password
    /\ UNCHANGED <<user, tenant, member, session, founded, faults>>

\* A request is answered, with success only when its steps are done.
Answers(r, code, tenants) ==
    /\ pc[r] # "idle" /\ Finish(r, code, tenants)
    /\ code \in {"created", "nosession"} => pc[r] \in {"login", "list"}
    /\ code = "created" => tenants = TenantsFor(r)
    /\ session' = session \/ (pc[r] = "list" /\ session' = session \cup {req[r].email})
    /\ faults' \in {faults, faults - 1} /\ faults' >= 0
    /\ UNCHANGED <<user, tenant, member>>

\* No kind of step changes an account, takes a membership back or touches another request.
Grows(r) ==
    /\ \A e \in Email : user[e] # None => user'[e] = user[e]
    /\ member \subseteq member'
    /\ \A q \in Request \ {r} : pc'[q] = pc[q] /\ req'[q] = req[q] /\ founded'[q] = founded[q]
-----------------------------------------------------------------------------
\* What a client wishes for is a request once it is checked: its slug is one to choose or none.
LEMMA WishesAsk ==
    ASSUME NEW e \in Email, NEW w \in Wish
    PROVE  UsableSlug(e, w) \in ChosenSlug \cup {""} /\ validateNewTenant(e, w) \in BOOLEAN
  <1>1. validateNewTenant(e, w) \in BOOLEAN
    BY Zenon DEF validateNewTenant
  <1>2. w.slug \in ChosenSlug \cup {"", "malformed"}
    BY DEF Wish
  <1>3. validateNewTenant(e, w) => w.slug # "malformed"
    BY Zenon DEF validateNewTenant
  <1> QED
    BY <1>1, <1>2, <1>3 DEF UsableSlug

\* A registration and a login begin with a password, the founding of a tenant with a session.
LEMMA RequestsBegin ==
    ASSUME NEW r \in Request, IInv,
           \/ \E c \in Credential : handleLogin(r, c[1], c[2])
           \/ \E c \in Credential, w \in Wish : handleRegister(r, c[1], c[2], w)
           \/ \E e \in Email, w \in Wish : handleCreateTenant(r, e, w)
    PROVE  \E in \in Ask, first \in {"user", "login", "tenant"} : Begins(r, in, first)
  <1>1. ASSUME NEW c \in Credential, handleLogin(r, c[1], c[2])
        PROVE  \E in \in Ask, first \in {"user", "login", "tenant"} : Begins(r, in, first)
    <2> DEFINE in == [kind |-> "login", email |-> c[1], password |-> c[2],
                      slug |-> "", valid |-> FALSE]
    <2>1. c[1] \in Email /\ c[2] \in Password
      BY AccountAssumption
    <2>2. in \in Ask
      BY <2>1, Zenon DEF Ask
    <2>3. in.kind = "login" /\ in.password = c[2]
      OBVIOUS
    <2>4. Start(r, in, "login")
      BY <1>1, Zenon DEF handleLogin
    <2> HIDE DEF in
    <2>5. Begins(r, in, "login")
      BY <2>1, <2>2, <2>3, <2>4, Zenon DEF Begins
    <2> QED
      BY <2>2, <2>5, Zenon
  <1>2. ASSUME NEW c \in Credential, NEW w \in Wish, handleRegister(r, c[1], c[2], w)
        PROVE  \E in \in Ask, first \in {"user", "login", "tenant"} : Begins(r, in, first)
    <2> DEFINE in == [kind |-> "register", email |-> c[1], password |-> c[2],
                      slug |-> UsableSlug(c[1], w), valid |-> validateNewTenant(c[1], w)]
    <2>1. c[1] \in Email /\ c[2] \in Password
      BY AccountAssumption
    <2>2. in \in Ask
      BY <2>1, WishesAsk, Zenon DEF Ask
    <2>3. in.kind = "register" /\ in.password = c[2]
      OBVIOUS
    <2>4. Start(r, in, "user")
      BY <1>2, Zenon DEF handleRegister
    <2> HIDE DEF in
    <2>5. Begins(r, in, "user")
      BY <2>1, <2>2, <2>3, <2>4, Zenon DEF Begins
    <2> QED
      BY <2>2, <2>5, Zenon
  <1>3. ASSUME NEW e \in Email, NEW w \in Wish, handleCreateTenant(r, e, w)
        PROVE  \E in \in Ask, first \in {"user", "login", "tenant"} : Begins(r, in, first)
    <2> DEFINE in == [kind |-> "create", email |-> e, password |-> None,
                      slug |-> UsableSlug(e, w), valid |-> validateNewTenant(e, w)]
    <2>1. in \in Ask
      BY WishesAsk, Zenon DEF Ask
    <2>2. in.kind = "create" /\ in.email = e
      OBVIOUS
    <2>3. e \in session /\ Start(r, in, "tenant")
      BY <1>3, Zenon DEF handleCreateTenant
    <2> HIDE DEF in
    <2>4. Begins(r, in, "tenant")
      BY <2>1, <2>2, <2>3, Zenon DEF Begins
    <2> QED
      BY <2>1, <2>4, Zenon
  <1> QED
    BY <1>1, <1>2, <1>3

\* Each transaction of a request registers, founds, passes on or answers.
LEMMA StepKinds ==
    ASSUME IInv, NEW r \in Request, Step(r) \/ LoginFails(r) \/ CutOff(r)
    PROVE  \/ Registers(r)
           \/ \E s \in Slug : Founds(r, s)
           \/ \E next \in {"retry", "list"} : Moves(r, next)
           \/ \E code, tenants : Answers(r, code, tenants)
  <1>0. faults \in Nat /\ (pc[r] # "idle" => req[r] \in Ask)
    BY AccountAssumption DEF IInv, Tables, Requests, Progress
  <1>1. CASE CreateUser(r)
    <2>1. CASE NewAccount(req[r].email)
      BY <1>1, <2>1 DEF CreateUser, NewAccount, Registers
    <2>2. CASE ~NewAccount(req[r].email)
      <3>1. pc[r] = "user" /\ Finish(r, "emailtaken", {})
              /\ UNCHANGED <<user, tenant, member, session, faults>>
        BY <1>1, <2>2, Zenon DEF CreateUser
      <3>2. Answers(r, "emailtaken", {})
        BY <1>0, <3>1 DEF Answers
      <3> QED
        BY <3>2
    <2> QED
      BY <2>1, <2>2
  <1>2. CASE CreateForUser(r)
    <2>0. pc[r] = "tenant" /\ UNCHANGED <<user, session, faults>> /\ req[r] \in Ask
      BY <1>0, <1>2, Zenon DEF CreateForUser
    <2>1. ASSUME Finish(r, "invalid", {}) \/ Finish(r, "slugtaken", {}), UNCHANGED <<tenant, member>>
          PROVE  \E code, tenants : Answers(r, code, tenants)
      <3>1. Answers(r, "invalid", {}) \/ Answers(r, "slugtaken", {})
        BY <1>0, <2>0, <2>1 DEF Answers
      <3> QED
        BY <3>1
    <2>2. ASSUME ~Taken(Slugged(req[r])), Found(r, Slugged(req[r]))
          PROVE  \E s \in Slug : Founds(r, s)
      <3>1. Slugged(req[r]) \in Slug
        BY <2>0 DEF Slugged, Slug, Ask
      <3>2. Founds(r, Slugged(req[r]))
        BY <2>0, <2>2, <3>1, Zenon DEF Founds
      <3> QED
        BY <3>1, <3>2
    <2>3. ASSUME Goto(r, "retry"), UNCHANGED <<tenant, member, founded>>
          PROVE  Moves(r, "retry")
      BY <2>0, <2>3 DEF Moves
    <2>4. \/ (Finish(r, "invalid", {}) \/ Finish(r, "slugtaken", {})) /\ UNCHANGED <<tenant, member>>
          \/ ~Taken(Slugged(req[r])) /\ Found(r, Slugged(req[r]))
          \/ Goto(r, "retry") /\ UNCHANGED <<tenant, member, founded>>
      BY <1>2, Zenon DEF CreateForUser
    <2> QED
      BY <2>1, <2>2, <2>3, <2>4
  <1>3. CASE Login(r)
    <2>1. \/ Goto(r, "list") /\ user[req[r].email] = req[r].password /\ UNCHANGED founded
          \/ Finish(r, "unauthorized", {})
      BY <1>3, Zenon DEF Login
    <2>2. pc[r] = "login" /\ UNCHANGED <<user, tenant, member, session, faults>>
      BY <1>3, Zenon DEF Login
    <2>3. Moves(r, "list") \/ Answers(r, "unauthorized", {})
      BY <1>0, <2>1, <2>2 DEF Moves, Answers
    <2> QED
      BY <2>3
  <1>4. CASE Respond(r)
    <2>1. Answers(r, "created", TenantsFor(r))
      BY <1>0, <1>4 DEF Respond, Answers
    <2> QED
      BY <2>1
  <1>5. ASSUME NEW s \in Suffixed, RetrySuffixed(r, s)
        PROVE  Founds(r, s) \/ Answers(r, "slugtaken", {})
    <2>1. s \in Slug
      BY DEF Slug
    <2>2. CASE SuffixFree(s)
      BY <1>5, <2>1, <2>2 DEF RetrySuffixed, SuffixFree, Founds
    <2>3. CASE ~SuffixFree(s)
      <3>1. pc[r] = "retry" /\ Finish(r, "slugtaken", {}) /\ faults > 0 /\ faults' = faults - 1
              /\ UNCHANGED <<user, tenant, member, session>>
        BY <1>5, <2>3 DEF RetrySuffixed
      <3> QED
        BY <1>0, <3>1 DEF Answers
    <2> QED
      BY <2>2, <2>3
  <1>6. CASE LoginFails(r)
    <2>1. Answers(r, "nosession", {})
      BY <1>0, <1>6 DEF LoginFails, Answers
    <2> QED
      BY <2>1
  <1>7. CASE CutOff(r)
    <2>1. Answers(r, "error", {})
      BY <1>0, <1>7 DEF CutOff, Answers
    <2> QED
      BY <2>1
  <1>8. Suffixed \subseteq Slug
    BY DEF Slug
  <1> QED
    BY <1>1, <1>2, <1>3, <1>4, <1>5, <1>6, <1>7, <1>8 DEF Step
-----------------------------------------------------------------------------
(* Each kind of step preserves the invariant. *)

\* A request that takes no step keeps what it relies on while others add rows.
LEMMA OthersStand ==
    ASSUME IInv, NEW r, Grows(r), NEW q \in Request \ {r}
    PROVE  (pc'[q] = "idle" <=> req'[q] = None) /\ Progress(q)'
  <1>1. (pc[q] = "idle" <=> req[q] = None) /\ Progress(q)
    BY DEF IInv, Requests
  <1>2. pc'[q] = pc[q] /\ req'[q] = req[q] /\ founded'[q] = founded[q]
    BY DEF Grows
  <1>3. CASE pc[q] = "idle"
    BY <1>1, <1>2, <1>3 DEF Progress
  <1>4. CASE pc[q] # "idle"
    <2>1. req[q].email \in Email
      BY <1>1, <1>4 DEF Progress, Ask
    <2>2. user[req[q].email] # None => user'[req[q].email] = user[req[q].email]
      BY <2>1 DEF Grows
    <2>3. member \subseteq member'
      BY DEF Grows
    <2>4. req[q].kind \in {"register", "create", "login"}
      BY <1>1, <1>4 DEF Progress, Ask
    <2>5. req[q].password \in Password => req[q].password # None
      BY AccountAssumption
    <2> QED
      BY <1>1, <1>2, <1>4, <2>2, <2>3, <2>4, <2>5 DEF Progress
  <1> QED
    BY <1>3, <1>4

\* A request begins with nothing to rely on but its session.
LEMMA BeginInv ==
    ASSUME IInv, NEW r \in Request, NEW in \in Ask, NEW first \in {"user", "login", "tenant"},
           Begins(r, in, first)
    PROVE  IInv' /\ Grows(r)
  <1>1. UNCHANGED <<user, tenant, member, session, founded, faults>> /\ answer' = NoAnswer
    BY DEF Begins, Start
  <1>2. pc' = [pc EXCEPT ![r] = first] /\ req' = [req EXCEPT ![r] = in]
    BY DEF Begins, Start
  <1>3. Grows(r)
    BY <1>1, <1>2 DEF Grows, IInv, Requests
  <1>4. Progress(r)'
    <2>1. pc'[r] = first /\ req'[r] = in
      BY <1>2 DEF IInv, Requests
    <2>2. in.email \in session => user[in.email] # None
      BY DEF IInv, Tables
    <2>3. \/ in.kind = "register" /\ first = "user" /\ in.password \in Password
          \/ in.kind = "login" /\ first = "login" /\ in.password \in Password
          \/ in.kind = "create" /\ first = "tenant" /\ in.email \in session
      BY DEF Begins
    <2> QED
      BY <1>1, <2>1, <2>2, <2>3 DEF Progress
  <1>5. Requests'
    <2>1. pc'[r] # "idle" /\ req'[r] # None
      BY <1>2, NoneAssumption DEF IInv, Requests
    <2>2. /\ pc' \in [Request -> {"idle", "user", "tenant", "retry", "login", "list"}]
          /\ req' \in [Request -> Ask \cup {None}]
          /\ founded' \in [Request -> Id \cup {None}]
      BY <1>1, <1>2 DEF IInv, Requests, Id
    <2>3. \A q \in Request : (pc'[q] = "idle" <=> req'[q] = None) /\ Progress(q)'
      BY <1>3, <1>4, <2>1, OthersStand
    <2> QED
      BY <2>2, <2>3 DEF Requests
  <1>6. Tables' /\ Numbered' /\ EveryTenantOwned' /\ SlugsDistinct'
    BY <1>1 DEF IInv, Tables, Numbered, EveryTenantOwned, SlugsDistinct
  <1>7. RegistrationHolds'
    BY <1>1 DEF RegistrationHolds, NoAnswer
  <1> QED
    BY <1>3, <1>5, <1>6, <1>7 DEF IInv

\* A new account is the registration's own.
LEMMA RegisterInv ==
    ASSUME IInv, NEW r \in Request, Registers(r)
    PROVE  IInv' /\ Grows(r)
  <1> DEFINE e == req[r].email
             p == req[r].password
  <1>0. /\ pc[r] = "user" /\ user[e] = None
        /\ user' = [user EXCEPT ![e] = p]
        /\ pc' = [pc EXCEPT ![r] = "tenant"]
        /\ UNCHANGED <<tenant, member, session, req, founded, faults>> /\ answer' = NoAnswer
    BY DEF Registers, Goto
  <1>1. req[r] \in Ask /\ req[r].kind = "register" /\ p \in Password
    BY <1>0 DEF IInv, Requests, Progress, Ask
  <1>2. e \in Email
    BY <1>1 DEF Ask
  <1> HIDE DEF e, p
  <1>3. user' \in [Email -> Password \cup {None}] /\ user'[e] = p /\ user'[e] # None
    BY <1>0, <1>1, <1>2, AccountAssumption DEF IInv, Tables
  <1>4. \A f \in Email : user[f] # None => user'[f] = user[f] /\ user'[f] # None
    BY <1>0, <1>2 DEF IInv, Tables
  <1>5. Grows(r)
    BY <1>0, <1>4 DEF Grows, IInv, Requests
  <1>6. Progress(r)'
    <2>1. pc'[r] = "tenant" /\ req'[r] = req[r]
      BY <1>0 DEF IInv, Requests
    <2> QED
      BY <1>1, <1>3, <2>1 DEF Progress, e, p
  <1>7. Requests'
    <2>1. pc'[r] # "idle" /\ req'[r] # None
      BY <1>0, <1>1, NoneAssumption DEF IInv, Requests
    <2>2. /\ pc' \in [Request -> {"idle", "user", "tenant", "retry", "login", "list"}]
          /\ req' \in [Request -> Ask \cup {None}]
          /\ founded' \in [Request -> Id \cup {None}]
      BY <1>0 DEF IInv, Requests, Id
    <2>3. \A q \in Request : (pc'[q] = "idle" <=> req'[q] = None) /\ Progress(q)'
      BY <1>5, <1>6, <2>1, OthersStand
    <2> QED
      BY <2>2, <2>3 DEF Requests
  <1>8. Tables'
    BY <1>0, <1>3, <1>4 DEF IInv, Tables
  <1>9. Numbered' /\ SlugsDistinct'
    BY <1>0 DEF IInv, Numbered, SlugsDistinct
  <1>10. EveryTenantOwned'
    <2>1. \A m \in member : m.user \in Email
      BY DEF IInv, Tables, Membership
    <2> QED
      BY <1>0, <1>4, <2>1 DEF IInv, EveryTenantOwned
  <1>11. RegistrationHolds'
    BY <1>0 DEF RegistrationHolds, NoAnswer
  <1> QED
    BY <1>5, <1>7, <1>8, <1>9, <1>10, <1>11 DEF IInv

\* A new row of tenants has a number and a slug of its own, and an owner: whether a request or
\* the seed writes it.
LEMMA RowsFounded ==
    ASSUME IInv, NEW s \in Slug, ~Taken(s), NEW e \in Email, NEW id \in Id,
           id = Cardinality(tenant) + 1,
           tenant' = tenant \cup {[id |-> id, slug |-> s]},
           member' = member \cup {Owner(id, e)},
           user' \in [Email -> Password \cup {None}], user'[e] # None,
           \A f \in Email : user[f] # None => user'[f] = user[f]
    PROVE  /\ tenant' \subseteq Tenant /\ member' \subseteq Membership
           /\ Numbered' /\ EveryTenantOwned' /\ SlugsDistinct'
  <1> DEFINE t == [id |-> id, slug |-> s]
             o == Owner(id, e)
  <1>1. t \in Tenant /\ t.id = id /\ t.slug = s
    BY DEF Tenant
  <1>2. o \in Membership /\ o.tenant = id /\ o.user = e /\ o.role = "owner"
    BY DEF Owner, Membership
  <1>3. tenant' = tenant \cup {t} /\ member' = member \cup {o}
    OBVIOUS
  <1> HIDE DEF t, o
  <1>4. tenant \subseteq Tenant /\ member \subseteq Membership
    BY DEF IInv, Tables
  <1>5. IsFiniteSet(tenant) /\ Cardinality(tenant) \in Nat
        /\ \A u \in tenant : u.id \in Int /\ u.id <= Cardinality(tenant)
    BY <1>4, FS_CardinalityType DEF IInv, Numbered, Tenant, Id
  <1>6. \A u \in tenant : u.id # id /\ u.slug # s
    BY <1>5 DEF Taken
  <1>7. t \notin tenant
    BY <1>1, <1>6
  <1>8. IsFiniteSet(tenant \cup {t}) /\ Cardinality(tenant \cup {t}) = Cardinality(tenant) + 1
    BY <1>5, <1>7, FS_AddElement
  <1>9. Numbered'
    <2>1. \A u \in tenant \cup {t} : u.id <= Cardinality(tenant \cup {t})
      BY <1>1, <1>5, <1>8
    <2> QED
      BY <1>3, <1>8, <2>1, Zenon DEF Numbered
  <1>10. SlugsDistinct'
    BY <1>1, <1>3, <1>6 DEF IInv, SlugsDistinct
  <1>11. EveryTenantOwned'
    <2>1. \A m \in member : m.user \in Email
      BY <1>4 DEF Membership
    <2>2. \A u \in tenant' : \E m \in member' : m.tenant = u.id /\ m.role = "owner"
      BY <1>1, <1>2, <1>3 DEF IInv, EveryTenantOwned
    <2>3. \A m \in member' : user'[m.user] # None /\ \E u \in tenant' : u.id = m.tenant
      BY <1>1, <1>2, <1>3, <2>1 DEF IInv, EveryTenantOwned
    <2> QED
      BY <2>2, <2>3 DEF EveryTenantOwned
  <1>12. tenant' \subseteq Tenant /\ member' \subseteq Membership
    BY <1>1, <1>2, <1>3, <1>4
  <1> QED
    BY <1>9, <1>10, <1>11, <1>12

\* What a response leaves behind: the request is over, and one that reports success had the
\* account and the tenant it reports.
LEMMA FinishInv ==
    ASSUME IInv, NEW r \in Request, NEW code, NEW tenants, Finish(r, code, tenants),
           pc[r] # "idle", user' = user, member \subseteq member',
           code \in {"created", "nosession"} =>
              req[r].kind # "register" \/ pc[r] \in {"login", "list"},
           code = "created" /\ req[r].kind = "register" => tenants = TenantsFor(r)
    PROVE  Requests' /\ RegistrationHolds' /\ Grows(r)
  <1>1. /\ pc' = [pc EXCEPT ![r] = "idle"]
        /\ req' = [req EXCEPT ![r] = None]
        /\ founded' = [founded EXCEPT ![r] = None]
    BY DEF Finish
  <1>2. Grows(r)
    BY <1>1 DEF Grows, IInv, Requests
  <1>3. pc'[r] = "idle" /\ req'[r] = None
    BY <1>1 DEF IInv, Requests
  <1>4. Requests'
    <2>1. /\ pc' \in [Request -> {"idle", "user", "tenant", "retry", "login", "list"}]
          /\ req' \in [Request -> Ask \cup {None}]
          /\ founded' \in [Request -> Id \cup {None}]
      BY <1>1 DEF IInv, Requests, Id
    <2>2. Progress(r)'
      BY <1>3 DEF Progress
    <2>3. \A q \in Request : (pc'[q] = "idle" <=> req'[q] = None) /\ Progress(q)'
      BY <1>2, <1>3, <2>2, OthersStand
    <2> QED
      BY <2>1, <2>3 DEF Requests
  <1>5. RegistrationHolds'
    <2>1. CASE req[r].kind # "register"
      <3>1. answer'.code = "none"
        BY <2>1 DEF Finish, NoAnswer
      <3> QED
        BY <3>1 DEF RegistrationHolds
    <2>2. CASE req[r].kind = "register"
      <3>1. answer' = [code |-> code, email |-> req[r].email, password |-> req[r].password,
                       tenant |-> founded[r], tenants |-> tenants]
        BY <2>2 DEF Finish
      <3>2. answer'.code = code /\ answer'.email = req[r].email
            /\ answer'.password = req[r].password /\ answer'.tenant = founded[r]
            /\ answer'.tenants = tenants
        BY <3>1
      <3>3. ASSUME code \in {"created", "nosession"}
            PROVE  /\ user[req[r].email] = req[r].password
                   /\ Owner(founded[r], req[r].email) \in member
                   /\ code = "created" => founded[r] \in tenants
        <4>1. pc[r] \in {"login", "list"}
          BY <2>2, <3>3
        <4>2. /\ user[req[r].email] = req[r].password
              /\ Owner(founded[r], req[r].email) \in member
          BY <2>2, <4>1 DEF IInv, Requests, Progress
        <4>3. /\ Owner(founded[r], req[r].email).user = req[r].email
              /\ Owner(founded[r], req[r].email).tenant = founded[r]
          BY DEF Owner
        <4>4. founded[r] \in TenantsFor(r)
          BY <4>2, <4>3 DEF TenantsFor
        <4> QED
          BY <2>2, <4>2, <4>4
      <3> QED
        BY <3>2, <3>3 DEF RegistrationHolds, Owner
    <2> QED
      BY <2>1, <2>2
  <1> QED
    BY <1>2, <1>4, <1>5

\* Founding a tenant gives the request what its login reports.
LEMMA FoundInv ==
    ASSUME IInv, NEW r \in Request, NEW s \in Slug, Founds(r, s)
    PROVE  IInv' /\ Grows(r)
  <1> DEFINE id == Cardinality(tenant) + 1
             e  == req[r].email
  <1>1. /\ pc[r] \in {"tenant", "retry"} /\ ~Taken(s) /\ id \in Id
        /\ tenant' = tenant \cup {[id |-> id, slug |-> s]}
        /\ member' = member \cup {Owner(id, e)}
        /\ UNCHANGED <<user, session, faults>> /\ Continue(r, id)
    BY DEF Founds, Found, Owner
  <1>2. /\ req[r] \in Ask
        /\ req[r].kind = "register" => user[e] = req[r].password /\ req[r].password \in Password
        /\ req[r].kind # "login"
        /\ req[r].kind = "create" => user[e] # None
    BY <1>1 DEF IInv, Requests, Progress
  <1>3. e \in Email /\ user[e] # None
    BY <1>2, AccountAssumption DEF Ask
  <1> HIDE DEF id, e
  <1>4. user' \in [Email -> Password \cup {None}] /\ user' = user
    BY <1>1 DEF IInv, Tables
  <1>5. /\ tenant' \subseteq Tenant /\ member' \subseteq Membership
        /\ Numbered' /\ EveryTenantOwned' /\ SlugsDistinct'
    BY <1>1, <1>3, <1>4, RowsFounded DEF id
  <1>6. Tables'
    BY <1>1, <1>4, <1>5 DEF IInv, Tables
  <1>7. CASE req[r].kind = "create"
    <2>1. Finish(r, "created", {}) /\ pc[r] # "idle" /\ member \subseteq member'
      BY <1>1, <1>7 DEF Continue
    <2>2. Requests' /\ RegistrationHolds' /\ Grows(r)
      BY <1>4, <1>7, <2>1, FinishInv
    <2> QED
      BY <1>5, <1>6, <2>2 DEF IInv
  <1>8. CASE req[r].kind = "register"
    <2>1. /\ pc' = [pc EXCEPT ![r] = "login"] /\ req' = req /\ answer' = NoAnswer
          /\ founded' = [founded EXCEPT ![r] = id]
      BY <1>1, <1>8 DEF Continue, Goto
    <2>2. Grows(r)
      BY <1>1, <2>1 DEF Grows, IInv, Requests
    <2>3. pc'[r] = "login" /\ req'[r] = req[r] /\ founded'[r] = id /\ req'[r] # None
      BY <1>2, <2>1, NoneAssumption DEF IInv, Requests
    <2>4. Progress(r)'
      BY <1>1, <1>2, <1>4, <1>8, <2>3 DEF Progress, e
    <2>5. Requests'
      <3>1. /\ pc' \in [Request -> {"idle", "user", "tenant", "retry", "login", "list"}]
            /\ req' \in [Request -> Ask \cup {None}]
            /\ founded' \in [Request -> Id \cup {None}]
        BY <1>1, <2>1 DEF IInv, Requests, Id
      <3>2. \A q \in Request : (pc'[q] = "idle" <=> req'[q] = None) /\ Progress(q)'
        BY <2>2, <2>3, <2>4, OthersStand
      <3> QED
        BY <3>1, <3>2 DEF Requests
    <2>6. RegistrationHolds'
      BY <2>1 DEF RegistrationHolds, NoAnswer
    <2> QED
      BY <1>5, <1>6, <2>2, <2>5, <2>6 DEF IInv
  <1>9. req[r].kind \in {"register", "create", "login"}
    BY <1>2 DEF Ask
  <1> QED
    BY <1>2, <1>7, <1>8, <1>9

\* A request that passes on keeps its account; one that is let in presented its password.
LEMMA MoveInv ==
    ASSUME IInv, NEW r \in Request, NEW next \in {"retry", "list"}, Moves(r, next)
    PROVE  IInv' /\ Grows(r)
  <1>1. /\ pc' = [pc EXCEPT ![r] = next] /\ answer' = NoAnswer
        /\ UNCHANGED <<user, tenant, member, session, req, founded, faults>>
        /\ \/ pc[r] = "tenant" /\ next = "retry"
           \/ pc[r] = "login" /\ next = "list" /\ user[req[r].email] = req[r].password
    BY DEF Moves, Goto
  <1>2. Grows(r)
    BY <1>1 DEF Grows, IInv, Requests
  <1>3. pc'[r] = next /\ req'[r] # None
    BY <1>1 DEF IInv, Requests
  <1>4. Progress(r)'
    <2>1. Progress(r)
      BY DEF IInv, Requests
    <2> QED
      BY <1>1, <1>3, <2>1 DEF Progress
  <1>5. Requests'
    <2>1. /\ pc' \in [Request -> {"idle", "user", "tenant", "retry", "login", "list"}]
          /\ req' \in [Request -> Ask \cup {None}]
          /\ founded' \in [Request -> Id \cup {None}]
      BY <1>1 DEF IInv, Requests, Id
    <2>2. \A q \in Request : (pc'[q] = "idle" <=> req'[q] = None) /\ Progress(q)'
      BY <1>2, <1>3, <1>4, OthersStand
    <2> QED
      BY <2>1, <2>2 DEF Requests
  <1>6. Tables' /\ Numbered' /\ EveryTenantOwned' /\ SlugsDistinct'
    BY <1>1 DEF IInv, Tables, Numbered, EveryTenantOwned, SlugsDistinct
  <1>7. RegistrationHolds'
    BY <1>1 DEF RegistrationHolds, NoAnswer
  <1> QED
    BY <1>2, <1>5, <1>6, <1>7 DEF IInv

\* A response changes no row, and gives a session to an account only.
LEMMA AnswerInv ==
    ASSUME IInv, NEW r \in Request, NEW code, NEW tenants, Answers(r, code, tenants)
    PROVE  IInv' /\ Grows(r)
  <1>1. Requests' /\ RegistrationHolds' /\ Grows(r)
    BY FinishInv DEF Answers
  <1>2. UNCHANGED <<user, tenant, member>>
    BY DEF Answers
  <1>3. faults' \in 0 .. MaxFaults
    BY AccountAssumption DEF Answers, IInv, Tables
  <1>4. session' \subseteq {e \in Email : user[e] # None}
    <2>1. CASE session' = session
      BY <2>1 DEF IInv, Tables
    <2>2. CASE pc[r] = "list" /\ session' = session \cup {req[r].email}
      <3>1. req[r] \in Ask /\ user[req[r].email] = req[r].password
        BY <2>2 DEF IInv, Requests, Progress
      <3>2. req[r].email \in Email /\ req[r].kind \in {"register", "create", "login"}
        BY <3>1 DEF Ask
      <3>3. req[r].password \in Password
        BY <2>2, <3>2 DEF IInv, Requests, Progress
      <3> QED
        BY <2>2, <3>1, <3>2, <3>3, AccountAssumption DEF IInv, Tables
    <2> QED
      BY <2>1, <2>2 DEF Answers
  <1>5. Tables'
    BY <1>2, <1>3, <1>4 DEF IInv, Tables
  <1>6. Numbered' /\ EveryTenantOwned' /\ SlugsDistinct'
    BY <1>2 DEF IInv, Numbered, EveryTenantOwned, SlugsDistinct
  <1> QED
    BY <1>1, <1>5, <1>6 DEF IInv

\* The seed writes an account with its tenant and touches no request.
LEMMA SeedInv ==
    ASSUME IInv, NEW d \in Seed, CreateTenantWithOwner(d)
    PROVE  IInv' /\ \A r : Grows(r)
  <1> DEFINE id == Cardinality(tenant) + 1
  <1>1. d.email \in Email /\ d.password \in Password /\ d.slug \in Slug
    BY AccountAssumption DEF Slug
  <1>2. /\ user[d.email] = None /\ ~Taken(d.slug) /\ id \in Id
        /\ user' = [user EXCEPT ![d.email] = d.password]
        /\ tenant' = tenant \cup {[id |-> id, slug |-> d.slug]}
        /\ member' = member \cup {Owner(id, d.email)}
        /\ answer' = NoAnswer
        /\ UNCHANGED <<session, pc, req, founded, faults>>
    BY DEF CreateTenantWithOwner, Owner
  <1> HIDE DEF id
  <1>3. user' \in [Email -> Password \cup {None}] /\ user'[d.email] # None
    BY <1>1, <1>2, AccountAssumption DEF IInv, Tables
  <1>4. \A f \in Email : user[f] # None => user'[f] = user[f]
    BY <1>1, <1>2 DEF IInv, Tables
  <1>5. /\ tenant' \subseteq Tenant /\ member' \subseteq Membership
        /\ Numbered' /\ EveryTenantOwned' /\ SlugsDistinct'
    BY <1>1, <1>2, <1>3, <1>4, RowsFounded DEF id
  <1>6. Tables'
    BY <1>2, <1>3, <1>4, <1>5 DEF IInv, Tables
  <1>7. \A r : Grows(r)
    BY <1>2, <1>4 DEF Grows
  <1>8. Requests'
    <2>1. \A q \in Request : (pc'[q] = "idle" <=> req'[q] = None) /\ Progress(q)'
      <3> SUFFICES ASSUME NEW q \in Request
                   PROVE  (pc'[q] = "idle" <=> req'[q] = None) /\ Progress(q)'
        OBVIOUS
      <3>1. PICK r \in {1, 2} : r # q
        BY 1 # 2
      <3> QED
        BY <1>7, <3>1, OthersStand
    <2> QED
      BY <1>2, <2>1 DEF IInv, Requests
  <1>9. RegistrationHolds'
    BY <1>2 DEF RegistrationHolds, NoAnswer
  <1> QED
    BY <1>5, <1>6, <1>7, <1>8, <1>9 DEF IInv
-----------------------------------------------------------------------------
(* The specification. *)

\* Every step preserves the invariant and changes no account.
LEMMA StepInv ==
    ASSUME IInv, [Next]_vars
    PROVE  IInv' /\ \A e \in Email : user[e] # None => user'[e] = user[e]
  <1>1. CASE UNCHANGED vars
    <2>1. Tables' /\ Numbered' /\ EveryTenantOwned' /\ SlugsDistinct' /\ RegistrationHolds'
      BY <1>1 DEF vars, IInv, Tables, Numbered, EveryTenantOwned, SlugsDistinct, RegistrationHolds
    <2>2. Requests'
      BY <1>1 DEF vars, IInv, Requests, Progress
    <2> QED
      BY <1>1, <2>1, <2>2 DEF vars, IInv
  <1>2. CASE Next
    <2>1. CASE \E d \in Seed : CreateTenantWithOwner(d)
      BY <2>1, SeedInv DEF Grows
    <2>2. CASE \E r \in Request : Step(r) \/ LoginFails(r) \/ CutOff(r)
      <3>1. PICK r \in Request : Step(r) \/ LoginFails(r) \/ CutOff(r)
        BY <2>2
      <3>2. IInv' /\ Grows(r)
        BY <3>1, StepKinds, RegisterInv, FoundInv, MoveInv, AnswerInv
      <3> QED
        BY <3>2 DEF Grows
    <2>3. ASSUME NEW r \in Request,
                 \/ \E c \in Credential : handleLogin(r, c[1], c[2])
                 \/ \E c \in Credential, w \in Wish : handleRegister(r, c[1], c[2], w)
                 \/ \E e \in Email, w \in Wish : handleCreateTenant(r, e, w)
          PROVE  IInv' /\ \A e \in Email : user[e] # None => user'[e] = user[e]
      <3>1. IInv' /\ Grows(r)
        BY <2>3, RequestsBegin, BeginInv
      <3> QED
        BY <3>1 DEF Grows
    <2> QED
      BY <1>2, <2>1, <2>2, <2>3 DEF Next
  <1> QED
    BY <1>1, <1>2

\* The empty database satisfies the invariant.
LEMMA InitInv ==
    ASSUME Init
    PROVE  IInv
  <1>1. Tables
    BY AccountAssumption DEF Init, Tables
  <1>2. Requests
    BY DEF Init, Requests, Progress
  <1>3. Numbered
    BY FS_EmptySet DEF Init, Numbered
  <1>4. EveryTenantOwned /\ SlugsDistinct /\ RegistrationHolds
    BY DEF Init, EveryTenantOwned, SlugsDistinct, RegistrationHolds, NoAnswer
  <1> QED
    BY <1>1, <1>2, <1>3, <1>4 DEF IInv

\* The invariant gives the types: an account stands behind every request past its start.
LEMMA InvTypes ==
    ASSUME IInv
    PROVE  TypeOK
  <1>1. ASSUME NEW r \in Request, pc[r] \in {"tenant", "retry", "list"}
        PROVE  user[req[r].email] # None
    <2>1. Progress(r) /\ req[r] \in Ask
      BY <1>1 DEF IInv, Requests, Progress
    <2>2. req[r].kind \in {"register", "create", "login"}
      BY <2>1 DEF Ask
    <2> QED
      BY <1>1, <2>1, <2>2, AccountAssumption DEF Progress
  <1> QED
    BY <1>1 DEF IInv, Tables, Requests, TypeOK

\* The invariant holds throughout.
LEMMA Invariance == Spec => []IInv
  <1>1. Init => IInv
    BY InitInv
  <1>2. IInv /\ [Next]_vars => IInv'
    BY StepInv
  <1> QED
    BY <1>1, <1>2, PTL DEF Spec

\* Tables and requests have their types, and a request founds a tenant for an account only
\* (handleRegister, handleCreateTenant).
THEOREM TypeCorrect == Spec => []TypeOK
  <1>1. IInv => TypeOK
    BY InvTypes
  <1> QED
    BY <1>1, Invariance, PTL

\* No failure leaves a tenant without an owner or an owner without an account (CreateForUser,
\* CreateTenantWithOwner).
THEOREM TenantsOwned == Spec => []EveryTenantOwned
  <1>1. IInv => EveryTenantOwned
    BY DEF IInv
  <1> QED
    BY <1>1, Invariance, PTL

\* Slugs and numbers name one tenant each, however many requests derive the same slug at once
\* (createTenantWithUniqueSlug).
THEOREM SlugsUnique == Spec => []SlugsDistinct
  <1>1. IInv => SlugsDistinct
    BY DEF IInv
  <1> QED
    BY <1>1, Invariance, PTL

\* A registration answered as created has left its account and its tenant, and a session lists
\* that tenant (handleRegister).
THEOREM RegistrationsHold == Spec => []RegistrationHolds
  <1>1. IInv => RegistrationHolds
    BY DEF IInv
  <1> QED
    BY <1>1, Invariance, PTL

\* No step changes the password of an account (UserStore.Create).
THEOREM AccountsStand == Spec => AccountStands
  <1>1. IInv /\ [Next]_vars => [\A e \in Email : user[e] # None => user'[e] = user[e]]_vars
    BY StepInv
  <1> QED
    BY <1>1, Invariance, PTL DEF Spec, AccountStands
\* Tenants are owned and told apart, whatever fails and whoever races (createTenantWithUniqueSlug).
THEOREM TenantsAreSound == Spec => []TenantsSound
  <1>1. EveryTenantOwned /\ SlugsDistinct => TenantsSound
    BY DEF TenantsSound
  <1> QED
    BY <1>1, TenantsOwned, SlugsUnique, PTL
=============================================================================
