----------------------------- MODULE RateLimit -----------------------------
(***************************************************************************)
(* The sliding-window limiter (internal/ratelimit), whom it charges        *)
(* (internal/httpx/ratelimit.go, internal/platform/clientip), and the      *)
(* Redis it counts in.  One check is one run of a Lua script, atomic and   *)
(* on Redis's clock; around it Redis may be away, lose its data, or answer *)
(* too late, and the limiter then allows the request.  Init, Next and the  *)
(* other names every module has are prefixed, so that MiddlewareProofs can *)
(* extend this module together with Idempotency.                           *)
(***************************************************************************)
EXTENDS Integers, Sequences, FiniteSets

CONSTANTS
    Caller,         \* who calls what, and through which proxies
    Address, Trusted,
    Policy, Limit, Window,
    Second,         \* milliseconds in a second
    Garbage,        \* a forwarding entry that is not an address
    NoUser,         \* the user of a principal that is an API key
    None,
    MaxSame,        \* bound: entries of one instant
    MaxBusy,        \* bound: keys that hold entries at a time
    MaxTime         \* bound: instants, in milliseconds

LimitedRoute == {"login", "register", "refresh", "me", "tenant"}

\* The policies of the routes (router.go).
PolicyOf(c) == CASE c.route = "login"    -> "login"
                 [] c.route = "register" -> "register"
                 [] c.route = "refresh"  -> "refresh_ip"
                 [] OTHER                -> "api"

\* A caller sits at an address that is no proxy and comes through trusted proxies, the last of
\* which is the peer.  The proxies add to one of the two forwarding headers; xff and forwarded
\* are what the client had written in each, nearest hop first.  tenant is the tenant of the path,
\* or the one an API key belongs to.
ASSUME RateLimitAssumption ==
    /\ \A c \in Caller :
        /\ c.route \in LimitedRoute
        /\ c.origin \in Address \ Trusted
        /\ c.via \in Seq(Trusted) /\ c.adds \in {"xff", "forwarded"}
        /\ c.xff \in Seq(Address \cup {Garbage}) /\ c.forwarded \in Seq(Address \cup {Garbage})
        /\ PolicyOf(c) \in Policy
    /\ Trusted \subseteq Address /\ Garbage \notin Address
    /\ Limit \in [Policy -> Nat \ {0}] /\ Window \in [Policy -> Nat \ {0}]
    /\ Second \in Nat \ {0} /\ MaxSame \in Nat \ {0} /\ MaxBusy \in Nat
    /\ MaxTime \in Nat /\ None \notin Nat
-----------------------------------------------------------------------------
(* Whom a request is charged to. *)

Peer(c) == IF c.via = <<>> THEN c.origin ELSE c.via[Len(c.via)]

\* What the proxies add, nearest hop first: each the peer that it saw.
Hops(c) ==
    [i \in 1 .. Len(c.via) |-> IF i = Len(c.via) THEN c.origin ELSE c.via[Len(c.via) - i]]

\* X-Forwarded-For and then Forwarded, reversed: every entry of Forwarded is nearer than any of
\* X-Forwarded-For, whichever of the two the proxies add to.
xffChain(c) ==
    IF c.adds = "xff" THEN c.forwarded \o Hops(c) \o c.xff
                      ELSE Hops(c) \o c.forwarded \o c.xff

\* The nearest hop that is not trusted; the peer when there is none or it is no address.
ClientIP(c) ==
    LET chain == xffChain(c)
        First(i) == chain[i] \notin Trusted /\ \A j \in 1 .. i - 1 : chain[j] \in Trusted
    IN  IF Peer(c) \notin Trusted \/ ~\E i \in DOMAIN chain : First(i)
        THEN Peer(c)
        ELSE LET a == chain[CHOOSE i \in DOMAIN chain : First(i)]
             IN  IF a = Garbage THEN Peer(c) ELSE a

\* limitByIP and limitByPrincipal.  The principal of an API key has no user: on the routes
\* outside the tenants all keys are one caller.
Bucket(c) == CASE c.route = "tenant" -> <<"tenant", c.tenant>>
               [] c.route = "me"     -> <<"principal", c.user>>
               [] OTHER              -> <<"ip", ClientIP(c)>>

\* Mutant: the name of the policy is left out.
keyForBucket(c) == <<"", Bucket(c)>>

keyFor(c) == <<PolicyOf(c), Bucket(c)>>

Key == {keyFor(c) : c \in Caller}

\* Who ought to be charged: the tenant, of an API key the one it belongs to wherever it calls, the
\* person, or the address the client really sits at.
Payer(c) == CASE c.route = "tenant"                   -> <<PolicyOf(c), "tenant", c.tenant>>
              [] c.route = "me" /\ c.user = NoUser    -> <<PolicyOf(c), "tenant", c.tenant>>
              [] c.route = "me" /\ c.user # NoUser    -> <<PolicyOf(c), "principal", c.user>>
              [] OTHER                                -> <<PolicyOf(c), "ip", c.origin>>

Payers == {Payer(c) : c \in Caller}
-----------------------------------------------------------------------------
VARIABLES
    now,        \* Redis's clock
    redis,      \* "up" | "down"
    zset,       \* the sorted set of each key
    dies,       \* the instant after which Redis drops the key
    counted,    \* history: the requests of each payer that were counted in the last window
    told        \* history: when a key's callers were told to come back, if none was let in since

limiterVars == <<now, redis, zset, dies, counted, told>>

Time  == 0 .. MaxTime
Entry == [at : Time, id : 1 .. MaxSame]

\* ZREMRANGEBYSCORE key 0 now - windowms removes the others.
Survives(e, p) == e.at > now - Window[p]

Surviving(c) == {e \in zset[keyFor(c)] : Survives(e, PolicyOf(c))}

Allowed(c) == Cardinality(Surviving(c)) < Limit[PolicyOf(c)]

\* How long until the oldest entry leaves the window.
Reset(c) ==
    IF Surviving(c) = {} THEN Window[PolicyOf(c)]
    ELSE LET oldest == CHOOSE t \in Time : /\ \E e \in Surviving(c) : e.at = t
                                           /\ \A e \in Surviving(c) : t <= e.at
             reset  == Window[PolicyOf(c)] - (now - oldest)
         IN  IF reset < 0 THEN 0 ELSE reset

\* Mutant: rounded down.
RetryAfterFloor(reset) == (reset \div Second) * Second

\* Retry-After, in whole seconds, rounded up.
RetryAfter(reset) == ((reset + Second - 1) \div Second) * Second

\* A member that the set does not have: a fresh UUID.
Fresh(c, id) ==
    LET used(i) == \E e \in zset[keyFor(c)] \cup counted[Payer(c)] : e = [at |-> now, id |-> i]
    IN  ~used(id) /\ \A j \in 1 .. id - 1 : used(j)

\* Mutant: the key gets no expiry.
ExpireNever(c) == MaxTime + 1

\* PEXPIRE key windowms.
Expire(c) == now + Window[PolicyOf(c)]

\* The script, up to its answer.
Script(c, id) ==
    LET k == keyFor(c)
        e == [at |-> now, id |-> id]
    IN  /\ redis = "up"
        /\ Cardinality({k} \cup {l \in Key : zset[l] # {}}) <= MaxBusy
        /\ \/ /\ Allowed(c) /\ Fresh(c, id)
              /\ zset' = [zset EXCEPT ![k] = Surviving(c) \cup {e}]
              /\ dies' = [dies EXCEPT ![k] = Expire(c)]
              /\ counted' = [counted EXCEPT ![Payer(c)] = @ \cup {e}]
           \/ /\ ~Allowed(c) /\ id = 1
              /\ zset' = [zset EXCEPT ![k] = Surviving(c)]
              /\ UNCHANGED <<dies, counted>>

\* What the client is told, of two promises the earlier one.
Earlier(t, u) == IF t = None \/ u < t THEN u ELSE t

\* Limiter.Allow and enforce: the answer arrives, the handler runs or a 429 says when to retry.
Allow(c, id) ==
    /\ Script(c, id)
    /\ told' = [told EXCEPT ![keyFor(c)] =
                   IF Allowed(c) THEN None ELSE Earlier(@, now + RetryAfter(Reset(c)))]
    /\ UNCHANGED <<now, redis>>

\* degrade: the script ran and its answer is lost; the request is allowed all the same.
AllowUnheard(c, id) ==
    /\ Script(c, id)
    /\ told' = [told EXCEPT ![keyFor(c)] = IF Allowed(c) THEN None ELSE @]
    /\ UNCHANGED <<now, redis>>

\* While it is away every request is allowed, and nothing changes here.
RedisFails == redis = "up" /\ redis' = "down" /\ UNCHANGED <<now, zset, dies, counted, told>>

\* Back with its data, or restarted without it.
RedisReturns ==
    /\ redis = "down" /\ redis' = "up"
    /\ \/ UNCHANGED <<zset, dies, counted, told>>
       \/ /\ zset' = [k \in Key |-> {}] /\ dies' = [k \in Key |-> 0]
          /\ counted' = [x \in Payers |-> {}] /\ told' = [k \in Key |-> None]
    /\ UNCHANGED now

\* A key whose time is over is gone; the history forgets what is a window old.
LimiterTick ==
    /\ now < MaxTime
    /\ now' = now + 1
    /\ zset' = [k \in Key |-> IF dies[k] < now + 1 THEN {} ELSE zset[k]]
    /\ dies' = [k \in Key |-> IF dies[k] < now + 1 THEN 0 ELSE dies[k]]
    /\ counted' = [x \in Payers |-> {e \in counted[x] : e.at > now + 1 - Window[x[1]]}]
    /\ UNCHANGED <<redis, told>>

LimiterInit ==
    /\ now = 0 /\ redis = "up"
    /\ zset = [k \in Key |-> {}] /\ dies = [k \in Key |-> 0]
    /\ counted = [x \in Payers |-> {}] /\ told = [k \in Key |-> None]

LimiterNext ==
    \/ \E c \in Caller, id \in 1 .. MaxSame : Allow(c, id) \/ AllowUnheard(c, id)
    \/ RedisFails \/ RedisReturns \/ LimiterTick

LimiterSpec == LimiterInit /\ [][LimiterNext]_limiterVars
-----------------------------------------------------------------------------
(* Properties. *)

\* The values of the variables; what a client is told is an instant that it can wait for.
LimiterTypeOK ==
    /\ now \in Time /\ redis \in {"up", "down"}
    /\ zset \in [Key -> SUBSET Entry] /\ dies \in [Key -> Nat]
    /\ counted \in [Payers -> SUBSET Entry] /\ told \in [Key -> Nat \cup {None}]

\* The callers whose requests the code does not charge to their payer: an API key outside the
\* tenants, where all keys are one principal, and a client whose proxies add to X-Forwarded-For and
\* leave a Forwarded header as the client wrote it.
Misplaced(c) ==
    \/ c.route = "me" /\ c.user = NoUser
    \/ c.route \notin {"me", "tenant"} /\ c.via # <<>> /\ c.adds = "xff" /\ c.forwarded # <<>>

\* "At most Limit requests in any Window" (Policy): what Redis counted for one tenant, person
\* or address in the window that ends now is within the limit, through evictions and expiry,
\* whichever of a tenant's members call and whatever a client writes in the header its proxies
\* add to; but for a payer that has a misplaced caller.
WindowBound ==
    \A x \in Payers : (\A c \in Caller : Payer(c) = x => ~Misplaced(c))
        => Cardinality(counted[x]) <= Limit[x[1]]

\* Whoever would be refused now has used up its own limit in this window: no other tenant,
\* address or policy took a part of it (keyFor), and no outage did (fail open), unless a misplaced
\* caller is charged to its key.
OwnBudget ==
    \A c \in Caller :
        ~Allowed(c) /\ (\A d \in Caller : Misplaced(d) => keyFor(d) # keyFor(c))
        => Cardinality(counted[Payer(c)]) >= Limit[PolicyOf(c)]

\* The limit is exact: no payer gets more, and none is refused before it has had that much,
\* where the code charges requests to whom the documentation says.
LimitExact == WindowBound /\ OwnBudget

\* A refused client that waits for Retry-After is let in, if nobody else was on the same key
\* in between (enforce rounds up, or it would be refused again).
RetryHonoured ==
    \A c \in Caller : told[keyFor(c)] # None /\ now >= told[keyFor(c)] => Allowed(c)

\* Retry-After is the time until a slot frees and not more (enforce): a second before it the
\* key is still over its limit.
RetryTight ==
    \A c \in Caller :
        told[keyFor(c)] # None /\ now + Second <= told[keyFor(c)] => ~Allowed(c)

\* Retry-After is exact, to the second that the header can express.
RetryExact == RetryHonoured /\ RetryTight

\* Redis forgets a caller one window after the last request it counted, and not while an entry
\* is in the window (PEXPIRE); meanwhile it keeps no more than the limit, however often the
\* caller is refused: the memory is bounded and no limit is lifted early.
ForgottenInTime ==
    \A c \in Caller :
        LET k == keyFor(c)
        IN  /\ Cardinality(zset[k]) <= Limit[PolicyOf(c)]
            /\ zset[k] # {} =>
                /\ \A e \in zset[k] : e.at + Window[PolicyOf(c)] <= dies[k]
                /\ \E e \in zset[k] : now <= e.at + Window[PolicyOf(c)]
=============================================================================
