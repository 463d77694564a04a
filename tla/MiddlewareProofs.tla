-------------------------- MODULE MiddlewareProofs --------------------------
(***************************************************************************)
(* Proofs about what httpx puts in front of every handler: the rate        *)
(* limiter and the idempotency keys.                                       *)
(*                                                                         *)
(* The limiter, for any number of callers, policies and proxies.  The      *)
(* argument has two halves.  Two callers that are not misplaced share a    *)
(* key exactly when the same payer ought to be charged for both, whatever  *)
(* they write in the header their proxies add to; and what survives in the *)
(* sorted set of a key is what its payers were charged for in the window,  *)
(* through eviction and expiry.                                            *)
(*                                                                         *)
(* The keys, for any number of requests, operations and bodies, any lease, *)
(* retention and timeout, and any number of faults.                        *)
(***************************************************************************)
EXTENDS RateLimit, Idempotency, FiniteSetTheorems, SequenceTheorems, WellFoundedInduction, TLAPS

-----------------------------------------------------------------------------
(* Whom a request is charged to. *)

\* The address a request is charged to is the one the client sits at: the entry of the outermost
\* trusted proxy, before anything that the client wrote; unless the client's own Forwarded header
\* is put before what the proxies added.
LEMMA ClientIsOrigin ==
    ASSUME NEW c \in Caller, c.route \notin {"me", "tenant"}, ~Misplaced(c)
    PROVE  ClientIP(c) = c.origin
<1> DEFINE Item == Address \cup {Garbage}
<1>1. /\ c.origin \in Address /\ c.origin \notin Trusted /\ c.via \in Seq(Trusted)
      /\ c.xff \in Seq(Item) /\ c.forwarded \in Seq(Item) /\ c.adds \in {"xff", "forwarded"}
      /\ Garbage # c.origin /\ Trusted \subseteq Address
  BY RateLimitAssumption
<1>2. CASE c.via = <<>>
  BY <1>1, <1>2 DEF ClientIP, Peer
<1>3. CASE c.via # <<>>
  <2> DEFINE n == Len(c.via)
             A == Hops(c)
             chain == xffChain(c)
             First(i) == chain[i] \notin Trusted /\ \A j \in 1 .. i - 1 : chain[j] \in Trusted
  <2>1. n \in Nat /\ n >= 1 /\ DOMAIN c.via = 1 .. n /\ \A i \in 1 .. n : c.via[i] \in Trusted
    BY <1>1, <1>3
  <2>2. A \in Seq(Item) /\ Len(A) = n
    BY <1>1, <2>1 DEF Hops
  <2>3. A[n] = c.origin /\ \A i \in 1 .. n - 1 : A[i] \in Trusted
    BY <2>1 DEF Hops
  <2> HIDE DEF n, A, Item
  <2>4. PICK rest \in Seq(Item) : chain = A \o rest
    <3>1. CASE c.adds = "forwarded"
      <4>1. chain = (A \o c.forwarded) \o c.xff
        BY <3>1 DEF xffChain, A
      <4>2. c.forwarded \o c.xff \in Seq(Item)
        BY <1>1, ConcatProperties
      <4>3. A \in Seq(Item) /\ c.forwarded \in Seq(Item) /\ c.xff \in Seq(Item)
        BY <1>1, <2>2
      <4>4. \A s, t, u \in Seq(Item) : (s \o t) \o u = s \o (t \o u)
        BY ConcatAssociative
      <4>5. (A \o c.forwarded) \o c.xff = A \o (c.forwarded \o c.xff)
        BY <4>3, <4>4, Zenon
      <4> HIDE DEF chain
      <4>6. chain = A \o (c.forwarded \o c.xff)
        BY <4>1, <4>5, Zenon
      <4>7. QED BY <4>2, <4>6, Zenon
    <3>2. CASE c.adds = "xff"
      <4>1. c.forwarded = <<>>
        BY <1>3, <3>2 DEF Misplaced
      <4>2. chain = (<<>> \o A) \o c.xff
        BY <3>2, <4>1 DEF xffChain, A
      <4>3. <<>> \o A = A
        BY <2>2, ConcatEmptySeq
      <4>4. QED BY <1>1, <4>2, <4>3
    <3>3. QED BY <1>1, <3>1, <3>2
  <2> HIDE DEF chain
  <2>5. /\ DOMAIN chain = 1 .. n + Len(rest) /\ Len(rest) \in Nat
        /\ \A i \in 1 .. n : chain[i] = A[i]
    <3>1. /\ chain \in Seq(Item) /\ Len(chain) = n + Len(rest)
          /\ \A i \in 1 .. n + Len(rest) :
                chain[i] = IF i <= n THEN A[i] ELSE rest[i - n]
      BY <2>2, <2>4, ConcatProperties
    <3>2. Len(rest) \in Nat
      BY <2>4
    <3>3. QED BY <2>1, <3>1, <3>2
  <2>6. n \in DOMAIN chain /\ First(n)
    BY <1>1, <2>1, <2>3, <2>5
  <2>7. ASSUME NEW i \in DOMAIN chain, First(i)
        PROVE  i = n
    <3>1. i \in Nat /\ i >= 1
      BY <2>1, <2>5
    <3>2. CASE i < n
      BY <2>1, <2>3, <2>5, <2>7, <3>1, <3>2
    <3>3. CASE i > n
      BY <1>1, <2>1, <2>3, <2>5, <2>7, <3>1, <3>3
    <3>4. QED BY <2>1, <3>1, <3>2, <3>3
  <2>8. (CHOOSE i \in DOMAIN chain : First(i)) = n
    BY <2>6, <2>7
  <2>9. Peer(c) \in Trusted
    BY <1>3, <2>1 DEF Peer, n
  <2>10. chain[n] = c.origin
    BY <2>1, <2>3, <2>5
  <2>11. ClientIP(c) = chain[CHOOSE i \in DOMAIN chain : First(i)]
    BY <1>1, <2>6, <2>8, <2>9, <2>10 DEF ClientIP, chain
  <2>12. QED BY <2>8, <2>10, <2>11
<1>4. QED BY <1>2, <1>3

\* Of the callers that are not misplaced two share a key exactly when they share a payer.
LEMMA SameBucket ==
    ASSUME NEW c \in Caller, NEW d \in Caller, ~Misplaced(c), ~Misplaced(d)
    PROVE  keyFor(c) = keyFor(d) <=> Payer(c) = Payer(d)
<1>1. /\ c.route \notin {"me", "tenant"} => ClientIP(c) = c.origin
      /\ d.route \notin {"me", "tenant"} => ClientIP(d) = d.origin
  BY ClientIsOrigin
<1>2. /\ c.route = "me" => c.user # NoUser
      /\ d.route = "me" => d.user # NoUser
  BY DEF Misplaced
<1>3. QED BY <1>1, <1>2 DEF keyFor, Payer, Bucket

\* Rounding up gives the next whole second.
LEMMA RoundsUp ==
    ASSUME NEW reset \in Nat
    PROVE  /\ RetryAfter(reset) \in Nat
           /\ reset <= RetryAfter(reset) /\ RetryAfter(reset) < reset + Second
<1>1. Second \in Nat /\ Second > 0
  BY RateLimitAssumption
<1>2. QED BY <1>1 DEF RetryAfter

\* A set of naturals that is not empty has a least element.
LEMMA Least ==
    ASSUME NEW S \in SUBSET Nat, S # {}
    PROVE  \E m \in S : \A x \in S : m <= x
<1> DEFINE R == OpToRel(<, Nat)
<1>1. \A x, m \in Nat : x < m => <<x, m>> \in R
  BY DEF OpToRel
<1>2. IsWellFoundedOn(R, Nat)
  BY NatLessThanWellFounded
<1> HIDE DEF R
<1>3. PICK m \in S : \A x \in S : ~(<<x, m>> \in R)
  BY <1>2, WFMin
<1>4. \A x \in S : ~(x < m)
  BY <1>1, <1>3
<1>5. QED BY <1>4

\* The names of a caller's key, payer and policy.
LEMMA CallerFacts ==
    ASSUME NEW c \in Caller
    PROVE  /\ keyFor(c) \in Key /\ Payer(c) \in Payers /\ PolicyOf(c) \in Policy
           /\ Payer(c)[1] = PolicyOf(c)
           /\ Window[PolicyOf(c)] \in Nat /\ Window[PolicyOf(c)] >= 1
           /\ Limit[PolicyOf(c)] \in Nat /\ Limit[PolicyOf(c)] >= 1
<1>1. keyFor(c) \in Key /\ Payer(c) \in Payers
  BY DEF Key, Payers
<1>2. PolicyOf(c) \in Policy
  BY RateLimitAssumption
<1>3. Payer(c)[1] = PolicyOf(c)
  BY DEF Payer
<1>4. QED BY <1>1, <1>2, <1>3, RateLimitAssumption
-----------------------------------------------------------------------------
(* What is true of a bucket: a key and its policy. *)

InWindow(k, p) == {e \in zset[k] : Survives(e, p)}

\* The key lives until its youngest entry is one window old.
Lives(k, p) ==
    zset[k] # {} =>
        /\ now <= dies[k]
        /\ \A e \in zset[k] : e.at + Window[p] <= dies[k]
        /\ \E e \in zset[k] : e.at + Window[p] = dies[k]

\* Whoever was told to come back then will find room then, and finds none a second before.
Promised(k, p) ==
    told[k] # None =>
        /\ \/ Cardinality(InWindow(k, p)) < Limit[p]
           \/ \E e \in InWindow(k, p) : e.at + Window[p] <= told[k]
        /\ now + Second <= told[k] =>
              /\ Cardinality(InWindow(k, p)) = Limit[p]
              /\ \A e \in InWindow(k, p) : told[k] < e.at + Window[p] + Second

BucketInv(k, p) ==
    /\ IsFiniteSet(zset[k])
    /\ \A e \in zset[k] : e.at <= now
    /\ Cardinality(zset[k]) <= Limit[p]
    /\ Lives(k, p)
    /\ Promised(k, p)

\* A key that no misplaced caller shares holds what its payer was charged for, and a payer that
\* has no misplaced caller was charged for nothing else.
Own(c) == \A d \in Caller : Misplaced(d) => keyFor(d) # keyFor(c)

Whole(c) == \A d \in Caller : Payer(d) = Payer(c) => ~Misplaced(d)

AccountInv(c) ==
    /\ IsFiniteSet(counted[Payer(c)])
    /\ Own(c) => InWindow(keyFor(c), PolicyOf(c)) \subseteq counted[Payer(c)]
    /\ Whole(c) => counted[Payer(c)] \subseteq InWindow(keyFor(c), PolicyOf(c))

IInv == /\ LimiterTypeOK
        /\ \A c \in Caller : BucketInv(keyFor(c), PolicyOf(c)) /\ AccountInv(c)

\* A bucket that nobody touches.
LEMMA BucketStays ==
    ASSUME NEW k, NEW p, BucketInv(k, p), now' = now,
           zset'[k] = zset[k], dies'[k] = dies[k], told'[k] = told[k]
    PROVE  BucketInv(k, p)'
BY DEF BucketInv, InWindow, Survives, Lives, Promised

\* The entries of a bucket in the window.
LEMMA WindowFacts ==
    ASSUME LimiterTypeOK, NEW c \in Caller, BucketInv(keyFor(c), PolicyOf(c))
    PROVE  /\ zset[keyFor(c)] \subseteq Entry /\ now \in Nat
           /\ \A e \in Entry : e.at \in Nat
           /\ Surviving(c) = InWindow(keyFor(c), PolicyOf(c))
           /\ Surviving(c) \subseteq zset[keyFor(c)]
           /\ IsFiniteSet(Surviving(c))
           /\ Cardinality(Surviving(c)) \in Nat /\ Cardinality(Surviving(c)) <= Limit[PolicyOf(c)]
           /\ \A e \in Surviving(c) : e.at > now - Window[PolicyOf(c)] /\ e.at <= now
<1>1. zset[keyFor(c)] \subseteq Entry /\ now \in Nat
  BY CallerFacts, RateLimitAssumption DEF LimiterTypeOK, Time
<1>2. \A e \in Entry : e.at \in Nat
  BY DEF Entry, Time
<1>3. /\ Surviving(c) = InWindow(keyFor(c), PolicyOf(c))
      /\ Surviving(c) \subseteq zset[keyFor(c)]
  BY DEF Surviving, InWindow
<1>4. /\ IsFiniteSet(Surviving(c)) /\ Cardinality(Surviving(c)) <= Cardinality(zset[keyFor(c)])
      /\ Cardinality(Surviving(c)) \in Nat /\ Cardinality(zset[keyFor(c)]) \in Nat
  BY <1>3, FS_Subset, FS_CardinalityType DEF BucketInv
<1>5. Cardinality(Surviving(c)) <= Limit[PolicyOf(c)]
  BY <1>4, CallerFacts DEF BucketInv
<1>6. \A e \in Surviving(c) : e.at > now - Window[PolicyOf(c)] /\ e.at <= now
  BY DEF Surviving, Survives, BucketInv
<1>7. QED BY <1>1, <1>2, <1>3, <1>4, <1>5, <1>6

\* A request is counted.
LEMMA BucketGrant ==
    ASSUME LimiterTypeOK, NEW c \in Caller, BucketInv(keyFor(c), PolicyOf(c)), Allowed(c),
           NEW id, NEW e, e = [at |-> now, id |-> id], now' = now,
           zset'[keyFor(c)] = Surviving(c) \cup {e}, dies'[keyFor(c)] = Expire(c),
           told'[keyFor(c)] = None
    PROVE  BucketInv(keyFor(c), PolicyOf(c))'
<1> DEFINE k == keyFor(c)
           p == PolicyOf(c)
<1>1. /\ now \in Nat /\ Window[p] \in Nat /\ Window[p] >= 1 /\ Limit[p] \in Nat
      /\ e.at = now /\ Expire(c) = now + Window[p]
  BY WindowFacts, CallerFacts DEF Expire
<1>2. /\ IsFiniteSet(Surviving(c))
      /\ Cardinality(Surviving(c)) \in Nat /\ Cardinality(Surviving(c)) < Limit[p]
      /\ \A f \in Surviving(c) : f.at \in Nat /\ f.at > now - Window[p] /\ f.at <= now
  BY WindowFacts DEF Allowed
<1> HIDE DEF k, p
<1>3. IsFiniteSet(zset'[k]) /\ Cardinality(zset'[k]) <= Limit[p]
  <2>1. /\ IsFiniteSet(Surviving(c) \cup {e})
        /\ Cardinality(Surviving(c) \cup {e}) \in
              {Cardinality(Surviving(c)), Cardinality(Surviving(c)) + 1}
    BY <1>2, FS_AddElement
  <2>2. QED BY <1>1, <1>2, <2>1 DEF k
<1>4. \A f \in zset'[k] : f.at \in Nat /\ f.at > now - Window[p] /\ f.at <= now
  BY <1>1, <1>2 DEF k
<1>5. Lives(k, p)'
  <2>1. e \in zset'[k] /\ dies'[k] = now + Window[p]
    BY <1>1 DEF k
  <2>2. QED BY <1>1, <1>4, <2>1 DEF Lives
<1>6. told'[k] = None
  BY DEF k
<1>7. Promised(k, p)'
  BY <1>6 DEF Promised
<1>8. BucketInv(k, p)'
  BY <1>3, <1>4, <1>5, <1>7 DEF BucketInv
<1>9. QED BY <1>8 DEF k, p

\* What a refusal announces is the instant at which its oldest entry leaves the window.
LEMMA ResetIsOldest ==
    ASSUME LimiterTypeOK, NEW c \in Caller, BucketInv(keyFor(c), PolicyOf(c)), ~Allowed(c)
    PROVE  /\ Reset(c) \in Nat
           /\ \E o \in Surviving(c) :
                /\ now + Reset(c) = o.at + Window[PolicyOf(c)]
                /\ \A e \in Surviving(c) : o.at <= e.at
<1> DEFINE S == Surviving(c)
           T == {e.at : e \in S}
           W == Window[PolicyOf(c)]
           Old(t) == (\E e \in S : e.at = t) /\ (\A e \in S : t <= e.at)
           o == CHOOSE t \in Time : Old(t)
<1>1. /\ now \in Nat /\ W \in Nat /\ Limit[PolicyOf(c)] \in Nat /\ Limit[PolicyOf(c)] >= 1
      /\ IsFiniteSet(S) /\ Cardinality(S) \in Nat /\ S \subseteq Entry
      /\ \A e \in S : e.at > now - W /\ e.at <= now
  BY WindowFacts, CallerFacts
<1>2. S # {}
  <2>1. Cardinality(S) >= Limit[PolicyOf(c)]
    BY <1>1 DEF Allowed
  <2>2. Cardinality(S) # 0
    BY <1>1, <2>1
  <2>3. QED BY <2>2, FS_EmptySet
<1>3. \A e \in S : e.at \in Time
  BY <1>1 DEF Entry
<1>4. T \in SUBSET Nat /\ T # {}
  BY <1>2, <1>3 DEF Time
<1>5. \E t \in Time : Old(t)
  <2>1. PICK m \in T : \A y \in T : m <= y
    BY <1>4, Least
  <2>2. QED BY <1>3, <2>1
<1>6. o \in Time /\ Old(o)
  BY <1>5
<1>7. Reset(c) = IF W - (now - o) < 0 THEN 0 ELSE W - (now - o)
  BY <1>2 DEF Reset
<1> HIDE DEF o
<1>8. PICK f \in S : f.at = o
  BY <1>6
<1>9. o \in Nat /\ o > now - W /\ o <= now
  BY <1>1, <1>6, <1>8 DEF Time
<1>10. Reset(c) = W - (now - o) /\ Reset(c) \in Nat
  BY <1>1, <1>7, <1>9
<1>11. now + Reset(c) = f.at + W /\ \A e \in S : f.at <= e.at
  BY <1>1, <1>6, <1>8, <1>9, <1>10
<1>12. QED BY <1>8, <1>10, <1>11

\* A request is refused: entries that are out of the window are evicted, and that is all.
LEMMA BucketRefuse ==
    ASSUME LimiterTypeOK, NEW c \in Caller, BucketInv(keyFor(c), PolicyOf(c)), ~Allowed(c),
           now' = now, zset'[keyFor(c)] = Surviving(c), dies'[keyFor(c)] = dies[keyFor(c)],
           told'[keyFor(c)] \in {told[keyFor(c)], now + RetryAfter(Reset(c))}
    PROVE  BucketInv(keyFor(c), PolicyOf(c))'
<1> DEFINE k == keyFor(c)
           p == PolicyOf(c)
           S == Surviving(c)
<1>1. /\ now \in Nat /\ Window[p] \in Nat /\ Limit[p] \in Nat
      /\ S = InWindow(k, p) /\ S \subseteq zset[k] /\ IsFiniteSet(S)
      /\ Cardinality(S) \in Nat /\ Cardinality(S) <= Limit[p]
      /\ \A e \in S : e.at \in Nat /\ e.at > now - Window[p] /\ e.at <= now
      /\ \A e \in zset[k] : e.at \in Nat
  BY WindowFacts, CallerFacts
<1>2. Cardinality(S) = Limit[p]
  BY <1>1 DEF Allowed
<1>3. PICK o \in S : now + Reset(c) = o.at + Window[p] /\ \A e \in S : o.at <= e.at
  BY ResetIsOldest
<1>4. Reset(c) \in Nat
  BY ResetIsOldest
<1>5. zset'[k] = S /\ dies'[k] = dies[k]
  OBVIOUS
<1>6. Lives(k, p) /\ Promised(k, p)
  BY DEF BucketInv
<1>7. S = {e \in zset[k] : e.at > now - Window[p]}
  BY DEF Surviving, Survives
<1> HIDE DEF k, p, S
<1>8. Lives(k, p)'
  <2>1. /\ now <= dies[k] /\ \A e \in zset[k] : e.at + Window[p] <= dies[k]
    BY <1>1, <1>3, <1>6 DEF Lives
  <2>2. PICK m \in zset[k] : m.at + Window[p] = dies[k]
    BY <1>1, <1>3, <1>6 DEF Lives
  <2>3. m \in S
    BY <1>1, <1>3, <1>7, <2>1, <2>2
  <2>4. QED BY <1>1, <1>5, <2>1, <2>2, <2>3 DEF Lives
<1>9. InWindow(k, p)' = S
  BY <1>1, <1>5 DEF InWindow, Survives
<1>10. Promised(k, p)'
  <2>1. CASE told'[k] = told[k]
    BY <1>1, <1>6, <1>9, <2>1 DEF Promised
  <2>2. CASE told'[k] = now + RetryAfter(Reset(c))
    <3>1. /\ RetryAfter(Reset(c)) \in Nat /\ Reset(c) <= RetryAfter(Reset(c))
          /\ RetryAfter(Reset(c)) < Reset(c) + Second /\ Second \in Nat
      BY <1>4, RoundsUp, RateLimitAssumption
    <3>2. o.at + Window[p] <= told'[k]
      BY <1>1, <1>3, <1>4, <2>2, <3>1
    <3>3. \A e \in S : told'[k] < e.at + Window[p] + Second
      BY <1>1, <1>3, <1>4, <2>2, <3>1
    <3>4. QED BY <1>2, <1>3, <1>9, <3>2, <3>3 DEF Promised
  <2>3. QED BY <2>1, <2>2 DEF k
<1>11. BucketInv(k, p)'
  BY <1>1, <1>5, <1>8, <1>10 DEF BucketInv
<1>12. QED BY <1>11 DEF k, p

\* Time passes: entries leave the window, and a key whose time is over is dropped.
LEMMA TickWindow ==
    ASSUME LimiterTypeOK, NEW c \in Caller, BucketInv(keyFor(c), PolicyOf(c)), LimiterTick
    PROVE  /\ InWindow(keyFor(c), PolicyOf(c))' =
                {e \in Surviving(c) : e.at > now + 1 - Window[PolicyOf(c)]}
           /\ zset'[keyFor(c)] = (IF dies[keyFor(c)] < now + 1 THEN {} ELSE zset[keyFor(c)])
<1> DEFINE k == keyFor(c)
           p == PolicyOf(c)
           S == Surviving(c)
<1>1. /\ now \in Nat /\ Window[p] \in Nat /\ \A e \in zset[k] : e.at \in Nat
      /\ S \subseteq zset[k] /\ dies[k] \in Nat /\ Lives(k, p)
  BY WindowFacts, CallerFacts DEF BucketInv, LimiterTypeOK
<1>2. now' = now + 1 /\ zset'[k] = IF dies[k] < now + 1 THEN {} ELSE zset[k]
  BY CallerFacts DEF LimiterTick
<1>3. S = {e \in zset[k] : e.at > now - Window[p]}
  BY DEF Surviving, Survives
<1> HIDE DEF k, p, S
<1>4. {e \in zset'[k] : e.at > now' - Window[p]} = {e \in S : e.at > now + 1 - Window[p]}
  <2>1. CASE dies[k] < now + 1
    <3>1. \A e \in S : e.at + Window[p] <= dies[k]
      BY <1>1 DEF Lives
    <3>2. \A e \in S : ~(e.at > now + 1 - Window[p])
      BY <1>1, <2>1, <3>1
    <3>3. QED BY <1>2, <2>1, <3>2
  <2>2. CASE ~(dies[k] < now + 1)
    BY <1>1, <1>2, <1>3, <2>2
  <2>3. QED BY <2>1, <2>2
<1>5. InWindow(k, p)' = {e \in S : e.at > now + 1 - Window[p]}
  BY <1>4 DEF InWindow, Survives
<1>6. QED BY <1>2, <1>5 DEF k, p, S

\* What a bucket promised is kept.
LEMMA BucketTick ==
    ASSUME LimiterTypeOK, NEW c \in Caller, BucketInv(keyFor(c), PolicyOf(c)), LimiterTick
    PROVE  BucketInv(keyFor(c), PolicyOf(c))'
<1> DEFINE k == keyFor(c)
           p == PolicyOf(c)
           S == Surviving(c)
           R == {e \in S : e.at > now + 1 - Window[p]}
<1>1. /\ now \in Nat /\ Window[p] \in Nat /\ Window[p] >= 1 /\ Limit[p] \in Nat /\ Limit[p] >= 1
      /\ S = InWindow(k, p) /\ S \subseteq zset[k] /\ IsFiniteSet(S)
      /\ Cardinality(S) \in Nat /\ Cardinality(S) <= Limit[p]
      /\ \A e \in zset[k] : e.at \in Nat
      /\ Second \in Nat /\ Second >= 1
  BY WindowFacts, CallerFacts, RateLimitAssumption
<1>2. /\ now' = now + 1 /\ told'[k] = told[k]
      /\ zset'[k] = IF dies[k] < now + 1 THEN {} ELSE zset[k]
      /\ dies'[k] = IF dies[k] < now + 1 THEN 0 ELSE dies[k]
      /\ InWindow(k, p)' = R
  BY TickWindow, CallerFacts DEF LimiterTick
<1>3. /\ Lives(k, p) /\ Promised(k, p) /\ dies[k] \in Nat /\ told[k] \in Nat \cup {None}
      /\ IsFiniteSet(zset[k]) /\ Cardinality(zset[k]) <= Limit[p]
      /\ \A e \in zset[k] : e.at <= now
  BY CallerFacts DEF BucketInv, LimiterTypeOK
<1> HIDE DEF k, p, S, R
<1>4. /\ IsFiniteSet(zset'[k]) /\ Cardinality(zset'[k]) <= Limit[p]
      /\ \A e \in zset'[k] : e.at <= now'
  BY <1>1, <1>2, <1>3, FS_EmptySet
<1>5. Lives(k, p)'
  BY <1>1, <1>2, <1>3 DEF Lives
<1>6. /\ R \subseteq S /\ Cardinality(R) \in Nat /\ Cardinality(R) <= Cardinality(S)
      /\ Cardinality(S) = Cardinality(R) => S = R
  BY <1>1, FS_Subset, FS_CardinalityType DEF R
<1>7. Promised(k, p)'
  <2>1. SUFFICES ASSUME told[k] # None PROVE Promised(k, p)'
    BY <1>2 DEF Promised
  <2>2. told[k] \in Nat
    BY <1>3, <2>1
  <2>3. /\ Cardinality(S) < Limit[p] \/ \E e \in S : e.at + Window[p] <= told[k]
        /\ now + Second <= told[k] =>
              Cardinality(S) = Limit[p] /\ \A e \in S : told[k] < e.at + Window[p] + Second
    BY <1>1, <1>3, <2>1 DEF Promised
  <2>4. Cardinality(R) < Limit[p] \/ \E e \in R : e.at + Window[p] <= told[k]
    <3>1. CASE R = S
      BY <2>3, <3>1
    <3>2. CASE R # S
      BY <1>1, <1>6, <3>2
    <3>3. QED BY <3>1, <3>2
  <2>5. ASSUME now + 1 + Second <= told[k]
        PROVE  /\ R = S /\ Cardinality(S) = Limit[p]
               /\ \A e \in S : told[k] < e.at + Window[p] + Second
    <3>1. /\ Cardinality(S) = Limit[p] /\ \A e \in S : told[k] < e.at + Window[p] + Second
      BY <1>1, <2>2, <2>3, <2>5
    <3>2. \A e \in S : e.at \in Nat /\ e.at > now + 1 - Window[p]
      BY <1>1, <2>2, <2>5, <3>1
    <3>3. QED BY <3>1, <3>2 DEF R
  <2>6. QED BY <1>2, <2>4, <2>5 DEF Promised
<1>8. BucketInv(k, p)'
  BY <1>4, <1>5, <1>7 DEF BucketInv
<1>9. QED BY <1>8 DEF k, p
-----------------------------------------------------------------------------
(* The steps. *)

\* A request that the script counts, and one that it refuses.
Counts(c, id) ==
    /\ Allowed(c)
    /\ zset' = [zset EXCEPT ![keyFor(c)] = Surviving(c) \cup {[at |-> now, id |-> id]}]
    /\ dies' = [dies EXCEPT ![keyFor(c)] = Expire(c)]
    /\ counted' = [counted EXCEPT ![Payer(c)] = @ \cup {[at |-> now, id |-> id]}]
    /\ told' = [told EXCEPT ![keyFor(c)] = None]
    /\ UNCHANGED <<now, redis>>

Refuses(c, t) ==
    /\ ~Allowed(c)
    /\ zset' = [zset EXCEPT ![keyFor(c)] = Surviving(c)]
    /\ told' = [told EXCEPT ![keyFor(c)] = t]
    /\ t \in {told[keyFor(c)], now + RetryAfter(Reset(c))}
    /\ UNCHANGED <<now, redis, dies, counted>>

\* Every run of the script is one of these, heard or not.
LEMMA ScriptKinds ==
    ASSUME NEW c \in Caller, NEW id \in 1 .. MaxSame, Allow(c, id) \/ AllowUnheard(c, id)
    PROVE  Counts(c, id) \/ \E t \in {told[keyFor(c)], now + RetryAfter(Reset(c))} : Refuses(c, t)
<1>1. CASE Allowed(c)
  BY <1>1 DEF Allow, AllowUnheard, Script, Counts
<1>2. CASE ~Allowed(c) /\ Allow(c, id)
  <2> DEFINE t == Earlier(told[keyFor(c)], now + RetryAfter(Reset(c)))
  <2>1. t \in {told[keyFor(c)], now + RetryAfter(Reset(c))}
    BY DEF Earlier
  <2>2. told' = [told EXCEPT ![keyFor(c)] = t]
    BY <1>2 DEF Allow
  <2>3. Refuses(c, t)
    BY <1>2, <2>1, <2>2 DEF Allow, Script, Refuses
  <2>4. QED BY <2>1, <2>3
<1>3. CASE ~Allowed(c) /\ AllowUnheard(c, id)
  <2>1. told' = [told EXCEPT ![keyFor(c)] = told[keyFor(c)]]
    BY <1>3 DEF AllowUnheard
  <2>2. Refuses(c, told[keyFor(c)])
    BY <1>3, <2>1 DEF AllowUnheard, Script, Refuses
  <2>3. QED BY <2>2
<1>4. QED BY <1>1, <1>2, <1>3

\* The types.
LEMMA TypeStep ==
    ASSUME IInv, [LimiterNext]_limiterVars
    PROVE  LimiterTypeOK'
<1> USE DEF IInv
<1>1. CASE UNCHANGED limiterVars
  BY <1>1 DEF limiterVars, LimiterTypeOK
<1>2. ASSUME NEW c \in Caller, NEW id \in 1 .. MaxSame, Counts(c, id)
      PROVE  LimiterTypeOK'
  <2>1. [at |-> now, id |-> id] \in Entry /\ Surviving(c) \subseteq Entry
    BY WindowFacts DEF LimiterTypeOK, Entry
  <2>2. Expire(c) \in Nat
    BY WindowFacts, CallerFacts DEF Expire
  <2>3. zset' \in [Key -> SUBSET Entry]
    BY <1>2, <2>1 DEF Counts, LimiterTypeOK
  <2>4. counted' \in [Payers -> SUBSET Entry]
    <3>1. counted \in [Payers -> SUBSET Entry] /\ Payer(c) \in Payers
      BY CallerFacts DEF LimiterTypeOK
    <3>2. counted[Payer(c)] \cup {[at |-> now, id |-> id]} \subseteq Entry
      BY <2>1, <3>1
    <3>3. QED BY <1>2, <3>1, <3>2 DEF Counts
  <2>5. dies' \in [Key -> Nat] /\ told' \in [Key -> Nat \cup {None}]
    BY <1>2, <2>2 DEF Counts, LimiterTypeOK
  <2>6. QED BY <1>2, <2>3, <2>4, <2>5 DEF Counts, LimiterTypeOK
<1>3. ASSUME NEW c \in Caller, NEW t, Refuses(c, t)
      PROVE  LimiterTypeOK'
  <2>1. Surviving(c) \subseteq Entry
    BY WindowFacts
  <2>2. t \in Nat \cup {None}
    <3>1. Reset(c) \in Nat /\ now \in Nat
      BY <1>3, ResetIsOldest, WindowFacts DEF Refuses
    <3>2. now + RetryAfter(Reset(c)) \in Nat
      BY <3>1, RoundsUp
    <3>3. QED BY <1>3, <3>2, CallerFacts DEF Refuses, LimiterTypeOK
  <2>3. QED BY <1>3, <2>1, <2>2 DEF Refuses, LimiterTypeOK
<1>4. CASE RedisFails
  BY <1>4 DEF RedisFails, LimiterTypeOK
<1>5. CASE RedisReturns
  BY <1>5 DEF RedisReturns, LimiterTypeOK
<1>6. CASE LimiterTick
  <2>1. now' \in Time
    BY <1>6, RateLimitAssumption DEF LimiterTick, LimiterTypeOK, Time
  <2>2. zset' \in [Key -> SUBSET Entry] /\ dies' \in [Key -> Nat]
    BY <1>6 DEF LimiterTick, LimiterTypeOK
  <2>3. counted' \in [Payers -> SUBSET Entry]
    BY <1>6 DEF LimiterTick, LimiterTypeOK
  <2>4. QED BY <1>6, <2>1, <2>2, <2>3 DEF LimiterTick, LimiterTypeOK
<1>7. QED BY <1>1, <1>2, <1>3, <1>4, <1>5, <1>6, ScriptKinds DEF LimiterNext

\* The buckets: a script touches one of them, and all callers that share it.
LEMMA BucketStep ==
    ASSUME IInv, [LimiterNext]_limiterVars, NEW d \in Caller
    PROVE  BucketInv(keyFor(d), PolicyOf(d))'
<1>1. LimiterTypeOK /\ BucketInv(keyFor(d), PolicyOf(d)) /\ keyFor(d) \in Key
  BY CallerFacts DEF IInv
<1>2. ASSUME NEW c \in Caller, keyFor(c) # keyFor(d), now' = now, NEW a, NEW b, NEW t,
             zset' = [zset EXCEPT ![keyFor(c)] = a], dies' = [dies EXCEPT ![keyFor(c)] = b],
             told' = [told EXCEPT ![keyFor(c)] = t]
      PROVE  BucketInv(keyFor(d), PolicyOf(d))'
  <2>1. /\ zset'[keyFor(d)] = zset[keyFor(d)] /\ dies'[keyFor(d)] = dies[keyFor(d)]
        /\ told'[keyFor(d)] = told[keyFor(d)]
    BY <1>1, <1>2 DEF LimiterTypeOK
  <2>2. QED BY <1>1, <1>2, <2>1, BucketStays
<1>3. ASSUME NEW c \in Caller, keyFor(c) = keyFor(d)
      PROVE  PolicyOf(c) = PolicyOf(d)
  BY <1>3 DEF keyFor
<1>4. ASSUME NEW c \in Caller, NEW id \in 1 .. MaxSame, Counts(c, id)
      PROVE  BucketInv(keyFor(d), PolicyOf(d))'
  <2>1. CASE keyFor(c) # keyFor(d)
    BY <1>2, <1>4, <2>1 DEF Counts
  <2>2. CASE keyFor(c) = keyFor(d)
    <3>1. keyFor(c) \in Key /\ BucketInv(keyFor(c), PolicyOf(c))
      BY CallerFacts DEF IInv
    <3>2. /\ zset'[keyFor(c)] = Surviving(c) \cup {[at |-> now, id |-> id]}
          /\ dies'[keyFor(c)] = Expire(c) /\ Allowed(c) /\ now' = now
          /\ told'[keyFor(c)] = None
      BY <1>1, <1>4, <3>1 DEF Counts, LimiterTypeOK
    <3>3. BucketInv(keyFor(c), PolicyOf(c))'
      BY <1>1, <3>1, <3>2, BucketGrant
    <3>4. QED BY <1>3, <2>2, <3>3
  <2>3. QED BY <2>1, <2>2
<1>5. ASSUME NEW c \in Caller, NEW t, Refuses(c, t)
      PROVE  BucketInv(keyFor(d), PolicyOf(d))'
  <2>1. CASE keyFor(c) # keyFor(d)
    <3>1. dies' = [dies EXCEPT ![keyFor(c)] = dies[keyFor(c)]]
      BY <1>1, <1>5 DEF Refuses, LimiterTypeOK
    <3>2. QED BY <1>2, <1>5, <2>1, <3>1 DEF Refuses
  <2>2. CASE keyFor(c) = keyFor(d)
    <3>1. keyFor(c) \in Key /\ BucketInv(keyFor(c), PolicyOf(c))
      BY CallerFacts DEF IInv
    <3>2. /\ zset'[keyFor(c)] = Surviving(c) /\ dies'[keyFor(c)] = dies[keyFor(c)]
          /\ ~Allowed(c) /\ now' = now
          /\ told'[keyFor(c)] \in {told[keyFor(c)], now + RetryAfter(Reset(c))}
      BY <1>1, <1>5, <3>1 DEF Refuses, LimiterTypeOK
    <3>3. BucketInv(keyFor(c), PolicyOf(c))'
      BY <1>1, <3>1, <3>2, BucketRefuse
    <3>4. QED BY <1>3, <2>2, <3>3
  <2>3. QED BY <2>1, <2>2
<1>6. CASE LimiterTick
  BY <1>1, <1>6, BucketTick
<1>7. CASE /\ zset' = [k \in Key |-> {}] /\ dies' = [k \in Key |-> 0]
           /\ told' = [k \in Key |-> None]
  <2>1. zset'[keyFor(d)] = {} /\ told'[keyFor(d)] = None
    BY <1>1, <1>7
  <2>2. IsFiniteSet({}) /\ Cardinality({}) = 0
    BY FS_EmptySet
  <2>3. QED BY <2>1, <2>2, CallerFacts DEF BucketInv, Lives, Promised
<1>8. CASE UNCHANGED <<now, zset, dies, told>>
  BY <1>1, <1>8, BucketStays
<1>9. QED
  BY <1>4, <1>5, <1>6, <1>7, <1>8, ScriptKinds
     DEF LimiterNext, limiterVars, RedisFails, RedisReturns

\* The accounts: what is counted on a key is charged to its payer, and the other way round.
LEMMA AccountStep ==
    ASSUME IInv, [LimiterNext]_limiterVars, NEW d \in Caller
    PROVE  AccountInv(d)'
<1> DEFINE k == keyFor(d)
           p == PolicyOf(d)
           x == Payer(d)
<1>1. /\ LimiterTypeOK /\ BucketInv(k, p) /\ AccountInv(d) /\ k \in Key /\ x \in Payers
      /\ now \in Nat /\ Window[p] \in Nat /\ Window[p] >= 1 /\ x[1] = p
      /\ Surviving(d) = InWindow(k, p) /\ Surviving(d) \subseteq zset[k]
      /\ \A e \in Surviving(d) : e.at > now - Window[p]
  BY CallerFacts, WindowFacts DEF IInv
<1>2. ASSUME NEW N, N = InWindow(k, p)', IsFiniteSet(counted'[x]),
             Own(d) => N \subseteq counted'[x], Whole(d) => counted'[x] \subseteq N
      PROVE  AccountInv(d)'
  BY <1>2 DEF AccountInv, Own, Whole, InWindow
<1>3. ASSUME NEW c \in Caller, keyFor(c) = k
      PROVE  PolicyOf(c) = p /\ Surviving(c) = Surviving(d)
  BY <1>3 DEF keyFor, Surviving
<1>4. ASSUME NEW c \in Caller, NEW id \in 1 .. MaxSame, Counts(c, id)
      PROVE  AccountInv(d)'
  <2> DEFINE e == [at |-> now, id |-> id]
  <2>1. /\ now' = now /\ e.at = now
        /\ zset'[k] = IF keyFor(c) = k THEN Surviving(d) \cup {e} ELSE zset[k]
        /\ counted'[x] = IF Payer(c) = x THEN counted[x] \cup {e} ELSE counted[x]
    BY <1>1, <1>3, <1>4 DEF Counts, LimiterTypeOK
  <2> HIDE DEF e, k, p, x
  <2>2. InWindow(k, p)' = IF keyFor(c) = k THEN InWindow(k, p) \cup {e} ELSE InWindow(k, p)
    BY <1>1, <2>1 DEF InWindow, Survives
  <2>3. IsFiniteSet(counted'[x])
    BY <1>1, <2>1, FS_AddElement DEF AccountInv, x
  <2>4. ASSUME Own(d) PROVE InWindow(k, p)' \subseteq counted'[x]
    <3>1. InWindow(k, p) \subseteq counted[x]
      BY <1>1, <2>4 DEF AccountInv, k, p, x
    <3>2. keyFor(c) = k => Payer(c) = x
      BY <2>4, SameBucket DEF Own, k, x
    <3>3. QED BY <2>1, <2>2, <3>1, <3>2
  <2>5. ASSUME Whole(d) PROVE counted'[x] \subseteq InWindow(k, p)'
    <3>1. counted[x] \subseteq InWindow(k, p)
      BY <1>1, <2>5 DEF AccountInv, k, p, x
    <3>2. Payer(c) = x => keyFor(c) = k
      BY <2>5, SameBucket DEF Whole, k, x
    <3>3. QED BY <2>1, <2>2, <3>1, <3>2
  <2>6. QED BY <1>2, <2>3, <2>4, <2>5
<1>5. ASSUME NEW c \in Caller, NEW t, Refuses(c, t)
      PROVE  AccountInv(d)'
  <2>1. /\ now' = now /\ counted'[x] = counted[x]
        /\ zset'[k] = IF keyFor(c) = k THEN Surviving(d) ELSE zset[k]
    BY <1>1, <1>3, <1>5 DEF Refuses, LimiterTypeOK
  <2> HIDE DEF k, p, x
  <2>2. InWindow(k, p)' = InWindow(k, p)
    BY <1>1, <2>1 DEF InWindow, Survives
  <2>3. QED BY <1>1, <1>2, <2>1, <2>2 DEF AccountInv, k, p, x
<1>6. CASE LimiterTick
  <2>1. counted'[x] = {e \in counted[x] : e.at > now + 1 - Window[p]}
    BY <1>1, <1>6 DEF LimiterTick
  <2>2. InWindow(k, p)' = {e \in InWindow(k, p) : e.at > now + 1 - Window[p]}
    BY <1>1, <1>6, TickWindow
  <2>3. IsFiniteSet(counted'[x])
    BY <1>1, <2>1, FS_Subset DEF AccountInv
  <2> HIDE DEF k, p, x
  <2>4. QED BY <1>1, <1>2, <2>1, <2>2, <2>3 DEF AccountInv, k, p, x
<1>7. CASE zset' = [l \in Key |-> {}] /\ counted' = [y \in Payers |-> {}]
  <2>1. InWindow(k, p)' = {} /\ counted'[x] = {}
    BY <1>1, <1>7 DEF InWindow
  <2>2. QED BY <1>2, <2>1, FS_EmptySet
<1>8. CASE UNCHANGED <<now, zset, counted>>
  BY <1>1, <1>8 DEF AccountInv, InWindow, Survives, Own, Whole
<1>9. QED
  BY <1>4, <1>5, <1>6, <1>7, <1>8, ScriptKinds
     DEF LimiterNext, limiterVars, RedisFails, RedisReturns

\* The inductive invariant.
LEMMA Invariance == LimiterSpec => []IInv
<1>1. ASSUME LimiterInit PROVE IInv
  <2>1. LimiterTypeOK
    BY <1>1, RateLimitAssumption DEF LimiterInit, LimiterTypeOK, Time
  <2>2. ASSUME NEW c \in Caller
        PROVE  BucketInv(keyFor(c), PolicyOf(c)) /\ AccountInv(c)
    <3>1. zset[keyFor(c)] = {} /\ counted[Payer(c)] = {} /\ told[keyFor(c)] = None
      BY <1>1, CallerFacts DEF LimiterInit
    <3>2. IsFiniteSet({}) /\ Cardinality({}) = 0
      BY FS_EmptySet
    <3>3. QED BY <3>1, <3>2, CallerFacts DEF BucketInv, AccountInv, InWindow, Lives, Promised
  <2>3. QED BY <2>1, <2>2 DEF IInv
<1>2. IInv /\ [LimiterNext]_limiterVars => IInv'
  BY TypeStep, BucketStep, AccountStep DEF IInv
<1>3. QED BY <1>1, <1>2, PTL DEF LimiterSpec
-----------------------------------------------------------------------------
\* The types of the limiter's state: what a client is told is an instant.
THEOREM LimiterTypeCorrect == LimiterSpec => []LimiterTypeOK
<1>1. IInv => LimiterTypeOK
  BY DEF IInv
<1>2. QED BY <1>1, Invariance, PTL

\* At most Limit requests are counted for a payer in the window that ends now, unless it has a
\* misplaced caller: whatever its clients write in the header their proxies add to, through
\* whichever proxies they come, and whoever else is charged to the same key.
THEOREM LimitHolds == LimiterSpec => []WindowBound
<1>1. ASSUME IInv, NEW x \in Payers, \A c \in Caller : Payer(c) = x => ~Misplaced(c)
      PROVE  Cardinality(counted[x]) <= Limit[x[1]]
  <2>1. PICK c \in Caller : x = Payer(c)
    BY DEF Payers
  <2>2. LimiterTypeOK /\ BucketInv(keyFor(c), PolicyOf(c)) /\ AccountInv(c)
    BY <1>1 DEF IInv
  <2>3. /\ Surviving(c) = InWindow(keyFor(c), PolicyOf(c)) /\ IsFiniteSet(Surviving(c))
        /\ Cardinality(Surviving(c)) \in Nat /\ Cardinality(Surviving(c)) <= Limit[PolicyOf(c)]
    BY <2>2, WindowFacts
  <2>4. counted[x] \subseteq Surviving(c)
    BY <1>1, <2>1, <2>2, <2>3 DEF AccountInv, Whole
  <2>5. Cardinality(counted[x]) \in Nat /\ Cardinality(counted[x]) <= Cardinality(Surviving(c))
    BY <2>3, <2>4, FS_Subset, FS_CardinalityType
  <2>6. QED BY <2>1, <2>3, <2>5, CallerFacts
<1>2. IInv => WindowBound
  BY <1>1 DEF WindowBound
<1>3. QED BY <1>2, Invariance, PTL

\* Who is refused has used up its own limit: nobody else's requests, and no outage, count, unless a
\* misplaced caller is charged to the same key.
THEOREM BudgetsAreOwn == LimiterSpec => []OwnBudget
<1>1. ASSUME IInv, NEW c \in Caller, ~Allowed(c),
             \A d \in Caller : Misplaced(d) => keyFor(d) # keyFor(c)
      PROVE  Cardinality(counted[Payer(c)]) >= Limit[PolicyOf(c)]
  <2>1. LimiterTypeOK /\ BucketInv(keyFor(c), PolicyOf(c)) /\ AccountInv(c)
    BY <1>1 DEF IInv
  <2>2. Surviving(c) \subseteq counted[Payer(c)] /\ IsFiniteSet(counted[Payer(c)])
    BY <1>1, <2>1, WindowFacts DEF AccountInv, Own
  <2>3. /\ Cardinality(Surviving(c)) <= Cardinality(counted[Payer(c)])
        /\ Cardinality(Surviving(c)) \in Nat /\ Cardinality(counted[Payer(c)]) \in Nat
    BY <2>2, FS_Subset, FS_CardinalityType
  <2>4. QED BY <1>1, <2>3, CallerFacts DEF Allowed
<1>2. IInv => OwnBudget
  BY <1>1 DEF OwnBudget
<1>3. QED BY <1>2, Invariance, PTL

\* A client that waits as long as it was told is let in, if nobody was granted anything on its key
\* since.
THEOREM RetriesHonoured == LimiterSpec => []RetryHonoured
<1>1. ASSUME IInv, NEW c \in Caller, told[keyFor(c)] # None, now >= told[keyFor(c)]
      PROVE  Allowed(c)
  <2>1. LimiterTypeOK /\ BucketInv(keyFor(c), PolicyOf(c))
    BY <1>1 DEF IInv
  <2>2. /\ Surviving(c) = InWindow(keyFor(c), PolicyOf(c)) /\ now \in Nat
        /\ \A e \in Surviving(c) : e.at \in Nat /\ e.at > now - Window[PolicyOf(c)]
    BY <2>1, WindowFacts
  <2>3. told[keyFor(c)] \in Nat /\ Window[PolicyOf(c)] \in Nat
    BY <1>1, <2>1, CallerFacts DEF LimiterTypeOK
  <2>4. \/ Cardinality(Surviving(c)) < Limit[PolicyOf(c)]
        \/ \E e \in Surviving(c) : e.at + Window[PolicyOf(c)] <= told[keyFor(c)]
    BY <1>1, <2>1, <2>2 DEF BucketInv, Promised
  <2>5. Cardinality(Surviving(c)) < Limit[PolicyOf(c)]
    BY <1>1, <2>2, <2>3, <2>4
  <2>6. QED BY <2>5 DEF Allowed
<1>2. IInv => RetryHonoured
  BY <1>1 DEF RetryHonoured
<1>3. QED BY <1>2, Invariance, PTL

\* It is not told to wait for longer: a second earlier it is still refused.
THEOREM RetriesTight == LimiterSpec => []RetryTight
<1>1. ASSUME IInv, NEW c \in Caller, told[keyFor(c)] # None, now + Second <= told[keyFor(c)]
      PROVE  ~Allowed(c)
  <2>1. LimiterTypeOK /\ BucketInv(keyFor(c), PolicyOf(c))
    BY <1>1 DEF IInv
  <2>2. Surviving(c) = InWindow(keyFor(c), PolicyOf(c))
    BY <2>1, WindowFacts
  <2>3. Cardinality(Surviving(c)) = Limit[PolicyOf(c)]
    BY <1>1, <2>1, <2>2 DEF BucketInv, Promised
  <2>4. QED BY <2>3, CallerFacts DEF Allowed
<1>2. IInv => RetryTight
  BY <1>1 DEF RetryTight
<1>3. QED BY <1>2, Invariance, PTL

\* Redis keeps no more than the limit and forgets a caller one window after its last request,
\* and not before.
THEOREM ForgetsInTime == LimiterSpec => []ForgottenInTime
<1>1. ASSUME IInv, NEW c \in Caller
      PROVE  /\ Cardinality(zset[keyFor(c)]) <= Limit[PolicyOf(c)]
             /\ zset[keyFor(c)] # {} =>
                  /\ \A e \in zset[keyFor(c)] : e.at + Window[PolicyOf(c)] <= dies[keyFor(c)]
                  /\ \E e \in zset[keyFor(c)] : now <= e.at + Window[PolicyOf(c)]
  BY <1>1 DEF IInv, BucketInv, Lives
<1>2. IInv => ForgottenInTime
  BY <1>1 DEF ForgottenInTime
<1>3. QED BY <1>2, Invariance, PTL

\* A payer gets its limit in every window, no more and no less, but for the misplaced callers (the
\* script, keyFor).
THEOREM LimitIsExact == LimiterSpec => []LimitExact
  <1>1. WindowBound /\ OwnBudget => LimitExact
    BY DEF LimitExact
  <1> QED
    BY <1>1, LimitHolds, BudgetsAreOwn, PTL

\* Retry-After is long enough and not a second too long (enforce).
THEOREM RetryIsExact == LimiterSpec => []RetryExact
  <1>1. RetryHonoured /\ RetryTight => RetryExact
    BY DEF RetryExact
  <1> QED
    BY <1>1, RetriesHonoured, RetriesTight, PTL
-----------------------------------------------------------------------------
(* The idempotency keys. *)

\* A handler reports a success only after its effect committed.
OkInv == \A r \in Request : ok[r] => effects[op[r]] > 0

BaseInv == TypeOK /\ OkInv /\ RecordedEffectHappened

\* A request in its handler that has not outlived its timeout holds the record, and
\* its time runs out before the lease does.
HolderInv ==
    wiped = 0 => \A r \in Request : InTime(r) =>
        /\ record.state # "absent" /\ record.by = r
        /\ record.age + left[r] <= RequestTimeout

\* What an effect beyond the first is put down to.
Losses == crashes + disconnects + expiries + seized + wiped

\* The requests whose effect is still to come.
InHandler == {r \in Request : pc[r] = "handler"}

\* The record stands for an effect, one that is recorded or one under way.
Standing == record.state = "completed" \/ (record.state = "in_progress" /\ Running(record.by))

\* Every effect of an operation, had or still to come, is put down to a loss or to
\* the record.
ExcuseInv ==
    /\ IsFiniteSet(InHandler)
    /\ \A o \in Operation :
          effects[o] + Cardinality(InHandler) <= Losses + (IF Standing THEN 1 ELSE 0)

\* Requests end before their lease does, and no sweep runs.
Timely == ~Stall /\ RequestTimeout <= Lease /\ MaxSweeps = 0

NoSweep == ~sweeping /\ sweeps = 0 /\ wiped = 0

\* No request outlives its timeout.
NobodyLate == \A r \in Request : pc[r] \in Working => left[r] >= 0

\* The response on record, and every response a client was sent, is one to a
\* request with the fingerprint the record was claimed under.
FingerprintInv ==
    /\ record.state = "completed" =>
          Fingerprint(op[record.from]) = Fingerprint(op[record.by])
    /\ ReplayMatchesFingerprint

TimelyInv == TypeOK /\ HolderInv /\ NoSweep /\ NobodyLate /\ FingerprintInv
-----------------------------------------------------------------------------
(* What holds however long requests stall and whatever the sweep does. *)

\* The rows that claims and deletions write are rows of the table.
LEMMA WrittenRows ==
    /\ \A r \in Request : record' = ClaimedBy(r) => RecordOK'
    /\ record' = Absent => RecordOK'
<1>1. ASSUME NEW r \in Request, record' = ClaimedBy(r) PROVE RecordOK'
  BY <1>1 DEF ClaimedBy, Record, RecordOK
<1>2. ASSUME record' = Absent PROVE RecordOK'
  BY <1>2 DEF Absent, Record, RecordOK
<1> QED
  BY <1>1, <1>2

\* Initially the row, the requests and the counters have their types.
LEMMA InitType == Init => TypeOK
<1> SUFFICES ASSUME Init PROVE TypeOK
  OBVIOUS
<1>1. sweeping \in BOOLEAN
  BY DEF Init
<1> QED
  BY <1>1, IdempotencyAssumption DEF Init, TypeOK, RecordOK, Absent, Record, Working

\* Every step keeps the types.
LEMMA NextType ==
    TypeOK /\ [Next]_vars => TypeOK'
<1> SUFFICES ASSUME TypeOK, [Next]_vars PROVE TypeOK'
  OBVIOUS
<1> USE IdempotencyAssumption DEF Goto, removed
<1>1. ASSUME NEW r \in Request, Arrive(r) PROVE TypeOK'
  BY <1>1 DEF Arrive, TypeOK, RecordOK, faults, Working
<1>2. ASSUME NEW r \in Request, NEW conflict \in {"clear", "read"}, Insert(r, conflict)
      PROVE  TypeOK'
  <2>1. sweeping' \in BOOLEAN
    BY <1>2 DEF Insert, TypeOK
  <2>2. RecordOK'
    BY <1>2, WrittenRows DEF Insert, TypeOK, RecordOK
  <2> QED
    BY <1>2, <2>1, <2>2 DEF Insert, TypeOK, faults, Working
<1>3. ASSUME NEW r \in Request, ClearExpired(r) PROVE TypeOK'
  <2>1. sweeping' \in BOOLEAN
    BY <1>3 DEF ClearExpired, TypeOK
  <2>2. RecordOK'
    BY <1>3, WrittenRows DEF ClearExpired, TypeOK, RecordOK
  <2> QED
    BY <1>3, <2>1, <2>2 DEF ClearExpired, TypeOK, faults, Working
<1>4. ASSUME NEW r \in Request, Classify(r) PROVE TypeOK'
  <2>1. CASE UNCHANGED got
    BY <1>4, <2>1 DEF Classify, InProgress, TypeOK, RecordOK, faults, Working
  <2>2. CASE record.state = "completed" /\ got' = [got EXCEPT ![r] = op[record.from]]
                /\ Goto(r, "done") /\ UNCHANGED round
    BY <1>4, <2>2 DEF Classify, TypeOK, RecordOK, faults, Working
  <2> QED
    BY <1>4, <2>1, <2>2 DEF Classify, InProgress
<1>5. ASSUME NEW r \in Request, TakeOver(r) PROVE TypeOK'
  <2>1. sweeping' \in BOOLEAN
    BY <1>5 DEF TakeOver, TypeOK
  <2>2. RecordOK'
    BY <1>5, WrittenRows DEF TakeOver, TypeOK, RecordOK
  <2> QED
    BY <1>5, <2>1, <2>2 DEF TakeOver, TypeOK, faults, Working
<1>6. ASSUME NEW r \in Request, NEW commits \in BOOLEAN, Handle(r, commits) PROVE TypeOK'
  BY <1>6 DEF Handle, TypeOK, RecordOK, faults, Working
<1>7. ASSUME NEW r \in Request, NEW replayable \in BOOLEAN, Complete(r, replayable)
      PROVE  TypeOK'
  BY <1>7 DEF Complete, CompletedBy, Record, TypeOK, RecordOK, faults, Working
<1>8. ASSUME NEW r \in Request, Crash(r) \/ Disconnect(r) PROVE TypeOK'
  BY <1>8 DEF Crash, Disconnect, Lose, TypeOK, RecordOK
<1>9. CASE SweepSelect
  BY <1>9 DEF SweepSelect, TypeOK, RecordOK, faults, request
<1>10. CASE SweepDelete
  <2>1. sweeping' \in BOOLEAN
    BY <1>10 DEF SweepDelete, TypeOK
  <2>2. RecordOK'
    BY <1>10, WrittenRows DEF SweepDelete, TypeOK, RecordOK
  <2> QED
    BY <1>10, <2>1, <2>2 DEF SweepDelete, TypeOK, faults, request
<1>11. CASE Tick
  BY <1>11 DEF Tick, Record, TypeOK, RecordOK, faults
<1>12. CASE UNCHANGED vars
  BY <1>12 DEF vars, TypeOK, RecordOK, faults, request
<1> QED
  BY <1>1, <1>2, <1>3, <1>4, <1>5, <1>6, <1>7, <1>8, <1>9, <1>10, <1>11, <1>12
     DEF Next, Serve, TryClaim

\* The row, the requests and the counters keep their types (Record, and the
\* CHECK constraints of idempotency_keys: a completed record has a response).
THEOREM TypeCorrect ==
    Spec => []TypeOK
  BY InitType, NextType, PTL DEF Spec

\* Effects are never undone, and a request always asks for the same thing.
LEMMA EffectsGrow ==
    ASSUME TypeOK, [Next]_vars
    PROVE  op' = op /\ \A o \in Operation : effects'[o] >= effects[o]
<1>1. ASSUME NEW r \in Request, NEW commits \in BOOLEAN, Handle(r, commits)
      PROVE  op' = op /\ \A o \in Operation : effects'[o] >= effects[o]
  BY <1>1 DEF Handle, TypeOK
<1>2. CASE UNCHANGED <<op, effects>>
  BY <1>2 DEF TypeOK
<1> QED
  BY <1>1, <1>2 DEF Next, Serve, TryClaim, Arrive, Insert, ClearExpired, Classify,
     TakeOver,
     Complete, Crash, Disconnect, Lose, SweepSelect, SweepDelete, Tick, vars

\* A success is reported only after its effect committed: Handle is the only
\* step that reports one.
LEMMA NextOk ==
    TypeOK /\ OkInv /\ [Next]_vars => OkInv'
<1> SUFFICES ASSUME TypeOK, OkInv, [Next]_vars, NEW q \in Request, ok'[q]
             PROVE  effects'[op[q]] > 0
  BY EffectsGrow DEF OkInv
<1>1. op[q] \in Operation /\ effects[op[q]] \in Nat /\ effects'[op[q]] \in Nat
  BY NextType DEF TypeOK
<1>2. CASE ok[q]
  BY <1>1, <1>2, EffectsGrow DEF OkInv
<1>3. ASSUME NEW r \in Request, NEW commits \in BOOLEAN, Handle(r, commits)
      PROVE  ok[q] \/ effects'[op[q]] > 0
  BY <1>1, <1>3 DEF Handle, TypeOK
<1>4. ASSUME NEW r \in Request, Arrive(r) PROVE ok[q]
  BY <1>4 DEF Arrive, TypeOK
<1>5. CASE UNCHANGED ok
  BY <1>2, <1>5
<1> QED
  BY <1>2, <1>3, <1>4, <1>5 DEF Next, Serve, TryClaim, Insert, ClearExpired,
     Classify, TakeOver,
     Complete, Crash, Disconnect, Lose, SweepSelect, SweepDelete, Tick, vars,
        request

\* A record is completed only by Complete, with the response of its caller.
LEMMA NextRecorded ==
    TypeOK /\ OkInv /\ RecordedEffectHappened /\ [Next]_vars
           => RecordedEffectHappened'
<1> SUFFICES ASSUME TypeOK, OkInv, RecordedEffectHappened, [Next]_vars,
                    record'.state = "completed", record'.ok
             PROVE  effects'[op'[record'.from]] > 0
  BY DEF RecordedEffectHappened
<1>1. TypeOK' /\ OkInv'
  BY NextType, NextOk
<1>2. CASE record'.from = record.from /\ record'.state = record.state /\ record'.ok = record.ok
  <2>1. record.from \in Request /\ op[record.from] \in Operation
    BY <1>2 DEF TypeOK, RecordOK
  <2>2. effects[op[record.from]] > 0
    BY <1>2 DEF RecordedEffectHappened
  <2> QED
    BY <1>1, <1>2, <2>1, <2>2, EffectsGrow DEF TypeOK
<1>3. ASSUME NEW r \in Request, NEW replayable \in BOOLEAN, Complete(r, replayable)
      PROVE  record' = record \/ (record'.from = r /\ ok'[r])
  BY <1>3 DEF Complete, CompletedBy, Record
<1>4. ASSUME NEW r \in Request, NEW replayable \in BOOLEAN, Complete(r, replayable)
      PROVE  effects'[op'[record'.from]] > 0
  <2>1. CASE record' = record
    BY <1>2, <2>1
  <2>2. CASE record'.from = r /\ ok'[r]
    BY <1>1, <2>2 DEF OkInv
  <2> QED
    BY <1>3, <1>4, <2>1, <2>2
<1>5. ASSUME NEW r \in Request, NEW conflict \in {"clear", "read"}, Insert(r, conflict)
      PROVE  record' = record
  BY <1>5 DEF Insert, ClaimedBy, Record
<1>6. ASSUME NEW r \in Request, ClearExpired(r) \/ TakeOver(r) PROVE record' = record
  BY <1>6 DEF ClearExpired, TakeOver, ClaimedBy, Absent, Record
<1>7. SweepDelete => record' = record
  BY DEF SweepDelete, Absent, Record
<1>8. CASE Tick
  BY <1>2, <1>8 DEF Tick, Record
<1>9. CASE UNCHANGED record
  BY <1>2, <1>9
<1> QED
  BY <1>4, <1>5, <1>6, <1>7, <1>8, <1>9 DEF Next, Serve, TryClaim, Arrive, Classify,
     Handle,
     Crash, Disconnect, Lose, SweepSelect, vars

\* A replayed success is never fabricated: whatever stalls, dies, is taken over
\* or swept, a response recorded as a success belongs to a committed effect.
THEOREM RecordedSuccessIsReal ==
    Spec => []RecordedEffectHappened
<1>1. Init => BaseInv
  <2>1. ASSUME Init PROVE OkInv /\ RecordedEffectHappened
    BY <2>1 DEF Init, OkInv, RecordedEffectHappened, Absent, Record
  <2> QED
    BY <2>1, InitType DEF BaseInv
<1>2. BaseInv /\ [Next]_vars => BaseInv'
  BY NextType, NextOk, NextRecorded DEF BaseInv
<1>3. BaseInv => RecordedEffectHappened
  BY DEF BaseInv
<1> QED
  BY <1>1, <1>2, <1>3, PTL DEF Spec
-----------------------------------------------------------------------------
(* What holds of requests that have not outlived their timeout. *)

\* Records are wiped one by one.
LEMMA WipedGrows ==
    ASSUME TypeOK, [Next]_vars
    PROVE  wiped' \in Nat /\ wiped' >= wiped
<1>1. CASE SweepDelete
  BY <1>1 DEF SweepDelete, TypeOK
<1>2. CASE UNCHANGED wiped
  BY <1>2 DEF TypeOK
<1> QED
  BY <1>1, <1>2 DEF Next, Serve, TryClaim, Arrive, Insert, ClearExpired, Classify, TakeOver,
     Handle, Complete, Crash, Disconnect, Lose, SweepSelect, Tick, removed, vars

\* While a handler is in time its lease has not lapsed, nor its record expired.
LEMMA InTimeIsFresh ==
    ASSUME RequestTimeout <= Lease, TypeOK, HolderInv, wiped = 0, NEW r \in Request, InTime(r)
    PROVE  record.state # "absent" /\ record.by = r /\ ~LeaseExpired /\ ~Expired
  BY IdempotencyAssumption DEF TypeOK, RecordOK, HolderInv, InTime, LeaseExpired, Expired

\* No step takes the record from a request in time but a sweep, which is counted.
LEMMA NextHolder ==
    ASSUME RequestTimeout <= Lease, TypeOK, HolderInv, [Next]_vars
    PROVE  HolderInv'
<1> SUFFICES ASSUME wiped' = 0, NEW q \in Request, InTime(q)'
             PROVE  /\ record'.state # "absent" /\ record'.by = q
                    /\ record'.age + left'[q] <= RequestTimeout
  BY DEF HolderInv
<1> DEFINE Goal == /\ record'.state # "absent" /\ record'.by = q
                   /\ record'.age + left'[q] <= RequestTimeout
<1> USE IdempotencyAssumption DEF Running, Goto
<1>0. wiped = 0
  BY WipedGrows DEF TypeOK
<1>1. CASE InTime(q) /\ UNCHANGED record /\ left'[q] = left[q]
  BY <1>0, <1>1 DEF HolderInv
<1>2. ASSUME NEW r \in Request, Arrive(r) PROVE Goal
  <2>1. q # r
    BY <1>2 DEF Arrive, InTime, TypeOK
  <2> QED
    BY <1>1, <1>2, <2>1 DEF Arrive, InTime, TypeOK
<1>3. ASSUME NEW r \in Request, NEW conflict \in {"clear", "read"}, Insert(r, conflict)
      PROVE  Goal
  <2>1. CASE record.state = "absent" /\ q = r
    BY <1>3, <2>1 DEF Insert, ClaimedBy, Record, TypeOK
  <2>2. CASE record.state = "absent" /\ q # r
    <3>1. InTime(q)
      BY <1>3, <2>2 DEF Insert, InTime, TypeOK
    <3> QED
      BY <1>0, <2>2, <3>1, InTimeIsFresh
  <2>3. CASE record.state # "absent"
    BY <1>1, <1>3, <2>3 DEF Insert, InTime, TypeOK
  <2> QED
    BY <2>1, <2>2, <2>3
<1>4. ASSUME NEW r \in Request, ClearExpired(r) PROVE Goal
  <2>1. InTime(q) /\ left'[q] = left[q]
    BY <1>4 DEF ClearExpired, InTime, TypeOK
  <2>2. UNCHANGED record
    BY <1>0, <1>4, <2>1, InTimeIsFresh DEF ClearExpired
  <2> QED
    BY <1>1, <2>1, <2>2
<1>5. ASSUME NEW r \in Request, Classify(r) PROVE Goal
  <2>1. pc'[r] \notin {"handler", "complete"} /\ UNCHANGED <<record, left>>
        /\ \A p \in Request : p # r => pc'[p] = pc[p]
    BY <1>5 DEF Classify, InProgress, TypeOK
  <2> QED
    BY <1>1, <2>1 DEF InTime
<1>6. ASSUME NEW r \in Request, TakeOver(r) PROVE Goal
  <2>1. CASE q = r
    BY <1>6, <2>1 DEF TakeOver, ClaimedBy, Record, InTime, TypeOK
  <2>2. CASE q # r
    <3>1. InTime(q) /\ left'[q] = left[q]
      BY <1>6, <2>2 DEF TakeOver, InTime, TypeOK
    <3>2. UNCHANGED record
      BY <1>0, <1>6, <3>1, InTimeIsFresh DEF TakeOver
    <3> QED
      BY <1>1, <3>1, <3>2
  <2> QED
    BY <2>1, <2>2
<1>7. ASSUME NEW r \in Request, NEW commits \in BOOLEAN, Handle(r, commits) PROVE Goal
  BY <1>1, <1>7 DEF Handle, InTime, TypeOK
<1>8. ASSUME NEW r \in Request, NEW replayable \in BOOLEAN, Complete(r, replayable) PROVE Goal
  <2>1. InTime(q) /\ left' = left
    BY <1>8 DEF Complete, InTime, TypeOK
  <2>2. record.state # "absent" /\ record.by = q /\ record.age + left[q] <= RequestTimeout
    BY <1>0, <2>1 DEF HolderInv
  <2>3. record'.by = record.by /\ record'.age = record.age /\ record'.state # "absent"
    BY <1>8, <2>2 DEF Complete, CompletedBy, Record
  <2> QED
    BY <2>1, <2>2, <2>3
<1>9. ASSUME NEW r \in Request, Crash(r) \/ Disconnect(r) PROVE Goal
  BY <1>1, <1>9 DEF Crash, Disconnect, Lose, InTime, TypeOK
<1>10. CASE SweepSelect
  BY <1>1, <1>10 DEF SweepSelect, InTime, request
<1>11. CASE SweepDelete
  <2>1. InTime(q)
    BY <1>11 DEF SweepDelete, InTime, request
  <2>2. record.by = q
    BY <1>0, <2>1, InTimeIsFresh
  <2>3. wiped' = wiped + 1
    BY <1>11, <2>1, <2>2 DEF SweepDelete, InTime
  <2> QED
    BY <1>0, <2>3
<1>12. CASE Tick
  <2>1. InTime(q) /\ left'[q] = left[q] - 1
    BY <1>12 DEF Tick, InTime, TypeOK
  <2>2. record'.state = record.state /\ record'.by = record.by
        /\ record'.age <= record.age + 1 /\ record'.age \in Nat
    BY <1>12 DEF Tick, Record, TypeOK, RecordOK
  <2>3. record.state # "absent" /\ record.by = q /\ record.age + left[q] <= RequestTimeout
    BY <1>0, <2>1 DEF HolderInv
  <2> QED
    BY <2>1, <2>2, <2>3 DEF TypeOK, RecordOK
<1>13. CASE UNCHANGED vars
  BY <1>1, <1>13 DEF vars, request, InTime
<1> QED
  BY <1>2, <1>3, <1>4, <1>5, <1>6, <1>7, <1>8, <1>9, <1>10, <1>11, <1>12, <1>13
     DEF Next, Serve, TryClaim

\* Requests in time hold the record.
LEMMA HolderInvariance ==
    ASSUME RequestTimeout <= Lease
    PROVE  Spec => [](TypeOK /\ HolderInv)
<1>1. Init => HolderInv
  BY DEF Init, HolderInv, InTime, Running
<1> QED
  BY <1>1, InitType, NextType, NextHolder, PTL DEF Spec

\* Begin excludes: however long requests stall and whatever dies, hangs up or is
\* swept, two handlers of one key that run at the same time are not both within
\* their timeout, unless a sweep deleted a live record.
THEOREM HandlersExclude ==
    ASSUME RequestTimeout <= Lease
    PROVE  Spec => []NoConcurrentHandlers
<1>1. HolderInv => NoConcurrentHandlers
  BY DEF HolderInv, NoConcurrentHandlers
<1> QED
  BY <1>1, HolderInvariance, PTL

\* Complete, which checks no owner, completes another request's claim only when
\* its caller has outlived its timeout or lost its record to a sweep.
THEOREM HoldersComplete ==
    ASSUME RequestTimeout <= Lease
    PROVE  Spec => OnlyLateCompletesAnother
<1>1. ASSUME TypeOK, HolderInv
      PROVE  \A r \in Request : pc[r] = "complete" /\ pc'[r] = "done" /\ record' # record
                                => record.by = r \/ left[r] < 0 \/ wiped > 0
  <2> SUFFICES ASSUME NEW r \in Request, pc[r] = "complete", left[r] >= 0, wiped = 0
               PROVE  record.by = r
    BY <1>1, IdempotencyAssumption DEF TypeOK
  <2>1. InTime(r)
    BY DEF InTime, Running
  <2> QED
    BY <1>1, <2>1 DEF HolderInv
<1> QED
  BY <1>1, HolderInvariance, PTL DEF Spec, OnlyLateCompletesAnother
-----------------------------------------------------------------------------
(* What holds of effects, however long requests stall. *)

\* One request fewer or one more in its handler.
LEMMA HandlerCount ==
    ASSUME IsFiniteSet(InHandler), NEW r \in Request,
           \A q \in Request : q # r => (pc'[q] = "handler" <=> pc[q] = "handler")
    PROVE  /\ IsFiniteSet(InHandler') /\ Cardinality(InHandler) \in Nat
           /\ Cardinality(InHandler') \in Nat
           /\ pc[r] = "handler" /\ pc'[r] # "handler"
                => Cardinality(InHandler') = Cardinality(InHandler) - 1
           /\ pc[r] # "handler" /\ pc'[r] = "handler"
                => Cardinality(InHandler') = Cardinality(InHandler) + 1
           /\ (pc[r] = "handler" <=> pc'[r] = "handler")
                => Cardinality(InHandler') = Cardinality(InHandler)
<1>1. CASE pc[r] = "handler" /\ pc'[r] # "handler"
  <2>1. InHandler' = InHandler \ {r} /\ r \in InHandler
    BY <1>1 DEF InHandler
  <2> QED
    BY <1>1, <2>1, FS_RemoveElement, FS_CardinalityType
<1>2. CASE pc[r] # "handler" /\ pc'[r] = "handler"
  <2>1. InHandler' = InHandler \cup {r} /\ r \notin InHandler
    BY <1>2 DEF InHandler
  <2> QED
    BY <1>2, <2>1, FS_AddElement, FS_CardinalityType
<1>3. CASE pc[r] = "handler" <=> pc'[r] = "handler"
  <2>1. InHandler' = InHandler
    BY <1>3 DEF InHandler
  <2> QED
    BY <1>3, <2>1, FS_CardinalityType
<1> QED
  BY <1>1, <1>2, <1>3

\* Every step that adds an effect to come, or lets the record stand for nothing,
\* counts a loss or claims the record.
LEMMA NextExcuse ==
    ASSUME TypeOK, ExcuseInv, [Next]_vars
    PROVE  ExcuseInv'
<1> DEFINE n == Cardinality(InHandler)
           m == Cardinality(InHandler')
           k == IF Standing THEN 1 ELSE 0
           l == IF Standing' THEN 1 ELSE 0
           Goal == /\ IsFiniteSet(InHandler')
                   /\ \A o \in Operation : effects'[o] + m <= Losses' + l
<1> SUFFICES Goal
  BY DEF ExcuseInv
<1> USE DEF Goto
<1>0. /\ Losses \in Nat /\ Losses' \in Nat /\ k \in 0..1 /\ l \in 0..1
      /\ \A o \in Operation : effects[o] \in Nat /\ effects'[o] \in Nat
  BY NextType DEF TypeOK, Losses
<1>1. /\ IsFiniteSet(InHandler) /\ n \in Nat
      /\ \A o \in Operation : effects[o] + n <= Losses + k
  BY FS_CardinalityType DEF ExcuseInv
<1>2. ASSUME UNCHANGED effects, IsFiniteSet(InHandler'), m \in Nat,
             m + Losses + k <= n + Losses' + l
      PROVE  Goal
  BY <1>0, <1>1, <1>2
<1>3. ASSUME InHandler' = InHandler, UNCHANGED effects, Losses + k <= Losses' + l
      PROVE  Goal
  <2>1. m = n /\ m \in Nat /\ IsFiniteSet(InHandler')
    BY <1>1, <1>3
  <2> HIDE DEF m, n, k, l
  <2>2. PICK a \in Nat : a = Losses
    BY <1>0
  <2>3. PICK b \in Nat : b = Losses'
    BY <1>0
  <2>4. PICK x \in Nat : x = m /\ x = n
    BY <2>1
  <2>5. a + k <= b + l
    BY <1>3, <2>2, <2>3
  <2>6. x + a + k <= x + b + l
    BY <1>0, <2>5
  <2>7. m + Losses + k <= n + Losses' + l
    BY <2>2, <2>3, <2>4, <2>6
  <2> QED
    BY <1>2, <1>3, <2>1, <2>7
<1> DEFINE Quiet == \A p \in Request : /\ pc'[p] = "handler" <=> pc[p] = "handler"
                                       /\ Running(p)' <=> Running(p)
<1>quiet. ASSUME Quiet, UNCHANGED record PROVE InHandler' = InHandler /\ (Standing => Standing')
  <2>1. record.state # "absent" => record.by \in Request
    BY DEF TypeOK, RecordOK
  <2> HIDE DEF Goal
  <2> QED
    BY <1>quiet, <2>1 DEF InHandler, Standing
<1>4. ASSUME NEW r \in Request, Arrive(r) PROVE Goal
  <2>1. Quiet /\ UNCHANGED record
    BY <1>4 DEF Arrive, Running, TypeOK
  <2>2. UNCHANGED effects /\ Losses' = Losses
    BY <1>4 DEF Arrive, Losses, faults, removed
  <2> QED
    BY <1>0, <1>3, <1>quiet, <2>1, <2>2
<1>5. ASSUME NEW r \in Request, NEW conflict \in {"clear", "read"}, Insert(r, conflict),
             pc[r] \in {"insert", "reinsert"}
      PROVE  Goal
  <2>1. UNCHANGED effects /\ Losses' = Losses
    BY <1>5 DEF Insert, Losses, faults, removed
  <2>2. CASE record.state = "absent"
    <3>1. ~Standing /\ Standing'
      BY <1>5, <2>2 DEF Insert, ClaimedBy, Record, Standing, Running, TypeOK
    <3>2. IsFiniteSet(InHandler') /\ m = n + 1 /\ m \in Nat
      BY <1>1, <1>5, <2>2, HandlerCount DEF Insert, TypeOK
    <3> QED
      BY <1>0, <1>1, <1>2, <2>1, <3>1, <3>2
  <2>3. CASE record.state # "absent"
    <3>1. Quiet /\ UNCHANGED record
      BY <1>5, <2>3 DEF Insert, Running, TypeOK
    <3> QED
      BY <1>0, <1>3, <1>quiet, <2>1, <3>1
  <2> QED
    BY <2>2, <2>3
<1>6. ASSUME NEW r \in Request, ClearExpired(r) PROVE Goal
  <2>1. InHandler' = InHandler /\ UNCHANGED effects
    BY <1>6 DEF ClearExpired, InHandler, TypeOK
  <2>2. CASE expiries' = expiries + 1
    <3>1. Losses' = Losses + 1
      BY <1>6, <2>2 DEF ClearExpired, Losses, faults, TypeOK
    <3> QED
      BY <1>0, <1>3, <2>1, <3>1
  <2>3. CASE UNCHANGED <<record, expiries>>
    <3>1. Losses' = Losses
      BY <1>6, <2>3 DEF ClearExpired, Losses, faults
    <3>2. Quiet /\ UNCHANGED record
      BY <1>6, <2>3 DEF ClearExpired, Running, TypeOK
    <3> QED
      BY <1>0, <1>3, <1>quiet, <2>1, <3>1, <3>2
  <2> QED
    BY <1>6, <2>2, <2>3 DEF ClearExpired
<1>7. ASSUME NEW r \in Request, Classify(r) PROVE Goal
  <2>1. /\ \A p \in Request : p # r => pc'[p] = pc[p]
        /\ ~Running(r) /\ ~Running(r)'
    BY <1>7 DEF Classify, InProgress, Running, TypeOK
  <2>2. UNCHANGED <<record, effects>> /\ Losses' = Losses
    BY <1>7 DEF Classify, Losses, faults, removed
  <2>3. Quiet
    BY <2>1 DEF Running
  <2> QED
    BY <1>0, <1>3, <1>quiet, <2>2, <2>3
<1>8. ASSUME NEW r \in Request, TakeOver(r) PROVE Goal
  <2>1. CASE LeaseExpired
    <3>1. Standing' /\ (Standing <=> Running(record.by))
      BY <1>8, <2>1 DEF TakeOver, LeaseExpired, ClaimedBy, Record, Standing, Running, TypeOK
    <3>2. IsFiniteSet(InHandler') /\ m = n + 1 /\ m \in Nat
      BY <1>1, <1>8, <2>1, HandlerCount DEF TakeOver, TypeOK
    <3>3. UNCHANGED effects /\ Losses' = IF Running(record.by) THEN Losses + 1 ELSE Losses
      BY <1>8, <2>1 DEF TakeOver, Losses, faults, TypeOK
    <3> QED
      BY <1>0, <1>1, <1>2, <3>1, <3>2, <3>3
  <2>2. CASE ~LeaseExpired
    <3>1. Quiet /\ UNCHANGED record
      BY <1>8, <2>2 DEF TakeOver, Running, TypeOK
    <3>2. UNCHANGED effects /\ Losses' = Losses
      BY <1>8, <2>2 DEF TakeOver, Losses, faults
    <3> QED
      BY <1>0, <1>3, <1>quiet, <3>1, <3>2
  <2> QED
    BY <2>1, <2>2
<1>9. ASSUME NEW r \in Request, NEW commits \in BOOLEAN, Handle(r, commits) PROVE Goal
  <2>1. Standing => Standing'
    BY <1>9 DEF Handle, Standing, Running, TypeOK
  <2>2. IsFiniteSet(InHandler') /\ m = n - 1 /\ m \in Nat
    BY <1>1, <1>9, HandlerCount DEF Handle, TypeOK
  <2>3. Losses' = Losses /\ \A o \in Operation : effects'[o] <= effects[o] + 1
    BY <1>9 DEF Handle, Losses, faults, removed, TypeOK
  <2> QED
    BY <1>0, <1>1, <2>1, <2>2, <2>3
<1>10. ASSUME NEW r \in Request, NEW replayable \in BOOLEAN, Complete(r, replayable) PROVE Goal
  <2>1. InHandler' = InHandler /\ UNCHANGED effects /\ Losses' = Losses
    BY <1>10 DEF Complete, InHandler, Losses, faults, removed, TypeOK
  <2>2. Standing => Standing'
    BY <1>10 DEF Complete, CompletedBy, Record, Standing
  <2> QED
    BY <1>0, <1>3, <2>1, <2>2
<1>11. ASSUME NEW r \in Request, Crash(r) \/ Disconnect(r) PROVE Goal
  <2>1. UNCHANGED effects /\ Losses' = Losses + 1
    BY <1>11 DEF Crash, Disconnect, Lose, Losses, removed, TypeOK
  <2>2. /\ \A p \in Request : p # r => pc'[p] = pc[p]
        /\ pc'[r] = "off"
    BY <1>11 DEF Crash, Disconnect, Lose, TypeOK
  <2>3. IsFiniteSet(InHandler') /\ m <= n /\ m \in Nat
    BY <1>1, <2>2, HandlerCount
  <2> QED
    BY <1>0, <1>1, <1>2, <2>1, <2>3
<1>12. CASE SweepSelect
  <2>1. InHandler' = InHandler /\ (Standing => Standing')
    BY <1>12 DEF SweepSelect, InHandler, Standing, Running, request
  <2>2. UNCHANGED effects /\ Losses' = Losses
    BY <1>12 DEF SweepSelect, Losses, faults, removed
  <2> QED
    BY <1>0, <1>3, <2>1, <2>2
<1>13. CASE SweepDelete
  <2>0. /\ crashes \in Nat /\ disconnects \in Nat /\ expiries \in Nat /\ seized \in Nat
        /\ wiped \in Nat
    BY DEF TypeOK
  <2>1. InHandler' = InHandler /\ UNCHANGED effects
    BY <1>13 DEF SweepDelete, InHandler, request
  <2>2. Losses' >= Losses
    BY <1>13, <2>0 DEF SweepDelete, Losses, faults
  <2>3. ASSUME Standing PROVE Losses' >= Losses + 1
    <3>1. expiries' = expiries + 1 \/ wiped' = wiped + 1
      BY <1>13, <2>3 DEF SweepDelete, Standing
    <3>2. /\ expiries' = expiries \/ expiries' = expiries + 1
          /\ wiped' = wiped \/ wiped' = wiped + 1
      BY <1>13 DEF SweepDelete
    <3>3. UNCHANGED <<crashes, disconnects, seized>>
      BY <1>13 DEF SweepDelete, faults
    <3>4. PICK e \in Nat : e = expiries'
      BY <2>0, <3>2
    <3>5. PICK w \in Nat : w = wiped'
      BY <2>0, <3>2
    <3>6. /\ e = expiries \/ e = expiries + 1
          /\ w = wiped \/ w = wiped + 1
          /\ e = expiries + 1 \/ w = wiped + 1
      BY <3>1, <3>2, <3>4, <3>5
    <3>7. expiries + wiped + 1 <= e + w
      BY <2>0, <3>6
    <3>8. Losses' = crashes + disconnects + e + seized + w
      BY <3>3, <3>4, <3>5 DEF Losses
    <3>9. Losses = crashes + disconnects + expiries + seized + wiped
      BY DEF Losses
    <3>10. crashes + disconnects + e + seized + w
             >= crashes + disconnects + expiries + seized + wiped + 1
      BY <2>0, <3>7
    <3> QED
      BY <3>8, <3>9, <3>10
  <2>4. k <= 1 /\ (~Standing => k = 0)
    OBVIOUS
  <2> HIDE DEF k, l
  <2>5. PICK a \in Nat : a = Losses
    BY <1>0
  <2>6. PICK b \in Nat : b = Losses'
    BY <1>0
  <2>7. b >= a /\ (Standing => b >= a + 1)
    BY <2>2, <2>3, <2>5, <2>6
  <2>8. a + k <= b + l
    BY <1>0, <2>4, <2>7
  <2>9. Losses + k <= Losses' + l
    BY <2>5, <2>6, <2>8
  <2> QED
    BY <1>3, <2>1, <2>9
<1>14. CASE Tick
  <2>1. InHandler' = InHandler /\ (Standing => Standing')
    BY <1>14 DEF Tick, Record, InHandler, Standing, Running
  <2>2. UNCHANGED effects /\ Losses' = Losses
    BY <1>14 DEF Tick, Losses, faults, removed
  <2> QED
    BY <1>0, <1>3, <2>1, <2>2
<1>15. CASE UNCHANGED vars
  <2>1. InHandler' = InHandler /\ (Standing => Standing')
    BY <1>15 DEF vars, request, InHandler, Standing, Running
  <2>2. UNCHANGED effects /\ Losses' = Losses
    BY <1>15 DEF vars, Losses, faults, removed
  <2> QED
    BY <1>0, <1>3, <2>1, <2>2
<1> QED
  BY <1>4, <1>5, <1>6, <1>7, <1>8, <1>9, <1>10, <1>11, <1>12, <1>13, <1>14, <1>15
     DEF Next, Serve, TryClaim

\* Every effect behind one key after the first is paid for: by a lost request, an
\* expired record, a claim taken over from a request still running, or a live
\* record that was swept.  No timing is assumed.
THEOREM EffectsAreExcused == Spec => []EffectsExcused
<1>1. ASSUME Init PROVE ExcuseInv
  <2>1. InHandler = {} /\ Losses = 0 /\ \A o \in Operation : effects[o] = 0
    BY <1>1 DEF Init, InHandler, Losses
  <2>2. IsFiniteSet({}) /\ Cardinality({}) = 0
    BY FS_EmptySet
  <2> QED
    BY <2>1, <2>2 DEF ExcuseInv
<1>2. ASSUME TypeOK, ExcuseInv PROVE EffectsExcused
  <2> SUFFICES ASSUME NEW o \in Operation PROVE effects[o] <= 1 + Losses
    BY <1>2 DEF EffectsExcused, Losses, TypeOK
  <2>1. effects[o] + Cardinality(InHandler) <= Losses + (IF Standing THEN 1 ELSE 0)
    BY <1>2 DEF ExcuseInv
  <2>2. Cardinality(InHandler) \in Nat /\ effects[o] \in Nat /\ Losses \in Nat
    BY <1>2, FS_CardinalityType DEF ExcuseInv, TypeOK, Losses
  <2> QED
    BY <2>1, <2>2
<1> QED
  BY <1>1, <1>2, TypeCorrect, NextExcuse, PTL DEF Spec
-----------------------------------------------------------------------------
(* What holds while requests end before their lease does and no sweep runs. *)

\* Without a sweep command, nothing is selected or deleted by one.
LEMMA NextNoSweep ==
    ASSUME Timely, TypeOK, NoSweep, [Next]_vars
    PROVE  NoSweep' /\ ~SweepSelect /\ ~SweepDelete
<1>1. ~SweepSelect /\ ~SweepDelete
  BY DEF SweepSelect, SweepDelete, NoSweep, Timely
<1>2. ASSUME NEW r \in Request, ClearExpired(r) PROVE NoSweep'
  BY <1>2 DEF ClearExpired, NoSweep
<1>3. CASE UNCHANGED <<sweeping, sweeps, wiped>>
  BY <1>1, <1>3 DEF NoSweep
<1> QED
  BY <1>1, <1>2, <1>3 DEF Next, Serve, TryClaim, Arrive, Insert, Classify,
     TakeOver, Handle,
     Complete, Crash, Disconnect, Lose, Tick, removed, vars

\* Time does not pass for a request that has none left.
LEMMA NextNobodyLate ==
    ASSUME Timely, TypeOK, NobodyLate, [Next]_vars
    PROVE  NobodyLate'
<1> SUFFICES ASSUME NEW q \in Request, pc'[q] \in Working PROVE left'[q] >= 0
  BY DEF NobodyLate
<1> USE IdempotencyAssumption DEF Goto
<1>1. ASSUME NEW r \in Request, Arrive(r) PROVE left'[q] >= 0
  BY <1>1 DEF Arrive, NobodyLate, TypeOK
<1>2. CASE Tick
  BY <1>2 DEF Tick, TimeMayPass, Timely, TypeOK
<1>3. ASSUME NEW r \in Request, Serve(r) \/ Crash(r) \/ Disconnect(r) PROVE left'[q] >= 0
  <2>1. UNCHANGED left
    BY <1>3 DEF Serve, TryClaim, Insert, ClearExpired, Classify, TakeOver, Handle, Complete,
                Crash, Disconnect, Lose
  <2>2. pc[r] \in Working /\ \A p \in Request : p # r => pc'[p] = pc[p]
    BY <1>3 DEF Serve, TryClaim, Insert, ClearExpired, Classify, InProgress, TakeOver, Handle,
                Complete, Crash, Disconnect, Lose, Working, TypeOK
  <2> QED
    BY <2>1, <2>2 DEF NobodyLate
<1>4. CASE UNCHANGED request
  BY <1>4 DEF request, NobodyLate
<1> QED
  BY <1>1, <1>2, <1>3, <1>4 DEF Next, SweepSelect, SweepDelete, vars

\* A stored response answers the fingerprint it is stored under, and only such
\* responses are replayed.
LEMMA NextFingerprint ==
    ASSUME Timely, TypeOK, HolderInv, NoSweep, NobodyLate, FingerprintInv, [Next]_vars
    PROVE  FingerprintInv'
<1> USE DEF Goto
<1>1. op' = op
  BY EffectsGrow
<1>2. ASSUME record'.state # "completed" \/ UNCHANGED record, UNCHANGED got
      PROVE  FingerprintInv'
  BY <1>1, <1>2 DEF FingerprintInv, ReplayMatchesFingerprint
<1>3. ASSUME NEW r \in Request, NEW conflict \in {"clear", "read"}, Insert(r, conflict)
      PROVE  FingerprintInv'
  BY <1>2, <1>3 DEF Insert, ClaimedBy, Record
<1>4. ASSUME NEW r \in Request, ClearExpired(r) \/ TakeOver(r) PROVE FingerprintInv'
  BY <1>2, <1>4 DEF ClearExpired, TakeOver, ClaimedBy, Absent, Record
<1>5. ASSUME NEW r \in Request, Classify(r) PROVE FingerprintInv'
  <2>1. CASE UNCHANGED got
    BY <1>2, <1>5, <2>1 DEF Classify
  <2>2. CASE record.state = "completed" /\ SameRequest(r)
                /\ got' = [got EXCEPT ![r] = op[record.from]]
    <3>1. UNCHANGED record /\ Fingerprint(op[record.from]) = Fingerprint(op[r])
      BY <1>5, <2>2 DEF Classify, SameRequest, FingerprintInv
    <3>2. ASSUME NEW q \in Request, got'[q] # NoResponse
          PROVE  Fingerprint(got'[q]) = Fingerprint(op[q])
      BY <2>2, <3>1, <3>2 DEF FingerprintInv, ReplayMatchesFingerprint, TypeOK
    <3> QED
      BY <1>1, <3>1, <3>2 DEF FingerprintInv, ReplayMatchesFingerprint
  <2> QED
    BY <1>5, <2>1, <2>2 DEF Classify, InProgress
<1>6. ASSUME NEW r \in Request, NEW replayable \in BOOLEAN, Complete(r, replayable)
      PROVE  FingerprintInv'
  <2>1. record.by = r
    BY <1>6 DEF Complete, HolderInv, InTime, Running, NoSweep, NobodyLate, Working
  <2>2. record' = record \/ (record'.from = r /\ record'.by = r)
    BY <1>6, <2>1 DEF Complete, CompletedBy, Record
  <2>3. ASSUME NEW q \in Request, got'[q] # NoResponse
        PROVE  Fingerprint(got'[q]) = Fingerprint(op[q])
    BY <1>6, <2>3 DEF Complete, FingerprintInv, ReplayMatchesFingerprint, TypeOK
  <2> QED
    BY <1>1, <2>2, <2>3 DEF FingerprintInv, ReplayMatchesFingerprint
<1>7. CASE Tick
  <2>1. record'.state = record.state /\ record'.by = record.by /\ record'.from = record.from
    BY <1>7 DEF Tick, Record
  <2> QED
    BY <1>1, <1>7, <2>1 DEF Tick, FingerprintInv, ReplayMatchesFingerprint
<1>8. CASE UNCHANGED <<record, got>>
  BY <1>2, <1>8
<1> QED
  BY <1>3, <1>4, <1>5, <1>6, <1>7, <1>8, NextNoSweep DEF Next, Serve, TryClaim, Arrive,
     Handle,
     Crash, Disconnect, Lose, vars, request

\* A client is only ever sent a response to its own fingerprint.
THEOREM ReplaysMatch ==
    ASSUME Timely
    PROVE  Spec => []ReplayMatchesFingerprint
<1>1. Init => TimelyInv
  <2> SUFFICES ASSUME Init PROVE TimelyInv
    OBVIOUS
  <2>1. NoSweep /\ NobodyLate
    BY DEF Init, NoSweep, NobodyLate, Working
  <2>2. HolderInv /\ FingerprintInv
    BY DEF Init, HolderInv, InTime, Running, FingerprintInv, ReplayMatchesFingerprint, Absent,
           Record
  <2> QED
    BY <2>1, <2>2, InitType DEF TimelyInv
<1>2. TimelyInv /\ [Next]_vars => TimelyInv'
  BY NextType, NextNoSweep, NextNobodyLate, NextHolder, NextFingerprint DEF TimelyInv, Timely
<1>3. TimelyInv => ReplayMatchesFingerprint
  BY DEF TimelyInv, FingerprintInv
<1> QED
  BY <1>1, <1>2, <1>3, PTL DEF Spec
=============================================================================
