------------------------------- MODULE Session -------------------------------
(***************************************************************************)
(* Refresh sessions: the store of internal/authn/refresh.go and the        *)
(* Service methods that call it.  A family is a login session; its tokens  *)
(* are rotated, each used once.  Rotate reads the token, reads the family  *)
(* and consumes the token in three statements of one READ COMMITTED        *)
(* transaction, and other requests commit in between.                      *)
(***************************************************************************)
EXTENDS Integers

CONSTANTS
    User,
    Family,          \* bound: sessions that can be started
    Token,           \* bound: refresh tokens that can be minted
    Request,         \* refresh requests handled at the same time
    NoUser, NoFamily, NoToken,
    Grace,           \* ticks in which a second use counts as a retry
    TTL,             \* ticks a refresh token lives
    RequestTimeout   \* ticks a request may take (httpx requestTimeout)

ASSUME SessionAssumption ==
    /\ NoUser \notin User /\ NoFamily \notin Family /\ NoToken \notin Token
    /\ Grace \in Nat /\ TTL \in Nat \ {0} /\ RequestTimeout \in Nat

VARIABLES
    owner,        \* refresh_families.user_id; NoUser: no such row
    reason,       \* refresh_families.revoked_reason; "none": revoked_at IS NULL
    family,       \* refresh_tokens.family_id; NoFamily: no such row
    ttl,          \* ticks until refresh_tokens.expires_at
    consumed,     \* ticks since refresh_tokens.consumed_at, or NotConsumed
    replaced_by,  \* refresh_tokens.replaced_by
    known,        \* tokens some client has been sent
    pc,           \* where the handling of a request is
    presented,    \* the token it carries; NoToken: none, or a string of no row
    age,          \* ticks since its transaction began, which is its now()
    seen,         \* what it read of consumed_at
    successor,    \* the token it minted
    outcome,      \* how the last refresh of the slot ended
    lag,          \* history: how late in its transaction a token was consumed
    tail          \* history: rotations of a family committed after its revocation

families == <<owner, reason>>
tokens   == <<family, ttl, consumed, replaced_by, lag>>
request  == <<presented, age, seen, successor, outcome>>
vars     == <<families, tokens, known, pc, request, tail>>

NotConsumed == -1

\* Ages stop here: older than this, no comparison with Grace can change.
MaxAge == Grace + RequestTimeout + 1

InTx == {"lookup", "family", "consume"}
Open == InTx \cup {"revoke", "respond"}

Reason   == {"reuse", "logout", "all"}
Outcome  == {"none", "session", "unknown", "revoked", "expired", "race", "reused",
             "unrevoked", "error"}

\* The rows of the two tables.
Unminted    == {t \in Token : family[t] = NoFamily}
Live(t)     == family[t] # NoFamily /\ consumed[t] = NotConsumed
Revoked(f)  == reason[f] # "none"
-----------------------------------------------------------------------------
(* Starting and ending sessions. *)

\* INSERT INTO refresh_tokens.
Mint(t, f) ==
    /\ family' = [family EXCEPT ![t] = f]
    /\ ttl' = [ttl EXCEPT ![t] = TTL]

\* INSERT of the family and of its first token, in one transaction.
StartSession(f, u, t) ==
    /\ owner[f] = NoUser
    /\ t \in Unminted
    /\ owner' = [owner EXCEPT ![f] = u]
    /\ Mint(t, f)
    /\ UNCHANGED <<reason, consumed, replaced_by, lag>>

\* Login once the password has been verified: issueSession.  The answer may be
\* lost, or replaced by an error of the tenant list, after the commit.
Login(f, u, t, answered) ==
    /\ StartSession(f, u, t)
    /\ known' = IF answered THEN known \cup {t} ELSE known
    /\ UNCHANGED <<pc, request, tail>>

\* UPDATE refresh_families SET revoked_at ... WHERE revoked_at IS NULL.
Revoke(F, why) ==
    reason' = [f \in Family |-> IF f \in F /\ ~Revoked(f) THEN why ELSE reason[f]]

\* RevokeByPresentedToken.  A token's family never changes, so its SELECT and its
\* UPDATE are one step; an unknown token changes nothing and is no step.
Logout(t) ==
    /\ t \in known
    /\ Revoke({family[t]}, "logout")
    /\ UNCHANGED <<owner, tokens, known, pc, request, tail>>

\* RevokeAllForUser: one UPDATE.
LogoutAll(u) ==
    /\ Revoke({f \in Family : owner[f] = u}, "all")
    /\ UNCHANGED <<owner, tokens, known, pc, request, tail>>
-----------------------------------------------------------------------------
(* Rotate. *)

Goto(r, label) == pc' = [pc EXCEPT ![r] = label]

\* The request is answered with a 401, or with the error that ended it.
Finish(r, how) ==
    /\ Goto(r, "idle")
    /\ outcome' = [outcome EXCEPT ![r] = how]
    /\ presented' = [presented EXCEPT ![r] = NoToken]
    /\ age' = [age EXCEPT ![r] = 0]
    /\ seen' = [seen EXCEPT ![r] = "fresh"]
    /\ successor' = [successor EXCEPT ![r] = NoToken]

\* A refresh arrives and its transaction begins.
Present(r, t) ==
    /\ pc[r] = "idle"
    /\ t \in known \cup {NoToken}
    /\ Goto(r, "lookup")
    /\ presented' = [presented EXCEPT ![r] = t]
    /\ outcome' = [outcome EXCEPT ![r] = "none"]
    /\ UNCHANGED <<age, seen, successor, families, tokens, known, tail>>

\* Mutants: the end of the window is open; nothing is ever outside it.
ConsumedRecentlyOpen(r)   == consumed[presented[r]] - age[r] < Grace
ConsumedRecentlyAlways(r) == TRUE

\* now() - consumed_at <= grace, both the beginning of a transaction.
ConsumedRecently(r) == consumed[presented[r]] - age[r] <= Grace

Classify(r) == IF consumed[presented[r]] = NotConsumed THEN "fresh"
               ELSE IF ConsumedRecently(r) THEN "recent" ELSE "stale"

\* SELECT ... FROM refresh_tokens.
Lookup(r) ==
    /\ pc[r] = "lookup"
    /\ \/ /\ presented[r] = NoToken
          /\ Finish(r, "unknown")
       \/ /\ presented[r] # NoToken
          /\ seen' = [seen EXCEPT ![r] = Classify(r)]
          /\ Goto(r, "family")
          /\ UNCHANGED <<presented, age, successor, outcome>>
    /\ UNCHANGED <<families, tokens, known, tail>>

\* Mutant: the family is not asked.
MayRotateUnchecked(r) == ttl[presented[r]] > 0

\* SELECT revoked_at, then the expiry on the application's clock.
MayRotate(r) == ~Revoked(family[presented[r]]) /\ ttl[presented[r]] > 0

\* SELECT revoked_at FROM refresh_families and the switch after it.
ReadFamily(r) ==
    /\ pc[r] = "family"
    /\ \/ /\ ~MayRotate(r)
          /\ Finish(r, IF Revoked(family[presented[r]]) THEN "revoked" ELSE "expired")
       \/ /\ MayRotate(r) /\ seen[r] = "recent"
          /\ Finish(r, "race")
       \/ /\ MayRotate(r) /\ seen[r] \in {"fresh", "stale"}
          /\ Goto(r, IF seen[r] = "stale" THEN "revoke" ELSE "consume")
          /\ UNCHANGED request
    /\ UNCHANGED <<families, tokens, known, tail>>

\* Mutant: UPDATE without consumed_at IS NULL.
ClaimableAnyway(t) == TRUE

\* WHERE token_hash = $1 AND consumed_at IS NULL, after waiting for the row.
Claimable(t) == consumed[t] = NotConsumed

\* The conditional UPDATE matches: claim, insert the successor n, link, commit.
\* consumed_at is the transaction's now(), age[r] ticks ago.
Consume(r, n) ==
    LET t == presented[r] IN
    LET f == family[t] IN
    /\ pc[r] = "consume"
    /\ Claimable(t)
    /\ n \in Unminted
    /\ consumed' = [consumed EXCEPT ![t] = age[r]]
    /\ lag' = [lag EXCEPT ![t] = age[r]]
    /\ Mint(n, f)
    /\ replaced_by' = [replaced_by EXCEPT ![t] = n]
    /\ successor' = [successor EXCEPT ![r] = n]
    /\ tail' = [tail EXCEPT ![f] = IF Revoked(f) THEN @ + 1 ELSE @]
    /\ Goto(r, "respond")
    /\ UNCHANGED <<families, known, presented, age, seen, outcome>>

\* It matches nothing: another request consumed the token since the SELECT.
LoseRace(r) ==
    /\ pc[r] = "consume"
    /\ ~Claimable(presented[r])
    /\ Finish(r, "race")
    /\ UNCHANGED <<families, tokens, known, tail>>

\* A replay was detected and committed: RevokeFamily, in its own transaction.
RevokeReused(r) ==
    /\ pc[r] = "revoke"
    /\ Revoke({family[presented[r]]}, "reuse")
    /\ Finish(r, "reused")
    /\ UNCHANGED <<owner, tokens, known, tail>>

\* Refresh after Rotate: access token, tenant list, answer.
Respond(r) ==
    /\ pc[r] = "respond"
    /\ known' = known \cup {successor[r]}
    /\ Finish(r, "session")
    /\ UNCHANGED <<families, tokens, tail>>

\* A statement fails, the context ends or the process dies: in Rotate the transaction is rolled
\* back, in RevokeFamily the family stays live, and after the commit the
\* successor reaches nobody.
Fail(r) ==
    /\ pc[r] \in Open
    /\ Finish(r, IF pc[r] = "revoke" THEN "unrevoked" ELSE "error")
    /\ UNCHANGED <<families, tokens, known, tail>>
-----------------------------------------------------------------------------
\* Time passes for rows and requests.  A request at its timeout ends first.
Tick ==
    /\ \A r \in Request : pc[r] \in Open => age[r] < RequestTimeout
    /\ age' = [r \in Request |-> IF pc[r] \in Open THEN age[r] + 1 ELSE age[r]]
    /\ ttl' = [t \in Token |-> IF ttl[t] > 0 THEN ttl[t] - 1 ELSE 0]
    /\ consumed' = [t \in Token |-> IF consumed[t] \in 0..(MaxAge - 1)
                                    THEN consumed[t] + 1 ELSE consumed[t]]
    /\ UNCHANGED <<families, family, replaced_by, lag, known, pc, presented, seen,
                   successor, outcome, tail>>

Init ==
    /\ owner = [f \in Family |-> NoUser]
    /\ reason = [f \in Family |-> "none"]
    /\ family = [t \in Token |-> NoFamily]
    /\ ttl = [t \in Token |-> 0]
    /\ consumed = [t \in Token |-> NotConsumed]
    /\ replaced_by = [t \in Token |-> NoToken]
    /\ known = {}
    /\ pc = [r \in Request |-> "idle"]
    /\ presented = [r \in Request |-> NoToken]
    /\ age = [r \in Request |-> 0]
    /\ seen = [r \in Request |-> "fresh"]
    /\ successor = [r \in Request |-> NoToken]
    /\ outcome = [r \in Request |-> "none"]
    /\ lag = [t \in Token |-> 0]
    /\ tail = [f \in Family |-> 0]

Handle(r) ==
    \/ Lookup(r) \/ ReadFamily(r)
    \/ \E n \in Token : Consume(r, n)
    \/ LoseRace(r) \/ RevokeReused(r) \/ Respond(r) \/ Fail(r)

Next ==
    \/ \E f \in Family, u \in User, t \in Token, answered \in BOOLEAN :
          Login(f, u, t, answered)
    \/ \E t \in Token : Logout(t)
    \/ \E u \in User : LogoutAll(u)
    \/ \E r \in Request, t \in Token \cup {NoToken} : Present(r, t)
    \/ \E r \in Request : Handle(r)
    \/ Tick

Spec == Init /\ [][Next]_vars
-----------------------------------------------------------------------------
(* Properties. *)

RequestOK(r) ==
    /\ pc[r] \in Open \cup {"idle"}
    /\ presented[r] \in Token \cup {NoToken}
    /\ pc[r] \in Open \ {"lookup"} => presented[r] \in Token
    /\ presented[r] \in Token => family[presented[r]] \in Family
    /\ age[r] \in 0..RequestTimeout
    /\ seen[r] \in {"fresh", "recent", "stale"}
    /\ successor[r] \in Token \cup {NoToken}
    /\ pc[r] = "respond" => successor[r] \in Token /\ family[successor[r]] \in Family
    /\ outcome[r] \in Outcome

\* Type invariant: rows, requests and histories have their types, a token has a
\* family that exists, clients know only tokens that were minted, and past its
\* lookup a request has a row in hand.
TypeOK ==
    /\ owner \in [Family -> User \cup {NoUser}]
    /\ reason \in [Family -> Reason \cup {"none"}]
    /\ family \in [Token -> Family \cup {NoFamily}]
    /\ \A t \in Token : family[t] \in Family => owner[family[t]] \in User
    /\ ttl \in [Token -> 0..TTL]
    /\ consumed \in [Token -> -1..MaxAge]
    /\ replaced_by \in [Token -> Token \cup {NoToken}]
    /\ known \subseteq {t \in Token : family[t] \in Family}
    /\ pc \in [Request -> Open \cup {"idle"}]
    /\ presented \in [Request -> Token \cup {NoToken}]
    /\ age \in [Request -> 0..RequestTimeout]
    /\ seen \in [Request -> {"fresh", "recent", "stale"}]
    /\ successor \in [Request -> Token \cup {NoToken}]
    /\ outcome \in [Request -> Outcome]
    /\ \A r \in Request : RequestOK(r)
    /\ lag \in [Token -> 0..RequestTimeout]
    /\ tail \in [Family -> Nat]

\* A family never forks: however refreshes of one token interleave, at most one
\* token of the family is unconsumed, every consumed one has a successor in its
\* family, and no two have the same (Rotate's conditional UPDATE).
LinearFamily ==
    /\ \A t, u \in Token : Live(t) /\ Live(u) /\ family[t] = family[u] => t = u
    /\ \A t \in Token : consumed[t] # NotConsumed =>
          replaced_by[t] \in Token /\ family[replaced_by[t]] = family[t]
    /\ \A t, u \in Token : replaced_by[t] = replaced_by[u] /\ replaced_by[t] \in Token => t = u

\* A revocation leaves room for one rotation, the one that had read the family
\* before it: what that one mints is never exchanged (Logout's "no descendant of
\* this session remains usable", and RevokeFamily after a replay).
OneRotationAfterRevocation == \A f \in Family : tail[f] <= 1

\* A replay is reported, and the session ended for it, only when the rotation it
\* repeats had committed more than Grace less the request timeout before the
\* replaying transaction began: consumed_at is the beginning of the rotation's
\* transaction, so the window a client sees is shorter than Grace by the time
\* that transaction took.
RetriesAreTolerated ==
    \A r \in Request : pc[r] = "revoke" =>
        LET t == presented[r] IN consumed[t] - lag[t] - age[r] > Grace - RequestTimeout

\* The first reason recorded for a revocation stands, whoever revokes later
\* (revoked_at IS NULL in the three revoking statements).
FirstReasonStands ==
    [][\A f \in Family : Revoked(f) => reason'[f] = reason[f]]_vars

\* The rotation of the token a request presents had committed before the
\* request began, and its window had closed.
IsReplay(r) ==
    LET t == presented[r] IN
    /\ pc[r] \in Open /\ t \in Token
    /\ consumed[t] # NotConsumed
    /\ consumed[t] - age[r] > Grace /\ consumed[t] - lag[t] > age[r]

\* A replay never ends with the session going on: when it is answered the family
\* is revoked, unless the token had expired, the request failed, or the revocation
\* failed and is reported as such (Rotate's reuse branch and ReuseError).
ReplayEndsSession ==
    [][\A r \in Request : IsReplay(r) /\ pc'[r] = "idle" =>
          \/ reason'[family[presented[r]]] # "none"
          \/ outcome'[r] \in {"expired", "error", "unrevoked"}]_vars
=============================================================================
