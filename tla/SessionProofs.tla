---------------------------- MODULE SessionProofs ----------------------------
(***************************************************************************)
(* Proofs about Session, for any number of users, sessions, tokens and     *)
(* concurrent refreshes, and any window, token life and request timeout.   *)
(***************************************************************************)
EXTENDS Session, TLAPS

\* A row that does not exist has not been consumed; an unconsumed row links
\* nowhere, and a link leads to a row that exists.
RowInv ==
    /\ \A t \in Unminted : consumed[t] = NotConsumed
    /\ \A t \in Token : consumed[t] = NotConsumed => replaced_by[t] = NoToken
    /\ \A t \in Token : replaced_by[t] \in Token => family[replaced_by[t]] \in Family

ForkInv == TypeOK /\ RowInv /\ LinearFamily

\* A rotation follows a revocation only from a request that had read the family
\* before it; once one did, every request still to consume has lost the race.
TailInv ==
    \A f \in Family :
        /\ tail[f] <= 1
        /\ ~Revoked(f) => tail[f] = 0
        /\ tail[f] > 0 => \A r \in Request :
              pc[r] = "consume" /\ family[presented[r]] = f => consumed[presented[r]] # NotConsumed

\* What a request read of consumed_at, in terms of the row as it is now: ages of
\* row and request grow together, so a window seen closed or open stays so, and
\* a token seen fresh was consumed, if at all, after the request began.
Window(r) ==
    /\ pc[r] = "revoke" \/ (pc[r] = "family" /\ seen[r] = "stale") =>
          consumed[presented[r]] - age[r] > Grace
    /\ pc[r] = "family" /\ seen[r] = "recent" =>
          consumed[presented[r]] # NotConsumed /\ consumed[presented[r]] - age[r] <= Grace
    /\ pc[r] \in {"consume", "respond"} \/ (pc[r] = "family" /\ seen[r] = "fresh") =>
          \/ consumed[presented[r]] = NotConsumed
          \/ consumed[presented[r]] - lag[presented[r]] <= age[r]

WindowInv == TypeOK /\ \A r \in Request : Window(r)
-----------------------------------------------------------------------------
(* Types. *)

\* Initially the tables are empty and no request is under way.
LEMMA InitType == Init => TypeOK
  BY SessionAssumption DEF Init, TypeOK, RequestOK, Open, InTx, Reason, Outcome,
     NotConsumed, MaxAge

\* Revoking families keeps the reasons typed.
LEMMA RevokeType ==
    ASSUME NEW F, NEW why \in Reason, reason \in [Family -> Reason \cup {"none"}],
           Revoke(F, why)
    PROVE  reason' \in [Family -> Reason \cup {"none"}]
  BY DEF Revoke

\* Answering a request leaves the slot free.
LEMMA FinishType ==
    ASSUME TypeOK, NEW r \in Request, NEW how \in Outcome, Finish(r, how),
           UNCHANGED family
    PROVE  /\ pc' \in [Request -> Open \cup {"idle"}]
           /\ presented' \in [Request -> Token \cup {NoToken}]
           /\ age' \in [Request -> 0..RequestTimeout]
           /\ seen' \in [Request -> {"fresh", "recent", "stale"}]
           /\ successor' \in [Request -> Token \cup {NoToken}]
           /\ outcome' \in [Request -> Outcome]
           /\ \A q \in Request : RequestOK(q)'
<1> USE SessionAssumption
<1>1. /\ pc' \in [Request -> Open \cup {"idle"}]
      /\ presented' \in [Request -> Token \cup {NoToken}]
      /\ age' \in [Request -> 0..RequestTimeout]
      /\ seen' \in [Request -> {"fresh", "recent", "stale"}]
      /\ successor' \in [Request -> Token \cup {NoToken}]
      /\ outcome' \in [Request -> Outcome]
  BY DEF TypeOK, Finish, Goto
<1>2. ASSUME NEW q \in Request PROVE RequestOK(q)'
  <2>1. RequestOK(q)
    BY DEF TypeOK
  <2>2. CASE q = r
    BY <1>1, <2>2 DEF TypeOK, RequestOK, Finish, Goto, Open, InTx
  <2>3. CASE q # r
    BY <2>1, <2>3 DEF TypeOK, RequestOK, Finish, Goto
  <2> QED
    BY <2>2, <2>3
<1> QED
  BY <1>1, <1>2

\* Every step keeps the types.
LEMMA NextType == TypeOK /\ [Next]_vars => TypeOK'
<1> SUFFICES ASSUME TypeOK, [Next]_vars PROVE TypeOK'
  OBVIOUS
<1> USE SessionAssumption
<1>1. ASSUME NEW f \in Family, NEW u \in User, NEW t \in Token, NEW answered \in BOOLEAN,
             Login(f, u, t, answered)
      PROVE  TypeOK'
  BY <1>1 DEF Login, StartSession, Mint, Unminted, TypeOK, RequestOK, request
<1>2. ASSUME NEW t \in Token, Logout(t) PROVE TypeOK'
  BY <1>2, RevokeType DEF Logout, TypeOK, RequestOK, tokens, request, Reason
<1>3. ASSUME NEW u \in User, LogoutAll(u) PROVE TypeOK'
  BY <1>3, RevokeType DEF LogoutAll, TypeOK, RequestOK, tokens, request, Reason
<1>4. ASSUME NEW r \in Request, NEW t \in Token \cup {NoToken}, Present(r, t) PROVE TypeOK'
  BY <1>4 DEF Present, Goto, TypeOK, RequestOK, families, tokens, Open, InTx, Outcome
<1>5. ASSUME NEW r \in Request, Lookup(r) PROVE TypeOK'
  <2>1. CASE presented[r] = NoToken
    BY <1>5, <2>1, FinishType DEF Lookup, TypeOK, families, tokens, Outcome
  <2>2. CASE presented[r] # NoToken
    BY <1>5, <2>2 DEF Lookup, Goto, Classify, TypeOK, RequestOK, families, tokens, Open, InTx
  <2> QED
    BY <2>1, <2>2
<1>6. ASSUME NEW r \in Request, ReadFamily(r) PROVE TypeOK'
  <2>1. ASSUME NEW how \in Outcome, Finish(r, how) PROVE TypeOK'
    BY <1>6, <2>1, FinishType DEF ReadFamily, TypeOK, families, tokens
  <2>2. CASE UNCHANGED request
    BY <1>6, <2>2 DEF ReadFamily, Goto, Finish, TypeOK, RequestOK, families, tokens, request, Open, InTx
  <2> QED
    BY <1>6, <2>1, <2>2 DEF ReadFamily, Outcome
<1>7. ASSUME NEW r \in Request, NEW n \in Token, Consume(r, n) PROVE TypeOK'
  <2>1. presented[r] \in Token /\ family[presented[r]] \in Family /\ age[r] \in 0..MaxAge
    BY <1>7 DEF Consume, TypeOK, RequestOK, Open, InTx, MaxAge
  <2>2. ASSUME NEW q \in Request PROVE RequestOK(q)'
    BY <1>7, <2>1 DEF Consume, Mint, Unminted, Goto, TypeOK, RequestOK, Open, InTx
  <2>3. tail' \in [Family -> Nat]
    BY <1>7, <2>1 DEF Consume, TypeOK
  <2>4. consumed' \in [Token -> -1..MaxAge] /\ lag' \in [Token -> 0..RequestTimeout]
    BY <1>7, <2>1 DEF Consume, TypeOK, MaxAge
  <2> QED
    BY <1>7, <2>1, <2>2, <2>3, <2>4
    DEF Consume, Mint, Unminted, Goto, TypeOK, families, Open
<1>8. ASSUME NEW r \in Request, LoseRace(r) PROVE TypeOK'
  BY <1>8, FinishType DEF LoseRace, TypeOK, families, tokens, Outcome
<1>9. ASSUME NEW r \in Request, RevokeReused(r) PROVE TypeOK'
  BY <1>9, FinishType, RevokeType DEF RevokeReused, TypeOK, tokens, Outcome, Reason
<1>10. ASSUME NEW r \in Request, Respond(r) PROVE TypeOK'
  <2>1. known' \subseteq {t \in Token : family[t] \in Family}
    BY <1>10 DEF Respond, TypeOK, RequestOK, tokens
  <2> QED
    BY <1>10, <2>1, FinishType DEF Respond, TypeOK, families, tokens, Outcome
<1>11. ASSUME NEW r \in Request, Fail(r) PROVE TypeOK'
  BY <1>11, FinishType DEF Fail, TypeOK, families, tokens, Outcome
<1>12. ASSUME Tick PROVE TypeOK'
  <2>1. age' \in [Request -> 0..RequestTimeout]
    BY <1>12 DEF Tick, TypeOK
  <2>2. ttl' \in [Token -> 0..TTL]
    BY <1>12 DEF Tick, TypeOK
  <2>3. consumed' \in [Token -> -1..MaxAge]
    BY <1>12 DEF Tick, TypeOK, MaxAge
  <2>4. ASSUME NEW q \in Request PROVE RequestOK(q)'
    BY <1>12, <2>1, <2>4 DEF Tick, TypeOK, RequestOK
  <2> QED
    BY <1>12, <2>1, <2>2, <2>3, <2>4 DEF Tick, TypeOK, families
<1>13. ASSUME UNCHANGED vars PROVE TypeOK'
  BY <1>13 DEF vars, families, tokens, request, TypeOK, RequestOK
<1> QED
  BY <1>1, <1>2, <1>3, <1>4, <1>5, <1>6, <1>7, <1>8, <1>9, <1>10, <1>11, <1>12, <1>13
  DEF Next, Handle

\* The type invariant holds of every behaviour: tokens belong to sessions that
\* exist, and a request past its lookup has the row in hand.
THEOREM TypeCorrect == Spec => []TypeOK
<1>1. Init => TypeOK
  BY InitType
<1>2. TypeOK /\ [Next]_vars => TypeOK'
  BY NextType
<1> QED
  BY <1>1, <1>2, PTL DEF Spec
-----------------------------------------------------------------------------
(* Families do not fork. *)

\* Steps other than Login, Consume and Tick leave the token rows alone.
LEMMA RowsUntouched ==
    ASSUME UNCHANGED tokens PROVE ForkInv => (RowInv /\ LinearFamily)'
  BY DEF tokens, ForkInv, RowInv, LinearFamily, Live, Unminted, NotConsumed

\* Every step keeps a family linear: a login starts a family that had no token,
\* a rotation replaces the one unconsumed token by its successor.
LEMMA NextFork == ForkInv /\ [Next]_vars => ForkInv'
<1> SUFFICES ASSUME ForkInv, [Next]_vars PROVE (RowInv /\ LinearFamily)'
  BY NextType DEF ForkInv
<1> USE SessionAssumption
<1>1. ASSUME NEW f \in Family, NEW u \in User, NEW t \in Token, NEW answered \in BOOLEAN,
             Login(f, u, t, answered)
      PROVE  (RowInv /\ LinearFamily)'
  <2>1. \A x \in Token : family[x] # f
    BY <1>1 DEF Login, StartSession, ForkInv, TypeOK
  <2>2. RowInv'
    BY <1>1 DEF Login, StartSession, Mint, Unminted, ForkInv, RowInv, TypeOK
  <2>3. ASSUME NEW x \in Token, NEW y \in Token, Live(x)', Live(y)', family'[x] = family'[y]
        PROVE  x = y
    BY <1>1, <2>1, <2>3
    DEF Login, StartSession, Mint, Unminted, Live, ForkInv, LinearFamily, TypeOK
  <2>4. ASSUME NEW x \in Token, consumed'[x] # NotConsumed
        PROVE  replaced_by'[x] \in Token /\ family'[replaced_by'[x]] = family'[x]
    BY <1>1, <2>4
    DEF Login, StartSession, Mint, Unminted, ForkInv, RowInv, LinearFamily, TypeOK, NotConsumed
  <2>5. UNCHANGED replaced_by
    BY <1>1 DEF Login, StartSession
  <2> QED
    BY <2>2, <2>3, <2>4, <2>5 DEF LinearFamily, ForkInv, NotConsumed
<1>2. ASSUME NEW r \in Request, NEW n \in Token, Consume(r, n)
      PROVE  (RowInv /\ LinearFamily)'
  <2> DEFINE t == presented[r]
  <2>1. /\ t \in Token /\ family[t] \in Family /\ age[r] \in 0..RequestTimeout
        /\ consumed[t] = NotConsumed /\ family[n] = NoFamily /\ n # t
        /\ consumed[n] = NotConsumed
    BY <1>2 DEF Consume, Claimable, Unminted, ForkInv, RowInv, TypeOK, RequestOK, Open, InTx
  <2>2. /\ consumed' = [consumed EXCEPT ![t] = age[r]]
        /\ family' = [family EXCEPT ![n] = family[t]]
        /\ replaced_by' = [replaced_by EXCEPT ![t] = n]
    BY <1>2 DEF Consume, Mint
  <2> HIDE DEF t
  <2>3. RowInv'
    BY <2>1, <2>2 DEF Unminted, NotConsumed, ForkInv, RowInv, TypeOK
  <2>4. ASSUME NEW x \in Token, NEW y \in Token, Live(x)', Live(y)', family'[x] = family'[y]
        PROVE  x = y
    BY <2>1, <2>2, <2>4 DEF Live, NotConsumed, ForkInv, LinearFamily, TypeOK
  <2>5. ASSUME NEW x \in Token, consumed'[x] # NotConsumed
        PROVE  replaced_by'[x] \in Token /\ family'[replaced_by'[x]] = family'[x]
    BY <2>1, <2>2, <2>5 DEF NotConsumed, ForkInv, RowInv, LinearFamily, TypeOK
  <2>6. ASSUME NEW x \in Token, NEW y \in Token,
               replaced_by'[x] = replaced_by'[y], replaced_by'[x] \in Token
        PROVE  x = y
    BY <2>1, <2>2, <2>6 DEF ForkInv, RowInv, LinearFamily, TypeOK
  <2> QED
    BY <2>3, <2>4, <2>5, <2>6 DEF LinearFamily, NotConsumed
<1>3. ASSUME Tick PROVE (RowInv /\ LinearFamily)'
  <2>1. UNCHANGED <<family, replaced_by>>
    BY <1>3 DEF Tick
  <2>2. \A t \in Token : consumed'[t] = NotConsumed <=> consumed[t] = NotConsumed
    BY <1>3 DEF Tick, ForkInv, TypeOK, NotConsumed, MaxAge
  <2> QED
    BY <2>1, <2>2 DEF ForkInv, RowInv, LinearFamily, Live, Unminted, NotConsumed
<1>4. ASSUME UNCHANGED tokens PROVE (RowInv /\ LinearFamily)'
  BY <1>4, RowsUntouched
<1> QED
  BY <1>1, <1>2, <1>3, <1>4
  DEF Next, vars, Handle, Logout, LogoutAll, Present, Lookup, ReadFamily, LoseRace, RevokeReused,
      Respond, Fail

\* The empty tables are linear.
LEMMA InitFork == Init => ForkInv
  BY InitType, SessionAssumption DEF Init, ForkInv, RowInv, LinearFamily, Live, Unminted

\* A family never forks, whatever refreshes race on its tokens.
THEOREM FamiliesStayLinear == Spec => []LinearFamily
<1>1. Init => ForkInv
  BY InitFork
<1>2. ForkInv /\ [Next]_vars => ForkInv'
  BY NextFork
<1>3. ForkInv => LinearFamily
  BY DEF ForkInv
<1> QED
  BY <1>1, <1>2, <1>3, PTL DEF Spec
-----------------------------------------------------------------------------
(* Revocation. *)

\* A revocation only adds families to the revoked ones.
LEMMA RevokeGrows ==
    ASSUME NEW F, NEW why \in Reason, Revoke(F, why), NEW f \in Family,
           reason \in [Family -> Reason \cup {"none"}]
    PROVE  /\ Revoked(f) => reason'[f] = reason[f]
           /\ f \in F => reason'[f] # "none"
  BY DEF Revoke, Revoked, Reason

\* No step changes a reason that is set.
LEMMA NextReason ==
    TypeOK /\ [Next]_vars => \A f \in Family : Revoked(f) => reason'[f] = reason[f]
<1> SUFFICES ASSUME TypeOK, [Next]_vars, NEW f \in Family, Revoked(f)
             PROVE  reason'[f] = reason[f]
  OBVIOUS
<1>1. ASSUME NEW F, NEW why \in Reason, Revoke(F, why) PROVE reason'[f] = reason[f]
  BY <1>1, RevokeGrows DEF TypeOK
<1>2. CASE UNCHANGED reason
  BY <1>2
<1> QED
  BY <1>1, <1>2
  DEF Next, Handle, Login, StartSession, Logout, LogoutAll, Present, Lookup, ReadFamily, Consume,
      LoseRace, RevokeReused, Respond, Fail, Tick, vars, families, Reason

\* The first reason recorded for a revocation stands.
THEOREM ReasonsStand == Spec => FirstReasonStands
<1>1. TypeOK /\ [Next]_vars => [\A f \in Family : Revoked(f) => reason'[f] = reason[f]]_vars
  BY NextReason
<1> QED
  BY <1>1, TypeCorrect, PTL DEF Spec, FirstReasonStands

\* A step that starts no request towards consuming, mints no successor and takes
\* back no consumption or revocation keeps the tail.
LEMMA TailFrame ==
    ASSUME ForkInv, ForkInv', TailInv,
           UNCHANGED tail,
           \A f \in Family : Revoked(f) => reason'[f] # "none",
           \A t \in Token : consumed[t] # NotConsumed => consumed'[t] # NotConsumed,
           \A r \in Request : pc'[r] = "consume" =>
               /\ pc[r] = "consume" /\ presented'[r] = presented[r]
               /\ family'[presented[r]] = family[presented[r]]
    PROVE  TailInv'
<1> SUFFICES ASSUME NEW f \in Family
             PROVE  /\ tail'[f] <= 1
                    /\ ~Revoked(f)' => tail'[f] = 0
                    /\ tail'[f] > 0 => \A r \in Request :
                          pc'[r] = "consume" /\ family'[presented'[r]] = f =>
                              consumed'[presented'[r]] # NotConsumed
  BY DEF TailInv, NotConsumed
<1>1. tail'[f] <= 1 /\ (~Revoked(f)' => tail'[f] = 0)
  BY DEF TailInv, Revoked
<1>2. ASSUME tail'[f] > 0, NEW r \in Request, pc'[r] = "consume", family'[presented'[r]] = f
      PROVE  consumed'[presented'[r]] # NotConsumed
  <2>1. presented[r] \in Token
    BY <1>2 DEF ForkInv, TypeOK, RequestOK, Open, InTx
  <2> QED
    BY <1>2, <2>1 DEF TailInv
<1> QED
  BY <1>1, <1>2

\* Every step keeps the tail: a rotation in a revoked family consumes its only
\* unconsumed token, and no request reads the family as live any more.
LEMMA NextTail == ForkInv /\ ForkInv' /\ TailInv /\ [Next]_vars => TailInv'
<1> SUFFICES ASSUME ForkInv, ForkInv', TailInv, [Next]_vars PROVE TailInv'
  OBVIOUS
<1> USE SessionAssumption
<1>0. \A f \in Family : Revoked(f) => reason'[f] # "none"
  BY NextReason DEF ForkInv, Revoked
<1>1. ASSUME NEW f \in Family, NEW u \in User, NEW t \in Token, NEW answered \in BOOLEAN,
             Login(f, u, t, answered)
      PROVE  TailInv'
  <2>1. ASSUME NEW r \in Request, pc'[r] = "consume"
        PROVE  /\ pc[r] = "consume" /\ presented'[r] = presented[r]
               /\ family'[presented[r]] = family[presented[r]]
    BY <1>1, <2>1
    DEF Login, StartSession, Mint, Unminted, request, ForkInv, TypeOK, RequestOK, Open, InTx
  <2> QED
    BY <1>0, <1>1, <2>1, TailFrame DEF Login, StartSession
<1>2. ASSUME NEW r \in Request, ReadFamily(r) PROVE TailInv'
  <2>1. CASE MayRotate(r) /\ seen[r] = "fresh"
    <3>1. /\ presented[r] \in Token /\ family[presented[r]] \in Family
          /\ tail[family[presented[r]]] = 0
      BY <1>2, <2>1
      DEF ReadFamily, MayRotate, TailInv, ForkInv, TypeOK, RequestOK, Open, InTx
    <3>2. /\ UNCHANGED <<reason, family, consumed, presented, tail>>
          /\ pc' = [pc EXCEPT ![r] = "consume"]
      BY <1>2, <2>1 DEF ReadFamily, Goto, request, families, tokens
    <3> QED
      BY <3>1, <3>2 DEF TailInv, Revoked, ForkInv, TypeOK, NotConsumed
  <2>2. CASE ~(MayRotate(r) /\ seen[r] = "fresh")
    <3>1. ASSUME NEW q \in Request, pc'[q] = "consume"
          PROVE  pc[q] = "consume" /\ presented'[q] = presented[q]
      BY <1>2, <2>2, <3>1 DEF ReadFamily, Finish, Goto, request, ForkInv, TypeOK
    <3> QED
      BY <1>0, <1>2, <3>1, TailFrame DEF ReadFamily, families, tokens
  <2> QED
    BY <2>1, <2>2
<1>3. ASSUME NEW r \in Request, NEW n \in Token, Consume(r, n) PROVE TailInv'
  <2> DEFINE t == presented[r]
             f == family[t]
  <2>1. /\ t \in Token /\ f \in Family /\ age[r] \in 0..RequestTimeout
        /\ consumed[t] = NotConsumed /\ family[n] = NoFamily /\ tail[f] = 0
    BY <1>3
    DEF Consume, Claimable, Unminted, TailInv, ForkInv, TypeOK, RequestOK, Open, InTx
  <2>2. /\ consumed' = [consumed EXCEPT ![t] = age[r]]
        /\ family' = [family EXCEPT ![n] = f]
        /\ tail' = [tail EXCEPT ![f] = IF Revoked(f) THEN @ + 1 ELSE @]
        /\ pc' = [pc EXCEPT ![r] = "respond"]
        /\ UNCHANGED <<reason, presented>>
    BY <1>3 DEF Consume, Mint, Goto, families
  <2> HIDE DEF t, f
  <2>3. ASSUME NEW g \in Family PROVE tail'[g] <= 1 /\ (~Revoked(g)' => tail'[g] = 0)
    BY <2>1, <2>2 DEF TailInv, Revoked, ForkInv, TypeOK
  <2>4. ASSUME NEW g \in Family, tail'[g] > 0, NEW q \in Request,
               pc'[q] = "consume", family'[presented'[q]] = g
        PROVE  consumed'[presented'[q]] # NotConsumed
    <3>1. /\ presented[q] \in Token /\ family[presented[q]] = g
          /\ pc[q] = "consume" /\ presented'[q] = presented[q]
      BY <2>1, <2>2, <2>4 DEF ForkInv, TypeOK, RequestOK, Open, InTx
    <3>2. CASE g = f
      <4>1. presented[q] # t => consumed[presented[q]] # NotConsumed
        BY <2>1, <3>1, <3>2 DEF f, t, ForkInv, LinearFamily, Live
      <4> QED
        BY <2>1, <2>2, <3>1, <4>1 DEF NotConsumed, ForkInv, TypeOK
    <3>3. CASE g # f
      <4>1. consumed[presented[q]] # NotConsumed
        BY <2>1, <2>2, <2>4, <3>1, <3>3 DEF TailInv, ForkInv, TypeOK
      <4> QED
        BY <2>1, <2>2, <3>1, <4>1 DEF NotConsumed, ForkInv, TypeOK
    <3> QED
      BY <3>2, <3>3
  <2> QED
    BY <2>3, <2>4 DEF TailInv, NotConsumed
<1>4. ASSUME NEW r \in Request, NEW how, Finish(r, how), UNCHANGED <<tokens, tail>> PROVE TailInv'
  <2>1. ASSUME NEW q \in Request, pc'[q] = "consume"
        PROVE  pc[q] = "consume" /\ presented'[q] = presented[q]
    BY <1>4, <2>1 DEF Finish, Goto, ForkInv, TypeOK
  <2> QED
    BY <1>0, <1>4, <2>1, TailFrame DEF tokens
<1>5. ASSUME NEW r \in Request, NEW t \in Token \cup {NoToken}, Present(r, t) PROVE TailInv'
  <2>1. ASSUME NEW q \in Request, pc'[q] = "consume"
        PROVE  pc[q] = "consume" /\ presented'[q] = presented[q]
    BY <1>5, <2>1 DEF Present, Goto, ForkInv, TypeOK
  <2> QED
    BY <1>0, <1>5, <2>1, TailFrame DEF Present, tokens
<1>6. ASSUME NEW r \in Request, Lookup(r), presented[r] # NoToken PROVE TailInv'
  <2>1. ASSUME NEW q \in Request, pc'[q] = "consume"
        PROVE  pc[q] = "consume" /\ presented'[q] = presented[q]
    BY <1>6, <2>1 DEF Lookup, Goto, ForkInv, TypeOK
  <2> QED
    BY <1>0, <1>6, <2>1, TailFrame DEF Lookup, tokens
<1>7. ASSUME Tick PROVE TailInv'
  <2>1. \A t \in Token : consumed[t] # NotConsumed => consumed'[t] # NotConsumed
    BY <1>7 DEF Tick, NotConsumed, MaxAge, ForkInv, TypeOK
  <2> QED
    BY <1>0, <1>7, <2>1, TailFrame DEF Tick
<1>8. ASSUME UNCHANGED <<tokens, pc, request, tail>> PROVE TailInv'
  BY <1>0, <1>8, TailFrame DEF tokens, request
<1> QED
  BY <1>1, <1>2, <1>3, <1>4, <1>5, <1>6, <1>7, <1>8
  DEF Next, Handle, Logout, LogoutAll, Lookup, LoseRace, RevokeReused, Respond, Fail, vars

\* After a revocation at most one rotation of the family commits.
THEOREM RevocationHolds == Spec => []OneRotationAfterRevocation
<1>1. Init => ForkInv /\ TailInv
  BY InitFork DEF Init, TailInv
<1>2. ForkInv /\ TailInv /\ [Next]_vars => (ForkInv /\ TailInv)'
  BY NextFork, NextTail
<1>3. ForkInv /\ TailInv => OneRotationAfterRevocation
  BY DEF TailInv, OneRotationAfterRevocation
<1> QED
  BY <1>1, <1>2, <1>3, PTL DEF Spec
-----------------------------------------------------------------------------
(* The window. *)

\* A request in flight that a step leaves alone keeps its window while its
\* token's row does, or is consumed by another request just now.
LEMMA WindowFrame ==
    ASSUME WindowInv, NEW q \in Request,
           UNCHANGED <<pc[q], presented[q], age[q], seen[q]>>,
           presented[q] \in Token =>
               \/ UNCHANGED <<consumed[presented[q]], lag[presented[q]]>>
               \/ /\ consumed[presented[q]] = NotConsumed
                  /\ consumed'[presented[q]] \in Nat
                  /\ lag'[presented[q]] = consumed'[presented[q]]
    PROVE  Window(q)'
<1> USE SessionAssumption
<1>1. Window(q) /\ RequestOK(q) /\ age[q] \in Nat
  BY DEF WindowInv, TypeOK
<1>2. CASE presented[q] \notin Token
  BY <1>1, <1>2 DEF Window, RequestOK, Open, InTx
<1>3. CASE presented[q] \in Token
  <2>1. consumed[presented[q]] \in Int /\ lag[presented[q]] \in Int
    BY <1>3 DEF WindowInv, TypeOK, MaxAge
  <2> QED
    BY <1>1, <1>3, <2>1 DEF Window, NotConsumed
<1> QED
  BY <1>2, <1>3

\* Every step keeps the windows.
LEMMA NextWindow == WindowInv /\ [Next]_vars => WindowInv'
<1> SUFFICES ASSUME WindowInv, [Next]_vars, NEW q \in Request PROVE Window(q)'
  BY NextType DEF WindowInv
<1> USE SessionAssumption
<1>0. TypeOK /\ TypeOK' /\ Window(q) /\ RequestOK(q)
  BY NextType DEF WindowInv, TypeOK
<1>1. ASSUME UNCHANGED <<consumed, lag, pc, presented, age, seen>> PROVE Window(q)'
  BY <1>1, WindowFrame
<1>2. ASSUME NEW r \in Request, NEW t \in Token \cup {NoToken}, Present(r, t) PROVE Window(q)'
  <2>1. CASE q = r
    BY <1>0, <1>2, <2>1 DEF Present, Goto, Window, TypeOK
  <2>2. CASE q # r
    BY <1>0, <1>2, <2>2, WindowFrame DEF Present, Goto, tokens, TypeOK
  <2> QED
    BY <2>1, <2>2
<1>3. ASSUME NEW r \in Request, NEW how, Finish(r, how), UNCHANGED tokens PROVE Window(q)'
  <2>1. CASE q = r
    BY <1>0, <1>3, <2>1 DEF Finish, Goto, Window, TypeOK
  <2>2. CASE q # r
    BY <1>0, <1>3, <2>2, WindowFrame DEF Finish, Goto, tokens, TypeOK
  <2> QED
    BY <2>1, <2>2
<1>4. ASSUME NEW r \in Request, Lookup(r), presented[r] # NoToken PROVE Window(q)'
  <2>1. CASE q = r
    <3>1. /\ consumed[presented[r]] \in Int /\ age[r] \in Int
          /\ pc'[r] = "family" /\ seen'[r] = Classify(r)
          /\ UNCHANGED <<consumed, presented, age>>
      BY <1>0, <1>4, <2>1 DEF Lookup, Goto, tokens, TypeOK, MaxAge
    <3> QED
      BY <2>1, <3>1 DEF Classify, ConsumedRecently, Window, NotConsumed
  <2>2. CASE q # r
    BY <1>0, <1>4, <2>2, WindowFrame DEF Lookup, Goto, tokens, TypeOK
  <2> QED
    BY <2>1, <2>2
<1>5. ASSUME NEW r \in Request, ReadFamily(r), UNCHANGED request PROVE Window(q)'
  <2>1. CASE q = r
    <3>1. CASE pc'[r] = "idle"
      BY <2>1, <3>1 DEF Window
    <3>2. CASE pc'[r] # "idle"
      <4>1. /\ pc[r] = "family"
            /\ \/ seen[r] = "stale" /\ pc'[r] = "revoke"
               \/ seen[r] = "fresh" /\ pc'[r] = "consume"
        BY <1>0, <1>5, <3>2 DEF ReadFamily, Finish, Goto, TypeOK
      <4> QED
        BY <1>0, <1>5, <2>1, <4>1 DEF ReadFamily, tokens, request, Window, NotConsumed
    <3> QED
      BY <3>1, <3>2
  <2>2. CASE q # r
    BY <1>0, <1>5, <2>2, WindowFrame DEF ReadFamily, Finish, Goto, request, tokens, TypeOK
  <2> QED
    BY <2>1, <2>2
<1>6. ASSUME NEW r \in Request, NEW n \in Token, Consume(r, n) PROVE Window(q)'
  <2>1. /\ presented[r] \in Token /\ age[r] \in Nat
        /\ consumed[presented[r]] = NotConsumed
        /\ consumed' = [consumed EXCEPT ![presented[r]] = age[r]]
        /\ lag' = [lag EXCEPT ![presented[r]] = age[r]]
        /\ pc' = [pc EXCEPT ![r] = "respond"]
        /\ UNCHANGED <<presented, age, seen>>
    BY <1>0, <1>6 DEF Consume, Claimable, Goto, TypeOK, RequestOK, Open, InTx
  <2>2. CASE q = r
    BY <1>0, <2>1, <2>2 DEF Window, NotConsumed, TypeOK
  <2>3. CASE q # r
    <3>1. UNCHANGED <<pc[q], presented[q], age[q], seen[q]>>
      BY <1>0, <2>1, <2>3 DEF TypeOK
    <3>2. ASSUME presented[q] \in Token
          PROVE  \/ UNCHANGED <<consumed[presented[q]], lag[presented[q]]>>
                 \/ /\ consumed[presented[q]] = NotConsumed
                    /\ consumed'[presented[q]] \in Nat
                    /\ lag'[presented[q]] = consumed'[presented[q]]
      BY <1>0, <2>1, <3>2 DEF TypeOK
    <3> QED
      BY <3>1, <3>2, WindowFrame
  <2> QED
    BY <2>2, <2>3
<1>7. ASSUME Tick PROVE Window(q)'
  <2>1. CASE pc[q] \notin {"family", "consume", "revoke", "respond"}
    BY <1>7, <2>1 DEF Tick, Window
  <2>2. CASE pc[q] \in {"family", "consume", "revoke", "respond"}
    <3> DEFINE t == presented[q]
    <3>1. /\ t \in Token /\ age[q] \in 0..RequestTimeout /\ age[q] < RequestTimeout
          /\ consumed[t] \in -1..MaxAge /\ lag[t] \in 0..RequestTimeout
      BY <1>0, <1>7, <2>2 DEF Tick, TypeOK, RequestOK, Open, InTx
    <3>2. /\ age'[q] = age[q] + 1
          /\ consumed'[t] = IF consumed[t] \in 0..(MaxAge - 1)
                            THEN consumed[t] + 1 ELSE consumed[t]
          /\ UNCHANGED <<pc, presented, seen, lag>>
      BY <1>7, <2>2, <3>1 DEF Tick, Open, InTx
    <3>3. /\ consumed'[t] = NotConsumed <=> consumed[t] = NotConsumed
          /\ consumed'[t] - age'[q] <= consumed[t] - age[q]
          /\ consumed[t] - age[q] > Grace => consumed'[t] - age'[q] > Grace
      BY <3>1, <3>2 DEF MaxAge, NotConsumed
    <3>4. consumed'[t] \in Int /\ age'[q] \in Int
      BY <3>1, <3>2 DEF MaxAge
    <3> HIDE DEF t
    <3>5. /\ consumed[t] - age[q] <= Grace => consumed'[t] - age'[q] <= Grace
          /\ consumed[t] - lag[t] <= age[q] => consumed'[t] - lag'[t] <= age'[q]
      BY <3>1, <3>2, <3>3, <3>4
    <3> QED
      BY <1>0, <3>2, <3>3, <3>5 DEF Window, NotConsumed, t
  <2> QED
    BY <2>1, <2>2
<1> QED
  BY <1>1, <1>2, <1>3, <1>4, <1>5, <1>6, <1>7
  DEF Next, Handle, Login, StartSession, Logout, LogoutAll, Lookup, ReadFamily, LoseRace,
      RevokeReused, Respond, Fail, vars, tokens, request

\* Initially no request has read anything.
LEMMA InitWindow == Init => WindowInv
  BY InitType DEF Init, WindowInv, Window

\* A session is ended for a replay only when the rotation had committed more than
\* Grace less the request timeout before the replaying request began.
THEOREM RetriesTolerated == Spec => []RetriesAreTolerated
<1>1. WindowInv => RetriesAreTolerated
  <2> SUFFICES ASSUME WindowInv, NEW r \in Request, pc[r] = "revoke"
               PROVE  consumed[presented[r]] - lag[presented[r]] - age[r] > Grace - RequestTimeout
    BY DEF RetriesAreTolerated
  <2>1. /\ consumed[presented[r]] \in Int /\ lag[presented[r]] \in 0..RequestTimeout
        /\ age[r] \in Int /\ consumed[presented[r]] - age[r] > Grace
    BY SessionAssumption DEF WindowInv, Window, TypeOK, RequestOK, Open, InTx, MaxAge
  <2> QED
    BY <2>1, SessionAssumption
<1> QED
  BY <1>1, InitWindow, NextWindow, PTL DEF Spec

\* A replay never ends with the session going on, unless the token had expired,
\* the request failed, or the revocation failed and is reported.
THEOREM ReplaysEndSessions == Spec => ReplayEndsSession
<1> DEFINE Over(r) == \/ reason'[family[presented[r]]] # "none"
                      \/ outcome'[r] \in {"expired", "error", "unrevoked"}
<1>1. ASSUME WindowInv, [Next]_vars, NEW r \in Request, IsReplay(r), pc'[r] = "idle"
      PROVE  Over(r)
  <2> USE SessionAssumption
  <2>0. /\ presented[r] \in Token /\ pc[r] \in Open
        /\ consumed[presented[r]] # NotConsumed
        /\ consumed[presented[r]] - age[r] > Grace
        /\ consumed[presented[r]] - lag[presented[r]] > age[r]
    BY <1>1 DEF IsReplay
  <2>1. /\ consumed[presented[r]] \in Int /\ age[r] \in Int /\ lag[presented[r]] \in Int
        /\ TypeOK /\ RequestOK(r) /\ Window(r)
    BY <1>1, <2>0 DEF WindowInv, TypeOK, MaxAge
  <2>2. family[presented[r]] \in Family
    BY <2>0, <2>1 DEF RequestOK
  <2>3. /\ pc[r] # "idle" /\ presented[r] # NoToken
        /\ ~(pc[r] = "family" /\ seen[r] = "recent")
        /\ pc[r] \notin {"consume", "respond"}
    BY <2>0, <2>1 DEF Window, Open, InTx
  <2>4. ASSUME ReadFamily(r) PROVE Over(r)
    <3>1. ~MayRotate(r)
      BY <1>1, <2>1, <2>3, <2>4 DEF ReadFamily, Goto, TypeOK
    <3> QED
      BY <2>1, <2>4, <3>1 DEF ReadFamily, MayRotate, Revoked, Finish, families, TypeOK
  <2>5. ASSUME RevokeReused(r) PROVE Over(r)
    BY <2>1, <2>2, <2>5, RevokeGrows DEF RevokeReused, TypeOK, Reason
  <2>6. ASSUME Fail(r) PROVE Over(r)
    BY <2>1, <2>6 DEF Fail, Finish, TypeOK
  <2>7. ~Lookup(r) /\ ~LoseRace(r) /\ ~Respond(r) /\ ~(\E n \in Token : Consume(r, n))
    BY <1>1, <2>1, <2>3 DEF Lookup, LoseRace, Respond, Consume, Goto, TypeOK
  <2>8. ASSUME NEW q \in Request, q # r, Handle(q) PROVE FALSE
    BY <1>1, <2>1, <2>3, <2>8
    DEF Handle, Lookup, ReadFamily, Consume, LoseRace, RevokeReused, Respond, Fail, Finish, Goto,
        TypeOK
  <2>9. ASSUME NEW q \in Request, NEW t, Present(q, t) PROVE FALSE
    BY <1>1, <2>1, <2>3, <2>9 DEF Present, Goto, TypeOK
  <2>10. pc' # pc
    BY <1>1, <2>3
  <2>11. Handle(r)
    BY <1>1, <2>8, <2>9, <2>10 DEF Next, Login, Logout, LogoutAll, Tick, vars
  <2> QED
    BY <2>4, <2>5, <2>6, <2>7, <2>11 DEF Handle
<1>2. WindowInv /\ [Next]_vars => [\A r \in Request : IsReplay(r) /\ pc'[r] = "idle" => Over(r)]_vars
  BY <1>1
<1> QED
  BY <1>2, InitWindow, NextWindow, PTL DEF Spec, ReplayEndsSession
=============================================================================
