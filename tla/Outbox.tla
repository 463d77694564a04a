------------------------------- MODULE Outbox -------------------------------
(***************************************************************************)
(* The transactional outbox of internal/webhook: endpoints are registered  *)
(* and changed, an event is fanned out to one row per subscribed endpoint, *)
(* and worker processes claim rows under a lease, send them and settle     *)
(* them.  Every SQL transaction is one step, except Claim, whose statement *)
(* is split between the rows it locks and the rows it updates.             *)
(*                                                                         *)
(* Instants are kept relative to the clock: next_at and lease_expires_at   *)
(* hold the number of ticks until that instant, and Tick decrements them.  *)
(***************************************************************************)
EXTENDS Integers, Sequences, FiniteSets

CONSTANTS
    Worker,           \* worker processes
    Endpoint,         \* endpoints tenants may register
    Occurrence,       \* occurrences of events (one Enqueue call each)
    EventName,        \* the event catalogue, Events in webhook.go
    NoDue,            \* "no delivery in hand"
    BatchSize,        \* rows one Claim leases at most
    MaxAttempts,      \* attempts before a failure is final
    LeaseDuration,    \* ticks a claim owns its rows
    DeliveryTimeout,  \* ticks one request may take
    Schedule,         \* backoffSchedule, in ticks
    Stall,            \* TRUE: a process may be paused between any two steps
    MaxOverdue,       \* bound: rows overdue longer than this are not ordered
    AttemptBound,     \* bound: a row is not claimed beyond this many times
    MaxReplays,       \* bound: replays of one row
    MaxFaults         \* bound: crashes, signals and database errors

Row == Occurrence \X Endpoint
RowState == {"absent", "pending", "delivering", "delivered", "dead"}

\* What a worker holds of a claimed row.  gen is a history value, the row's
\* replay count when it was claimed; the code carries row and attempt.
Due == [row : Row, attempt : Nat, gen : Nat]

ASSUME OutboxAssumption ==
    /\ IsFiniteSet(Worker)
    /\ BatchSize \in Nat \ {0}
    /\ MaxAttempts \in Nat \ {0}
    /\ LeaseDuration \in Nat \ {0}
    /\ DeliveryTimeout \in Nat
    /\ Schedule \in Seq(Nat \ {0}) /\ Schedule # <<>>
    /\ Stall \in BOOLEAN
    /\ MaxOverdue \in Nat
    /\ AttemptBound \in Nat /\ MaxReplays \in Nat /\ MaxFaults \in Nat
    /\ NoDue \notin Due

VARIABLES
    endpoints,   \* webhook_endpoints
    emitted,     \* occurrences already enqueued
    outbox,      \* webhook_outbox
    locked,      \* rows an open Claim statement has locked, per worker
    pc,          \* where a worker process is
    batch,       \* claimed rows the worker has yet to attempt
    due,         \* the row being attempted
    result,      \* the attempt's Result
    budget,      \* ticks left of the attempt's deadline
    cancelled,   \* the process context is cancelled (SIGTERM)
    turn,        \* history: deliveries begun of the batch in hand
    received,    \* rows whose event the receiver has acted on
    leaseLost,   \* the lease_lost count of a row, WebhookAttempts
    faults       \* faults so far

tables  == <<endpoints, emitted, outbox>>
process == <<pc, batch, due, result, budget, cancelled, turn>>
counts  == <<leaseLost, faults>>
vars    == <<tables, locked, process, received, counts>>
-----------------------------------------------------------------------------
(* Endpoints and fan-out: the API side. *)

\* The columns of webhook_outbox; the lease is -1 where the column is NULL.
Delivery(state, attempts, replays, next_at, lease) ==
    [state |-> state, attempts |-> attempts, replays |-> replays,
     next_at |-> next_at, lease |-> lease]

AbsentRow == Delivery("absent", 0, 0, 0, -1)
FreshRow  == Delivery("pending", 0, 0, 0, -1)

\* A registration is active from the start; nothing ever deletes it.
CreateEndpoint(e, evs) ==
    /\ ~endpoints[e].registered
    /\ endpoints' = [endpoints EXCEPT ![e] =
                       [registered |-> TRUE, active |-> TRUE, events |-> evs]]
    /\ UNCHANGED <<emitted, outbox, locked, process, received, counts>>

\* COALESCE: either field may be left as it was.
UpdateEndpoint(e, evs, on) ==
    /\ endpoints[e].registered
    /\ endpoints' = [endpoints EXCEPT ![e] =
                       [registered |-> TRUE, active |-> on, events |-> evs]]
    /\ UNCHANGED <<emitted, outbox, locked, process, received, counts>>

Subscribed(ev) ==
    {e \in Endpoint : /\ endpoints[e].registered
                      /\ endpoints[e].active
                      /\ ev \in endpoints[e].events}

\* One INSERT ... SELECT in the caller's transaction; a caller that rolls
\* back leaves no row, which is no step here.
Enqueue(o, ev) ==
    /\ o \notin emitted
    /\ emitted' = emitted \cup {o}
    /\ outbox' = [r \in Row |-> IF r[1] = o /\ r[2] \in Subscribed(ev)
                                THEN FreshRow ELSE outbox[r]]
    /\ UNCHANGED <<endpoints, locked, process, received, counts>>

\* Replay touches dead rows only, and starts the attempt count over.
ReplayedRow(row) ==
    Delivery("pending", 0, row.replays + 1, 0, -1)

\* Mutant: a delivered row may be replayed as well.
ReplayAny(r) ==
    /\ outbox[r].state \in {"dead", "delivered"}
    /\ outbox[r].replays < MaxReplays
    /\ outbox' = [outbox EXCEPT ![r] = ReplayedRow(@)]
    /\ UNCHANGED <<endpoints, emitted, locked, process, received, counts>>

Replay(r) ==
    /\ outbox[r].state = "dead"
    /\ outbox[r].replays < MaxReplays
    /\ outbox' = [outbox EXCEPT ![r] = ReplayedRow(@)]
    /\ UNCHANGED <<endpoints, emitted, locked, process, received, counts>>
-----------------------------------------------------------------------------
(* Claim. *)

\* Mutant: a lapsed lease is never reclaimed.
IsDuePending(r) == outbox[r].state = "pending" /\ outbox[r].next_at <= 0

IsDue(r) ==
    \/ outbox[r].state = "pending" /\ outbox[r].next_at <= 0
    \/ outbox[r].state = "delivering" /\ outbox[r].lease < 0

Locked == UNION {locked[w] : w \in Worker}

\* FOR UPDATE SKIP LOCKED: rows another open statement holds are passed over.
Claimable ==
    {r \in Row : IsDue(r) /\ r \notin Locked /\ outbox[r].attempts < AttemptBound}

\* ORDER BY next_at LIMIT: the id that breaks ties is random.
Batches(S) ==
    {B \in SUBSET S :
        /\ IsFiniteSet(B)
        /\ \A r \in B, s \in S \ B : outbox[r].next_at <= outbox[s].next_at
        /\ \/ B = S /\ Cardinality(S) <= BatchSize
           \/ Cardinality(B) = BatchSize}

ClaimSelect(w) ==
    /\ pc[w] = "idle" /\ ~cancelled[w]
    /\ \E B \in Batches(Claimable) :
          /\ B # {}
          /\ locked' = [locked EXCEPT ![w] = B]
    /\ pc' = [pc EXCEPT ![w] = "claiming"]
    /\ UNCHANGED <<tables, batch, due, result, budget, cancelled, turn, received,
                   counts>>

\* Mutants: the attempt is not counted; the lease covers one request exactly.
ClaimedRowUncounted(row) ==
    Delivery("delivering", row.attempts, row.replays, row.next_at, LeaseDuration)

ClaimedRowShortLease(row) ==
    Delivery("delivering", row.attempts + 1, row.replays, row.next_at, DeliveryTimeout)

ClaimedRow(row) ==
    Delivery("delivering", row.attempts + 1, row.replays, row.next_at, LeaseDuration)

\* UPDATE ... RETURNING and commit.  The endpoint row is joined for its URL
\* and secret; whether it is still active is not looked at.
ClaimUpdate(w) ==
    /\ pc[w] = "claiming"
    /\ outbox' = [r \in Row |-> IF r \in locked[w] THEN ClaimedRow(outbox[r]) ELSE outbox[r]]
    /\ batch' = [batch EXCEPT ![w] =
                   {[row |-> r, attempt |-> outbox[r].attempts + 1,
                     gen |-> outbox[r].replays] : r \in locked[w]}]
    /\ locked' = [locked EXCEPT ![w] = {}]
    /\ turn' = [turn EXCEPT ![w] = 0]
    /\ pc' = [pc EXCEPT ![w] = "polling"]
    /\ UNCHANGED <<endpoints, emitted, due, result, budget, cancelled, received, counts>>
-----------------------------------------------------------------------------
(* One attempt: Deliver, then Settle. *)

\* poll's loop is serial; RETURNING has no order, so any claimed row is next.
BeginDelivery(w) ==
    /\ pc[w] = "polling" /\ ~cancelled[w]
    /\ \E d \in batch[w] :
          /\ due' = [due EXCEPT ![w] = d]
          /\ batch' = [batch EXCEPT ![w] = @ \ {d}]
    /\ pc' = [pc EXCEPT ![w] = "sending"]
    /\ budget' = [budget EXCEPT ![w] = DeliveryTimeout]
    /\ turn' = [turn EXCEPT ![w] = @ + 1]
    /\ UNCHANGED <<tables, locked, result, cancelled, received, counts>>

\* The receiver may act on the event and its answer still be lost; only a 2xx
\* that arrives is a success.  A cancelled context makes every Result an error.
Deliver(w, acted, acked) ==
    /\ pc[w] = "sending"
    /\ acked => acted /\ ~cancelled[w]
    /\ result' = [result EXCEPT ![w] = acked]
    /\ received' = IF acted THEN received \cup {due[w].row} ELSE received
    /\ pc' = [pc EXCEPT ![w] = "settling"]
    /\ budget' = [budget EXCEPT ![w] = 0]
    /\ UNCHANGED <<tables, locked, batch, due, cancelled, turn, counts>>

\* NominalBackoff and NextDelay: half to all of the scheduled delay.
NominalBackoff(failed) ==
    IF failed <= 0 THEN 0
    ELSE IF failed <= Len(Schedule) THEN Schedule[failed]
    ELSE Schedule[Len(Schedule)]

\* Mutant: one attempt too many.
RetryRemainsOnce(failed) == failed <= MaxAttempts

RetryRemains(failed) == failed < MaxAttempts

NextDelay(failed) ==
    {d \in 0..NominalBackoff(failed) : 2 * d >= NominalBackoff(failed)}

\* Mutant: the fencing token is not compared.
LeaseHeldUnfenced(d) ==
    outbox[d.row].state = "delivering" /\ outbox[d.row].lease > 0

\* The predicate every UPDATE of Settle carries.
LeaseHeld(d) ==
    /\ outbox[d.row].state = "delivering"
    /\ outbox[d.row].lease > 0
    /\ outbox[d.row].attempts = d.attempt

\* What Settle writes.
SettledRow(row, state, wait) ==
    Delivery(state, row.attempts, row.replays, wait, -1)

\* The attempt is over: on to the rest of the batch.
NextInBatch(w) ==
    /\ pc' = [pc EXCEPT ![w] = "polling"]
    /\ due' = [due EXCEPT ![w] = NoDue]
    /\ result' = [result EXCEPT ![w] = FALSE]
    /\ UNCHANGED <<endpoints, emitted, locked, batch, budget, cancelled, turn, received>>

\* Settle runs in the process context and waits for a row a Claim has locked.
CanSettle(w) ==
    pc[w] = "settling" /\ ~cancelled[w] /\ due[w].row \notin Locked

SettleDelivered(w) ==
    /\ CanSettle(w) /\ LeaseHeld(due[w]) /\ result[w]
    /\ outbox' = [outbox EXCEPT ![due[w].row] = SettledRow(@, "delivered", 0)]
    /\ NextInBatch(w) /\ UNCHANGED counts

SettleRetry(w) ==
    /\ CanSettle(w) /\ LeaseHeld(due[w]) /\ ~result[w] /\ RetryRemains(due[w].attempt)
    /\ \E delay \in NextDelay(due[w].attempt) :
          outbox' = [outbox EXCEPT ![due[w].row] = SettledRow(@, "pending", delay)]
    /\ NextInBatch(w) /\ UNCHANGED counts

SettleDead(w) ==
    /\ CanSettle(w) /\ LeaseHeld(due[w]) /\ ~result[w] /\ ~RetryRemains(due[w].attempt)
    /\ outbox' = [outbox EXCEPT ![due[w].row] = SettledRow(@, "dead", 0)]
    /\ NextInBatch(w) /\ UNCHANGED counts

\* No row matched: LeaseLostError, the row is left to whoever holds it.
SettleLeaseLost(w) ==
    /\ CanSettle(w) /\ ~LeaseHeld(due[w])
    /\ leaseLost' = [leaseLost EXCEPT ![due[w].row] = @ + 1]
    /\ NextInBatch(w) /\ UNCHANGED <<outbox, faults>>

Fault == faults < MaxFaults /\ faults' = faults + 1

\* The database refuses the settle: logged, the row keeps its lease.
SettleError(w) ==
    /\ pc[w] = "settling" /\ ~cancelled[w] /\ Fault
    /\ NextInBatch(w) /\ UNCHANGED <<outbox, leaseLost>>

PollDone(w) ==
    /\ pc[w] = "polling" /\ batch[w] = {} /\ ~cancelled[w]
    /\ pc' = [pc EXCEPT ![w] = "idle"]
    /\ UNCHANGED <<tables, locked, batch, due, result, budget, cancelled, turn, received,
                   counts>>
-----------------------------------------------------------------------------
(* Process life cycle. *)

LoseProcess(w) ==
    /\ pc' = [pc EXCEPT ![w] = "stopped"]
    /\ batch' = [batch EXCEPT ![w] = {}]
    /\ due' = [due EXCEPT ![w] = NoDue]
    /\ result' = [result EXCEPT ![w] = FALSE]
    /\ budget' = [budget EXCEPT ![w] = 0]
    /\ cancelled' = [cancelled EXCEPT ![w] = FALSE]
    /\ turn' = [turn EXCEPT ![w] = 0]
    /\ locked' = [locked EXCEPT ![w] = {}]

\* An open transaction rolls back; a committed claim stays until it lapses.
Crash(w) ==
    /\ pc[w] # "stopped" /\ Fault
    /\ LoseProcess(w)
    /\ UNCHANGED <<tables, received, leaseLost>>

\* SIGTERM cancels the context Claim, Deliver and Settle all run in.
Sigterm(w) ==
    /\ pc[w] # "stopped" /\ ~cancelled[w] /\ Fault
    /\ cancelled' = [cancelled EXCEPT ![w] = TRUE]
    /\ UNCHANGED <<tables, locked, pc, batch, due, result, budget, turn, received, leaseLost>>

\* Whatever is still to send or settle fails at once on the cancelled context
\* and Run returns.  A request already out goes through Deliver first.
Drain(w) ==
    /\ cancelled[w] /\ pc[w] \in {"idle", "claiming", "polling", "settling"}
    /\ LoseProcess(w)
    /\ UNCHANGED <<tables, received, counts>>

Restart(w) ==
    /\ pc[w] = "stopped"
    /\ pc' = [pc EXCEPT ![w] = "idle"]
    /\ UNCHANGED <<tables, locked, batch, due, result, budget, cancelled, turn, received,
                   counts>>
-----------------------------------------------------------------------------
(* Time. *)

\* Unless processes may stall, time passes only while a worker waits for a
\* receiver, within the request's deadline, or has nothing in hand.
TimeMayPass ==
    /\ \A w \in Worker : pc[w] # "claiming"
    /\ \/ Stall
       \/ \A w \in Worker : \/ pc[w] \in {"idle", "stopped"}
                            \/ pc[w] = "sending" /\ budget[w] > 0

Aged(row) ==
    Delivery(row.state, row.attempts, row.replays,
             IF row.next_at > -MaxOverdue THEN row.next_at - 1 ELSE row.next_at,
             IF row.lease > -1 THEN row.lease - 1 ELSE -1)

Tick ==
    /\ TimeMayPass
    /\ outbox' = [r \in Row |-> IF outbox[r].state \in {"pending", "delivering"}
                                THEN Aged(outbox[r]) ELSE outbox[r]]
    /\ budget' = [w \in Worker |-> IF budget[w] > 0 THEN budget[w] - 1 ELSE 0]
    /\ UNCHANGED <<endpoints, emitted, locked, pc, batch, due, result, cancelled,
                   turn, received, counts>>
-----------------------------------------------------------------------------
Init ==
    /\ endpoints = [e \in Endpoint |-> [registered |-> FALSE, active |-> FALSE, events |-> {}]]
    /\ emitted = {}
    /\ outbox = [r \in Row |-> AbsentRow]
    /\ locked = [w \in Worker |-> {}]
    /\ pc = [w \in Worker |-> "idle"]
    /\ batch = [w \in Worker |-> {}]
    /\ due = [w \in Worker |-> NoDue]
    /\ result = [w \in Worker |-> FALSE]
    /\ budget = [w \in Worker |-> 0]
    /\ cancelled = [w \in Worker |-> FALSE]
    /\ turn = [w \in Worker |-> 0]
    /\ received = {}
    /\ leaseLost = [r \in Row |-> 0]
    /\ faults = 0

\* The steps of a process that runs normally.
Work(w) ==
    \/ ClaimSelect(w) \/ ClaimUpdate(w)
    \/ BeginDelivery(w)
    \/ \E acted, acked \in BOOLEAN : Deliver(w, acted, acked)
    \/ SettleDelivered(w) \/ SettleRetry(w) \/ SettleDead(w) \/ SettleLeaseLost(w)
    \/ PollDone(w) \/ Drain(w) \/ Restart(w)

Next ==
    \/ \E e \in Endpoint, evs \in SUBSET EventName \ {{}} :
          \/ CreateEndpoint(e, evs)
          \/ \E on \in BOOLEAN : UpdateEndpoint(e, evs, on)
    \/ \E o \in Occurrence, ev \in EventName : Enqueue(o, ev)
    \/ \E r \in Row : Replay(r)
    \/ \E w \in Worker : Work(w) \/ SettleError(w) \/ Crash(w) \/ Sigterm(w)
    \/ Tick

Spec == Init /\ [][Next]_vars

\* Worker processes run and are restarted by their supervisor, and time passes.
FairSpec == Spec /\ WF_vars(Tick) /\ \A w \in Worker : WF_vars(Work(w))
-----------------------------------------------------------------------------
(* Properties. *)

\* Every table, process and clock value keeps its type; next_at and the lease
\* stay within the ticks the schedule and the lease duration allow.
TypeOK ==
    /\ endpoints \in [Endpoint -> [registered : BOOLEAN, active : BOOLEAN,
                                   events : SUBSET EventName]]
    /\ emitted \subseteq Occurrence
    /\ outbox \in [Row -> [state : RowState, attempts : Nat, replays : Nat,
                           next_at : Int, lease : Int]]
    /\ locked \in [Worker -> SUBSET Row]
    /\ pc \in [Worker -> {"idle", "claiming", "polling", "sending", "settling", "stopped"}]
    /\ batch \in [Worker -> SUBSET Due]
    /\ due \in [Worker -> Due \cup {NoDue}]
    /\ result \in [Worker -> BOOLEAN]
    /\ budget \in [Worker -> Nat]
    /\ cancelled \in [Worker -> BOOLEAN]
    /\ turn \in [Worker -> Nat]
    /\ received \subseteq Row
    /\ leaseLost \in [Row -> Nat]
    /\ faults \in Nat

\* The claims a worker process is holding.
Held(w) == batch[w] \cup ({due[w]} \ {NoDue})

\* The fencing token works: a claim, named by its row, attempt number and
\* replay generation, is never in the hands of two worker processes
\* (Claim's attempts + 1, however leases lapse and processes die).
UniqueHolder ==
    \A v, w \in Worker : v # w => Held(v) \cap Held(w) = {}

\* A delivery is marked delivered only if the receiver has acted on the event
\* (Settle, Result.Succeeded), whichever worker's answer it was.
DeliveredWasReceived ==
    \A r \in Row : outbox[r].state = "delivered" => r \in received

\* d was claimed before e, on the same row.
OlderClaim(d, e) ==
    /\ d.row = e.row
    /\ d.gen < e.gen \/ (d.gen = e.gen /\ d.attempt < e.attempt)

\* No worker settles a row while another holds a newer claim on it ("a stale
\* settle carries the previous number and matches nothing", Settle).
FencedSettle ==
    [][\A v, w \in Worker :
          /\ pc[w] = "settling" /\ pc'[w] = "polling"
          /\ outbox'[due[w].row] # outbox[due[w].row]
          => \A e \in Held(v) : ~OlderClaim(due[w], e)]_vars

\* The same, but for a row replayed since the claim: Replay starts the attempt
\* numbers over, so across a replay the number no longer tells claims apart.
FencedUnlessReplayed ==
    [][\A v, w \in Worker :
          /\ pc[w] = "settling" /\ pc'[w] = "polling"
          /\ outbox'[due[w].row] # outbox[due[w].row]
          /\ due[w].gen = outbox[due[w].row].replays
          => \A e \in Held(v) : ~OlderClaim(due[w], e)]_vars

\* A row under a lease that has not lapsed is not claimed again, even by two
\* Claim statements that run at the same time (FOR UPDATE SKIP LOCKED).
LiveLeaseRespected ==
    [][\A r \in Row : outbox[r].state = "delivering" /\ outbox[r].lease >= 0
          => outbox'[r].attempts = outbox[r].attempts]_vars

\* Deliveries of a batch whose deadlines, one after the other, all fall within
\* the lease the batch was claimed under: with the shipped 60 s lease and 10 s
\* deadline, the first five of ten.
WithinLease(w) == turn[w] * DeliveryTimeout < LeaseDuration

\* A worker that does not stall still holds the lease of the row in hand if it has
\* come to that row in time ("Must exceed a worker's delivery timeout by a wide
\* margin, or a slow-but-alive worker has its row reclaimed underneath it",
\* LeaseDuration).  poll sends its batch serially under one lease, so the rows
\* after those have no such protection: nothing is said of them here, nor of a
\* replayed row, which such a late worker can still settle (FencedUnlessReplayed).
LeaseCoversTurn ==
    \A w \in Worker :
        /\ pc[w] \in {"sending", "settling"} /\ WithinLease(w)
        /\ outbox[due[w].row].replays = 0
        => LeaseHeld(due[w])

\* The running worker processes that hold a claim on r, a superseded one included.
Holders(r) == {w \in Worker : ~cancelled[w] /\ \E d \in Held(w) : d.row = r}

\* A row is attempted MaxAttempts times at most since it was last replayed, and
\* once more for each fault, for each lease_lost reported for it, and for each
\* worker that has yet to find out that it lost the lease.
AttemptBudget ==
    \A r \in Row :
        LET paid == MaxAttempts + faults + leaseLost[r] + Cardinality(Holders(r)) IN
        /\ outbox[r].attempts <= paid
        /\ outbox[r].state = "delivering" => outbox[r].attempts < paid

\* What the outbox promises whoever enqueues: see DeliveryPromise.
Promise == INSTANCE DeliveryPromise
    WITH status <- [r \in Row |-> IF outbox[r].state \in {"pending", "delivering"}
                                  THEN "open" ELSE outbox[r].state]

\* The outbox implements the promise: rows only open, finish after the receiver
\* acted, are given up, or are requeued from the dead letters.
KeepsPromise == Promise!Spec

\* Every enqueued delivery, and every replayed one, ends up delivered or dead.
EventuallySettled == Promise!Settles
=============================================================================
