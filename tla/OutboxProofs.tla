---------------------------- MODULE OutboxProofs ----------------------------
(***************************************************************************)
(* Proofs about Outbox, for every set of workers, endpoints and events and *)
(* every value of the timing constants.                                    *)
(***************************************************************************)
EXTENDS Outbox, FiniteSetTheorems, TLAPS

\* A worker has a delivery in hand exactly while it sends or settles one, and
\* claimed rows only while it polls.
ProcessInv ==
    /\ \A w \in Worker : pc[w] \in {"sending", "settling"} <=> due[w] # NoDue
    /\ \A w \in Worker : pc[w] \in {"idle", "claiming", "stopped"} => batch[w] = {}
    /\ \A w \in Worker : pc[w] # "claiming" => locked[w] = {}

\* Rows exist only for occurrences that were enqueued.
EmittedInv == \A r \in Row : outbox[r].state # "absent" => r[1] \in emitted

\* A held claim is on an existing row and is not from its future.
ClaimInv ==
    \A w \in Worker : \A d \in Held(w) :
        /\ outbox[d.row].state # "absent"
        /\ d.gen <= outbox[d.row].replays
        /\ d.gen = outbox[d.row].replays => d.attempt <= outbox[d.row].attempts

\* Open Claim statements lock disjoint sets of rows, all of them due.
LockInv ==
    /\ \A v, w \in Worker : v # w => locked[v] \cap locked[w] = {}
    /\ \A w \in Worker : \A r \in locked[w] : IsDue(r)

\* A success in hand, and a success on record, came from the receiver.
ReceivedInv ==
    /\ \A w \in Worker : result[w] => due[w] # NoDue /\ due[w].row \in received
    /\ DeliveredWasReceived

IInv == TypeOK /\ ProcessInv /\ EmittedInv /\ ClaimInv /\ LockInv /\ ReceivedInv /\ UniqueHolder
-----------------------------------------------------------------------------
\* The delays Settle may choose are natural numbers.
LEMMA NextDelayNat == \A n \in Nat : NextDelay(n) \subseteq Nat
<1>1. \A n \in Nat : NominalBackoff(n) \in Nat
  BY OutboxAssumption DEF NominalBackoff
<1> QED
  BY <1>1 DEF NextDelay

\* Initially every table, process and clock value has its type.
LEMMA InitType == Init => TypeOK
  BY OutboxAssumption DEF Init, TypeOK, AbsentRow, Delivery, RowState

\* Every step keeps the types.
LEMMA NextType == TypeOK /\ ProcessInv /\ [Next]_vars => TypeOK'
<1> SUFFICES ASSUME TypeOK, ProcessInv, [Next]_vars PROVE TypeOK'
  OBVIOUS
<1> USE OutboxAssumption DEF counts
<1>1. ASSUME NEW e \in Endpoint, NEW evs \in SUBSET EventName, CreateEndpoint(e, evs)
      PROVE  TypeOK'
  BY <1>1 DEF CreateEndpoint, TypeOK, process
<1>2. ASSUME NEW e \in Endpoint, NEW evs \in SUBSET EventName, NEW on \in BOOLEAN,
             UpdateEndpoint(e, evs, on)
      PROVE  TypeOK'
  BY <1>2 DEF UpdateEndpoint, TypeOK, process
<1>3. ASSUME NEW o \in Occurrence, NEW ev \in EventName, Enqueue(o, ev)
      PROVE  TypeOK'
  <2>1. FreshRow \in [state : RowState, attempts : Nat, replays : Nat, next_at : Int, lease : Int]
    BY DEF FreshRow, Delivery, RowState
  <2>2. outbox' \in [Row -> [state : RowState, attempts : Nat,
                            replays : Nat, next_at : Int, lease : Int]]
    BY <1>3, <2>1 DEF Enqueue, TypeOK
  <2>3. emitted' \subseteq Occurrence /\ UNCHANGED <<endpoints, process, locked, received, counts>>
    BY <1>3 DEF Enqueue, TypeOK
  <2> QED
    BY <2>2, <2>3 DEF TypeOK, process
<1>4. ASSUME NEW r \in Row, Replay(r)
      PROVE  TypeOK'
  <2>1. ReplayedRow(outbox[r])
            \in [state : RowState, attempts : Nat, replays : Nat, next_at : Int, lease : Int]
    BY DEF TypeOK, ReplayedRow, Delivery, RowState
  <2> QED
    BY <1>4, <2>1 DEF Replay, TypeOK, process
<1>5. ASSUME NEW w \in Worker, ClaimSelect(w)
      PROVE  TypeOK'
  <2>1. PICK B \in Batches(Claimable) : locked' = [locked EXCEPT ![w] = B]
    BY <1>5 DEF ClaimSelect
  <2>2. B \subseteq Row
    BY <2>1 DEF Batches, Claimable
  <2> QED
    BY <1>5, <2>1, <2>2 DEF ClaimSelect, TypeOK, tables
<1>6. ASSUME NEW w \in Worker, ClaimUpdate(w)
      PROVE  TypeOK'
  <2>1. \A r \in Row : ClaimedRow(outbox[r]) \in [state : RowState, attempts : Nat,
                            replays : Nat, next_at : Int, lease : Int]
    BY DEF TypeOK, ClaimedRow, Delivery, RowState
  <2>2. \A r \in locked[w] : [row |-> r, attempt |-> outbox[r].attempts + 1,
                              gen |-> outbox[r].replays] \in Due
    BY DEF TypeOK, Due
  <2>3. outbox' \in [Row -> [state : RowState, attempts : Nat,
                            replays : Nat, next_at : Int, lease : Int]]
    BY <1>6, <2>1 DEF ClaimUpdate, TypeOK
  <2>4. batch' \in [Worker -> SUBSET Due]
    BY <1>6, <2>2 DEF ClaimUpdate, TypeOK
  <2> QED
    BY <1>6, <2>3, <2>4 DEF ClaimUpdate, TypeOK
<1>7. ASSUME NEW w \in Worker, BeginDelivery(w)
      PROVE  TypeOK'
  BY <1>7 DEF BeginDelivery, TypeOK, tables
<1>8. ASSUME NEW w \in Worker, NEW acted \in BOOLEAN, NEW acked \in BOOLEAN,
             Deliver(w, acted, acked)
      PROVE  TypeOK'
  BY <1>8 DEF Deliver, TypeOK, tables, ProcessInv, Due
<1>9. ASSUME NEW w \in Worker, NextInBatch(w), NEW delay \in Nat,
             NEW state \in {"delivered", "pending", "dead"},
             outbox' = [outbox EXCEPT ![due[w].row] = SettledRow(@, state, delay)],
             UNCHANGED counts, pc[w] = "settling"
      PROVE  TypeOK'
  <2>1. due[w].row \in Row
    BY <1>9 DEF TypeOK, ProcessInv, Due
  <2>2. outbox' \in [Row -> [state : RowState, attempts : Nat,
                            replays : Nat, next_at : Int, lease : Int]]
    <3>1. SettledRow(outbox[due[w].row], state, delay)
              \in [state : RowState, attempts : Nat, replays : Nat, next_at : Int, lease : Int]
      BY <2>1 DEF TypeOK, SettledRow, Delivery, RowState
    <3> QED
      BY <1>9, <2>1, <3>1 DEF TypeOK
  <2>3. /\ pc' \in [Worker -> {"idle", "claiming", "polling", "sending", "settling", "stopped"}]
        /\ due' \in [Worker -> Due \cup {NoDue}]
        /\ result' \in [Worker -> BOOLEAN]
    BY <1>9 DEF NextInBatch, TypeOK
  <2>4. UNCHANGED <<endpoints, emitted, locked, batch, budget, cancelled, turn, received, counts>>
    BY <1>9 DEF NextInBatch
  <2> QED
    BY <2>2, <2>3, <2>4 DEF TypeOK
<1>10. ASSUME NEW w \in Worker, SettleDelivered(w)
       PROVE  TypeOK'
  BY <1>9, <1>10 DEF SettleDelivered, CanSettle
<1>11. ASSUME NEW w \in Worker, SettleRetry(w)
       PROVE  TypeOK'
  <2>1. due[w].attempt \in Nat
    BY <1>11 DEF SettleRetry, CanSettle, TypeOK, ProcessInv, Due
  <2>2. PICK delay \in NextDelay(due[w].attempt) :
             outbox' = [outbox EXCEPT ![due[w].row] = SettledRow(@, "pending", delay)]
    BY <1>11 DEF SettleRetry
  <2>3. delay \in Nat
    BY <2>1, <2>2, NextDelayNat
  <2> QED
    BY <1>9, <1>11, <2>2, <2>3 DEF SettleRetry, CanSettle
<1>12. ASSUME NEW w \in Worker, SettleDead(w)
       PROVE  TypeOK'
  BY <1>9, <1>12 DEF SettleDead, CanSettle
<1>13. ASSUME NEW w \in Worker, SettleLeaseLost(w) \/ SettleError(w)
       PROVE  TypeOK'
  <2>1. due[w].row \in Row
    BY <1>13 DEF SettleLeaseLost, SettleError, CanSettle, TypeOK, ProcessInv, Due
  <2>2. faults' \in Nat /\ leaseLost' \in [Row -> Nat] /\ outbox' = outbox /\ NextInBatch(w)
    <3>1. CASE SettleLeaseLost(w)
      BY <2>1, <3>1 DEF SettleLeaseLost, TypeOK
    <3>2. CASE SettleError(w)
      BY <3>2 DEF SettleError, Fault, TypeOK
    <3> QED
      BY <1>13, <3>1, <3>2
  <2> QED
    BY <2>2 DEF NextInBatch, TypeOK
<1>14. ASSUME NEW w \in Worker, PollDone(w) \/ Restart(w)
       PROVE  TypeOK'
  BY <1>14 DEF PollDone, Restart, TypeOK, tables
<1>15. ASSUME NEW w \in Worker, Crash(w) \/ Drain(w)
       PROVE  TypeOK'
  <2>1. faults' \in Nat /\ UNCHANGED <<tables, received, leaseLost>> /\ LoseProcess(w)
    BY <1>15 DEF Crash, Drain, Fault, TypeOK
  <2> QED
    BY <2>1 DEF LoseProcess, TypeOK, tables
<1>16. ASSUME NEW w \in Worker, Sigterm(w)
       PROVE  TypeOK'
  BY <1>16 DEF Sigterm, Fault, TypeOK, tables
<1>17. CASE Tick
  <2>1. \A r \in Row : Aged(outbox[r]) \in [state : RowState, attempts : Nat,
                            replays : Nat, next_at : Int, lease : Int]
    BY DEF TypeOK, Aged, Delivery
  <2>2. outbox' \in [Row -> [state : RowState, attempts : Nat,
                            replays : Nat, next_at : Int, lease : Int]]
    BY <1>17, <2>1 DEF Tick, TypeOK
  <2>3. budget' \in [Worker -> Nat]
    BY <1>17 DEF Tick, TypeOK
  <2> QED
    BY <1>17, <2>2, <2>3 DEF Tick, TypeOK
<1>18. CASE UNCHANGED vars
  BY <1>18 DEF vars, tables, process, TypeOK
<1> QED
  BY <1>1, <1>2, <1>3, <1>4, <1>5, <1>6, <1>7, <1>8, <1>10, <1>11, <1>12, <1>13,
     <1>14, <1>15, <1>16, <1>17, <1>18 DEF Next, Work

\* Every step keeps the process discipline.
LEMMA NextProcess == TypeOK /\ ProcessInv /\ [Next]_vars => ProcessInv'
<1> SUFFICES ASSUME TypeOK, ProcessInv, [Next]_vars PROVE ProcessInv'
  OBVIOUS
<1> USE OutboxAssumption DEF ProcessInv
<1>1. ASSUME UNCHANGED <<process, locked>>
      PROVE  ProcessInv'
  BY <1>1 DEF process
<1>2. ASSUME NEW w \in Worker, ClaimSelect(w) \/ ClaimUpdate(w)
      PROVE  ProcessInv'
  <2>1. CASE ClaimSelect(w)
    BY <2>1 DEF ClaimSelect, TypeOK
  <2>2. CASE ClaimUpdate(w)
    BY <2>2 DEF ClaimUpdate, TypeOK
  <2> QED
    BY <1>2, <2>1, <2>2
<1>3. ASSUME NEW w \in Worker, BeginDelivery(w)
      PROVE  ProcessInv'
  BY <1>3 DEF BeginDelivery, TypeOK
<1>4. ASSUME NEW w \in Worker, NEW acted \in BOOLEAN, NEW acked \in BOOLEAN,
             Deliver(w, acted, acked)
      PROVE  ProcessInv'
  BY <1>4 DEF Deliver, TypeOK
<1>5. ASSUME NEW w \in Worker, NextInBatch(w), pc[w] = "settling"
      PROVE  ProcessInv'
  BY <1>5 DEF NextInBatch, TypeOK
<1>6. ASSUME NEW w \in Worker, PollDone(w) \/ Restart(w)
      PROVE  ProcessInv'
  BY <1>6 DEF PollDone, Restart, TypeOK
<1>7. ASSUME NEW w \in Worker, LoseProcess(w)
      PROVE  ProcessInv'
  BY <1>7 DEF LoseProcess, TypeOK
<1>8. ASSUME NEW w \in Worker, Sigterm(w)
      PROVE  ProcessInv'
  BY <1>8 DEF Sigterm
<1>9. CASE Tick
  BY <1>9 DEF Tick
<1>10. ASSUME NEW w \in Worker, Work(w) \/ SettleError(w) \/ Crash(w) \/ Sigterm(w)
       PROVE  ProcessInv'
  BY <1>2, <1>3, <1>4, <1>5, <1>6, <1>7, <1>8, <1>10
     DEF Work, CanSettle, SettleDelivered, SettleRetry, SettleDead, SettleLeaseLost,
         SettleError, Drain, Crash
<1> QED
  BY <1>1, <1>9, <1>10 DEF Next, CreateEndpoint, UpdateEndpoint, Enqueue, Replay, vars

\* Type correctness of the outbox and its workers.
THEOREM TypeCorrect == Spec => []TypeOK
<1>1. Init => ProcessInv
  BY DEF Init, ProcessInv
<1> QED
  BY <1>1, InitType, NextType, NextProcess, PTL DEF Spec
-----------------------------------------------------------------------------
\* What Claim hands to the worker it runs for.
NewClaims(w) ==
    {[row |-> r, attempt |-> outbox[r].attempts + 1, gen |-> outbox[r].replays] : r \in locked[w]}

\* The rows a step can change, and how: rows nobody enqueued yet, dead rows,
\* the rows of one Claim, the row of one settled attempt, or all as time passes.
RowChange ==
    \/ outbox' = outbox
    \/ \E o \in Occurrence, ev \in EventName : Enqueue(o, ev)
    \/ \E r \in Row : Replay(r)
    \/ \E w \in Worker : ClaimUpdate(w)
    \/ \E w \in Worker, state \in {"delivered", "pending", "dead"}, delay \in Nat :
          /\ CanSettle(w) /\ LeaseHeld(due[w]) /\ NextInBatch(w)
          /\ state = "delivered" => result[w]
          /\ state = "pending" => RetryRemains(due[w].attempt)
          /\ outbox' = [outbox EXCEPT ![due[w].row] = SettledRow(@, state, delay)]
    \/ Tick

\* Every step changes rows in one of those ways.
LEMMA StepRows == TypeOK /\ ProcessInv /\ [Next]_vars => RowChange
<1> SUFFICES ASSUME TypeOK, ProcessInv, [Next]_vars PROVE RowChange
  OBVIOUS
<1>1. ASSUME NEW w \in Worker, SettleDelivered(w) \/ SettleDead(w) PROVE RowChange
  BY <1>1 DEF SettleDelivered, SettleDead, RowChange
<1>2. ASSUME NEW w \in Worker, SettleRetry(w) PROVE RowChange
  <2>1. due[w].attempt \in Nat
    BY <1>2 DEF SettleRetry, CanSettle, TypeOK, ProcessInv, Due
  <2>2. PICK delay \in NextDelay(due[w].attempt) :
             outbox' = [outbox EXCEPT ![due[w].row] = SettledRow(@, "pending", delay)]
    BY <1>2 DEF SettleRetry
  <2>3. delay \in Nat
    BY <2>1, <2>2, NextDelayNat
  <2> QED
    BY <1>2, <2>2, <2>3 DEF SettleRetry, RowChange
<1>3. ASSUME NEW w \in Worker, Work(w) \/ SettleError(w) \/ Crash(w) \/ Sigterm(w)
      PROVE  RowChange
  <2>1. CASE ClaimUpdate(w)
    BY <2>1 DEF RowChange
  <2>2. CASE ClaimSelect(w) \/ BeginDelivery(w)
    BY <2>2 DEF ClaimSelect, BeginDelivery, tables, RowChange
  <2>3. CASE \E acted, acked \in BOOLEAN : Deliver(w, acted, acked)
    BY <2>3 DEF Deliver, tables, RowChange
  <2>4. CASE SettleLeaseLost(w) \/ SettleError(w)
    BY <2>4 DEF SettleLeaseLost, SettleError, RowChange
  <2>5. CASE PollDone(w) \/ Drain(w) \/ Restart(w) \/ Crash(w) \/ Sigterm(w)
    BY <2>5 DEF PollDone, Drain, Restart, Crash, Sigterm, tables, RowChange
  <2> QED
    BY <1>1, <1>2, <1>3, <2>1, <2>2, <2>3, <2>4, <2>5 DEF Work
<1> QED
  BY <1>3 DEF Next, RowChange, CreateEndpoint, UpdateEndpoint, vars, tables

\* The row a worker settles is a row.
LEMMA DueRow ==
    ASSUME TypeOK, ProcessInv, NEW w \in Worker, pc[w] = "settling"
    PROVE  due[w] \in Due /\ due[w].row \in Row
  BY DEF TypeOK, ProcessInv, Due

\* A row that exists keeps existing, and its attempt number only grows between
\* two replays.
LEMMA RowsGrow ==
    ASSUME TypeOK, ProcessInv, EmittedInv, [Next]_vars,
           NEW r \in Row, outbox[r].state # "absent"
    PROVE  /\ outbox'[r].state # "absent"
           /\ outbox'[r].replays >= outbox[r].replays
           /\ outbox'[r].replays = outbox[r].replays => outbox'[r].attempts >= outbox[r].attempts
<1> DEFINE Grown == /\ outbox'[r].state # "absent"
                    /\ outbox'[r].replays >= outbox[r].replays
                    /\ outbox'[r].replays = outbox[r].replays
                          => outbox'[r].attempts >= outbox[r].attempts
<1>0. outbox[r].attempts \in Nat /\ outbox[r].replays \in Nat
  BY DEF TypeOK
<1>1. CASE outbox' = outbox
  BY <1>0, <1>1
<1>2. ASSUME NEW o \in Occurrence, NEW ev \in EventName, Enqueue(o, ev) PROVE Grown
  BY <1>0, <1>2 DEF Enqueue, EmittedInv
<1>3. ASSUME NEW s \in Row, Replay(s) PROVE Grown
  BY <1>0, <1>3 DEF Replay, ReplayedRow, Delivery, TypeOK
<1>4. ASSUME NEW w \in Worker, ClaimUpdate(w) PROVE Grown
  BY <1>0, <1>4 DEF ClaimUpdate, ClaimedRow, Delivery
<1>5. ASSUME NEW w \in Worker, NEW state \in {"delivered", "pending", "dead"}, NEW delay \in Nat,
             CanSettle(w),
             outbox' = [outbox EXCEPT ![due[w].row] = SettledRow(@, state, delay)]
      PROVE  Grown
  BY <1>0, <1>5 DEF SettledRow, Delivery, TypeOK
<1>6. CASE Tick
  BY <1>0, <1>6 DEF Tick, Aged, Delivery
<1>7. RowChange
  BY StepRows
<1> QED
  BY <1>1, <1>2, <1>3, <1>4, <1>5, <1>6, <1>7 DEF RowChange

\* A worker acquires claims through Claim only.
LEMMA HeldStep ==
    ASSUME TypeOK, ProcessInv, [Next]_vars, NEW w \in Worker
    PROVE  \/ Held(w)' \subseteq Held(w)
           \/ ClaimUpdate(w) /\ Held(w)' \subseteq NewClaims(w)
<1> DEFINE Goal == \/ Held(w)' \subseteq Held(w)
                   \/ ClaimUpdate(w) /\ Held(w)' \subseteq NewClaims(w)
<1>1. ASSUME batch'[w] = batch[w], due'[w] = due[w] PROVE Goal
  BY <1>1 DEF Held
<1>2. ASSUME NEW v \in Worker, ClaimUpdate(v) PROVE Goal
  <2>1. CASE v = w
    <3>1. due'[w] = NoDue
      BY <1>2, <2>1 DEF ClaimUpdate, ProcessInv
    <3>2. batch'[w] = NewClaims(w)
      BY <1>2, <2>1 DEF ClaimUpdate, NewClaims, TypeOK
    <3> QED
      BY <1>2, <2>1, <3>1, <3>2 DEF Held
  <2>2. CASE v # w
    BY <1>1, <1>2, <2>2 DEF ClaimUpdate, TypeOK
  <2> QED
    BY <2>1, <2>2
<1>3. ASSUME NEW v \in Worker, BeginDelivery(v) PROVE Goal
  BY <1>3 DEF BeginDelivery, Held, TypeOK
<1>4. ASSUME NEW v \in Worker, NextInBatch(v) PROVE Goal
  BY <1>4 DEF NextInBatch, Held, TypeOK
<1>5. ASSUME NEW v \in Worker, LoseProcess(v) PROVE Goal
  BY <1>5 DEF LoseProcess, Held, TypeOK
<1>6. ASSUME NEW v \in Worker, Work(v) \/ SettleError(v) \/ Crash(v) \/ Sigterm(v)
      PROVE  Goal
  <2>1. CASE ClaimSelect(v) \/ PollDone(v) \/ Restart(v) \/ Sigterm(v)
    BY <1>1, <2>1 DEF ClaimSelect, PollDone, Restart, Sigterm
  <2>2. CASE \E acted, acked \in BOOLEAN : Deliver(v, acted, acked)
    BY <1>1, <2>2 DEF Deliver
  <2>3. CASE SettleDelivered(v) \/ SettleRetry(v) \/ SettleDead(v)
             \/ SettleLeaseLost(v) \/ SettleError(v)
    BY <1>4, <2>3 DEF SettleDelivered, SettleRetry, SettleDead, SettleLeaseLost, SettleError
  <2>4. CASE Drain(v) \/ Crash(v)
    BY <1>5, <2>4 DEF Drain, Crash
  <2> QED
    BY <1>2, <1>3, <1>6, <2>1, <2>2, <2>3, <2>4 DEF Work
<1> QED
  BY <1>1, <1>6 DEF Next, CreateEndpoint, UpdateEndpoint, Enqueue, Replay, Tick, vars, process

\* Held claims stay behind the rows they were made on.
LEMMA NextClaim ==
    ASSUME TypeOK, ProcessInv, EmittedInv, ClaimInv, LockInv, [Next]_vars
    PROVE  ClaimInv'
<1> SUFFICES ASSUME NEW w \in Worker, NEW d \in Held(w)'
             PROVE  /\ outbox'[d.row].state # "absent"
                    /\ d.gen <= outbox'[d.row].replays
                    /\ d.gen = outbox'[d.row].replays => d.attempt <= outbox'[d.row].attempts
  BY DEF ClaimInv
<1>1. CASE d \in Held(w)
  <2>1. d \in Due /\ d.row \in Row /\ d.gen \in Nat /\ d.attempt \in Nat
    BY <1>1 DEF Held, TypeOK, Due
  <2>2. /\ outbox[d.row].state # "absent"
        /\ d.gen <= outbox[d.row].replays
        /\ d.gen = outbox[d.row].replays => d.attempt <= outbox[d.row].attempts
    BY <1>1 DEF ClaimInv
  <2>3. /\ outbox'[d.row].state # "absent"
        /\ outbox'[d.row].replays >= outbox[d.row].replays
        /\ outbox'[d.row].replays = outbox[d.row].replays
              => outbox'[d.row].attempts >= outbox[d.row].attempts
    BY <2>1, <2>2, RowsGrow
  <2>4. /\ outbox[d.row].attempts \in Nat /\ outbox[d.row].replays \in Nat
        /\ outbox'[d.row].attempts \in Nat /\ outbox'[d.row].replays \in Nat
    BY <2>1, NextType DEF TypeOK
  <2> QED
    BY <2>1, <2>2, <2>3, <2>4
<1>2. CASE ClaimUpdate(w) /\ d \in NewClaims(w)
  <2>1. PICK r \in locked[w] : d = [row |-> r, attempt |-> outbox[r].attempts + 1,
                                    gen |-> outbox[r].replays]
    BY <1>2 DEF NewClaims
  <2>2. r \in Row /\ outbox'[r] = ClaimedRow(outbox[r])
    BY <1>2, <2>1 DEF ClaimUpdate, TypeOK
  <2> QED
    BY <2>1, <2>2 DEF ClaimedRow, Delivery, TypeOK
<1> QED
  BY <1>1, <1>2, HeldStep

\* Claims stay in one pair of hands.
LEMMA NextUnique ==
    ASSUME TypeOK, ProcessInv, ClaimInv, UniqueHolder, [Next]_vars
    PROVE  UniqueHolder'
<1>1. ASSUME NEW v \in Worker, NEW w \in Worker, v # w, ClaimUpdate(v),
             NEW d \in NewClaims(v)
      PROVE  d \notin Held(w)'
  <2>1. Held(w)' = Held(w)
    BY <1>1 DEF ClaimUpdate, Held, TypeOK
  <2>2. PICK r \in locked[v] : d = [row |-> r, attempt |-> outbox[r].attempts + 1,
                                    gen |-> outbox[r].replays]
    BY <1>1 DEF NewClaims
  <2>3. r \in Row /\ outbox[r].attempts \in Nat
    BY <2>2 DEF TypeOK
  <2>4. d.row = r /\ d.gen = outbox[r].replays /\ d.attempt = outbox[r].attempts + 1
    BY <2>2
  <2>5. ~(d.attempt <= outbox[d.row].attempts)
    BY <2>3, <2>4
  <2> QED
    BY <2>1, <2>4, <2>5 DEF ClaimInv
<1> SUFFICES ASSUME NEW v \in Worker, NEW w \in Worker, v # w,
                    NEW d \in Held(v)', d \in Held(w)'
             PROVE  FALSE
  BY DEF UniqueHolder
<1>2. d \in Held(v) \/ (ClaimUpdate(v) /\ d \in NewClaims(v))
  <2>1. \/ Held(v)' \subseteq Held(v)
        \/ ClaimUpdate(v) /\ Held(v)' \subseteq NewClaims(v)
    BY HeldStep
  <2> QED
    BY <2>1
<1>3. d \in Held(w) \/ (ClaimUpdate(w) /\ d \in NewClaims(w))
  <2>1. \/ Held(w)' \subseteq Held(w)
        \/ ClaimUpdate(w) /\ Held(w)' \subseteq NewClaims(w)
    BY HeldStep
  <2> QED
    BY <2>1
<1> QED
  BY <1>1, <1>2, <1>3 DEF UniqueHolder

\* Rows still belong to enqueued occurrences only.
LEMMA NextEmitted ==
    ASSUME TypeOK, ProcessInv, EmittedInv, LockInv, [Next]_vars
    PROVE  EmittedInv'
<1> SUFFICES ASSUME NEW r \in Row, outbox'[r].state # "absent"
             PROVE  r[1] \in emitted'
  BY DEF EmittedInv
<1>1. emitted \subseteq emitted'
  BY DEF Next, Work, CreateEndpoint, UpdateEndpoint, Enqueue, Replay, ClaimSelect, ClaimUpdate,
         BeginDelivery, Deliver, SettleDelivered, SettleRetry, SettleDead, SettleLeaseLost,
         SettleError, NextInBatch, PollDone, Crash, Drain, Sigterm, Restart, Tick, tables, vars
<1>2. ASSUME outbox[r].state # "absent" PROVE r[1] \in emitted'
  BY <1>1, <1>2 DEF EmittedInv
<1>3. CASE outbox' = outbox
  BY <1>2, <1>3
<1>4. ASSUME NEW o \in Occurrence, NEW ev \in EventName, Enqueue(o, ev)
      PROVE  r[1] \in emitted'
  BY <1>2, <1>4 DEF Enqueue
<1>5. ASSUME NEW s \in Row, Replay(s)
      PROVE  r[1] \in emitted'
  BY <1>2, <1>5 DEF Replay, TypeOK
<1>6. ASSUME NEW w \in Worker, ClaimUpdate(w)
      PROVE  r[1] \in emitted'
  BY <1>2, <1>6 DEF ClaimUpdate, LockInv, IsDue
<1>7. ASSUME NEW w \in Worker, NEW state \in {"delivered", "pending", "dead"}, NEW delay \in Nat,
             LeaseHeld(due[w]),
             outbox' = [outbox EXCEPT ![due[w].row] = SettledRow(@, state, delay)]
      PROVE  r[1] \in emitted'
  BY <1>2, <1>7 DEF LeaseHeld, TypeOK
<1>8. CASE Tick
  BY <1>2, <1>8 DEF Tick
<1>9. RowChange
  BY StepRows
<1> QED
  BY <1>3, <1>4, <1>5, <1>6, <1>7, <1>8, <1>9 DEF RowChange

\* While a Claim statement holds a row locked, the row stays as it is.
LEMMA LockedRowsStay ==
    ASSUME TypeOK, ProcessInv, EmittedInv, LockInv, [Next]_vars,
           NEW w \in Worker, NEW r \in locked[w], ~ClaimUpdate(w)
    PROVE  outbox'[r] = outbox[r]
<1>0. r \in Row /\ pc[w] = "claiming" /\ IsDue(r)
  BY DEF TypeOK, ProcessInv, LockInv
<1>1. CASE outbox' = outbox
  BY <1>1
<1>2. ASSUME NEW o \in Occurrence, NEW ev \in EventName, Enqueue(o, ev)
      PROVE  outbox'[r] = outbox[r]
  BY <1>0, <1>2 DEF Enqueue, EmittedInv, IsDue
<1>3. ASSUME NEW s \in Row, Replay(s)
      PROVE  outbox'[r] = outbox[r]
  BY <1>0, <1>3 DEF Replay, IsDue, TypeOK
<1>4. ASSUME NEW v \in Worker, ClaimUpdate(v)
      PROVE  outbox'[r] = outbox[r]
  BY <1>0, <1>4 DEF ClaimUpdate, LockInv
<1>5. ASSUME NEW v \in Worker, NEW state \in {"delivered", "pending", "dead"}, NEW delay \in Nat,
             CanSettle(v),
             outbox' = [outbox EXCEPT ![due[v].row] = SettledRow(@, state, delay)]
      PROVE  outbox'[r] = outbox[r]
  BY <1>0, <1>5 DEF CanSettle, Locked, TypeOK
<1>6. CASE Tick
  BY <1>0, <1>6 DEF Tick, TimeMayPass
<1>7. RowChange
  BY StepRows
<1> QED
  BY <1>1, <1>2, <1>3, <1>4, <1>5, <1>6, <1>7 DEF RowChange

\* Only Claim's first half locks rows.
LEMMA LockStep ==
    ASSUME TypeOK, ProcessInv, [Next]_vars, NEW w \in Worker
    PROVE  \/ locked'[w] = {}
           \/ locked'[w] = locked[w] /\ ~ClaimUpdate(w)
           \/ /\ locked'[w] \subseteq Claimable /\ ~cancelled'[w]
              /\ outbox' = outbox
              /\ \A v \in Worker : v # w => locked'[v] = locked[v]
<1> DEFINE Goal == \/ locked'[w] = {}
                   \/ locked'[w] = locked[w] /\ ~ClaimUpdate(w)
                   \/ /\ locked'[w] \subseteq Claimable /\ ~cancelled'[w]
                      /\ outbox' = outbox
                      /\ \A v \in Worker : v # w => locked'[v] = locked[v]
<1>1. ASSUME locked'[w] = locked[w] PROVE Goal
  BY <1>1 DEF ClaimUpdate, TypeOK
<1>2. ASSUME NEW v \in Worker, ClaimSelect(v) PROVE Goal
  <2>1. PICK B \in Batches(Claimable) : locked' = [locked EXCEPT ![v] = B]
    BY <1>2 DEF ClaimSelect
  <2>2. B \subseteq Claimable /\ outbox' = outbox
    BY <1>2, <2>1 DEF ClaimSelect, Batches, tables
  <2>3. ~cancelled'[v]
    BY <1>2 DEF ClaimSelect
  <2> QED
    BY <1>1, <2>1, <2>2, <2>3 DEF TypeOK
<1>3. ASSUME NEW v \in Worker, ClaimUpdate(v) \/ LoseProcess(v) PROVE Goal
  BY <1>1, <1>3 DEF ClaimUpdate, LoseProcess, TypeOK
<1>4. ASSUME NEW v \in Worker, Work(v) \/ SettleError(v) \/ Crash(v) \/ Sigterm(v)
      PROVE  Goal
  <2>1. CASE BeginDelivery(v) \/ PollDone(v) \/ Restart(v) \/ Sigterm(v)
    BY <1>1, <2>1 DEF BeginDelivery, PollDone, Restart, Sigterm
  <2>2. CASE \E acted, acked \in BOOLEAN : Deliver(v, acted, acked)
    BY <1>1, <2>2 DEF Deliver
  <2>3. CASE SettleDelivered(v) \/ SettleRetry(v) \/ SettleDead(v)
             \/ SettleLeaseLost(v) \/ SettleError(v)
    BY <1>1, <2>3 DEF SettleDelivered, SettleRetry, SettleDead, SettleLeaseLost, SettleError,
                      NextInBatch
  <2>4. CASE Drain(v) \/ Crash(v)
    BY <1>3, <2>4 DEF Drain, Crash
  <2> QED
    BY <1>2, <1>3, <1>4, <2>1, <2>2, <2>3, <2>4 DEF Work
<1> QED
  BY <1>1, <1>4 DEF Next, CreateEndpoint, UpdateEndpoint, Enqueue, Replay, Tick, vars

\* Locked rows stay due, and locks stay disjoint.
LEMMA NextLock ==
    ASSUME TypeOK, ProcessInv, EmittedInv, LockInv, [Next]_vars
    PROVE  LockInv'
<1>1. ASSUME NEW w \in Worker, NEW r \in locked'[w] PROVE IsDue(r)'
  <2>1. CASE locked'[w] = locked[w] /\ ~ClaimUpdate(w)
    BY <1>1, <2>1, LockedRowsStay DEF LockInv, IsDue
  <2>2. CASE locked'[w] \subseteq Claimable /\ outbox' = outbox
    BY <1>1, <2>2 DEF Claimable, IsDue
  <2> QED
    BY <1>1, <2>1, <2>2, LockStep
<1>2. ASSUME NEW v \in Worker, NEW w \in Worker, v # w
      PROVE  locked'[v] \cap locked'[w] = {}
  <2> DEFINE Took(x) == /\ locked'[x] \subseteq Claimable
                        /\ \A y \in Worker : y # x => locked'[y] = locked[y]
  <2>1. locked'[v] = {} \/ locked'[v] = locked[v] \/ Took(v)
    BY LockStep
  <2>2. locked'[w] = {} \/ locked'[w] = locked[w] \/ Took(w)
    BY LockStep
  <2>3. locked[v] \cap Claimable = {} /\ locked[w] \cap Claimable = {}
    BY DEF Claimable, Locked
  <2>4. locked[v] \cap locked[w] = {}
    BY <1>2 DEF LockInv
  <2> QED
    BY <1>2, <2>1, <2>2, <2>3, <2>4
<1> QED
  BY <1>1, <1>2 DEF LockInv

\* Successes still come from the receiver.
LEMMA NextReceived ==
    ASSUME TypeOK, ProcessInv, EmittedInv, LockInv, ReceivedInv, [Next]_vars
    PROVE  ReceivedInv'
<1>1. received \subseteq received'
  BY DEF Next, Work, CreateEndpoint, UpdateEndpoint, Enqueue, Replay, ClaimSelect, ClaimUpdate,
         BeginDelivery, Deliver, SettleDelivered, SettleRetry, SettleDead, SettleLeaseLost,
         SettleError, NextInBatch, PollDone, Crash, Drain, Sigterm, Restart, Tick, vars
<1>2. ASSUME NEW r \in Row, outbox'[r].state = "delivered" PROVE r \in received'
  <2>1. ASSUME outbox[r].state = "delivered" PROVE r \in received'
    BY <1>1, <2>1 DEF ReceivedInv, DeliveredWasReceived
  <2>2. CASE outbox' = outbox
    BY <1>2, <2>1, <2>2
  <2>3. ASSUME NEW o \in Occurrence, NEW ev \in EventName, Enqueue(o, ev)
        PROVE  r \in received'
    BY <1>2, <2>1, <2>3 DEF Enqueue, FreshRow, Delivery
  <2>4. ASSUME NEW s \in Row, Replay(s) PROVE r \in received'
    BY <1>2, <2>1, <2>4 DEF Replay, ReplayedRow, Delivery, TypeOK
  <2>5. ASSUME NEW w \in Worker, ClaimUpdate(w) PROVE r \in received'
    BY <1>2, <2>1, <2>5 DEF ClaimUpdate, ClaimedRow, Delivery
  <2>6. ASSUME NEW w \in Worker, NEW state \in {"delivered", "pending", "dead"}, NEW delay \in Nat,
               CanSettle(w), state = "delivered" => result[w],
               outbox' = [outbox EXCEPT ![due[w].row] = SettledRow(@, state, delay)]
        PROVE  r \in received'
    <3>1. CASE r = due[w].row
      <4>1. state = "delivered"
        BY <1>2, <2>6, <3>1 DEF SettledRow, Delivery, TypeOK
      <4> QED
        BY <1>1, <2>6, <3>1, <4>1 DEF ReceivedInv
    <3>2. CASE r # due[w].row
      BY <1>2, <2>1, <2>6, <3>2 DEF TypeOK
    <3> QED
      BY <3>1, <3>2
  <2>7. CASE Tick
    BY <1>2, <2>1, <2>7 DEF Tick, Aged, Delivery
  <2>8. RowChange
    BY StepRows
  <2> QED
    BY <2>2, <2>3, <2>4, <2>5, <2>6, <2>7, <2>8 DEF RowChange
<1>3. ASSUME NEW w \in Worker, result'[w] PROVE due'[w] # NoDue /\ due'[w].row \in received'
  <2>1. ASSUME result'[w] = result[w], due'[w] = due[w]
        PROVE  due'[w] # NoDue /\ due'[w].row \in received'
    BY <1>1, <1>3, <2>1 DEF ReceivedInv
  <2>2. ASSUME NEW v \in Worker, BeginDelivery(v)
        PROVE  due'[w] # NoDue /\ due'[w].row \in received'
    <3>1. v # w
      BY <1>3, <2>2 DEF BeginDelivery, ReceivedInv, ProcessInv
    <3> QED
      BY <2>1, <2>2, <3>1 DEF BeginDelivery, TypeOK
  <2>3. ASSUME NEW v \in Worker, NEW acted \in BOOLEAN, NEW acked \in BOOLEAN,
               Deliver(v, acted, acked)
        PROVE  due'[w] # NoDue /\ due'[w].row \in received'
    BY <1>3, <2>1, <2>3 DEF Deliver, TypeOK, ProcessInv
  <2>4. ASSUME NEW v \in Worker, NextInBatch(v) \/ LoseProcess(v)
        PROVE  due'[w] # NoDue /\ due'[w].row \in received'
    BY <1>3, <2>1, <2>4 DEF NextInBatch, LoseProcess, TypeOK
  <2>5. ASSUME NEW v \in Worker, Work(v) \/ SettleError(v) \/ Crash(v) \/ Sigterm(v)
        PROVE  due'[w] # NoDue /\ due'[w].row \in received'
    <3>1. CASE ClaimSelect(v) \/ ClaimUpdate(v) \/ PollDone(v) \/ Restart(v) \/ Sigterm(v)
      BY <2>1, <3>1 DEF ClaimSelect, ClaimUpdate, PollDone, Restart, Sigterm
    <3>2. CASE SettleDelivered(v) \/ SettleRetry(v) \/ SettleDead(v)
               \/ SettleLeaseLost(v) \/ SettleError(v) \/ Drain(v) \/ Crash(v)
      BY <2>4, <3>2 DEF SettleDelivered, SettleRetry, SettleDead, SettleLeaseLost, SettleError,
                        Drain, Crash
    <3> QED
      BY <2>2, <2>3, <2>5, <3>1, <3>2 DEF Work
  <2> QED
    BY <2>1, <2>5 DEF Next, CreateEndpoint, UpdateEndpoint, Enqueue, Replay, Tick, vars, process
<1> QED
  BY <1>2, <1>3 DEF ReceivedInv, DeliveredWasReceived

\* The invariant holds initially.
LEMMA InitInv == Init => IInv
<1> SUFFICES ASSUME Init PROVE IInv
  OBVIOUS
<1>1. TypeOK /\ ProcessInv
  BY InitType DEF Init, ProcessInv
<1>2. EmittedInv /\ DeliveredWasReceived
  BY DEF Init, EmittedInv, DeliveredWasReceived, AbsentRow, Delivery
<1>3. \A w \in Worker : Held(w) = {}
  BY DEF Init, Held
<1> QED
  BY <1>1, <1>2, <1>3 DEF IInv, Init, ClaimInv, LockInv, ReceivedInv, UniqueHolder

\* Every step keeps the invariant.
LEMMA NextInv == IInv /\ [Next]_vars => IInv'
  BY NextType, NextProcess, NextEmitted, NextClaim, NextLock, NextReceived, NextUnique DEF IInv

\* The invariant of the outbox, for every set of workers and rows.
THEOREM Invariance == Spec => []IInv
  BY InitInv, NextInv, PTL DEF Spec

\* A claim is never in the hands of two worker processes.
THEOREM ClaimsAreUnique == Spec => []UniqueHolder
<1>1. IInv => UniqueHolder
  BY DEF IInv
<1> QED
  BY <1>1, Invariance, PTL

\* What is marked delivered was acted on by the receiver.
THEOREM DeliveredIsReceived == Spec => []DeliveredWasReceived
<1>1. IInv => DeliveredWasReceived
  BY DEF IInv, ReceivedInv
<1> QED
  BY <1>1, Invariance, PTL
-----------------------------------------------------------------------------
\* A worker that settled and changed its row held the lease as Settle sees it.
LEMMA SettleHeldLease ==
    ASSUME IInv, [Next]_vars, NEW w \in Worker, pc[w] = "settling", pc'[w] = "polling",
           outbox'[due[w].row] # outbox[due[w].row]
    PROVE  LeaseHeld(due[w])
<1> USE DEF IInv
<1>1. due[w].row \in Row
  BY DueRow
<1>2. ASSUME NEW v \in Worker, v # w, pc' = [pc EXCEPT ![v] = pc'[v]]
      PROVE  FALSE
  BY <1>2 DEF TypeOK
<1>3. CASE \E v \in Worker : LeaseHeld(due[v]) /\ NextInBatch(v)
  <2>1. PICK v \in Worker : LeaseHeld(due[v]) /\ NextInBatch(v)
    BY <1>3
  <2>2. v = w
    BY <1>2, <2>1 DEF NextInBatch, TypeOK
  <2> QED
    BY <2>1, <2>2
<1>4. ~ \E o \in Occurrence, ev \in EventName : Enqueue(o, ev)
  BY DEF Enqueue, process
<1>5. ~ \E r \in Row : Replay(r)
  BY DEF Replay, process
<1>6. ~ \E v \in Worker : ClaimUpdate(v)
  <2> SUFFICES ASSUME NEW v \in Worker, ClaimUpdate(v) PROVE FALSE
    OBVIOUS
  <2>1. v = w
    BY <1>2 DEF ClaimUpdate, TypeOK
  <2> QED
    BY <2>1 DEF ClaimUpdate
<1>7. ~Tick
  BY DEF Tick
<1>8. RowChange
  BY StepRows
<1> QED
  BY <1>3, <1>4, <1>5, <1>6, <1>7, <1>8 DEF RowChange

\* If w holds the lease of a row not replayed since w claimed it, no claim on
\* that row is newer than w's.
LEMMA HolderIsNewest ==
    ASSUME IInv, NEW v \in Worker, NEW w \in Worker, pc[w] = "settling", LeaseHeld(due[w]),
           due[w].gen = outbox[due[w].row].replays, NEW e \in Held(v)
    PROVE  ~OlderClaim(due[w], e)
<1>1. due[w] \in Due /\ e \in Due
  BY DueRow DEF IInv, TypeOK, Held
<1>2. /\ e.gen <= outbox[e.row].replays
      /\ e.gen = outbox[e.row].replays => e.attempt <= outbox[e.row].attempts
  BY DEF IInv, ClaimInv
<1> QED
  BY <1>1, <1>2 DEF OlderClaim, LeaseHeld, Due, IInv, TypeOK

\* The attempt number fences stale settles for as long as the row is not
\* replayed.
THEOREM FencingBetweenReplays == Spec => FencedUnlessReplayed
<1>1. ASSUME IInv, [Next]_vars, NEW v \in Worker, NEW w \in Worker,
             pc[w] = "settling", pc'[w] = "polling",
             outbox'[due[w].row] # outbox[due[w].row],
             due[w].gen = outbox[due[w].row].replays, NEW e \in Held(v)
      PROVE  ~OlderClaim(due[w], e)
  BY <1>1, SettleHeldLease, HolderIsNewest
<1>2. IInv /\ [Next]_vars =>
        [\A v, w \in Worker :
          /\ pc[w] = "settling" /\ pc'[w] = "polling"
          /\ outbox'[due[w].row] # outbox[due[w].row]
          /\ due[w].gen = outbox[due[w].row].replays
          => \A e \in Held(v) : ~OlderClaim(due[w], e)]_vars
  BY <1>1
<1> QED
  BY <1>2, Invariance, PTL DEF Spec, FencedUnlessReplayed

\* Where nothing is replayed, no stale settle ever matches.
THEOREM FencingWithoutReplay ==
    ASSUME MaxReplays = 0
    PROVE  Spec => FencedSettle
<1> DEFINE NoReplay == \A r \in Row : outbox[r].replays = 0
<1>1. Init => NoReplay
  BY DEF Init, AbsentRow, Delivery
<1>2. ASSUME IInv, NoReplay, [Next]_vars PROVE NoReplay'
  <2> SUFFICES ASSUME NEW r \in Row PROVE outbox'[r].replays = 0
    OBVIOUS
  <2>1. CASE outbox' = outbox
    BY <1>2, <2>1
  <2>2. ASSUME NEW o \in Occurrence, NEW ev \in EventName, Enqueue(o, ev)
        PROVE  outbox'[r].replays = 0
    BY <1>2, <2>2 DEF Enqueue, FreshRow, Delivery
  <2>3. ASSUME NEW s \in Row, Replay(s) PROVE outbox'[r].replays = 0
    BY <1>2, <2>3 DEF Replay
  <2>4. ASSUME NEW w \in Worker, ClaimUpdate(w) PROVE outbox'[r].replays = 0
    BY <1>2, <2>4 DEF ClaimUpdate, ClaimedRow, Delivery
  <2>5. ASSUME NEW w \in Worker, NEW state \in {"delivered", "pending", "dead"}, NEW delay \in Nat,
               outbox' = [outbox EXCEPT ![due[w].row] = SettledRow(@, state, delay)]
        PROVE  outbox'[r].replays = 0
    BY <1>2, <2>5 DEF SettledRow, Delivery, IInv, TypeOK
  <2>6. CASE Tick
    BY <1>2, <2>6 DEF Tick, Aged, Delivery
  <2>7. RowChange
    BY <1>2, StepRows DEF IInv
  <2> QED
    BY <2>1, <2>2, <2>3, <2>4, <2>5, <2>6, <2>7 DEF RowChange
<1>3. ASSUME IInv, NoReplay, [Next]_vars, NEW v \in Worker, NEW w \in Worker,
             pc[w] = "settling", pc'[w] = "polling",
             outbox'[due[w].row] # outbox[due[w].row], NEW e \in Held(v)
      PROVE  ~OlderClaim(due[w], e)
  <2>1. due[w] \in Held(w) /\ due[w] \in Due /\ due[w].row \in Row
    BY <1>3, DueRow DEF Held, IInv, ProcessInv
  <2>2. due[w].gen <= outbox[due[w].row].replays
    BY <1>3, <2>1 DEF IInv, ClaimInv
  <2>3. due[w].gen = outbox[due[w].row].replays
    BY <1>3, <2>1, <2>2 DEF Due
  <2> QED
    BY <1>3, <2>3, SettleHeldLease, HolderIsNewest
<1>4. IInv /\ NoReplay /\ [Next]_vars =>
        [\A v, w \in Worker :
          /\ pc[w] = "settling" /\ pc'[w] = "polling"
          /\ outbox'[due[w].row] # outbox[due[w].row]
          => \A e \in Held(v) : ~OlderClaim(due[w], e)]_vars
  BY <1>3
<1> QED
  BY <1>1, <1>2, <1>4, Invariance, PTL DEF Spec, FencedSettle

\* A lease that has not lapsed is never taken over.
THEOREM LeasesAreRespected == Spec => LiveLeaseRespected
<1>1. ASSUME IInv, [Next]_vars, NEW r \in Row,
             outbox[r].state = "delivering", outbox[r].lease >= 0
      PROVE  outbox'[r].attempts = outbox[r].attempts
  <2>1. CASE outbox' = outbox
    BY <2>1
  <2>2. ASSUME NEW o \in Occurrence, NEW ev \in EventName, Enqueue(o, ev)
        PROVE  outbox'[r].attempts = outbox[r].attempts
    BY <1>1, <2>2 DEF Enqueue, IInv, EmittedInv
  <2>3. ASSUME NEW s \in Row, Replay(s) PROVE outbox'[r].attempts = outbox[r].attempts
    BY <1>1, <2>3 DEF Replay, IInv, TypeOK
  <2>4. ASSUME NEW w \in Worker, ClaimUpdate(w) PROVE outbox'[r].attempts = outbox[r].attempts
    <3>1. r \notin locked[w]
      BY <1>1 DEF IInv, LockInv, IsDue, TypeOK
    <3> QED
      BY <2>4, <3>1 DEF ClaimUpdate
  <2>5. ASSUME NEW w \in Worker, NEW state \in {"delivered", "pending", "dead"}, NEW delay \in Nat,
               outbox' = [outbox EXCEPT ![due[w].row] = SettledRow(@, state, delay)]
        PROVE  outbox'[r].attempts = outbox[r].attempts
    BY <1>1, <2>5 DEF SettledRow, Delivery, IInv, TypeOK
  <2>6. CASE Tick
    BY <2>6 DEF Tick, Aged, Delivery
  <2>7. RowChange
    BY <1>1, StepRows DEF IInv
  <2> QED
    BY <2>1, <2>2, <2>3, <2>4, <2>5, <2>6, <2>7 DEF RowChange
<1>2. IInv /\ [Next]_vars =>
        [\A r \in Row : outbox[r].state = "delivering" /\ outbox[r].lease >= 0
          => outbox'[r].attempts = outbox[r].attempts]_vars
  BY <1>1
<1> QED
  BY <1>2, Invariance, PTL DEF Spec, LiveLeaseRespected
-----------------------------------------------------------------------------
\* The ticks a worker has spent on its batch if every request but the one that is
\* out used up its deadline.
Spent(w) == turn[w] * DeliveryTimeout - budget[w]

\* The deadline runs only while a request is out, and the delivery in hand has
\* left its batch.
WorkInv ==
    /\ \A w \in Worker : pc[w] # "sending" => budget[w] = 0
    /\ \A w \in Worker : due[w] \notin batch[w]

\* Until a worker has spent the lease, each claim in its hands is the current one
\* on its row, and the row's lease has run no further than the worker has spent.
LeaseInv ==
    \A w \in Worker : \A d \in Held(w) :
        outbox[d.row].replays = 0 /\ Spent(w) < LeaseDuration =>
            /\ outbox[d.row].state = "delivering"
            /\ outbox[d.row].attempts = d.attempt
            /\ outbox[d.row].lease >= LeaseDuration - Spent(w)

\* Products of natural numbers, of which the provers need to be told.
LEMMA TimesNat ==
    /\ \A m, n \in Nat : m * n \in Nat
    /\ \A m, n \in Nat : (m + 1) * n - n = m * n
    /\ \A n \in Nat : 0 * n = 0
<1>1. \A m, n \in Nat : m * n \in Nat
  OBVIOUS
<1>2. \A m, n \in Nat : (m + 1) * n - n = m * n
  OBVIOUS
<1>3. \A n \in Nat : 0 * n = 0
  OBVIOUS
<1> QED
  BY <1>1, <1>2, <1>3

\* The time spent is a whole number of ticks.
LEMMA SpentInt ==
    ASSUME TypeOK, NEW w \in Worker
    PROVE  Spent(w) \in Int /\ turn[w] * DeliveryTimeout \in Nat
<1>1. turn[w] \in Nat /\ budget[w] \in Nat
  BY DEF TypeOK
<1>2. turn[w] * DeliveryTimeout \in Nat
  BY <1>1, TimesNat, OutboxAssumption
<1> QED
  BY <1>1, <1>2 DEF Spent

\* What a step does to the time one worker has spent: a claim starts it at zero,
\* the clock adds what it takes from the leases, and no other step takes from it
\* while the worker has claims in its hands.
LEMMA WorkStep ==
    ASSUME ~Stall, TypeOK, ProcessInv, WorkInv, [Next]_vars, NEW w \in Worker
    PROVE  /\ pc'[w] # "sending" => budget'[w] = 0
           /\ due'[w] \notin batch'[w]
           /\ \/ ClaimUpdate(w) /\ Spent(w)' = 0
              \/ Tick /\ (Held(w) = {} \/ Spent(w)' = Spent(w) + 1)
              \/ ~ClaimUpdate(w) /\ ~Tick /\ (Held(w)' = {} \/ Spent(w)' >= Spent(w))
<1> DEFINE Goal == /\ pc'[w] # "sending" => budget'[w] = 0
                   /\ due'[w] \notin batch'[w]
                   /\ \/ ClaimUpdate(w) /\ Spent(w)' = 0
                      \/ Tick /\ (Held(w) = {} \/ Spent(w)' = Spent(w) + 1)
                      \/ ~ClaimUpdate(w) /\ ~Tick /\ (Held(w)' = {} \/ Spent(w)' >= Spent(w))
<1>0. /\ Spent(w) \in Int /\ turn[w] * DeliveryTimeout \in Nat /\ DeliveryTimeout \in Nat
      /\ budget[w] \in Nat /\ turn[w] \in Nat
      /\ pc[w] # "sending" => budget[w] = 0
      /\ due[w] \notin batch[w]
  BY SpentInt, OutboxAssumption DEF WorkInv, TypeOK
<1>1. NoDue \notin batch[w]
  BY OutboxAssumption DEF TypeOK
<1>2. ASSUME batch'[w] = batch[w], due'[w] \in {due[w], NoDue}, budget'[w] = budget[w],
             turn'[w] = turn[w], pc[w] = "sending" => pc'[w] = "sending",
             ~ClaimUpdate(w), ~Tick
      PROVE  Goal
  BY <1>0, <1>1, <1>2 DEF Spent
<1>3. ASSUME NEW v \in Worker, ClaimUpdate(v) PROVE Goal
  <2>1. CASE v = w
    <3>1. due'[w] = NoDue /\ budget'[w] = 0 /\ turn'[w] = 0
      BY <1>0, <1>3, <2>1 DEF ClaimUpdate, TypeOK, ProcessInv
    <3>2. NoDue \notin batch'[w]
      BY NextType, OutboxAssumption DEF TypeOK
    <3>3. Spent(w)' = 0
      <4>1. turn'[w] * DeliveryTimeout = 0
        BY <1>0, <3>1, TimesNat
      <4> QED
        BY <3>1, <4>1 DEF Spent
    <3> QED
      BY <1>3, <2>1, <3>1, <3>2, <3>3
  <2>2. CASE v # w
    <3>1. /\ batch'[w] = batch[w] /\ due'[w] = due[w] /\ budget'[w] = budget[w]
          /\ turn'[w] = turn[w] /\ pc'[w] = pc[w]
      BY <1>3, <2>2 DEF ClaimUpdate, TypeOK
    <3>2. ~ClaimUpdate(w) /\ ~Tick
      BY <1>3, <2>2 DEF ClaimUpdate, Tick, TimeMayPass, TypeOK
    <3> QED
      BY <1>2, <3>1, <3>2
  <2> QED
    BY <2>1, <2>2
<1>4. ASSUME NEW v \in Worker, BeginDelivery(v) PROVE Goal
  <2>1. ~ClaimUpdate(w) /\ ~Tick
    BY <1>4 DEF BeginDelivery, ClaimUpdate, Tick, TypeOK
  <2>2. CASE v = w
    <3>1. PICK d \in batch[w] : due'[w] = d /\ batch'[w] = batch[w] \ {d}
      BY <1>4, <2>2 DEF BeginDelivery, TypeOK
    <3>2. /\ budget'[w] = DeliveryTimeout /\ pc'[w] = "sending" /\ budget[w] = 0
          /\ turn'[w] = turn[w] + 1
      BY <1>0, <1>4, <2>2 DEF BeginDelivery, TypeOK
    <3>3. (turn[w] + 1) * DeliveryTimeout - DeliveryTimeout = turn[w] * DeliveryTimeout
      BY <1>0, TimesNat
    <3>4. Spent(w)' = Spent(w)
      <4> DEFINE p == turn[w] * DeliveryTimeout
                 q == (turn[w] + 1) * DeliveryTimeout
      <4>1. Spent(w) = p - 0 /\ Spent(w)' = q - DeliveryTimeout
        BY <3>2 DEF Spent
      <4>2. q - DeliveryTimeout = p /\ p \in Nat
        BY <1>0, <3>3
      <4> HIDE DEF p, q
      <4> QED
        BY <4>1, <4>2
    <3> QED
      BY <1>0, <2>1, <3>1, <3>2, <3>4
  <2>3. CASE v # w
    BY <1>2, <1>4, <2>1, <2>3 DEF BeginDelivery, TypeOK
  <2> QED
    BY <2>2, <2>3
<1>5. ASSUME NEW v \in Worker, NEW acted \in BOOLEAN, NEW acked \in BOOLEAN,
             Deliver(v, acted, acked)
      PROVE  Goal
  <2>1. ~ClaimUpdate(w) /\ ~Tick
    BY <1>5 DEF Deliver, ClaimUpdate, Tick, TypeOK
  <2>2. batch'[w] = batch[w] /\ due'[w] = due[w] /\ turn'[w] = turn[w]
    BY <1>5 DEF Deliver
  <2>3. CASE v = w
    <3>1. budget'[w] = 0
      BY <1>5, <2>3 DEF Deliver, TypeOK
    <3>2. Spent(w)' = turn[w] * DeliveryTimeout - 0
      BY <2>2, <3>1 DEF Spent
    <3> QED
      BY <1>0, <2>1, <2>2, <3>1, <3>2 DEF Spent
  <2>4. CASE v # w
    BY <1>2, <1>5, <2>1, <2>2, <2>4 DEF Deliver, TypeOK
  <2> QED
    BY <2>3, <2>4
<1>6. ASSUME NEW v \in Worker, NextInBatch(v), pc[v] = "settling" PROVE Goal
  <2>1. ~ClaimUpdate(w) /\ ~Tick
    BY <1>6 DEF NextInBatch, ClaimUpdate, Tick, TypeOK
  <2> QED
    BY <1>2, <1>6, <2>1 DEF NextInBatch, TypeOK
<1>7. ASSUME NEW v \in Worker, LoseProcess(v), pc[v] # "stopped", UNCHANGED tables PROVE Goal
  <2>1. ~ClaimUpdate(w) /\ ~Tick
    BY <1>7 DEF LoseProcess, ClaimUpdate, Tick, TypeOK
  <2>2. CASE v = w
    <3>1. batch'[w] = {} /\ due'[w] = NoDue /\ budget'[w] = 0
      BY <1>7, <2>2 DEF LoseProcess, TypeOK
    <3>2. Held(w)' = {}
      BY <3>1 DEF Held
    <3> QED
      BY <2>1, <3>1, <3>2
  <2>3. CASE v # w
    BY <1>2, <1>7, <2>1, <2>3 DEF LoseProcess, TypeOK
  <2> QED
    BY <2>2, <2>3
<1>8. ASSUME NEW v \in Worker, ClaimSelect(v) \/ PollDone(v) \/ Restart(v) PROVE Goal
  <2>1. ~ClaimUpdate(w) /\ ~Tick
    BY <1>8 DEF ClaimSelect, PollDone, Restart, ClaimUpdate, Tick, TypeOK
  <2> QED
    BY <1>2, <1>8, <2>1 DEF ClaimSelect, PollDone, Restart, TypeOK
<1>9. ASSUME NEW v \in Worker, Sigterm(v) PROVE Goal
  <2>1. ~ClaimUpdate(w) /\ ~Tick
    BY <1>9 DEF Sigterm, ClaimUpdate, Tick, TypeOK
  <2> QED
    BY <1>2, <1>9, <2>1 DEF Sigterm
<1>10. CASE Tick
  <2>1. UNCHANGED <<pc, batch, due, turn>>
        /\ budget'[w] = IF budget[w] > 0 THEN budget[w] - 1 ELSE 0
    BY <1>10 DEF Tick
  <2>2. pc[w] \in {"idle", "stopped"} \/ (pc[w] = "sending" /\ budget[w] > 0)
    BY <1>10 DEF Tick, TimeMayPass
  <2>3. pc[w] \in {"idle", "stopped"} => Held(w) = {}
    BY DEF ProcessInv, Held
  <2>4. budget[w] > 0 => Spent(w)' = Spent(w) + 1
    BY <1>0, <2>1 DEF Spent
  <2> QED
    BY <1>0, <1>10, <2>1, <2>2, <2>3, <2>4
<1>11. ASSUME UNCHANGED process PROVE Goal
  <2>1. CASE Tick
    BY <1>10, <2>1
  <2>2. CASE ~Tick
    <3>1. ~ClaimUpdate(w)
      BY <1>11 DEF ClaimUpdate, process, TypeOK
    <3> QED
      BY <1>2, <1>11, <2>2, <3>1 DEF process
  <2> QED
    BY <2>1, <2>2
<1>12. ASSUME NEW v \in Worker, Work(v) \/ SettleError(v) \/ Crash(v) \/ Sigterm(v)
       PROVE  Goal
  <2>1. CASE SettleDelivered(v) \/ SettleRetry(v) \/ SettleDead(v) \/ SettleLeaseLost(v)
             \/ SettleError(v)
    BY <1>6, <2>1 DEF SettleDelivered, SettleRetry, SettleDead, SettleLeaseLost, SettleError,
                      CanSettle
  <2>2. CASE Drain(v) \/ Crash(v)
    BY <1>7, <2>2 DEF Drain, Crash
  <2> QED
    BY <1>3, <1>4, <1>5, <1>8, <1>9, <1>12, <2>1, <2>2 DEF Work
<1> QED
  BY <1>10, <1>11, <1>12 DEF Next, CreateEndpoint, UpdateEndpoint, Enqueue, Replay, vars

\* A row never replayed whose current claim a worker keeps through a step, under a
\* lease that has not lapsed, is left alone by everyone else; only the clock takes
\* a tick off its lease.
LEMMA HeldRowsStay ==
    ASSUME IInv, WorkInv, [Next]_vars, NEW w \in Worker,
           NEW d \in Held(w), d \in Held(w)',
           outbox[d.row].replays = 0, outbox[d.row].state = "delivering",
           outbox[d.row].attempts = d.attempt, outbox[d.row].lease > 0
    PROVE  \/ ~Tick /\ outbox'[d.row] = outbox[d.row]
           \/ /\ Tick
              /\ outbox'[d.row].state = "delivering"
              /\ outbox'[d.row].attempts = outbox[d.row].attempts
              /\ outbox'[d.row].lease = outbox[d.row].lease - 1
<1> DEFINE r == d.row
<1>0. d \in Due /\ r \in Row
  BY DEF IInv, TypeOK, Held, Due
<1>1. outbox[r].lease \in Int
  BY <1>0 DEF IInv, TypeOK
<1>2. CASE Tick
  BY <1>0, <1>1, <1>2 DEF Tick, Aged, Delivery
<1>3. ASSUME NEW o \in Occurrence, NEW ev \in EventName, Enqueue(o, ev)
      PROVE  outbox'[r] = outbox[r]
  BY <1>0, <1>1, <1>3 DEF Enqueue, IInv, EmittedInv
<1>4. ASSUME NEW s \in Row, Replay(s) PROVE outbox'[r] = outbox[r]
  BY <1>0, <1>1, <1>4 DEF Replay, IInv, TypeOK
<1>5. ASSUME NEW v \in Worker, ClaimUpdate(v) PROVE outbox'[r] = outbox[r]
  <2>1. r \notin locked[v]
    BY <1>0, <1>1 DEF IInv, LockInv, IsDue
  <2> QED
    BY <1>0, <1>5, <2>1 DEF ClaimUpdate
<1>6. ASSUME NEW v \in Worker, NEW state \in {"delivered", "pending", "dead"}, NEW delay \in Nat,
             CanSettle(v), LeaseHeld(due[v]), NextInBatch(v),
             outbox' = [outbox EXCEPT ![due[v].row] = SettledRow(@, state, delay)]
      PROVE  outbox'[r] = outbox[r]
  <2>1. due[v] \in Held(v) /\ due[v] \in Due
    BY <1>6, DueRow DEF CanSettle, IInv, ProcessInv, Held
  <2>2. CASE due[v].row = r
    <3>1. d.gen = 0 /\ due[v].gen = 0
      <4>1. d.gen <= 0 /\ due[v].gen <= 0
        BY <2>1, <2>2 DEF IInv, ClaimInv
      <4>2. d.gen \in Nat /\ due[v].gen \in Nat
        BY <1>0, <2>1 DEF Due
      <4> QED
        BY <4>1, <4>2
    <3>2. d.attempt = due[v].attempt
      BY <1>6, <2>2 DEF LeaseHeld
    <3>3. due[v] = d
      BY <1>0, <2>1, <2>2, <3>1, <3>2 DEF Due
    <3>4. v = w
      BY <2>1, <3>3 DEF IInv, UniqueHolder
    <3>5. Held(w)' = batch[w]
      BY <1>6, <3>4 DEF NextInBatch, Held, IInv, TypeOK
    <3> QED
      BY <3>3, <3>4, <3>5 DEF WorkInv
  <2>3. CASE due[v].row # r
    BY <1>0, <1>6, <2>3 DEF IInv, TypeOK
  <2> QED
    BY <2>2, <2>3
<1>7. RowChange
  BY StepRows DEF IInv
<1>8. outbox'[r] = outbox[r] \/ Tick
  BY <1>3, <1>4, <1>5, <1>6, <1>7 DEF RowChange
<1> QED
  BY <1>2, <1>8

\* Claims in hand stay current and covered until the lease is spent.
LEMMA NextLease ==
    ASSUME ~Stall, IInv, WorkInv, LeaseInv, [Next]_vars
    PROVE  LeaseInv'
<1> SUFFICES ASSUME NEW w \in Worker, NEW d \in Held(w)',
                    outbox'[d.row].replays = 0, Spent(w)' < LeaseDuration
             PROVE  /\ outbox'[d.row].state = "delivering"
                    /\ outbox'[d.row].attempts = d.attempt
                    /\ outbox'[d.row].lease >= LeaseDuration - Spent(w)'
  BY DEF LeaseInv
<1>0. /\ TypeOK /\ ProcessInv /\ TypeOK' /\ LeaseDuration \in Nat /\ LeaseDuration > 0
  BY NextType, OutboxAssumption DEF IInv
<1>1. Spent(w) \in Int /\ Spent(w)' \in Int
  <2>1. turn'[w] * DeliveryTimeout \in Nat /\ budget'[w] \in Nat
    BY <1>0, TimesNat, OutboxAssumption DEF TypeOK
  <2> QED
    BY <1>0, <2>1, SpentInt DEF Spent
<1>2. \/ ClaimUpdate(w) /\ Spent(w)' = 0
      \/ Tick /\ (Held(w) = {} \/ Spent(w)' = Spent(w) + 1)
      \/ ~ClaimUpdate(w) /\ ~Tick /\ (Held(w)' = {} \/ Spent(w)' >= Spent(w))
  BY <1>0, WorkStep
<1>3. CASE d \in Held(w)
  <2>1. ~ClaimUpdate(w)
    BY <1>0, <1>3 DEF ClaimUpdate, ProcessInv, Held
  <2>2. d.row \in Row /\ outbox[d.row].lease \in Int
    BY <1>0, <1>3 DEF TypeOK, Held, Due
  <2>3. Spent(w) < LeaseDuration
    BY <1>0, <1>1, <1>2, <1>3, <2>1
  <2>4. outbox[d.row].replays = 0
    <3>1. outbox[d.row].state # "absent"
      BY <1>3 DEF IInv, ClaimInv
    <3>2. outbox'[d.row].replays >= outbox[d.row].replays
      BY <1>0, <2>2, <3>1, RowsGrow DEF IInv
    <3>3. outbox[d.row].replays \in Nat
      BY <1>0, <2>2 DEF TypeOK
    <3> QED
      BY <3>2, <3>3
  <2>5. /\ outbox[d.row].state = "delivering"
        /\ outbox[d.row].attempts = d.attempt
        /\ outbox[d.row].lease >= LeaseDuration - Spent(w)
    BY <1>3, <2>3, <2>4 DEF LeaseInv
  <2>6. outbox[d.row].lease > 0
    BY <1>0, <1>1, <2>2, <2>3, <2>5
  <2>7. \/ ~Tick /\ outbox'[d.row] = outbox[d.row]
        \/ /\ Tick
           /\ outbox'[d.row].state = "delivering"
           /\ outbox'[d.row].attempts = outbox[d.row].attempts
           /\ outbox'[d.row].lease = outbox[d.row].lease - 1
    BY <1>3, <2>4, <2>5, <2>6, HeldRowsStay
  <2> QED
    BY <1>0, <1>1, <1>2, <1>3, <2>1, <2>2, <2>5, <2>7
<1>4. CASE ClaimUpdate(w) /\ d \in NewClaims(w)
  <2>1. PICK r \in locked[w] : d = [row |-> r, attempt |-> outbox[r].attempts + 1,
                                    gen |-> outbox[r].replays]
    BY <1>4 DEF NewClaims
  <2>2. r \in Row /\ outbox'[r] = ClaimedRow(outbox[r])
    BY <1>0, <1>4, <2>1 DEF ClaimUpdate, TypeOK
  <2>3. ~Tick
    BY <1>0, <1>4 DEF ClaimUpdate, Tick, TypeOK
  <2>4. Spent(w)' = 0
    BY <1>2, <1>4, <2>3
  <2> QED
    BY <1>0, <2>1, <2>2, <2>4 DEF ClaimedRow, Delivery
<1> QED
  BY <1>0, <1>3, <1>4, HeldStep

\* Where workers do not stall, a worker holds the lease of every row it comes to
\* within the lease, whatever the size of its batch, the deadline of a request and
\* the lease: the rows of a batch it comes to later are not covered.
THEOREM LeaseIsKept ==
    ASSUME ~Stall
    PROVE  Spec => []LeaseCoversTurn
<1>1. Init => WorkInv /\ LeaseInv
  BY OutboxAssumption DEF Init, WorkInv, LeaseInv, Held
<1>2. IInv /\ WorkInv /\ LeaseInv /\ [Next]_vars => WorkInv' /\ LeaseInv'
  <2>1. IInv /\ WorkInv /\ [Next]_vars => WorkInv'
    BY WorkStep DEF IInv, WorkInv
  <2> QED
    BY <2>1, NextLease
<1>3. ASSUME IInv, LeaseInv PROVE LeaseCoversTurn
  <2> SUFFICES ASSUME NEW w \in Worker, pc[w] \in {"sending", "settling"}, WithinLease(w),
                      outbox[due[w].row].replays = 0
               PROVE  LeaseHeld(due[w])
    BY DEF LeaseCoversTurn
  <2>1. due[w] \in Held(w) /\ due[w].row \in Row
    BY <1>3 DEF IInv, ProcessInv, TypeOK, Held, Due
  <2>2. /\ Spent(w) \in Int /\ turn[w] * DeliveryTimeout \in Nat /\ budget[w] \in Nat
        /\ outbox[due[w].row].lease \in Int /\ LeaseDuration \in Nat
    BY <1>3, <2>1, SpentInt, OutboxAssumption DEF IInv, TypeOK
  <2>3. Spent(w) < LeaseDuration
    BY <2>2 DEF WithinLease, Spent
  <2> QED
    BY <1>3, <2>1, <2>2, <2>3 DEF LeaseInv, LeaseHeld
<1> QED
  BY <1>1, <1>2, <1>3, Invariance, PTL DEF Spec
-----------------------------------------------------------------------------
\* What AttemptBudget allows a row.
Paid(r) == MaxAttempts + faults + leaseLost[r] + Cardinality(Holders(r))

\* A row waits with an attempt to spare, and one that is being delivered has one
\* that its holders, or a counted loss, account for; so has one that a worker told
\* to stop is about to claim, which that worker will not be counted for.
PaidInv ==
    \A r \in Row :
        /\ outbox[r].attempts <= Paid(r)
        /\ outbox[r].state = "pending" => outbox[r].attempts < MaxAttempts
        /\ outbox[r].state = "delivering" => outbox[r].attempts < Paid(r)
        /\ \A w \in Worker : cancelled[w] /\ r \in locked[w] => outbox[r].attempts + 1 < Paid(r)

\* How the number of workers in a set changes with its members.
LEMMA WorkerSets ==
    ASSUME NEW S \in SUBSET Worker, NEW T \in SUBSET Worker
    PROVE  /\ Cardinality(S) \in Nat /\ Cardinality(T) \in Nat
           /\ S \subseteq T => Cardinality(S) <= Cardinality(T)
           /\ \A w \in Worker : S \ {w} \subseteq T => Cardinality(S) <= Cardinality(T) + 1
           /\ \A w \in T : S \subseteq T /\ w \notin S => Cardinality(S) + 1 <= Cardinality(T)
<1>0. IsFiniteSet(Worker)
  BY OutboxAssumption
<1>1. ASSUME NEW A \in SUBSET Worker PROVE IsFiniteSet(A) /\ Cardinality(A) \in Nat
  BY <1>0, FS_Subset, FS_CardinalityType
<1>2. ASSUME NEW A \in SUBSET Worker, NEW B \in SUBSET Worker, A \subseteq B
      PROVE  Cardinality(A) <= Cardinality(B)
  BY <1>1, <1>2, FS_Subset
<1>3. ASSUME NEW w \in Worker, S \ {w} \subseteq T
      PROVE  Cardinality(S) <= Cardinality(T) + 1
  <2>1. Cardinality(S \ {w}) \in {Cardinality(S), Cardinality(S) - 1}
    BY <1>1, FS_RemoveElement
  <2>2. Cardinality(S \ {w}) <= Cardinality(T)
    BY <1>2, <1>3
  <2>3. Cardinality(S) \in Nat /\ Cardinality(T) \in Nat
    BY <1>1
  <2> QED
    BY <2>1, <2>2, <2>3
<1>4. ASSUME NEW w \in T, S \subseteq T, w \notin S
      PROVE  Cardinality(S) + 1 <= Cardinality(T)
  <2>1. Cardinality(T \ {w}) = Cardinality(T) - 1
    BY <1>1, FS_RemoveElement
  <2>2. Cardinality(S) <= Cardinality(T \ {w})
    BY <1>2, <1>4
  <2>3. Cardinality(S) \in Nat /\ Cardinality(T) \in Nat
    BY <1>1
  <2> QED
    BY <2>1, <2>2, <2>3
<1> QED
  BY <1>1, <1>2, <1>3, <1>4

\* Faults and lost leases are only added up.
LEMMA CountStep ==
    ASSUME TypeOK, [Next]_vars, NEW r \in Row
    PROVE  /\ faults' \in Nat /\ faults' >= faults
           /\ leaseLost'[r] \in Nat /\ leaseLost'[r] >= leaseLost[r]
<1>1. faults' \in Nat /\ faults' >= faults
  BY DEF Next, Work, CreateEndpoint, UpdateEndpoint, Enqueue, Replay, ClaimSelect, ClaimUpdate,
         BeginDelivery, Deliver, SettleDelivered, SettleRetry, SettleDead, SettleLeaseLost,
         SettleError, NextInBatch, PollDone, Crash, Drain, Sigterm, Restart, Tick, Fault, counts,
         vars, TypeOK
<1>2. ASSUME leaseLost' = leaseLost PROVE leaseLost'[r] \in Nat /\ leaseLost'[r] >= leaseLost[r]
  BY <1>2 DEF TypeOK
<1>3. ASSUME NEW w \in Worker, SettleLeaseLost(w)
      PROVE  leaseLost'[r] \in Nat /\ leaseLost'[r] >= leaseLost[r]
  BY <1>3 DEF SettleLeaseLost, TypeOK
<1> QED
  BY <1>1, <1>2, <1>3
     DEF Next, Work, CreateEndpoint, UpdateEndpoint, Enqueue, Replay, ClaimSelect, ClaimUpdate,
         BeginDelivery, Deliver, SettleDelivered, SettleRetry, SettleDead,
         SettleError, PollDone, Crash, Drain, Sigterm, Restart, Tick, counts, vars

\* A worker gives up no claim in a step, and is not told to stop.
HandsKept(w) == Held(w) \subseteq Held(w)' /\ cancelled'[w] = cancelled[w]

\* A worker settles the row in its hands, under its lease.
Settles(w) == SettleDelivered(w) \/ SettleRetry(w) \/ SettleDead(w)

\* At most one worker gives up claims in a step, and then a fault is counted, the
\* worker had been told to stop, or it is done with the row in its hands: settled
\* under its lease, or counted as a lost lease.
LEMMA HandStep ==
    ASSUME IInv, [Next]_vars
    PROVE  \/ \A v \in Worker : HandsKept(v)
           \/ \E w \in Worker :
                 /\ \A v \in Worker : v # w => HandsKept(v)
                 /\ \/ faults' = faults + 1
                    \/ cancelled[w] /\ Held(w)' = {}
                    \/ Settles(w)
                    \/ SettleLeaseLost(w)
<1> USE DEF IInv
<1> DEFINE Kept == \A v \in Worker : HandsKept(v)
           Rest(w) == \A v \in Worker : v # w => HandsKept(v)
           Goal == \/ Kept
                   \/ \E w \in Worker :
                         /\ Rest(w)
                         /\ \/ faults' = faults + 1
                            \/ cancelled[w] /\ Held(w)' = {}
                            \/ Settles(w)
                            \/ SettleLeaseLost(w)
<1>1. ASSUME NEW v \in Worker, batch'[v] = batch[v], due'[v] = due[v], cancelled'[v] = cancelled[v]
      PROVE  HandsKept(v)
  BY <1>1 DEF HandsKept, Held
<1>2. ASSUME UNCHANGED <<batch, due, cancelled>> PROVE Kept
  BY <1>1, <1>2
<1>3. ASSUME NEW w \in Worker, NextInBatch(w) PROVE Rest(w)
  BY <1>1, <1>3 DEF NextInBatch, TypeOK
<1>4. ASSUME NEW w \in Worker, LoseProcess(w) PROVE Rest(w) /\ Held(w)' = {}
  <2>1. Rest(w)
    BY <1>1, <1>4 DEF LoseProcess, TypeOK
  <2>2. batch'[w] = {} /\ due'[w] = NoDue
    BY <1>4 DEF LoseProcess, TypeOK
  <2> QED
    BY <2>1, <2>2 DEF Held
<1>5. ASSUME NEW w \in Worker, ClaimUpdate(w) PROVE Kept
  <2>1. Held(w) = {} /\ cancelled' = cancelled
    BY <1>5 DEF ClaimUpdate, ProcessInv, Held
  <2>2. Rest(w)
    BY <1>1, <1>5 DEF ClaimUpdate, TypeOK
  <2> QED
    BY <2>1, <2>2 DEF HandsKept
<1>6. ASSUME NEW w \in Worker, BeginDelivery(w) PROVE Kept
  <2>1. PICK e \in batch[w] : due'[w] = e /\ batch'[w] = batch[w] \ {e}
    BY <1>6 DEF BeginDelivery, TypeOK
  <2>2. e # NoDue /\ due[w] = NoDue
    <3>1. e \in Due
      BY <2>1 DEF TypeOK
    <3>2. due[w] = NoDue
      BY <1>6 DEF BeginDelivery, ProcessInv
    <3> QED
      BY <3>1, <3>2, OutboxAssumption
  <2>3. Held(w) = batch[w] /\ Held(w)' = (batch[w] \ {e}) \cup {e}
    BY <2>1, <2>2 DEF Held
  <2>4. Rest(w)
    BY <1>1, <1>6 DEF BeginDelivery, TypeOK
  <2>5. cancelled' = cancelled
    BY <1>6 DEF BeginDelivery
  <2> QED
    BY <2>3, <2>4, <2>5 DEF HandsKept
<1>7. ASSUME NEW w \in Worker, Settles(w) \/ SettleLeaseLost(w) PROVE Goal
  <2>1. Rest(w)
    BY <1>3, <1>7 DEF Settles, SettleDelivered, SettleRetry, SettleDead, SettleLeaseLost
  <2> QED
    BY <1>7, <2>1
<1>9. ASSUME NEW w \in Worker, SettleError(w) \/ Crash(w) \/ Sigterm(w) PROVE Goal
  <2>1. faults' = faults + 1
    BY <1>9 DEF SettleError, Crash, Sigterm, Fault
  <2>2. Rest(w)
    <3>1. CASE SettleError(w)
      BY <1>3, <3>1 DEF SettleError
    <3>2. CASE Crash(w)
      BY <1>4, <3>2 DEF Crash
    <3>3. CASE Sigterm(w)
      BY <1>1, <3>3 DEF Sigterm, TypeOK
    <3> QED
      BY <1>9, <3>1, <3>2, <3>3
  <2> QED
    BY <2>1, <2>2
<1>10. ASSUME NEW w \in Worker, Drain(w) PROVE Goal
  <2>1. cancelled[w] /\ Rest(w) /\ Held(w)' = {}
    BY <1>4, <1>10 DEF Drain
  <2> QED
    BY <2>1
<1>11. ASSUME NEW w \in Worker, ClaimSelect(w) \/ PollDone(w) \/ Restart(w) PROVE Kept
  BY <1>2, <1>11 DEF ClaimSelect, PollDone, Restart
<1>12. ASSUME NEW w \in Worker, NEW acted \in BOOLEAN, NEW acked \in BOOLEAN,
              Deliver(w, acted, acked)
       PROVE  Kept
  BY <1>2, <1>12 DEF Deliver
<1>13. CASE UNCHANGED process \/ Tick
  BY <1>2, <1>13 DEF Tick, process
<1> HIDE DEF Kept, Rest
<1>14. ASSUME NEW w \in Worker, Work(w) \/ SettleError(w) \/ Crash(w) \/ Sigterm(w)
       PROVE  Goal
  <2>1. \/ ClaimUpdate(w) \/ BeginDelivery(w)
        \/ Settles(w) \/ SettleLeaseLost(w)
        \/ SettleError(w) \/ Crash(w) \/ Sigterm(w) \/ Drain(w)
        \/ ClaimSelect(w) \/ PollDone(w) \/ Restart(w)
        \/ \E acted, acked \in BOOLEAN : Deliver(w, acted, acked)
    BY <1>14 DEF Work, Settles
  <2> HIDE DEF Goal
  <2>2. Kept => Goal
    BY DEF Goal
  <2> QED
    BY <1>5, <1>6, <1>7, <1>9, <1>10, <1>11, <1>12, <2>1, <2>2
<1>15. \/ UNCHANGED process \/ Tick
       \/ \E w \in Worker : Work(w) \/ SettleError(w) \/ Crash(w) \/ Sigterm(w)
  BY DEF Next, CreateEndpoint, UpdateEndpoint, Enqueue, Replay, vars
<1> QED
  BY <1>13, <1>14, <1>15 DEF Kept, Rest

\* What a row is allowed shrinks only when the row is settled, and then by the one
\* worker that settled it.
LEMMA PaidStep ==
    ASSUME IInv, [Next]_vars, NEW r \in Row
    PROVE  /\ Paid(r) \in Nat /\ Paid(r)' \in Nat
           /\ MaxAttempts <= Paid(r) /\ MaxAttempts <= Paid(r)'
           /\ \/ Paid(r)' >= Paid(r)
              \/ /\ Paid(r)' + 1 >= Paid(r) /\ r \notin Locked
                 /\ outbox[r].state = "delivering" /\ outbox'[r].state # "delivering"
<1> DEFINE c == Cardinality(Holders(r))
           e == Cardinality(Holders(r)')
           k == leaseLost[r]
           l == leaseLost'[r]
<1>0. Holders(r) \in SUBSET Worker /\ Holders(r)' \in SUBSET Worker
  BY DEF Holders
<1>1. /\ c \in Nat /\ e \in Nat /\ k \in Nat /\ l \in Nat /\ l >= k
      /\ faults \in Nat /\ faults' \in Nat /\ faults' >= faults /\ MaxAttempts \in Nat
  BY <1>0, CountStep, WorkerSets, OutboxAssumption DEF IInv, TypeOK
<1>2. Paid(r) = MaxAttempts + faults + k + c /\ Paid(r)' = MaxAttempts + faults' + l + e
  BY DEF Paid
<1>3. ASSUME NEW v \in Worker, HandsKept(v), v \in Holders(r) PROVE v \in Holders(r)'
  BY <1>3 DEF HandsKept, Holders
<1>4. Holders(r) \subseteq Holders(r)' => c <= e
  BY <1>0, WorkerSets
<1>5. ASSUME NEW w \in Worker, \A v \in Worker : v # w => HandsKept(v)
      PROVE  c <= e + 1 /\ (w \notin Holders(r) => c <= e)
  <2>1. Holders(r) \ {w} \subseteq Holders(r)'
    BY <1>0, <1>3, <1>5
  <2>2. c <= e + 1
    BY <1>0, <2>1, WorkerSets
  <2> QED
    BY <1>4, <2>1, <2>2
<1>6. ASSUME \A v \in Worker : HandsKept(v) PROVE Paid(r)' >= Paid(r)
  <2>1. Holders(r) \subseteq Holders(r)'
    BY <1>0, <1>3, <1>6
  <2> QED
    BY <1>1, <1>2, <1>4, <2>1
<1>7. ASSUME NEW w \in Worker, \A v \in Worker : v # w => HandsKept(v), faults' = faults + 1
      PROVE  Paid(r)' >= Paid(r)
  <2>1. c <= e + 1
    BY <1>5, <1>7
  <2> QED
    BY <1>1, <1>2, <1>7, <2>1
<1>8. ASSUME NEW w \in Worker, \A v \in Worker : v # w => HandsKept(v), cancelled[w]
      PROVE  Paid(r)' >= Paid(r)
  <2>1. w \notin Holders(r)
    BY <1>8 DEF Holders
  <2>2. c <= e
    BY <1>5, <1>8, <2>1
  <2> QED
    BY <1>1, <1>2, <2>2
<1>9. ASSUME NEW w \in Worker, \A v \in Worker : v # w => HandsKept(v),
             Settles(w) \/ SettleLeaseLost(w)
      PROVE  \/ Paid(r)' >= Paid(r)
             \/ /\ Paid(r)' + 1 >= Paid(r) /\ r \notin Locked
                /\ outbox[r].state = "delivering" /\ outbox'[r].state # "delivering"
  <2>0. CanSettle(w) /\ NextInBatch(w)
    BY <1>9 DEF Settles, SettleDelivered, SettleRetry, SettleDead, SettleLeaseLost
  <2>1. c <= e + 1
    BY <1>5, <1>9
  <2>2. CASE due[w].row # r
    <3>1. ASSUME w \in Holders(r) PROVE w \in Holders(r)'
      <4>1. PICK d \in Held(w) : d.row = r
        BY <3>1 DEF Holders
      <4>2. d \in Held(w)' /\ cancelled'[w] = cancelled[w]
        BY <2>0, <2>2, <4>1 DEF NextInBatch, Held
      <4> QED
        BY <3>1, <4>1, <4>2 DEF Holders
    <3>2. Holders(r) \subseteq Holders(r)'
      BY <1>0, <1>3, <1>9, <3>1
    <3> QED
      BY <1>1, <1>2, <1>4, <3>2
  <2>3. CASE due[w].row = r /\ SettleLeaseLost(w)
    <3>1. l = k + 1
      BY <2>3 DEF SettleLeaseLost, IInv, TypeOK, k, l
    <3> QED
      BY <1>1, <1>2, <2>1, <3>1
  <2>4. CASE due[w].row = r /\ Settles(w)
    <3>1. Paid(r)' + 1 >= Paid(r)
      BY <1>1, <1>2, <2>1
    <3>2. r \notin Locked /\ outbox[r].state = "delivering"
      BY <2>0, <2>4 DEF CanSettle, LeaseHeld, Settles, SettleDelivered, SettleRetry, SettleDead
    <3>3. outbox'[r].state # "delivering"
      BY <2>4 DEF Settles, SettleDelivered, SettleRetry, SettleDead, SettledRow, Delivery,
                  IInv, TypeOK
    <3> QED
      BY <3>1, <3>2, <3>3
  <2> QED
    BY <1>9, <2>2, <2>3, <2>4
<1>10. \/ Paid(r)' >= Paid(r)
       \/ /\ Paid(r)' + 1 >= Paid(r) /\ r \notin Locked
          /\ outbox[r].state = "delivering" /\ outbox'[r].state # "delivering"
  BY <1>6, <1>7, <1>8, <1>9, HandStep
<1>11. Paid(r) \in Nat /\ Paid(r)' \in Nat /\ MaxAttempts <= Paid(r) /\ MaxAttempts <= Paid(r)'
  BY <1>1, <1>2
<1> QED
  BY <1>10, <1>11

\* The worker that claims a row is counted among its holders from then on.
LEMMA ClaimPaid ==
    ASSUME IInv, [Next]_vars, NEW v \in Worker, ClaimUpdate(v), ~cancelled[v], NEW r \in locked[v]
    PROVE  Paid(r)' >= Paid(r) + 1
<1> USE DEF IInv
<1>0. r \in Row /\ Held(v) = {} /\ v \notin Holders(r)
  BY DEF TypeOK, ClaimUpdate, ProcessInv, Held, Holders
<1>1. Holders(r) \in SUBSET Worker /\ Holders(r)' \in SUBSET Worker
  BY DEF Holders
<1>2. v \in Holders(r)'
  <2> DEFINE c == [row |-> r, attempt |-> outbox[r].attempts + 1, gen |-> outbox[r].replays]
  <2>1. c \in batch'[v] /\ c.row = r
    BY DEF ClaimUpdate, TypeOK
  <2>2. ~cancelled'[v]
    BY DEF ClaimUpdate
  <2> HIDE DEF c
  <2> QED
    BY <2>1, <2>2 DEF Holders, Held
<1>3. \A w \in Worker : w # v => Held(w)' = Held(w) /\ cancelled'[w] = cancelled[w]
  BY DEF ClaimUpdate, Held, TypeOK
<1>4. Holders(r) \subseteq Holders(r)'
  BY <1>0, <1>3 DEF Holders
<1>5. Cardinality(Holders(r)) + 1 <= Cardinality(Holders(r)')
  BY <1>0, <1>1, <1>2, <1>4, WorkerSets
<1>6. faults' = faults /\ leaseLost' = leaseLost
  BY DEF ClaimUpdate, counts
<1>7. /\ Cardinality(Holders(r)) \in Nat /\ Cardinality(Holders(r)') \in Nat
      /\ faults \in Nat /\ leaseLost[r] \in Nat /\ MaxAttempts \in Nat
  BY <1>0, <1>1, WorkerSets, OutboxAssumption DEF TypeOK
<1> QED
  BY <1>5, <1>6, <1>7 DEF Paid

\* A worker that is told to stop while its Claim is open has no claims to lose.
LEMMA CancelPaid ==
    ASSUME IInv, [Next]_vars, NEW w \in Worker, cancelled'[w], ~cancelled[w], NEW r \in locked[w]
    PROVE  Paid(r)' >= Paid(r) + 1
<1> USE DEF IInv
<1>0. r \in Row /\ pc[w] = "claiming" /\ Held(w) = {} /\ w \notin Holders(r)
  BY DEF TypeOK, ProcessInv, Held, Holders
<1>1. Sigterm(w)
  <2>1. ASSUME NEW v \in Worker, LoseProcess(v) PROVE FALSE
    BY <2>1 DEF LoseProcess, TypeOK
  <2>2. ASSUME NEW v \in Worker, Sigterm(v) PROVE v = w
    BY <2>2 DEF Sigterm, TypeOK
  <2>3. ~(UNCHANGED cancelled)
    OBVIOUS
  <2> QED
    BY <2>1, <2>2, <2>3
       DEF Next, Work, CreateEndpoint, UpdateEndpoint, Enqueue, Replay, ClaimSelect, ClaimUpdate,
         BeginDelivery, Deliver, SettleDelivered, SettleRetry, SettleDead, SettleLeaseLost,
         SettleError, NextInBatch, PollDone, Crash, Drain, Restart, Tick, vars, process
<1>2. Holders(r) \in SUBSET Worker /\ Holders(r)' \in SUBSET Worker
  BY DEF Holders
<1>3. \A v \in Worker : v # w => Held(v)' = Held(v) /\ cancelled'[v] = cancelled[v]
  BY <1>1 DEF Sigterm, Held, TypeOK
<1>4. Holders(r) \subseteq Holders(r)'
  BY <1>0, <1>3 DEF Holders
<1>5. Cardinality(Holders(r)) <= Cardinality(Holders(r)')
  BY <1>2, <1>4, WorkerSets
<1>6. faults' = faults + 1 /\ leaseLost' = leaseLost
  BY <1>1 DEF Sigterm, Fault
<1>7. /\ Cardinality(Holders(r)) \in Nat /\ Cardinality(Holders(r)') \in Nat
      /\ faults \in Nat /\ leaseLost[r] \in Nat /\ MaxAttempts \in Nat
  BY <1>0, <1>2, WorkerSets, OutboxAssumption DEF TypeOK
<1> QED
  BY <1>5, <1>6, <1>7 DEF Paid

\* Attempts stay paid for.
LEMMA NextPaid ==
    ASSUME IInv, PaidInv, [Next]_vars
    PROVE  PaidInv'
<1> USE DEF IInv
<1> SUFFICES ASSUME NEW r \in Row
             PROVE  /\ outbox'[r].attempts <= Paid(r)'
                    /\ outbox'[r].state = "pending" => outbox'[r].attempts < MaxAttempts
                    /\ outbox'[r].state = "delivering" => outbox'[r].attempts < Paid(r)'
                    /\ \A w \in Worker : cancelled'[w] /\ r \in locked'[w] =>
                          outbox'[r].attempts + 1 < Paid(r)'
  BY DEF PaidInv
<1>0. /\ Paid(r) \in Nat /\ Paid(r)' \in Nat
      /\ MaxAttempts <= Paid(r) /\ MaxAttempts <= Paid(r)'
      /\ MaxAttempts \in Nat /\ MaxAttempts > 0
      /\ outbox[r].attempts \in Nat
  BY PaidStep, OutboxAssumption DEF TypeOK
<1>1. /\ outbox[r].attempts <= Paid(r)
      /\ outbox[r].state = "pending" => outbox[r].attempts < MaxAttempts
      /\ outbox[r].state = "delivering" => outbox[r].attempts < Paid(r)
  BY DEF PaidInv
<1>2. IsDue(r) => outbox[r].attempts < Paid(r)
  BY <1>0, <1>1 DEF IsDue
<1>3. \/ Paid(r)' >= Paid(r)
      \/ /\ Paid(r)' + 1 >= Paid(r) /\ r \notin Locked
         /\ outbox[r].state = "delivering" /\ outbox'[r].state # "delivering"
  BY PaidStep
<1>4. ASSUME NEW w \in Worker, cancelled'[w], r \in locked'[w]
      PROVE  outbox'[r].attempts + 1 < Paid(r)'
  <2>1. r \in locked[w] /\ locked'[w] = locked[w] /\ ~ClaimUpdate(w)
    BY <1>4, LockStep
  <2>2. outbox'[r] = outbox[r]
    BY <2>1, LockedRowsStay
  <2>3. CASE cancelled[w]
    <3>1. outbox[r].attempts + 1 < Paid(r)
      BY <2>1, <2>3 DEF PaidInv
    <3>2. Paid(r)' >= Paid(r)
      BY <1>3, <2>1 DEF Locked
    <3> QED
      BY <1>0, <2>2, <3>1, <3>2
  <2>4. CASE ~cancelled[w]
    <3>1. outbox[r].attempts < Paid(r)
      BY <1>2, <2>1 DEF LockInv
    <3>2. Paid(r)' >= Paid(r) + 1
      BY <1>4, <2>1, <2>4, CancelPaid
    <3> QED
      BY <1>0, <2>2, <3>1, <3>2
  <2> QED
    BY <2>3, <2>4
<1> DEFINE Same == /\ outbox'[r].attempts = outbox[r].attempts
                   /\ outbox'[r].state = outbox[r].state
           Goal == /\ outbox'[r].attempts <= Paid(r)'
                   /\ outbox'[r].state = "pending" => outbox'[r].attempts < MaxAttempts
                   /\ outbox'[r].state = "delivering" => outbox'[r].attempts < Paid(r)'
<1>5. ASSUME Same PROVE Goal
  BY <1>0, <1>1, <1>3, <1>5
<1>6. ASSUME outbox'[r].state = "pending", outbox'[r].attempts = 0 PROVE Goal
  BY <1>0, <1>6
<1>7. ASSUME NEW o \in Occurrence, NEW ev \in EventName, Enqueue(o, ev) PROVE Goal
  <2>1. outbox'[r] = FreshRow \/ Same
    BY <1>7 DEF Enqueue
  <2>2. CASE outbox'[r] = FreshRow
    <3>1. outbox'[r].state = "pending" /\ outbox'[r].attempts = 0
      BY <2>2 DEF FreshRow, Delivery
    <3> QED
      BY <1>6, <3>1
  <2> QED
    BY <1>5, <2>1, <2>2
<1>8. ASSUME NEW s \in Row, Replay(s) PROVE Goal
  <2>1. CASE s = r
    <3>1. outbox'[r].state = "pending" /\ outbox'[r].attempts = 0
      BY <1>8, <2>1 DEF Replay, ReplayedRow, Delivery, TypeOK
    <3> QED
      BY <1>6, <3>1
  <2>2. CASE s # r
    BY <1>5, <1>8, <2>2 DEF Replay, TypeOK
  <2> QED
    BY <2>1, <2>2
<1>9. ASSUME NEW v \in Worker, ClaimUpdate(v) PROVE Goal
  <2>1. CASE r \in locked[v]
    <3>1. outbox'[r].state = "delivering" /\ outbox'[r].attempts = outbox[r].attempts + 1
      BY <1>9, <2>1 DEF ClaimUpdate, ClaimedRow, Delivery
    <3>2. outbox[r].attempts < Paid(r)
      BY <1>2, <2>1 DEF LockInv
    <3>3. Paid(r)' >= Paid(r)
      BY <1>3, <3>1
    <3>4. CASE cancelled[v]
      <4>1. outbox[r].attempts + 1 < Paid(r)
        BY <2>1, <3>4 DEF PaidInv
      <4> QED
        BY <1>0, <3>1, <3>3, <4>1
    <3>5. CASE ~cancelled[v]
      <4>1. Paid(r)' >= Paid(r) + 1
        BY <1>9, <2>1, <3>5, ClaimPaid
      <4> QED
        BY <1>0, <3>1, <3>2, <4>1
    <3> QED
      BY <3>4, <3>5
  <2>2. CASE r \notin locked[v]
    BY <1>5, <1>9, <2>2 DEF ClaimUpdate
  <2> QED
    BY <2>1, <2>2
<1>10. ASSUME NEW v \in Worker, NEW state \in {"delivered", "pending", "dead"}, NEW delay \in Nat,
             LeaseHeld(due[v]),
             state = "pending" => RetryRemains(due[v].attempt),
             outbox' = [outbox EXCEPT ![due[v].row] = SettledRow(@, state, delay)]
      PROVE  Goal
  <2>1. CASE due[v].row = r
    <3>1. outbox'[r].state = state /\ outbox'[r].attempts = outbox[r].attempts
      BY <1>10, <2>1 DEF SettledRow, Delivery, TypeOK
    <3>2. state = "pending" => outbox[r].attempts < MaxAttempts
      BY <1>10, <2>1 DEF LeaseHeld, RetryRemains
    <3>3. outbox[r].attempts < Paid(r)
      BY <1>1, <1>10, <2>1 DEF LeaseHeld
    <3> QED
      BY <1>0, <1>3, <3>1, <3>2, <3>3
  <2>2. CASE due[v].row # r
    BY <1>5, <1>10, <2>2 DEF TypeOK
  <2> QED
    BY <2>1, <2>2
<1>11. ASSUME Tick PROVE Goal
  BY <1>5, <1>11 DEF Tick, Aged, Delivery
<1>12. RowChange
  BY StepRows
<1>13. Goal
  BY <1>5, <1>7, <1>8, <1>9, <1>10, <1>11, <1>12 DEF RowChange
<1> QED
  BY <1>4, <1>13

\* However processes stall, die or come late to their rows, a row is attempted
\* MaxAttempts times at most, and once more for each fault, each reported lost
\* lease and each worker yet to report one.
THEOREM AttemptsArePaid == Spec => []AttemptBudget
<1>1. Init => PaidInv
  <2> SUFFICES ASSUME Init, NEW r \in Row PROVE
                 /\ outbox[r].attempts = 0 /\ outbox[r].state = "absent" /\ 0 <= Paid(r)
                 /\ \A w \in Worker : locked[w] = {}
    BY OutboxAssumption DEF PaidInv
  <2>1. Cardinality(Holders(r)) \in Nat
    BY WorkerSets DEF Holders
  <2>2. faults = 0 /\ leaseLost[r] = 0 /\ MaxAttempts \in Nat
    BY OutboxAssumption DEF Init
  <2> QED
    BY <2>1, <2>2 DEF Init, AbsentRow, Delivery, Paid
<1>2. IInv /\ PaidInv /\ [Next]_vars => PaidInv'
  BY NextPaid
<1>3. PaidInv => AttemptBudget
  BY DEF PaidInv, AttemptBudget, Paid
<1> QED
  BY <1>1, <1>2, <1>3, Invariance, PTL DEF Spec
-----------------------------------------------------------------------------
\* What the promise sees of a row.
Status(row) == IF row.state \in {"pending", "delivering"} THEN "open" ELSE row.state

\* The same for all rows: the refinement mapping.
StatusMap == [r \in Row |-> Status(outbox[r])]

\* A step that changes the status of at most one row r is one of the promise's
\* if that change is.
LEMMA OneRowStep ==
    ASSUME NEW r \in Row, received' = received, TypeOK,
           \A s \in Row : s # r => outbox'[s] = outbox[s],
           \/ Status(outbox'[r]) = Status(outbox[r])
           \/ Status(outbox[r]) = "open" /\ Status(outbox'[r]) = "delivered" /\ r \in received
           \/ Status(outbox[r]) = "open" /\ Status(outbox'[r]) = "dead"
           \/ Status(outbox[r]) = "dead" /\ Status(outbox'[r]) = "open"
    PROVE  [Promise!Next]_Promise!vars
<1>1. StatusMap' = [StatusMap EXCEPT ![r] = Status(outbox'[r])]
  BY DEF StatusMap
<1>2. StatusMap[r] = Status(outbox[r])
  BY DEF StatusMap
<1>3. CASE Status(outbox'[r]) = Status(outbox[r])
  <2>1. StatusMap' = StatusMap
    BY <1>3 DEF StatusMap
  <2> QED
    BY <2>1 DEF Promise!vars, StatusMap, Status
<1>4. CASE Status(outbox[r]) = "open" /\ Status(outbox'[r]) = "delivered" /\ r \in received
  <2>1. Promise!Finish(r)
    BY <1>1, <1>2, <1>4 DEF Promise!Finish, StatusMap, Status
  <2> QED
    BY <2>1 DEF Promise!Next
<1>6. CASE Status(outbox[r]) = "open" /\ Status(outbox'[r]) = "dead"
  <2>1. Promise!GiveUp(r)
    BY <1>1, <1>2, <1>6 DEF Promise!GiveUp, StatusMap, Status
  <2> QED
    BY <2>1 DEF Promise!Next
<1>7. CASE Status(outbox[r]) = "dead" /\ Status(outbox'[r]) = "open"
  <2>1. Promise!Requeue(r)
    BY <1>1, <1>2, <1>7 DEF Promise!Requeue, StatusMap, Status
  <2> QED
    BY <2>1 DEF Promise!Next
<1> QED
  BY <1>3, <1>4, <1>6, <1>7

\* A step that changes no status and no receipt is a stutter of the promise.
LEMMA StutterStep ==
    ASSUME received' = received, \A r \in Row : Status(outbox'[r]) = Status(outbox[r])
    PROVE  [Promise!Next]_Promise!vars
<1>1. StatusMap' = StatusMap
  BY DEF StatusMap
<1> QED
  BY <1>1 DEF Promise!vars, StatusMap, Status

\* Only Deliver adds receipts, and only for rows that exist.
LEMMA ReceiptStep ==
    ASSUME IInv, [Next]_vars
    PROVE  \/ received' = received
           \/ outbox' = outbox /\ \E r \in Row : /\ outbox[r].state # "absent"
                                               /\ received' = received \cup {r}
<1>1. ASSUME NEW w \in Worker, NEW acted \in BOOLEAN, NEW acked \in BOOLEAN,
             Deliver(w, acted, acked), received' # received
      PROVE  outbox' = outbox /\ \E r \in Row : /\ outbox[r].state # "absent"
                                             /\ received' = received \cup {r}
  <2>1. due[w] \in Held(w) /\ due[w].row \in Row
    BY <1>1 DEF Deliver, IInv, TypeOK, ProcessInv, Held, Due
  <2>2. outbox[due[w].row].state # "absent"
    BY <2>1 DEF IInv, ClaimInv
  <2> QED
    BY <1>1, <2>1, <2>2 DEF Deliver, tables
<1> QED
  BY <1>1 DEF Next, Work, CreateEndpoint, UpdateEndpoint, Enqueue, Replay, ClaimSelect,
         ClaimUpdate, BeginDelivery, SettleDelivered, SettleRetry, SettleDead, SettleLeaseLost,
         SettleError, NextInBatch, PollDone, Crash, Drain, Sigterm, Restart, Tick, vars

\* The outbox implements DeliveryPromise: every step of the workers, the API and
\* the clock is a step of the promise or leaves it alone.
THEOREM Refinement == Spec => KeepsPromise
<1>1. Init => Promise!Init
  BY DEF Init, Promise!Init, AbsentRow, Delivery
<1>2. ASSUME IInv, [Next]_vars PROVE [Promise!Next]_Promise!vars
  <2> USE <1>2
  <2>1. CASE received' # received
    <3>1. PICK r \in Row : /\ outbox' = outbox /\ outbox[r].state # "absent"
                           /\ received' = received \cup {r}
      BY <2>1, ReceiptStep
    <3>2. Promise!Receive(r)
      BY <3>1 DEF Promise!Receive
    <3> QED
      BY <3>2 DEF Promise!Next
  <2>2. CASE received' = received /\ outbox' = outbox
    BY <2>2, StutterStep
  <2>3. ASSUME NEW o \in Occurrence, NEW ev \in EventName, Enqueue(o, ev)
        PROVE  [Promise!Next]_Promise!vars
    <3>1. PICK S \in SUBSET Row : S = {r \in Row : r[1] = o /\ r[2] \in Subscribed(ev)}
      OBVIOUS
    <3>2. \A r \in S : StatusMap[r] = "absent"
      BY <2>3, <3>1 DEF Enqueue, IInv, EmittedInv, StatusMap, Status
    <3>3. \A r \in Row : Status(outbox'[r]) = IF r \in S THEN "open" ELSE Status(outbox[r])
      BY <2>3, <3>1 DEF Enqueue, FreshRow, Delivery, Status
    <3>4. StatusMap' = [r \in Row |-> IF r \in S THEN "open" ELSE StatusMap[r]]
      BY <3>3 DEF StatusMap
    <3>5. Promise!Publish(S)
      BY <2>3, <3>2, <3>4 DEF Promise!Publish, StatusMap, Status, Enqueue
    <3> QED
      BY <3>5 DEF Promise!Next
  <2>4. ASSUME NEW r \in Row, Replay(r) PROVE [Promise!Next]_Promise!vars
    <3>1. /\ received' = received
          /\ \A s \in Row : s # r => outbox'[s] = outbox[s]
          /\ Status(outbox[r]) = "dead" /\ Status(outbox'[r]) = "open"
      BY <2>4 DEF Replay, ReplayedRow, Delivery, Status, IInv, TypeOK
    <3> QED
      BY <3>1, OneRowStep DEF IInv
  <2>5. ASSUME NEW w \in Worker, ClaimUpdate(w) PROVE [Promise!Next]_Promise!vars
    <3>1. \A r \in Row : Status(outbox'[r]) = Status(outbox[r])
      <4>1. \A r \in locked[w] : outbox[r].state \in {"pending", "delivering"}
        BY DEF IInv, LockInv, IsDue
      <4> QED
        BY <2>5, <4>1 DEF ClaimUpdate, ClaimedRow, Delivery, Status
    <3> QED
      BY <2>5, <3>1, StutterStep DEF ClaimUpdate
  <2>6. ASSUME NEW w \in Worker, NEW state \in {"delivered", "pending", "dead"}, NEW delay \in Nat,
               CanSettle(w), LeaseHeld(due[w]), NextInBatch(w),
               state = "delivered" => result[w],
               outbox' = [outbox EXCEPT ![due[w].row] = SettledRow(@, state, delay)]
        PROVE  [Promise!Next]_Promise!vars
    <3> DEFINE r == due[w].row
    <3>1. r \in Row
      BY <2>6, DueRow DEF CanSettle, IInv
    <3>2. /\ received' = received
          /\ \A s \in Row : s # r => outbox'[s] = outbox[s]
          /\ outbox[r].state = "delivering" /\ outbox'[r].state = state
      BY <2>6, <3>1 DEF NextInBatch, LeaseHeld, SettledRow, Delivery, IInv, TypeOK
    <3>3. state = "delivered" => r \in received
      BY <2>6 DEF IInv, ReceivedInv
    <3> HIDE DEF r
    <3> QED
      BY <3>1, <3>2, <3>3, OneRowStep DEF Status, IInv
  <2>7. CASE Tick
    <3>1. \A r \in Row : Status(outbox'[r]) = Status(outbox[r])
      BY <2>7 DEF Tick, Aged, Delivery, Status
    <3> QED
      BY <2>7, <3>1, StutterStep DEF Tick
  <2>8. RowChange
    BY StepRows DEF IInv
  <2> QED
    BY <2>1, <2>2, <2>3, <2>4, <2>5, <2>6, <2>7, <2>8 DEF RowChange
<1> QED
  BY <1>1, <1>2, Invariance, PTL DEF Spec, KeepsPromise, Promise!Spec
=============================================================================
