--------------------------- MODULE DeliveryPromise ---------------------------
(***************************************************************************)
(* What the webhook outbox promises, with no workers, leases or clock: a   *)
(* published delivery stays open until its receiver has acted on it or it  *)
(* is given up, and one that was given up may be requeued.                 *)
(***************************************************************************)
CONSTANT Row

VARIABLES
    status,    \* what has become of each delivery
    received   \* deliveries the receiver has acted on, perhaps repeatedly

vars == <<status, received>>

Init ==
    /\ status = [r \in Row |-> "absent"]
    /\ received = {}

\* One event, one delivery for each subscriber, all in one transaction.
Publish(S) ==
    /\ \A r \in S : status[r] = "absent"
    /\ status' = [r \in Row |-> IF r \in S THEN "open" ELSE status[r]]
    /\ UNCHANGED received

\* At least once: a late or repeated request may arrive in any later state.
Receive(r) ==
    /\ status[r] # "absent"
    /\ received' = received \cup {r}
    /\ UNCHANGED status

Finish(r) ==
    /\ status[r] = "open" /\ r \in received
    /\ status' = [status EXCEPT ![r] = "delivered"]
    /\ UNCHANGED received

GiveUp(r) ==
    /\ status[r] = "open"
    /\ status' = [status EXCEPT ![r] = "dead"]
    /\ UNCHANGED received

Requeue(r) ==
    /\ status[r] = "dead"
    /\ status' = [status EXCEPT ![r] = "open"]
    /\ UNCHANGED received

Next ==
    \/ \E S \in SUBSET Row : Publish(S)
    \/ \E r \in Row : Receive(r) \/ Finish(r) \/ GiveUp(r) \/ Requeue(r)

Spec == Init /\ [][Next]_vars

\* No delivery stays open for ever.
Settles ==
    \A r \in Row : (status[r] = "open") ~> (status[r] \in {"delivered", "dead"})
=============================================================================
