----------------------------- MODULE Idempotency -----------------------------
(***************************************************************************)
(* The Idempotency-Key protocol: the middleware of internal/httpx and the  *)
(* store of internal/idempotency, for one (tenant, key).  Rows of other    *)
(* keys never meet.  Each statement of the store is a transaction of its   *)
(* own and a step of its own, so requests interleave between them.         *)
(***************************************************************************)
EXTENDS Integers

CONSTANTS
    Request,         \* requests that carry the key; one may be sent again
    Route,           \* method and chi route pattern
    Resource,        \* what the path parameters name
    Body,            \* query and body
    NoRequest,       \* "nobody"
    NoResponse,      \* "no response yet"
    Lease,           \* ticks a claim is held before it may be taken over
    Retention,       \* ticks a key is honoured
    RequestTimeout,  \* ticks a request may take (httpx requestTimeout)
    Stall,           \* TRUE: a request may be paused past its timeout
    MaxCrashes,      \* bound: processes that die or handlers that panic
    MaxDisconnects,  \* bound: request contexts cancelled under way
    MaxSweeps        \* bound: runs of the sweep command

Operation == [route : Route, resource : Resource, body : Body]

ASSUME IdempotencyAssumption ==
    /\ NoRequest \notin Request
    /\ NoResponse \notin Operation
    /\ Lease \in Nat /\ Retention \in Nat /\ RequestTimeout \in Nat
    /\ Lease < Retention
    /\ Stall \in BOOLEAN
    /\ MaxCrashes \in Nat /\ MaxDisconnects \in Nat /\ MaxSweeps \in Nat

VARIABLES
    op,           \* what each request asks for
    record,       \* the row of idempotency_keys
    pc,           \* where the handling of a request is
    round,        \* attempt of Begin's outer loop
    left,         \* ticks before the request times out, negative once it has
    ok,           \* the handler's effect committed
    got,          \* the operation whose response the client was sent
    effects,      \* committed effects of each operation
    sweeping,     \* a sweep statement has selected the row
    crashes, disconnects, sweeps,
    expiries,     \* completed records dropped at the end of their retention
    seized,       \* history: claims taken over from a request still running
    wiped         \* history: live records deleted by a sweep

request == <<pc, round, left, ok, got>>
faults  == <<crashes, disconnects>>
removed == <<expiries, seized, wiped>>
vars    == <<op, record, request, effects, sweeping, faults, sweeps, removed>>

Working == {"insert", "clear", "reinsert", "read", "takeover", "handler", "complete"}
-----------------------------------------------------------------------------
(* The record. *)

\* What the middleware hashes: the route pattern, not the path.
Fingerprint(o) == <<o.route, o.body>>

\* by is the request that claimed last, whose fingerprint the row stores; age
\* counts from created_at, and expires_at is created_at plus the retention;
\* from is the request whose response is stored, ok its effect.
Record(state, by, age, from, okay, replayable) ==
    [state |-> state, by |-> by, age |-> age, from |-> from, ok |-> okay,
     replayable |-> replayable]

Absent        == Record("absent", NoRequest, 0, NoRequest, FALSE, FALSE)
ClaimedBy(r)  == Record("in_progress", r, 0, NoRequest, FALSE, FALSE)

CompletedBy(r, replayable) ==
    Record("completed", record.by, record.age, r, ok[r], replayable)

\* Mutants: completed records can go stale; a claim is stale at once, or never.
LeaseExpiredAnyState == record.state # "absent" /\ record.age > Lease
LeaseExpiredAtOnce   == record.state = "in_progress"
LeaseNeverExpires    == FALSE

LeaseExpired == record.state = "in_progress" /\ record.age > Lease
Expired      == record.age >= Retention
-----------------------------------------------------------------------------
(* Begin. *)

Goto(r, label) == pc' = [pc EXCEPT ![r] = label]

\* The request is in its handler, or between the handler and Complete.
Running(r) == pc[r] \in {"handler", "complete"}

\* The client sends the request, or sends it again after a 409 or no answer.
Arrive(r) ==
    /\ pc[r] = "off"
    /\ Goto(r, "insert")
    /\ round' = [round EXCEPT ![r] = 1]
    /\ left' = [left EXCEPT ![r] = RequestTimeout]
    /\ ok' = [ok EXCEPT ![r] = FALSE]
    /\ UNCHANGED <<op, record, got, effects, sweeping, faults, sweeps, removed>>

\* INSERT ... ON CONFLICT DO NOTHING, before and after clearExpired.
Insert(r, conflict) ==
    /\ \/ /\ record.state = "absent"
          /\ record' = ClaimedBy(r)
          /\ Goto(r, "handler")
       \/ /\ record.state # "absent"
          /\ Goto(r, conflict)
          /\ UNCHANGED record
    /\ UNCHANGED <<op, round, left, ok, got, effects, sweeping, faults, sweeps, removed>>

TryClaim(r) ==
    \/ pc[r] = "insert" /\ Insert(r, "clear")
    \/ pc[r] = "reinsert" /\ Insert(r, "read")

\* DELETE of a completed record past its retention.
ClearExpired(r) ==
    /\ pc[r] = "clear"
    /\ \/ /\ record.state = "completed" /\ Expired
          /\ record' = Absent
          /\ sweeping' = FALSE
          /\ expiries' = expiries + 1
          /\ Goto(r, "reinsert")
       \/ /\ ~(record.state = "completed" /\ Expired)
          /\ Goto(r, "read")
          /\ UNCHANGED <<record, sweeping, expiries>>
    /\ UNCHANGED <<op, round, left, ok, got, effects, faults, sweeps, seized, wiped>>

\* 409: back to the client, which may send the request again.
InProgress(r) == Goto(r, "off") /\ UNCHANGED <<round, got>>

\* FingerprintsMatch, against the fingerprint the last claim stored.
SameRequest(r) == Fingerprint(op[record.by]) = Fingerprint(op[r])

\* read and the switch that classifies what it found.
Classify(r) ==
    /\ pc[r] = "read"
    /\ \/ /\ record.state = "absent" /\ round[r] = 1
          /\ round' = [round EXCEPT ![r] = 2]
          /\ Goto(r, "insert") /\ UNCHANGED got
       \/ /\ record.state = "absent" /\ round[r] = 2
          /\ InProgress(r)
       \/ /\ record.state # "absent" /\ ~SameRequest(r)
          /\ Goto(r, "done") /\ UNCHANGED <<round, got>>
       \/ /\ record.state = "completed" /\ SameRequest(r)
          /\ got' = IF record.replayable
                    THEN [got EXCEPT ![r] = op[record.from]] ELSE got
          /\ Goto(r, "done") /\ UNCHANGED round
       \/ /\ LeaseExpired /\ SameRequest(r)
          /\ Goto(r, "takeover") /\ UNCHANGED <<round, got>>
       \/ /\ record.state = "in_progress" /\ ~LeaseExpired /\ SameRequest(r)
          /\ InProgress(r)
    /\ UNCHANGED <<op, record, left, ok, effects, sweeping, faults, sweeps, removed>>

\* Mutant: the UPDATE does not check again that the claim is stale.
TakeOverBlindly(r) ==
    /\ pc[r] = "takeover"
    /\ \/ /\ record.state = "in_progress"
          /\ record' = ClaimedBy(r)
          /\ seized' = IF Running(record.by) THEN seized + 1 ELSE seized
          /\ Goto(r, "handler")
       \/ /\ record.state # "in_progress"
          /\ Goto(r, "off")
          /\ UNCHANGED <<record, seized>>
    /\ UNCHANGED <<op, round, left, ok, got, effects, sweeping, faults, sweeps, expiries, wiped>>

\* Conditional on the record being stale still; the loser is answered 409.
TakeOver(r) ==
    /\ pc[r] = "takeover"
    /\ \/ /\ LeaseExpired
          /\ record' = ClaimedBy(r)
          /\ seized' = IF Running(record.by) THEN seized + 1 ELSE seized
          /\ Goto(r, "handler")
       \/ /\ ~LeaseExpired
          /\ Goto(r, "off")
          /\ UNCHANGED <<record, seized>>
    /\ UNCHANGED <<op, round, left, ok, got, effects, sweeping, faults, sweeps, expiries, wiped>>
-----------------------------------------------------------------------------
(* The handler, and Complete after it. *)

\* Mutant: the recorded response claims a success whether or not one happened.
HandleOptimistic(r, commits) ==
    /\ pc[r] = "handler"
    /\ ok' = [ok EXCEPT ![r] = TRUE]
    /\ effects' = IF commits THEN [effects EXCEPT ![op[r]] = @ + 1] ELSE effects
    /\ Goto(r, "complete")
    /\ UNCHANGED <<op, record, round, left, got, sweeping, faults, sweeps, removed>>

\* The handler's own transaction commits, or it answers an error.
Handle(r, commits) ==
    /\ pc[r] = "handler"
    /\ ok' = [ok EXCEPT ![r] = commits]
    /\ effects' = IF commits THEN [effects EXCEPT ![op[r]] = @ + 1] ELSE effects
    /\ Goto(r, "complete")
    /\ UNCHANGED <<op, record, round, left, got, sweeping, faults, sweeps, removed>>

\* Whoever the claim belongs to now, an in_progress record is completed with
\* this response; the client gets its response either way.
Complete(r, replayable) ==
    /\ pc[r] = "complete"
    /\ record' = IF record.state = "in_progress" THEN CompletedBy(r, replayable) ELSE record
    /\ got' = [got EXCEPT ![r] = op[r]]
    /\ Goto(r, "done")
    /\ UNCHANGED <<op, round, left, ok, effects, sweeping, faults, sweeps, removed>>

Lose(r) ==
    /\ pc[r] \in Working
    /\ Goto(r, "off")
    /\ UNCHANGED <<op, record, round, left, ok, got, effects, sweeping, sweeps, removed>>

\* The process dies, or the handler panics past Complete.
Crash(r) ==
    /\ crashes < MaxCrashes /\ crashes' = crashes + 1
    /\ Lose(r) /\ UNCHANGED disconnects

\* The client hangs up or the request times out: its context is cancelled, and
\* whatever statement comes next, Complete included, fails.
Disconnect(r) ==
    /\ disconnects < MaxDisconnects /\ disconnects' = disconnects + 1
    /\ Lose(r) /\ UNCHANGED crashes
-----------------------------------------------------------------------------
(* Sweep and time. *)

\* The statement's snapshot: WITH expired AS (SELECT ...).
SweepSelect ==
    /\ ~sweeping /\ sweeps < MaxSweeps
    /\ record.state # "absent" /\ (Expired \/ LeaseExpired)
    /\ sweeping' = TRUE
    /\ sweeps' = sweeps + 1
    /\ UNCHANGED <<op, record, request, effects, faults, removed>>

\* DELETE ... USING expired: the row is matched by its key alone, so a version
\* written since the snapshot is deleted as well.
SweepDelete ==
    /\ sweeping
    /\ record' = Absent
    /\ sweeping' = FALSE
    /\ expiries' = IF record.state = "completed" /\ Expired THEN expiries + 1 ELSE expiries
    /\ wiped' = IF Running(record.by) \/ (record.state = "completed" /\ ~Expired)
                THEN wiped + 1 ELSE wiped
    /\ UNCHANGED <<op, request, effects, faults, sweeps, seized>>

TimeMayPass ==
    /\ ~sweeping
    /\ Stall \/ \A r \in Request : pc[r] \in Working => left[r] > 0

Tick ==
    /\ TimeMayPass
    /\ record' = Record(record.state, record.by,
                        IF record.state # "absent" /\ record.age < Retention
                        THEN record.age + 1 ELSE record.age,
                        record.from, record.ok, record.replayable)
    /\ left' = [r \in Request |-> IF left[r] >= 0 THEN left[r] - 1 ELSE -1]
    /\ UNCHANGED <<op, pc, round, ok, got, effects, sweeping, faults, sweeps, removed>>
-----------------------------------------------------------------------------
Init ==
    /\ op \in [Request -> Operation]
    /\ record = Absent
    /\ pc = [r \in Request |-> "off"]
    /\ round = [r \in Request |-> 1]
    /\ left = [r \in Request |-> -1]
    /\ ok = [r \in Request |-> FALSE]
    /\ got = [r \in Request |-> NoResponse]
    /\ effects = [o \in Operation |-> 0]
    /\ sweeping = FALSE
    /\ crashes = 0 /\ disconnects = 0 /\ sweeps = 0
    /\ expiries = 0 /\ seized = 0 /\ wiped = 0

\* The steps of the service for a request that is there.
Serve(r) ==
    \/ TryClaim(r) \/ ClearExpired(r) \/ Classify(r) \/ TakeOver(r)
    \/ \E commits \in BOOLEAN : Handle(r, commits)
    \/ \E replayable \in BOOLEAN : Complete(r, replayable)

Next ==
    \/ \E r \in Request : Arrive(r) \/ Serve(r) \/ Crash(r) \/ Disconnect(r)
    \/ SweepSelect \/ SweepDelete
    \/ Tick

Spec == Init /\ [][Next]_vars

\* The service handles what arrives, clients send again what was not answered,
\* a sweep finishes, and time passes.
FairSpec ==
    /\ Spec /\ WF_vars(Tick) /\ WF_vars(SweepDelete)
    /\ \A r \in Request : WF_vars(Arrive(r)) /\ WF_vars(Serve(r))
-----------------------------------------------------------------------------
(* Properties. *)

RecordOK ==
    /\ record \in [state : {"absent", "in_progress", "completed"},
                   by : Request \cup {NoRequest}, age : Nat,
                   from : Request \cup {NoRequest}, ok : BOOLEAN, replayable : BOOLEAN]
    /\ record.state # "absent" => record.by \in Request
    /\ record.state = "completed" => record.from \in Request

\* The row, the requests and the counters keep their types.
TypeOK ==
    /\ op \in [Request -> Operation]
    /\ RecordOK
    /\ pc \in [Request -> Working \cup {"off", "done"}]
    /\ round \in [Request -> 1..2]
    /\ left \in [Request -> -1..RequestTimeout]
    /\ ok \in [Request -> BOOLEAN]
    /\ got \in [Request -> Operation \cup {NoResponse}]
    /\ effects \in [Operation -> Nat]
    /\ sweeping \in BOOLEAN
    /\ crashes \in Nat /\ disconnects \in Nat /\ sweeps \in Nat
    /\ expiries \in Nat /\ seized \in Nat /\ wiped \in Nat

\* A recorded success is a success: the effect of the operation it belongs to
\* was committed before the response could be recorded (Complete after the
\* handler, never before).
RecordedEffectHappened ==
    record.state = "completed" /\ record.ok => effects[op[record.from]] > 0

\* The request is in its handler and has not outlived its timeout.
InTime(r) == Running(r) /\ left[r] >= 0

\* Two requests with the key are never in their handlers at the same time unless
\* one of them has outlived its timeout, or a sweep deleted a live record (the
\* claim of Begin is an exclusive lock for as long as a request may take).
NoConcurrentHandlers ==
    wiped = 0 => \A q, r \in Request : InTime(q) /\ InTime(r) => q = r

\* The handlers behind one key commit at most one effect, and one more for each
\* request lost before its response was recorded, each record that reached the
\* end of its retention, each claim taken over from a request still running and
\* each live record a sweep deleted.
EffectsExcused ==
    \A o \in Operation :
        effects[o] <= 1 + crashes + disconnects + expiries + seized + wiped

\* A replayed response is one to a request with the same fingerprint.
ReplayMatchesFingerprint ==
    \A r \in Request : got[r] # NoResponse => Fingerprint(got[r]) = Fingerprint(op[r])

\* Complete matches whatever claim is in progress, so a handler can complete one
\* that is not its own; but only a handler that has outlived its timeout, or whose
\* record a sweep deleted.
OnlyLateCompletesAnother ==
    [][\A r \in Request : pc[r] = "complete" /\ pc'[r] = "done" /\ record' # record
          => record.by = r \/ left[r] < 0 \/ wiped > 0]_vars

\* What Complete says of a claim "taken over while this handler ran": its update
\* matches no row and "only the replay record is lost", so whoever took over keeps
\* the record.
OnlyHolderCompletes ==
    [][\A r \in Request : pc[r] = "complete" /\ pc'[r] = "done" /\ record' # record
          => record.by = r]_vars

\* Whatever is lost under way, a client that keeps sending its request is in the
\* end answered with a response, a replay or a final refusal, never 409 for ever.
EventuallyAnswered ==
    \A r \in Request : <>(pc[r] = "done")
=============================================================================
