------------------------------ MODULE Migrate ------------------------------
(***************************************************************************)
(* The migration runner (internal/platform/migrations/migrate.go, driven   *)
(* by cmd/migrate): several deploys, of releases that may differ, run Up   *)
(* against one database.  A session-level advisory lock serialises them;   *)
(* each file and its row in schema_migrations commit in one transaction.   *)
(* A runner may die or be cancelled anywhere, and its session with it.     *)
(***************************************************************************)
EXTENDS Integers, Sequences, FiniteSets

CONSTANTS
    Runner,
    Files,      \* the files of each runner's release, in order of their names
    None,
    MaxRuns     \* bound: runs in all

\* Load sorts the files by name and refuses a duplicate version.  A release has the files of the
\* releases before it, possibly edited, and versions are counted from 1 without a gap, as those
\* in the repository (0001 to 0012): Load does not ask for that, and a file that a later release
\* puts before one already applied would be applied after it.
ASSUME MigrateAssumption ==
    /\ \A r \in Runner :
        /\ DOMAIN Files[r] = 1 .. Len(Files[r]) /\ Len(Files[r]) \in Nat \ {0}
        /\ \A i \in DOMAIN Files[r] :
              Files[r][i] = [version |-> i, sum |-> Files[r][i].sum] /\ Files[r][i].sum # None
    /\ MaxRuns \in Nat
    /\ None \notin Runner

Version == UNION {DOMAIN Files[r] : r \in Runner}
Sum     == UNION {{Files[r][i].sum : i \in DOMAIN Files[r]} : r \in Runner}

VARIABLES
    lock,       \* the session that holds the advisory lock
    rows,       \* schema_migrations: the checksum of each version
    schema,     \* the files whose SQL took effect, in order
    writable,   \* app_rw may write to schema_migrations
    run,        \* the runners
    runs        \* how many runs were started

vars == <<lock, rows, schema, writable, run, runs>>

Ended  == {"idle", "ok", "failed", "gone"}
Inside == {"ensure", "read", "loop", "record", "unlock"}

Run == [pc : Ended \cup Inside \cup {"waiting", "deadwait", "dead"},
        i : Nat, seen : [Version -> Sum \cup {None}], failed : BOOLEAN]

Nothing == [v \in Version |-> None]

File(r) == Files[r][run[r].i]

Goto(r, pc) == run' = [run EXCEPT ![r].pc = pc]

\* Return an error: the deferred unlock is what is left to do.
Fail(r) == run' = [run EXCEPT ![r].pc = "unlock", ![r].failed = TRUE]
-----------------------------------------------------------------------------
(* Up, statement by statement. *)

\* cmd/migrate up: connect, and ask for the lock.
Start(r) ==
    /\ run[r].pc \in Ended /\ runs < MaxRuns
    /\ run' = [run EXCEPT ![r] = [pc |-> "waiting", i |-> 1, seen |-> Nothing, failed |-> FALSE]]
    /\ runs' = runs + 1
    /\ UNCHANGED <<lock, rows, schema, writable>>

LockFree == lock = None

\* SELECT pg_advisory_lock.
Lock(r) ==
    /\ run[r].pc = "waiting" /\ LockFree
    /\ lock' = r
    /\ Goto(r, "ensure")
    /\ UNCHANGED <<rows, schema, writable, runs>>

\* CREATE TABLE IF NOT EXISTS.
Ensure(r) ==
    /\ run[r].pc = "ensure"
    /\ Goto(r, "read")
    /\ UNCHANGED <<lock, rows, schema, writable, runs>>

Snapshot == rows

\* appliedChecksums: read once, before the first file.
ReadApplied(r) ==
    /\ run[r].pc = "read"
    /\ run' = [run EXCEPT ![r].pc = "loop", ![r].seen = Snapshot]
    /\ UNCHANGED <<lock, rows, schema, writable, runs>>

\* The loop over the files.
Pending(r) == run[r].i \in DOMAIN Files[r]

\* Mutant: the checksum is not compared.
ChangedNever(r) == FALSE

Changed(r) == run[r].seen[File(r).version] # File(r).sum

\* A file that was applied before: skip it, or stop when it was edited since.
Skip(r) ==
    /\ run[r].pc = "loop" /\ Pending(r)
    /\ run[r].seen[File(r).version] # None
    /\ \/ Changed(r) /\ Fail(r)
       \/ ~Changed(r) /\ run' = [run EXCEPT ![r].i = @ + 1]
    /\ UNCHANGED <<lock, rows, schema, writable, runs>>

\* Mutant: the SQL runs outside the transaction.
EffectAtOnce(r) == schema' = Append(schema, File(r))

\* The effect of the SQL before its transaction commits.
Effect(r) == UNCHANGED schema

\* applyOne: the file's SQL in a transaction of its own, which it may fail.
Exec(r) ==
    /\ run[r].pc = "loop" /\ Pending(r)
    /\ run[r].seen[File(r).version] = None
    /\ \/ Fail(r) /\ UNCHANGED schema
       \/ Goto(r, "record") /\ Effect(r)
    /\ UNCHANGED <<lock, rows, writable, runs>>

\* The first file grants app_rw what tables there are (0001_init.sql).
Grants(f) == f.version = 1

Conflict(r) == rows[File(r).version] # None

\* The row and the commit.  The primary key refuses a version that is recorded.
Commit(r) ==
    /\ run[r].pc = "record"
    /\ \/ /\ Conflict(r)
          /\ Fail(r)
          /\ UNCHANGED <<rows, schema, writable>>
       \/ /\ ~Conflict(r)
          /\ rows' = [rows EXCEPT ![File(r).version] = File(r).sum]
          /\ schema' = Append(schema, File(r))
          /\ writable' = (writable \/ Grants(File(r)))
          /\ run' = [run EXCEPT ![r].pc = "loop", ![r].i = @ + 1]
    /\ UNCHANGED <<lock, runs>>

\* REVOKE ALL ON TABLE schema_migrations FROM app_rw.
Revoked == FALSE

Restrict(r) ==
    /\ run[r].pc = "loop" /\ ~Pending(r)
    /\ writable' = Revoked
    /\ Goto(r, "unlock")
    /\ UNCHANGED <<lock, rows, schema, runs>>

\* Mutant: only a successful run unlocks.
ReleasedOnSuccess(r) == IF run[r].failed THEN lock ELSE None

Released(r) == None

\* The deferred unlock, in a context that the caller's cancellation does not reach.
Unlock(r) ==
    /\ run[r].pc = "unlock"
    /\ lock' = Released(r)
    /\ Goto(r, IF run[r].failed THEN "failed" ELSE "ok")
    /\ UNCHANGED <<rows, schema, writable, runs>>
-----------------------------------------------------------------------------
(* Cancellation and death. *)

\* The two minutes are over between two statements: the next one reports it.
Cancel(r) ==
    /\ run[r].pc \in Inside \ {"unlock"}
    /\ Fail(r)
    /\ UNCHANGED <<lock, rows, schema, writable, runs>>

\* The process dies, or is cancelled within a statement, which closes the connection.
Die(r) ==
    /\ run[r].pc \notin Ended \cup {"deadwait", "dead"}
    /\ Goto(r, IF run[r].pc = "waiting" THEN "deadwait" ELSE "dead")
    /\ UNCHANGED <<lock, rows, schema, writable, runs>>

\* The server serves a waiting session before it notices that nobody is there.
LockDead(r) ==
    /\ run[r].pc = "deadwait" /\ LockFree
    /\ lock' = r
    /\ Goto(r, "dead")
    /\ UNCHANGED <<rows, schema, writable, runs>>

\* The server ends the session: its transaction is rolled back and its lock released.
SessionEnds(r) ==
    /\ run[r].pc = "dead"
    /\ lock' = IF lock = r THEN None ELSE lock
    /\ Goto(r, "gone")
    /\ UNCHANGED <<rows, schema, writable, runs>>
-----------------------------------------------------------------------------
Init ==
    /\ lock = None
    /\ rows = Nothing /\ schema = <<>> /\ writable = FALSE
    /\ run = [r \in Runner |-> [pc |-> "idle", i |-> 1, seen |-> Nothing, failed |-> FALSE]]
    /\ runs = 0

Step(r) ==
    \/ Ensure(r) \/ ReadApplied(r) \/ Skip(r) \/ Exec(r) \/ Commit(r) \/ Restrict(r) \/ Unlock(r)
    \/ SessionEnds(r)

Next == \E r \in Runner :
    Start(r) \/ Lock(r) \/ LockDead(r) \/ Step(r) \/ Cancel(r) \/ Die(r)

\* A runner that has the lock goes on, a dead session is noticed, and the server's queue serves
\* every session that waits.
Fairness == \A r \in Runner : WF_vars(Step(r)) /\ SF_vars(Lock(r)) /\ SF_vars(LockDead(r))

Spec == Init /\ [][Next]_vars /\ Fairness
-----------------------------------------------------------------------------
(* Properties. *)

\* The values of the variables; a runner past the lock is the one that holds it.
TypeOK ==
    /\ lock \in Runner \cup {None}
    /\ rows \in [Version -> Sum \cup {None}]
    /\ schema \in Seq([version : Version, sum : Sum])
    /\ writable \in BOOLEAN
    /\ run \in [Runner -> Run]
    /\ \A r \in Runner : run[r].pc \in Inside => lock = r
    /\ \A r \in Runner : run[r].pc = "record" => run[r].i \in DOMAIN Files[r]

\* What took effect is what is recorded (applyOne's transaction): the schema is the recorded
\* versions with their checksums, each once and in order, wherever runners died; so an edited
\* file, a failed one or a late release never leaves a gap.
SchemaIsRecorded ==
    /\ \A i \in DOMAIN schema : schema[i].version = i /\ rows[i] = schema[i].sum
    /\ \A v \in Version : rows[v] # None => v \in DOMAIN schema

\* "The second deployer waits rather than racing": no run fails because of another one.  When
\* a file is about to be recorded its version is not, although the runner looked only once.
NoRace == \A r \in Runner : run[r].pc = "record" => ~Conflict(r)

\* A run that reports success leaves every file of its release in effect, with the checksum it
\* carries itself: an edited file is detected and not skipped.
SuccessIsCurrent ==
    \A r \in Runner : run[r].pc = "ok" =>
        \A i \in DOMAIN Files[r] : rows[Files[r][i].version] = Files[r][i].sum

\* Once a run has succeeded the application cannot rewrite the history, now and after the runs
\* of later releases, whether those succeed or not (ADR-011).  A first run that stops after its
\* first file and before the REVOKE leaves the history writable until a run succeeds.
HistoryProtected == \A r \in Runner : run[r].pc = "ok" => ~writable

\* What concurrent deploys get (Up): none fails because of another, and the success of one
\* holds for its own files and for the history.
RunsSound == NoRace /\ SuccessIsCurrent /\ HistoryProtected

\* Every run ends, with the lock released: nobody waits for a runner that failed, was cancelled
\* or died.
EveryRunEnds == \A r \in Runner : run[r].pc \notin Ended ~> run[r].pc \in Ended
=============================================================================
