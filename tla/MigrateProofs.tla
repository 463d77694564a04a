--------------------------- MODULE MigrateProofs ---------------------------
(***************************************************************************)
(* Safety of the migration runner, for any number of runners, of releases  *)
(* and of runs.  The invariants of the run do not stand alone: what a      *)
(* runner remembers of the table (seen) must be tied to what the table     *)
(* holds while it is inside, which is what the lock is for.                *)
(***************************************************************************)
EXTENDS Migrate, TLAPS

\* What a runner between the read and the unlock knows: the files before its position are
\* recorded as its release has them, and the rest of the table is what it read.
Knows(r) ==
    /\ run[r].pc \in {"waiting", "ensure", "read"} => run[r].i = 1
    /\ run[r].pc \in {"loop", "record"} =>
          /\ run[r].i \in 1 .. Len(Files[r]) + 1
          /\ \A j \in 1 .. run[r].i - 1 : rows[j] = Files[r][j].sum
          /\ \A v \in Version : v >= run[r].i => rows[v] = run[r].seen[v]
    /\ run[r].pc = "record" =>
          run[r].i \in 1 .. Len(Files[r]) /\ run[r].seen[run[r].i] = None
    /\ run[r].pc = "ok" \/ (run[r].pc = "unlock" /\ ~run[r].failed) =>
          /\ \A j \in 1 .. Len(Files[r]) : rows[j] = Files[r][j].sum
          /\ ~writable

Knowledge == \A r \in Runner : Knows(r)

IInv == TypeOK /\ SchemaIsRecorded /\ Knowledge

\* The files of a release are numbered from 1 and have checksums.
LEMMA FilesAreNumbered ==
    ASSUME NEW r \in Runner
    PROVE  /\ Len(Files[r]) \in Nat /\ Len(Files[r]) >= 1
           /\ DOMAIN Files[r] = 1 .. Len(Files[r])
           /\ 1 .. Len(Files[r]) \subseteq Version
           /\ \A i \in 1 .. Len(Files[r]) :
                /\ Files[r][i] \in [version : Version, sum : Sum]
                /\ Files[r][i].version = i
                /\ Files[r][i].sum \in Sum /\ Files[r][i].sum # None
<1>1. /\ DOMAIN Files[r] = 1 .. Len(Files[r]) /\ Len(Files[r]) \in Nat \ {0}
      /\ \A i \in DOMAIN Files[r] :
            Files[r][i] = [version |-> i, sum |-> Files[r][i].sum] /\ Files[r][i].sum # None
  BY MigrateAssumption
<1>2. 1 .. Len(Files[r]) \subseteq Version
  BY <1>1 DEF Version
<1>3. \A i \in 1 .. Len(Files[r]) : Files[r][i].sum \in Sum
  BY <1>1 DEF Sum
<1>4. ASSUME NEW i \in 1 .. Len(Files[r])
      PROVE  Files[r][i] \in [version : Version, sum : Sum] /\ Files[r][i].version = i
  <2>1. Files[r][i] = [version |-> i, sum |-> Files[r][i].sum]
    BY <1>1
  <2>2. [version |-> i, sum |-> Files[r][i].sum] \in [version : Version, sum : Sum]
    BY <1>2, <1>3
  <2>3. QED BY <2>1, <2>2
<1>5. QED BY <1>1, <1>2, <1>3, <1>4

\* Versions are positive numbers, and None is no checksum.
LEMMA VersionsAreNumbers == Version \subseteq Nat \ {0} /\ None \notin Sum
<1>1. ASSUME NEW v \in Version PROVE v \in Nat \ {0}
  <2>1. PICK r \in Runner : v \in DOMAIN Files[r]
    BY DEF Version
  <2>2. QED BY <2>1, FilesAreNumbered
<1>2. ASSUME NEW s \in Sum PROVE s # None
  <2>1. PICK r \in Runner : \E i \in DOMAIN Files[r] : s = Files[r][i].sum
    BY DEF Sum
  <2>2. QED BY <2>1, FilesAreNumbered
<1>3. QED BY <1>1, <1>2

\* An empty database and no run: nothing to know.
LEMMA InitIInv == Init => IInv
<1> SUFFICES ASSUME Init PROVE IInv
  OBVIOUS
<1>1. TypeOK
  <2>1. schema \in Seq([version : Version, sum : Sum])
    BY DEF Init
  <2>2. Nothing \in [Version -> Sum \cup {None}]
    BY DEF Nothing
  <2>3. [pc |-> "idle", i |-> 1, seen |-> Nothing, failed |-> FALSE] \in Run
    BY <2>2 DEF Run, Ended
  <2>4. QED BY <2>1, <2>2, <2>3 DEF Init, TypeOK, Inside
<1>2. SchemaIsRecorded
  BY DEF Init, SchemaIsRecorded, Nothing
<1>3. Knowledge
  BY DEF Init, Knowledge, Knows
<1>4. QED BY <1>1, <1>2, <1>3 DEF IInv

\* Only one runner is inside.
LEMMA OneInside ==
    ASSUME TypeOK, NEW r \in Runner, NEW q \in Runner,
           run[r].pc \in Inside, run[q].pc \in Inside
    PROVE  q = r
BY DEF TypeOK

\* Steps that leave the database alone keep SchemaIsRecorded.
LEMMA QuietSchema ==
    ASSUME SchemaIsRecorded, UNCHANGED <<rows, schema>>
    PROVE  SchemaIsRecorded'
BY DEF SchemaIsRecorded

\* Every step keeps the types, and with them the lock's owner.
LEMMA TypeStep ==
    ASSUME IInv, [Next]_vars
    PROVE  TypeOK'
<1> USE DEF IInv
<1>1. TypeOK
  OBVIOUS
<1>2. CASE UNCHANGED vars
  BY <1>1, <1>2 DEF vars, TypeOK
<1>3. ASSUME NEW r \in Runner,
             Start(r) \/ Lock(r) \/ LockDead(r) \/ Step(r) \/ Cancel(r) \/ Die(r)
      PROVE  TypeOK'
  <2>0. /\ run \in [Runner -> Run] /\ run[r] \in Run
        /\ run[r].i \in Nat /\ run[r].failed \in BOOLEAN
        /\ run[r].seen \in [Version -> Sum \cup {None}]
    BY DEF TypeOK, Run
  <2>1. CASE Start(r)
    <3>1. Nothing \in [Version -> Sum \cup {None}]
      BY DEF Nothing
    <3>2. [pc |-> "waiting", i |-> 1, seen |-> Nothing, failed |-> FALSE] \in Run
      BY <3>1 DEF Run
    <3>3. QED BY <2>0, <2>1, <3>2 DEF Start, TypeOK, Inside
  <2>2. CASE Lock(r)
    BY <2>0, <2>2, MigrateAssumption DEF Lock, LockFree, Goto, TypeOK, Run, Inside, Ended
  <2>3. CASE LockDead(r)
    BY <2>0, <2>3, MigrateAssumption DEF LockDead, LockFree, Goto, TypeOK, Run, Inside, Ended
  <2>4. CASE Ensure(r)
    BY <2>0, <2>4 DEF Ensure, Goto, TypeOK, Run, Inside, Ended
  <2>5. CASE ReadApplied(r)
    BY <2>0, <2>5 DEF ReadApplied, Snapshot, TypeOK, Run, Inside, Ended
  <2>6. CASE Skip(r)
    <3>1. CASE Fail(r)
      BY <2>0, <2>6, <3>1 DEF Skip, Fail, TypeOK, Run, Inside, Ended
    <3>2. CASE run' = [run EXCEPT ![r].i = @ + 1]
      <4>1. run[r].pc = "loop" /\ UNCHANGED <<lock, rows, schema, writable>>
        BY <2>6 DEF Skip
      <4>2. [run[r] EXCEPT !.i = @ + 1] \in Run
        BY <2>0 DEF Run
      <4>3. run' \in [Runner -> Run] /\ \A q \in Runner : run'[q].pc = run[q].pc
        BY <2>0, <3>2, <4>2 DEF Run
      <4>4. \A q \in Runner : run[q].pc = "record" => run'[q].i = run[q].i
        BY <2>0, <3>2, <4>1
      <4>5. QED BY <4>1, <4>3, <4>4 DEF TypeOK
    <3>3. QED BY <2>6, <3>1, <3>2 DEF Skip
  <2>7. CASE Exec(r)
    <3>1. CASE Fail(r)
      BY <2>0, <2>7, <3>1 DEF Exec, Effect, Fail, TypeOK, Run, Inside, Ended
    <3>2. CASE Goto(r, "record")
      BY <2>0, <2>7, <3>2 DEF Exec, Effect, Pending, Goto, TypeOK, Run, Inside, Ended
    <3>3. QED BY <2>7, <3>1, <3>2 DEF Exec
  <2>8. CASE Commit(r)
    <3>1. CASE Conflict(r)
      <4>1. Fail(r) /\ UNCHANGED <<lock, rows, schema, writable>> /\ run[r].pc = "record"
        BY <2>8, <3>1 DEF Commit
      <4>2. QED BY <2>0, <4>1 DEF Fail, TypeOK, Run, Inside, Ended
    <3>2. CASE ~Conflict(r)
      <4>1. /\ File(r).version \in Version /\ File(r).sum \in Sum
            /\ File(r) \in [version : Version, sum : Sum]
        BY <2>8, FilesAreNumbered DEF Commit, TypeOK, File
      <4>2. rows' \in [Version -> Sum \cup {None}]
        BY <2>8, <3>2, <4>1 DEF Commit, TypeOK
      <4>6. writable' \in BOOLEAN
        <5>1. writable' = (writable \/ Grants(File(r)))
          BY <2>8, <3>2 DEF Commit
        <5>2. QED BY <5>1, Zenon DEF Grants
      <4>3. schema' \in Seq([version : Version, sum : Sum])
        <5>1. schema' = Append(schema, File(r))
          BY <2>8, <3>2 DEF Commit
        <5>2. schema \in Seq([version : Version, sum : Sum])
          BY DEF TypeOK
        <5>3. QED BY <4>1, <5>1, <5>2
      <4>4. /\ run' = [run EXCEPT ![r].pc = "loop", ![r].i = @ + 1]
            /\ run[r].pc = "record" /\ lock' = lock
        BY <2>8, <3>2 DEF Commit
      <4>7. /\ run' \in [Runner -> Run] /\ lock' \in Runner \cup {None}
            /\ \A q \in Runner : run'[q].pc \in Inside => lock' = q
            /\ \A q \in Runner : run'[q].pc = "record" => run'[q].i \in DOMAIN Files[q]
        <5>1. [run[r] EXCEPT !.pc = "loop", !.i = @ + 1] \in Run
          <6>1. "loop" \in Ended \cup Inside \cup {"waiting", "deadwait", "dead"}
            BY DEF Inside
          <6>2. [run[r] EXCEPT !.pc = "loop"] \in Run
            BY <2>0, <6>1 DEF Run
          <6>3. run[r].i + 1 \in Nat
            BY <2>0
          <6>4. [[run[r] EXCEPT !.pc = "loop"] EXCEPT !.i = run[r].i + 1] \in Run
            BY <6>2, <6>3 DEF Run
          <6>5. [run[r] EXCEPT !.pc = "loop", !.i = @ + 1]
                   = [[run[r] EXCEPT !.pc = "loop"] EXCEPT !.i = run[r].i + 1]
            BY <2>0 DEF Run
          <6>6. QED BY <6>4, <6>5
        <5>2. run' = [run EXCEPT ![r] = [run[r] EXCEPT !.pc = "loop", !.i = @ + 1]]
          BY <2>0, <4>4 DEF Run
        <5>3. run' \in [Runner -> Run] /\ run'[r].pc = "loop"
              /\ \A q \in Runner \ {r} : run'[q] = run[q]
          BY <2>0, <5>1, <5>2 DEF Run
        <5>4. lock = r
          BY <4>4 DEF TypeOK, Inside
        <5>5. QED BY <4>4, <5>3, <5>4 DEF TypeOK
      <4>5. QED BY <4>2, <4>3, <4>6, <4>7 DEF TypeOK
    <3>3. QED BY <3>1, <3>2
  <2>9. CASE Restrict(r)
    BY <2>0, <2>9 DEF Restrict, Revoked, Goto, TypeOK, Run, Inside, Ended
  <2>10. CASE Unlock(r)
    BY <2>0, <2>10 DEF Unlock, Released, Goto, TypeOK, Run, Inside, Ended
  <2>11. CASE SessionEnds(r)
    BY <2>0, <2>11 DEF SessionEnds, Goto, TypeOK, Run, Inside, Ended
  <2>12. CASE Cancel(r)
    BY <2>0, <2>12 DEF Cancel, Fail, TypeOK, Run, Inside, Ended
  <2>13. CASE Die(r)
    BY <2>0, <2>13 DEF Die, Goto, TypeOK, Run, Inside, Ended
  <2>14. QED
    BY <1>3, <2>1, <2>2, <2>3, <2>4, <2>5, <2>6, <2>7, <2>8, <2>9, <2>10, <2>11, <2>12, <2>13
    DEF Step
<1>4. QED BY <1>2, <1>3 DEF Next

\* An element of a sequence.
LEMMA ElementOf ==
    ASSUME NEW S, NEW s \in Seq(S), NEW k \in DOMAIN s
    PROVE  s[k] \in S
<1>1. s \in [1 .. Len(s) -> S]
  OBVIOUS
<1>2. QED BY <1>1

\* A commit extends the schema by the next version: all the earlier ones are recorded and this
\* one is not, so the schema ends just before it.
LEMMA CommitExtends ==
    ASSUME IInv, NEW r \in Runner, Commit(r)
    PROVE  /\ run[r].i \in 1 .. Len(Files[r]) /\ File(r).version = run[r].i
           /\ ~Conflict(r)
           /\ Len(schema) = run[r].i - 1
<1> USE DEF IInv
<1>1. /\ run[r].pc = "record" /\ run[r].i \in 1 .. Len(Files[r])
      /\ run[r].seen[run[r].i] = None
      /\ \A j \in 1 .. run[r].i - 1 : rows[j] = Files[r][j].sum
      /\ \A v \in Version : v >= run[r].i => rows[v] = run[r].seen[v]
  BY DEF Commit, Knowledge, Knows
<1>2. File(r).version = run[r].i /\ run[r].i \in Version /\ run[r].i \in Nat
  BY <1>1, FilesAreNumbered DEF File
<1>3. rows[run[r].i] = None
  BY <1>1, <1>2
<1>4. ~Conflict(r)
  BY <1>2, <1>3 DEF Conflict
<1>5. \A j \in 1 .. run[r].i - 1 : j \in DOMAIN schema
  <2>1. SUFFICES ASSUME NEW j \in 1 .. run[r].i - 1 PROVE j \in DOMAIN schema
    OBVIOUS
  <2>2. j \in 1 .. Len(Files[r]) /\ j \in Version /\ rows[j] = Files[r][j].sum
    BY <1>1, <1>2, FilesAreNumbered
  <2>3. rows[j] # None
    BY <2>2, FilesAreNumbered
  <2>4. QED BY <2>2, <2>3 DEF SchemaIsRecorded
<1>6. run[r].i \notin DOMAIN schema
  <2>1. SUFFICES ASSUME run[r].i \in DOMAIN schema PROVE FALSE
    OBVIOUS
  <2>2. schema[run[r].i].sum \in Sum
    <3>1. schema \in Seq([version : Version, sum : Sum])
      BY DEF TypeOK
    <3>2. schema[run[r].i] \in [version : Version, sum : Sum]
      BY <2>1, <3>1, ElementOf
    <3>3. QED BY <3>2
  <2>3. rows[run[r].i] = schema[run[r].i].sum
    BY <2>1 DEF SchemaIsRecorded
  <2>4. QED BY <1>3, <2>2, <2>3, VersionsAreNumbers
<1>7. DOMAIN schema = 1 .. Len(schema) /\ Len(schema) \in Nat
  BY DEF TypeOK
<1>8. Len(schema) = run[r].i - 1
  BY <1>1, <1>2, <1>5, <1>6, <1>7
<1>9. QED BY <1>1, <1>2, <1>4, <1>8

\* Only Commit writes to the schema and the table.
LEMMA SchemaStep ==
    ASSUME IInv, [Next]_vars
    PROVE  SchemaIsRecorded'
<1>1. CASE UNCHANGED <<rows, schema>>
  BY <1>1, QuietSchema DEF IInv
<1>2. ASSUME NEW r \in Runner, Commit(r)
      PROVE  SchemaIsRecorded'
  <2>1. /\ run[r].i \in 1 .. Len(Files[r]) /\ File(r).version = run[r].i
        /\ Len(schema) = run[r].i - 1
    BY <1>2, CommitExtends
  <2>2. /\ rows' = [rows EXCEPT ![File(r).version] = File(r).sum]
        /\ schema' = Append(schema, File(r))
    BY <1>2, CommitExtends DEF Commit
  <2>3. /\ schema \in Seq([version : Version, sum : Sum])
        /\ rows \in [Version -> Sum \cup {None}] /\ run[r].i \in Version
    BY <2>1, FilesAreNumbered DEF IInv, TypeOK
  <2>4. /\ Len(schema') = run[r].i /\ DOMAIN schema' = 1 .. run[r].i
        /\ \A j \in 1 .. run[r].i - 1 : schema'[j] = schema[j]
        /\ schema'[run[r].i] = File(r)
    BY <2>1, <2>2, <2>3
  <2>5. DOMAIN schema = 1 .. run[r].i - 1
    BY <2>1, <2>3
  <2>6. ASSUME NEW j \in DOMAIN schema'
        PROVE  schema'[j].version = j /\ rows'[j] = schema'[j].sum
    <3>1. CASE j = run[r].i
      BY <2>1, <2>2, <2>3, <2>4, <3>1
    <3>2. CASE j # run[r].i
      <4>1. j \in DOMAIN schema /\ schema'[j] = schema[j]
        BY <2>1, <2>4, <2>5, <3>2
      <4>2. rows'[j] = rows[j]
        BY <2>1, <2>2, <2>3, <3>2, <4>1 DEF IInv, SchemaIsRecorded
      <4>3. QED BY <4>1, <4>2 DEF IInv, SchemaIsRecorded
    <3>3. QED BY <3>1, <3>2
  <2>7. ASSUME NEW v \in Version, rows'[v] # None
        PROVE  v \in DOMAIN schema'
    <3>1. CASE v = run[r].i
      BY <2>1, <2>4, <3>1
    <3>2. CASE v # run[r].i
      <4>1. rows[v] # None
        BY <2>1, <2>2, <2>3, <2>7, <3>2
      <4>2. v \in DOMAIN schema
        BY <4>1 DEF IInv, SchemaIsRecorded
      <4>3. QED BY <2>1, <2>4, <2>5, <4>2
    <3>3. QED BY <3>1, <3>2
  <2>8. QED BY <2>6, <2>7 DEF SchemaIsRecorded
<1>3. QED
  BY <1>1, <1>2
  DEF Next, vars, Step, Start, Lock, LockDead, Ensure, ReadApplied, Skip, Exec, Effect, Restrict,
      Unlock, SessionEnds, Cancel, Die

\* What a runner knows stands while nobody touches it, the table or the rights; taking the
\* rights away only helps.
LEMMA QuietKnows ==
    ASSUME NEW q \in Runner, Knows(q), run'[q] = run[q], rows' = rows,
           writable' = writable \/ ~writable'
    PROVE  Knows(q)'
BY DEF Knows

\* The commit of another runner leaves the files of a run that succeeded alone, and the rights
\* too: those files are recorded, the one that commits is not.
LEMMA CommitElsewhere ==
    ASSUME IInv, NEW r \in Runner, NEW q \in Runner, Commit(r), q # r
    PROVE  Knows(q)'
<1>1. /\ run[r].i \in 1 .. Len(Files[r]) /\ File(r).version = run[r].i /\ ~Conflict(r)
  BY CommitExtends
<1>2. /\ run[r].pc = "record"
      /\ rows' = [rows EXCEPT ![run[r].i] = File(r).sum]
      /\ writable' = (writable \/ Grants(File(r)))
      /\ run' = [run EXCEPT ![r].pc = "loop", ![r].i = @ + 1]
      /\ rows[run[r].i] = None
  BY <1>1 DEF Commit, Conflict
<1>3. /\ run \in [Runner -> Run] /\ rows \in [Version -> Sum \cup {None}]
      /\ run[q].pc \notin Inside
  BY <1>2, OneInside DEF IInv, TypeOK, Inside
<1>4. run'[q] = run[q]
  BY <1>2, <1>3
<1>5. CASE run[q].pc # "ok"
  BY <1>3, <1>4, <1>5 DEF IInv, Knowledge, Knows, Inside
<1>6. CASE run[q].pc = "ok"
  <2>1. (\A j \in 1 .. Len(Files[q]) : rows[j] = Files[q][j].sum) /\ ~writable
    BY <1>6 DEF IInv, Knowledge, Knows
  <2>2. /\ Len(Files[q]) \in Nat /\ Len(Files[q]) >= 1
        /\ \A j \in 1 .. Len(Files[q]) : j \in Version /\ Files[q][j].sum # None
    BY FilesAreNumbered
  <2>3. \A j \in 1 .. Len(Files[q]) : j # run[r].i /\ rows'[j] = Files[q][j].sum
    BY <1>2, <1>3, <2>1, <2>2
  <2>4. ~Grants(File(r))
    BY <1>1, <2>2, <2>3 DEF Grants
  <2>5. ~writable'
    BY <1>2, <2>1, <2>4, Zenon
  <2>6. QED BY <1>4, <1>6, <2>3, <2>5 DEF Knows
<1>7. QED BY <1>5, <1>6

\* What the runner that commits knows afterwards.
LEMMA CommitHere ==
    ASSUME IInv, NEW r \in Runner, Commit(r)
    PROVE  Knows(r)'
<1>1. /\ run[r].i \in 1 .. Len(Files[r]) /\ File(r).version = run[r].i /\ ~Conflict(r)
  BY CommitExtends
<1>2. /\ run[r].pc = "record"
      /\ rows' = [rows EXCEPT ![run[r].i] = File(r).sum]
      /\ run' = [run EXCEPT ![r].pc = "loop", ![r].i = @ + 1]
  BY <1>1 DEF Commit
<1>3. /\ run \in [Runner -> Run] /\ rows \in [Version -> Sum \cup {None}]
      /\ Len(Files[r]) \in Nat /\ Version \subseteq Nat
      /\ 1 .. Len(Files[r]) \subseteq Version
  BY FilesAreNumbered, VersionsAreNumbers DEF IInv, TypeOK
<1>4. /\ \A j \in 1 .. run[r].i - 1 : rows[j] = Files[r][j].sum
      /\ \A v \in Version : v >= run[r].i => rows[v] = run[r].seen[v]
  BY <1>2 DEF IInv, Knowledge, Knows
<1>5. run'[r].pc = "loop" /\ run'[r].i = run[r].i + 1 /\ run'[r].seen = run[r].seen
  BY <1>2, <1>3 DEF Run
<1>6. run'[r].i \in 1 .. Len(Files[r]) + 1
  BY <1>1, <1>3, <1>5
<1>7. \A j \in 1 .. run'[r].i - 1 : rows'[j] = Files[r][j].sum
  <2> SUFFICES ASSUME NEW j \in 1 .. run'[r].i - 1 PROVE rows'[j] = Files[r][j].sum
    OBVIOUS
  <2>1. j \in 1 .. run[r].i - 1 \/ j = run[r].i
    BY <1>1, <1>5
  <2>2. j \in Version /\ rows \in [Version -> Sum \cup {None}]
    BY <1>1, <1>3, <1>5 DEF IInv, TypeOK
  <2>3. CASE j = run[r].i
    BY <1>1, <1>2, <2>2, <2>3 DEF File
  <2>4. CASE j \in 1 .. run[r].i - 1
    <3>1. j # run[r].i
      BY <1>3, <2>4
    <3>2. rows'[j] = rows[j]
      BY <1>1, <1>2, <2>2, <3>1
    <3> QED
      BY <1>4, <2>4, <3>2
  <2> QED
    BY <2>1, <2>3, <2>4
<1>8. \A v \in Version : v >= run'[r].i => rows'[v] = run'[r].seen[v]
  BY <1>1, <1>2, <1>3, <1>4, <1>5
<1>9. QED BY <1>5, <1>6, <1>7, <1>8 DEF Knows

\* What runners know stays true, action by action.
LEMMA KnowledgeStep ==
    ASSUME IInv, [Next]_vars
    PROVE  Knowledge'
<1> USE DEF IInv
<1>1. run \in [Runner -> Run] /\ rows \in [Version -> Sum \cup {None}] /\ Knowledge
  BY DEF TypeOK
<1>2. CASE UNCHANGED vars
  BY <1>1, <1>2, QuietKnows DEF vars, Knowledge
<1>3. ASSUME NEW r \in Runner, NEW q \in Runner,
             Start(r) \/ Lock(r) \/ LockDead(r) \/ Step(r) \/ Cancel(r) \/ Die(r)
      PROVE  Knows(q)'
  <2>0. /\ run[r] \in Run /\ run[r].i \in Nat /\ run[r].failed \in BOOLEAN
        /\ Knows(r) /\ Knows(q)
    BY <1>1 DEF Run, Knowledge
  <2>1. CASE Commit(r)
    BY <2>1, CommitHere, CommitElsewhere
  <2>2. CASE q # r /\ ~Commit(r)
    <3>1. run'[q] = run[q]
      BY <1>1, <1>3, <2>2 DEF Step, Start, Lock, LockDead, Ensure, ReadApplied, Skip, Exec, Restrict,
         Unlock, SessionEnds, Cancel, Die, Fail, Goto
    <3>2. rows' = rows /\ (writable' = writable \/ ~writable')
      BY <1>3, <2>2 DEF Step, Start, Lock, LockDead, Ensure, ReadApplied, Skip, Exec, Restrict, Revoked,
         Unlock, SessionEnds, Cancel, Die
    <3>3. QED BY <2>0, <3>1, <3>2, QuietKnows
  <2>3. CASE q = r /\ ~Commit(r)
    <3> SUFFICES Knows(r)'
      BY <2>3 DEF Knows
    <3>1. ASSUME run'[r].pc \notin {"waiting", "ensure", "read", "loop", "record", "ok"},
                 run'[r].pc = "unlock" => run'[r].failed
          PROVE  Knows(r)'
      BY <3>1 DEF Knows
    <3>2. CASE LockDead(r) \/ SessionEnds(r) \/ Die(r)
      <4>1. run'[r].pc \in {"dead", "gone", "deadwait"}
        BY <1>1, <3>2 DEF LockDead, SessionEnds, Die, Goto, Run
      <4>2. QED BY <3>1, <4>1
    <3>10. CASE Start(r) \/ Lock(r) \/ Ensure(r)
      <4>1. run'[r].pc \in {"waiting", "ensure", "read"} /\ run'[r].i = 1
        BY <1>1, <2>0, <3>10 DEF Start, Lock, Ensure, Goto, Run, Knows
      <4>2. QED BY <4>1 DEF Knows
    <3>3. CASE Fail(r)
      BY <1>1, <3>1, <3>3 DEF Fail, Run
    <3>4. CASE ReadApplied(r)
      <4>1. /\ run'[r].pc = "loop" /\ run'[r].seen = rows /\ run'[r].i = run[r].i /\ rows' = rows
        BY <1>1, <3>4 DEF ReadApplied, Snapshot, Run
      <4>2. run[r].i = 1
        BY <2>0, <3>4 DEF ReadApplied, Knows
      <4>3. QED BY <4>1, <4>2, FilesAreNumbered DEF Knows
    <3>5. CASE Skip(r) /\ ~Fail(r)
      <4>1. /\ run[r].pc = "loop" /\ run[r].i \in 1 .. Len(Files[r]) /\ ~Changed(r)
            /\ run' = [run EXCEPT ![r].i = @ + 1] /\ rows' = rows
        BY <3>5, FilesAreNumbered DEF Skip, Pending
      <4>2. /\ run'[r].pc = "loop" /\ run'[r].i = run[r].i + 1 /\ run'[r].seen = run[r].seen
        BY <1>1, <4>1 DEF Run
      <4>3. rows[run[r].i] = Files[r][run[r].i].sum
        <5>1. run[r].i \in Version /\ File(r).version = run[r].i
          BY <4>1, FilesAreNumbered DEF File
        <5>2. run[r].seen[run[r].i] = File(r).sum
          BY <4>1, <5>1 DEF Changed
        <5>3. rows[run[r].i] = run[r].seen[run[r].i]
          BY <2>0, <4>1, <5>1 DEF Knows
        <5>4. QED BY <5>2, <5>3 DEF File
      <4>4. run'[r].i \in 1 .. Len(Files[r]) + 1
        BY <2>0, <4>1, <4>2, FilesAreNumbered
      <4>5. \A j \in 1 .. run'[r].i - 1 : rows'[j] = Files[r][j].sum
        BY <2>0, <4>1, <4>2, <4>3 DEF Knows
      <4>6. \A v \in Version : v >= run'[r].i => rows'[v] = run'[r].seen[v]
        BY <2>0, <4>1, <4>2, VersionsAreNumbers DEF Knows
      <4>7. QED BY <4>2, <4>4, <4>5, <4>6 DEF Knows
    <3>6. CASE Exec(r) /\ ~Fail(r)
      <4>1. /\ run[r].pc = "loop" /\ run[r].i \in 1 .. Len(Files[r])
            /\ run[r].seen[File(r).version] = None
            /\ Goto(r, "record") /\ rows' = rows
        BY <3>6, FilesAreNumbered DEF Exec, Pending
      <4>2. run'[r].pc = "record" /\ run'[r].i = run[r].i /\ run'[r].seen = run[r].seen
        BY <1>1, <4>1 DEF Run, Goto
      <4>3. File(r).version = run[r].i
        BY <4>1, FilesAreNumbered DEF File
      <4>4. QED BY <2>0, <4>1, <4>2, <4>3 DEF Knows
    <3>7. CASE Restrict(r)
      <4>1. /\ run[r].pc = "loop" /\ run[r].i \notin 1 .. Len(Files[r])
            /\ Goto(r, "unlock") /\ rows' = rows /\ writable' = FALSE
        BY <3>7, FilesAreNumbered DEF Restrict, Pending, Revoked
      <4>2. run'[r].pc = "unlock"
        BY <1>1, <4>1 DEF Run, Goto
      <4>3. run[r].i = Len(Files[r]) + 1
        BY <2>0, <4>1, FilesAreNumbered DEF Knows
      <4>4. \A j \in 1 .. Len(Files[r]) : rows'[j] = Files[r][j].sum
        BY <2>0, <4>1, <4>3, FilesAreNumbered DEF Knows
      <4>5. QED BY <4>1, <4>2, <4>4 DEF Knows
    <3>8. CASE Unlock(r)
      <4>1. /\ run[r].pc = "unlock" /\ rows' = rows /\ writable' = writable
            /\ Goto(r, IF run[r].failed THEN "failed" ELSE "ok")
        BY <3>8 DEF Unlock
      <4>2. CASE run[r].failed
        BY <1>1, <3>1, <4>1, <4>2 DEF Run, Goto
      <4>3. CASE ~run[r].failed
        <5>1. run'[r].pc = "ok"
          BY <1>1, <4>1, <4>3 DEF Run, Goto
        <5>2. QED BY <2>0, <4>1, <4>3, <5>1 DEF Knows
      <4>4. QED BY <4>2, <4>3
    <3>9. QED BY <1>3, <2>3, <3>2, <3>3, <3>4, <3>5, <3>6, <3>7, <3>8, <3>10 DEF Step, Cancel
  <2>4. QED BY <2>1, <2>2, <2>3
<1>4. QED BY <1>1, <1>2, <1>3 DEF Next, Knowledge

\* The inductive invariant.
LEMMA Invariance == Spec => []IInv
<1>1. Init => IInv
  BY InitIInv
<1>2. IInv /\ [Next]_vars => IInv'
  BY TypeStep, SchemaStep, KnowledgeStep DEF IInv
<1>3. QED BY <1>1, <1>2, PTL DEF Spec

\* The values of the variables: a runner past the lock is the one that holds it, for any
\* number of runners that start, are cancelled and die.
THEOREM TypeCorrect == Spec => []TypeOK
<1>1. IInv => TypeOK
  BY DEF IInv
<1>2. QED BY <1>1, Invariance, PTL

\* The schema is what schema_migrations says it is, version by version and without a gap: a file
\* and its row commit together, and a runner's one look at the table stays true while it holds
\* the lock.
THEOREM SchemaRecorded == Spec => []SchemaIsRecorded
<1>1. IInv => SchemaIsRecorded
  BY DEF IInv
<1>2. QED BY <1>1, Invariance, PTL

\* No deploy fails because another one applied its file first.
THEOREM NoRaces == Spec => []NoRace
<1>1. ASSUME IInv, NEW r \in Runner, run[r].pc = "record"
      PROVE  ~Conflict(r)
  <2>1. run[r].i \in 1 .. Len(Files[r]) /\ run[r].seen[run[r].i] = None
    BY <1>1 DEF IInv, Knowledge, Knows
  <2>2. run[r].i \in Version /\ File(r).version = run[r].i /\ run[r].i \in Nat
    BY <2>1, FilesAreNumbered DEF File
  <2>3. rows[run[r].i] = run[r].seen[run[r].i]
    BY <1>1, <2>2 DEF IInv, Knowledge, Knows
  <2>4. QED BY <2>1, <2>2, <2>3 DEF Conflict
<1>2. IInv => NoRace
  BY <1>1 DEF NoRace
<1>3. QED BY <1>2, Invariance, PTL

\* A run that reports success leaves its release's files in effect with the checksums it carries.
THEOREM SuccessCurrent == Spec => []SuccessIsCurrent
<1>1. IInv => SuccessIsCurrent
  BY FilesAreNumbered DEF IInv, Knowledge, Knows, SuccessIsCurrent
<1>2. QED BY <1>1, Invariance, PTL

\* After a success the application cannot write to the history: the file that grants it the
\* tables is recorded and runs in no later release, failed or not.
THEOREM ProtectedHistory == Spec => []HistoryProtected
<1>1. IInv => HistoryProtected
  BY DEF IInv, Knowledge, Knows, HistoryProtected
<1>2. QED BY <1>1, Invariance, PTL

\* No run fails because of another, and a successful one leaves its files in effect and the
\* history out of reach (Up).
THEOREM RunsAreSound == Spec => []RunsSound
<1>1. NoRace /\ SuccessIsCurrent /\ HistoryProtected => RunsSound
  BY DEF RunsSound
<1>2. QED BY <1>1, NoRaces, SuccessCurrent, ProtectedHistory, PTL
=============================================================================
