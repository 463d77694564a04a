---------------------------- MODULE ProjectProofs ----------------------------
(***************************************************************************)
(* Safety of the project store, its audit trail and its listings, for any  *)
(* number of clients, projects, slugs and transactions.  Two facts carry   *)
(* it.  What a request read before its UPDATE is an image the trail knows, *)
(* no newer than the row, so the version in the WHERE clause decides       *)
(* whether it is the row's still; and a walk has given the rows down to    *)
(* its cursor and owes the ones below it, whatever the pages hold.         *)
(***************************************************************************)
EXTENDS Project, FiniteSetTheorems, WellFoundedInduction, TLAPS

\* What a request in service knows: it has an instant of its own, at which no
\* other one began, and the statement it has come to is one of its kind.
RequestInv ==
    /\ \A c \in Client : pc[c] # "idle" => began[c] \in At /\ began[c] <= clock
    /\ \A c \in Client : pc[c] = "insert" => req[c].op = "create"
    /\ \A c \in Client : pc[c] = "preread" => req[c].op \in {"update", "archive"}
    /\ \A c \in Client : pc[c] \in {"update", "classify"} => req[c].op = "update"
    /\ \A c \in Client : pc[c] \in {"archive", "classifyarchive"} => req[c].op = "archive"
    /\ \A c, d \in Client : c # d /\ pc[c] # "idle" /\ pc[d] # "idle" => began[c] # began[d]
    /\ \A p \in At : Exists(p) => p <= clock

\* The image that was read is one the trail knows, and not from the future.  A
\* client that named no version ahead of the row's is not ahead of what it read.
ReadInv ==
    \A c \in Client :
        /\ pc[c] \in {"update", "archive"} =>
              /\ \E d \in trail : d.project = req[c].project /\ d.after = before[c]
              /\ before[c].version <= row[req[c].project].image.version
        /\ pc[c] = "preread" /\ req[c].op = "update" =>
              req[c].ahead \/ req[c].expected <= row[req[c].project].image.version
        /\ pc[c] = "update" => req[c].ahead \/ req[c].expected <= before[c].version
        /\ pc[c] = "classify" =>
              \/ ~Live(req[c].project) \/ req[c].ahead
              \/ req[c].expected < row[req[c].project].image.version

\* A walk has given the rows down to its cursor and owes the ones below it.
WalkInv ==
    /\ WalksExact
    /\ page # NoWalk =>
          /\ page \in [listing : Listing, token : Token, given : SUBSET At]
          /\ page.token.binding = page.listing
          /\ \A k \in page.given : page.token.position <= k
          /\ owed \subseteq At /\ \A k \in owed : k < page.token.position

IInv == TypeOK /\ RequestInv /\ TrailReplays /\ ReadInv /\ TrueBefore /\ WalkInv
-----------------------------------------------------------------------------
(* What the steps do. *)

\* The requests of other clients stay as they are.
OthersKept(c) ==
    \A d \in Client : d # c =>
        pc'[d] = pc[d] /\ began'[d] = began[d] /\ req'[d] = req[d] /\ before'[d] = before[d]

\* The beginning of a transaction.
LEMMA BeginStep ==
    ASSUME TypeOK, NEW c \in Client, NEW in, NEW statement, Begin(c, in, statement)
    PROVE  /\ clock < MaxTx /\ clock' = clock + 1 /\ clock' \in At
           /\ began'[c] = clock' /\ req'[c] = in /\ before'[c] = None /\ pc'[c] = statement
           /\ answer' = NoAnswer /\ UNCHANGED <<row, trail, walk>>
           /\ OthersKept(c)
  BY ProjectAssumption DEF Begin, TypeOK, OthersKept, At

\* The end of one.
LEMMA FinishStep ==
    ASSUME TypeOK, NEW c \in Client, NEW code, NEW p, NEW image, Finish(c, code, p, image)
    PROVE  /\ pc'[c] = "idle" /\ req'[c] = None /\ began'[c] = 0 /\ before'[c] = None
           /\ answer'.project = p /\ answer'.image = image /\ answer'.code = code
           /\ OthersKept(c)
  BY DEF Finish, TypeOK, OthersKept

\* A request that began keeps the types.
LEMMA BeginType ==
    ASSUME TypeOK, NEW c \in Client, NEW in \in Work, NEW statement \in {"insert", "preread"},
           Begin(c, in, statement),
           statement = "insert" => in.slug \in Slug /\ row[clock + 1] = None,
           statement = "preread" => Exists(in.project)
    PROVE  TypeOK'
<1>1. /\ clock' \in At /\ clock' = clock + 1 /\ clock' \in 0 .. MaxTx
      /\ began'[c] = clock' /\ req'[c] = in /\ pc'[c] = statement
      /\ UNCHANGED <<row, trail>> /\ OthersKept(c)
  BY BeginStep, ProjectAssumption DEF At
<1>2. /\ pc' \in [Client -> {"idle", "insert", "preread", "update", "archive",
                             "classify", "classifyarchive"}]
      /\ began' \in [Client -> 0 .. MaxTx]
      /\ before' \in [Client -> Image \cup {None}]
      /\ req' \in [Client -> Work \cup {None}]
  BY <1>1 DEF Begin, TypeOK
<1>3. ASSUME NEW d \in Client
      PROVE  /\ pc'[d] # "idle" <=> req'[d] # None
             /\ pc'[d] = "insert" => req'[d].slug \in Slug /\ row'[began'[d]] = None
             /\ pc'[d] \notin {"idle", "insert"} => Exists(req[d].project)'
  <2>1. CASE d = c
    BY <1>1, <2>1, NoneAssumption DEF Exists
  <2>2. CASE d # c
    BY <1>1, <2>2 DEF OthersKept, TypeOK, Exists
  <2> QED
    BY <2>1, <2>2
<1> QED
  BY <1>1, <1>2, <1>3 DEF TypeOK, Exists

\* A request that ended keeps the types if the tables keep theirs and rows stay.
LEMMA FinishType ==
    ASSUME TypeOK, NEW c \in Client, NEW code, NEW p, NEW image, Finish(c, code, p, image),
           clock' = clock, row' \in [At -> Row \cup {None}], trail' \subseteq Entry,
           \A q \in At : Exists(q) => row'[q] # None,
           \A d \in Client : d # c /\ pc[d] = "insert" => row'[began[d]] = row[began[d]],
           \A d \in Client : pc[d] \notin {"idle", "insert"} => req[d].project \in At
    PROVE  TypeOK'
<1>1. /\ pc' \in [Client -> {"idle", "insert", "preread", "update", "archive",
                             "classify", "classifyarchive"}]
      /\ began' \in [Client -> 0 .. MaxTx]
      /\ before' \in [Client -> Image \cup {None}]
      /\ req' \in [Client -> Work \cup {None}]
      /\ clock' \in 0 .. MaxTx
  BY ProjectAssumption DEF Finish, TypeOK
<1>2. ASSUME NEW d \in Client
      PROVE  /\ pc'[d] # "idle" <=> req'[d] # None
             /\ pc'[d] = "insert" => req'[d].slug \in Slug /\ row'[began'[d]] = None
             /\ pc'[d] \notin {"idle", "insert"} => row'[req'[d].project] # None
  <2>1. CASE d = c
    BY <2>1, FinishStep
  <2>2. CASE d # c
    BY <2>2, FinishStep DEF OthersKept, TypeOK
  <2> QED
    BY <2>1, <2>2
<1> QED
  BY <1>1, <1>2 DEF TypeOK, Exists
-----------------------------------------------------------------------------
(* Writes. *)

\* A request commits a change of project p and entry e.
Written(c, p, e) ==
    /\ p \in At /\ e \in Entry /\ e.project = p /\ trail' = trail \cup {e}
    /\ row' \in [At -> Row \cup {None}]
    /\ \A q \in At : q # p => row'[q] = row[q]
    /\ row'[p] \in Row /\ row'[p].image = e.after
    /\ answer'.image = None \/ (answer'.project = p /\ answer'.image = e.after)
    /\ pc'[c] = "idle" /\ OthersKept(c)
    /\ \E code, image : Finish(c, code, p, image)
    /\ clock' = clock /\ UNCHANGED walk

\* What a request in service is about.
LEMMA WorkOf ==
    ASSUME TypeOK, RequestInv, NEW c \in Client, pc[c] # "idle"
    PROVE  /\ req[c] \in Work
           /\ pc[c] \in {"update", "classify"} =>
                 req[c] \in [op : {"update"}, project : At, fields : SUBSET Field,
                             expected : 0 .. MaxTx - 1, ahead : BOOLEAN]
           /\ pc[c] \notin {"idle", "insert"} => req[c].project \in At /\ Exists(req[c].project)
<1>1. req[c] \in Work /\ req[c] # None
  BY DEF TypeOK
<1>2. req[c].op = "update" =>
        req[c] \in [op : {"update"}, project : At, fields : SUBSET Field,
                    expected : 0 .. MaxTx - 1, ahead : BOOLEAN]
  BY <1>1 DEF Work
<1>3. req[c].op \in {"update", "archive"} => req[c].project \in At
  BY <1>1 DEF Work
<1>4. pc[c] \in {"idle", "insert", "preread", "update", "archive", "classify", "classifyarchive"}
  BY DEF TypeOK
<1> QED
  BY <1>1, <1>2, <1>3, <1>4 DEF RequestInv, TypeOK

\* Create writes the first version of a project that did not exist.
LEMMA CreateWrites ==
    ASSUME TypeOK, RequestInv, NEW c \in Client, Create(c)
    PROVE  \/ /\ UNCHANGED <<clock, row, trail, walk>> /\ answer'.image = None
              /\ \E code, p, image : Finish(c, code, p, image)
           \/ \E e : /\ Written(c, began[c], e) /\ row[began[c]] = None
                     /\ e.after.version = 1 /\ e.before = None
<1> DEFINE p == began[c]
           image == [version |-> 1, value |-> [f \in Field |-> p], slug |-> req[c].slug,
                     archived |-> FALSE]
           r == [image |-> image, creator |-> Attribution(c)]
           e == [at |-> p, project |-> p, action |-> "create", actor |-> c,
                 kind |-> ActorFromAuthorized(c), before |-> None, after |-> image,
                 ahead |-> "create" = "update" /\ req[c].ahead]
<1>1. CASE SlugTaken(req[c].slug)
  <2>1. Finish(c, "conflict", None, None) /\ UNCHANGED <<clock, row, trail, walk>>
    BY <1>1 DEF Create
  <2> QED
    BY <2>1, FinishStep
<1>2. CASE ~SlugTaken(req[c].slug)
  <2>1. /\ row' = [row EXCEPT ![p] = r] /\ trail' = trail \cup {e}
        /\ Finish(c, "ok", p, image) /\ UNCHANGED <<clock, walk>>
    BY <1>2 DEF Create, auditProject
  <2>2. p \in At /\ row[p] = None /\ req[c].slug \in Slug
    BY DEF Create, RequestInv, TypeOK
  <2>3. image \in Image
    BY <2>2 DEF Image
  <2>4. r \in Row
    <3>1. Attribution(c) \in Creator
      BY DEF Attribution, Creator
    <3> QED
      BY <2>3, <3>1 DEF Row
  <2>5. e \in Entry
    <3>1. ActorFromAuthorized(c) \in {"user", "api_key"}
      BY DEF ActorFromAuthorized
    <3> QED
      BY <2>2, <2>3, <3>1 DEF Entry
  <2>6. /\ e.project = p /\ e.after = image /\ e.before = None /\ r.image = image
        /\ image.version = 1
    OBVIOUS
  <2> HIDE DEF p, image, r, e
  <2>7. /\ row' \in [At -> Row \cup {None}] /\ row'[p] = r
        /\ \A q \in At : q # p => row'[q] = row[q]
    BY <2>1, <2>2, <2>4 DEF TypeOK
  <2>8. pc'[c] = "idle" /\ OthersKept(c) /\ answer'.project = p /\ answer'.image = image
    BY <2>1, FinishStep
  <2>9. Written(c, p, e)
    BY <2>1, <2>2, <2>4, <2>5, <2>6, <2>7, <2>8 DEF Written
  <2> QED
    BY <2>2, <2>6, <2>9 DEF p
<1> QED
  BY <1>1, <1>2

\* The image that an update or an archive makes of an image.
LEMMA NewImage ==
    ASSUME TypeOK, RequestInv, NEW c \in Client, pc[c] \in {"update", "archive"}
    PROVE  LET old == row[req[c].project].image
               new == IF pc[c] = "update" THEN Updated(c) ELSE Archived(c)
           IN  old \in Image /\ new \in Image /\ new.version = old.version + 1
<1> DEFINE old == row[req[c].project].image
<1>1. old \in Image /\ began[c] \in At
  BY WorkOf DEF Exists, TypeOK, Row, RequestInv
<1>2. old.version \in Nat \ {0} /\ old.value \in [Field -> At] /\ old.slug \in Slug
  BY <1>1 DEF Image
<1>3. old = [version |-> old.version, value |-> old.value, slug |-> old.slug,
             archived |-> old.archived] /\ old.archived \in BOOLEAN
  BY <1>1 DEF Image
<1> DEFINE value == [f \in Field |-> IF f \in req[c].fields THEN began[c] ELSE old.value[f]]
<1>4. value \in [Field -> At] /\ old.version + 1 \in Nat \ {0}
  BY <1>1, <1>2
<1>5. /\ Updated(c) = [old EXCEPT !.value = value, !.version = old.version + 1]
      /\ Archived(c) = [old EXCEPT !.archived = TRUE, !.version = old.version + 1]
  BY <1>1 DEF Updated, Archived, Image
<1> HIDE DEF old, value
<1>6. /\ Updated(c) = [version |-> old.version + 1, value |-> value, slug |-> old.slug,
                       archived |-> old.archived]
      /\ Archived(c) = [version |-> old.version + 1, value |-> old.value, slug |-> old.slug,
                        archived |-> TRUE]
  BY <1>3, <1>5
<1>7. Updated(c) \in Image /\ Updated(c).version = old.version + 1
  BY <1>2, <1>3, <1>4, <1>6 DEF Image
<1>8. Archived(c) \in Image /\ Archived(c).version = old.version + 1
  BY <1>2, <1>3, <1>4, <1>6 DEF Image
<1> QED
  BY <1>1, <1>7, <1>8 DEF old

\* Update and Archive write the next version of a live project.
LEMMA EditWrites ==
    ASSUME TypeOK, RequestInv, NEW c \in Client, Update(c) \/ Archive(c)
    PROVE  LET p == req[c].project
           IN  /\ Live(p) /\ pc[c] \in {"update", "archive"}
               /\ \E e : /\ Written(c, p, e)
                         /\ e.after.version = row[p].image.version + 1
                         /\ e.before = before[c] /\ e.action = pc[c]
                         /\ pc[c] = "update" => /\ e.ahead = req[c].ahead
                                                /\ row[p].image.version = req[c].expected
<1> DEFINE p == req[c].project
           new == IF pc[c] = "update" THEN Updated(c) ELSE Archived(c)
           e == [at |-> began[c], project |-> p, action |-> pc[c], actor |-> c,
                 kind |-> ActorFromAuthorized(c), before |-> before[c], after |-> new,
                 ahead |-> pc[c] = "update" /\ req[c].ahead]
<1>1. pc[c] \in {"update", "archive"} /\ Live(p) /\ p \in At
  BY WorkOf DEF Update, Archive, UpdateMatches, ArchiveMatches
<1>2. pc[c] = "update" => row[p].image.version = req[c].expected /\ req[c].ahead \in BOOLEAN
  BY <1>1, WorkOf DEF Update, Archive, UpdateMatches
<1>3. /\ row' = [row EXCEPT ![p].image = new] /\ trail' = trail \cup {e}
      /\ \E image : Finish(c, "ok", p, image) /\ (image = None \/ image = new)
      /\ UNCHANGED <<clock, walk>>
  <2>1. CASE Update(c)
    BY <2>1 DEF Update, auditProject
  <2>2. CASE Archive(c)
    BY <2>2 DEF Archive, auditProject
  <2> QED
    BY <2>1, <2>2
<1>4. /\ row[p].image \in Image /\ new \in Image /\ new.version = row[p].image.version + 1
  BY <1>1, NewImage
<1>5. row[p] \in Row
  BY <1>1 DEF Live, Exists, TypeOK
<1>6. e \in Entry
  <2>1. ActorFromAuthorized(c) \in {"user", "api_key"} /\ began[c] \in At /\ before[c] \in Image \cup {None}
    BY <1>1 DEF ActorFromAuthorized, RequestInv, TypeOK
  <2>2. (pc[c] = "update" /\ req[c].ahead) \in BOOLEAN
    BY <1>2
  <2> QED
    BY <1>1, <1>4, <2>1, <2>2 DEF Entry
<1>7. /\ e.project = p /\ e.after = new /\ e.before = before[c] /\ e.action = pc[c]
      /\ pc[c] = "update" => e.ahead = req[c].ahead
  BY <1>2
<1> HIDE DEF new, e
<1>8. /\ row'[p] = [row[p] EXCEPT !.image = new]
      /\ \A q \in At : q # p => row'[q] = row[q]
  BY <1>1, <1>3 DEF TypeOK
<1>9. row'[p] \in Row /\ row'[p].image = new
  BY <1>4, <1>5, <1>8 DEF Row
<1>10. row' \in [At -> Row \cup {None}]
  BY <1>1, <1>3, <1>8, <1>9 DEF TypeOK
<1>11. PICK image : Finish(c, "ok", p, image) /\ (image = None \/ image = new)
  BY <1>3
<1>12. /\ pc'[c] = "idle" /\ OthersKept(c) /\ answer'.project = p
       /\ answer'.image = None \/ answer'.image = new
  BY <1>11, FinishStep
<1>13. Written(c, p, e)
  BY <1>1, <1>3, <1>6, <1>7, <1>8, <1>9, <1>10, <1>11, <1>12 DEF Written
<1> QED
  BY <1>1, <1>2, <1>4, <1>7, <1>13
-----------------------------------------------------------------------------
(* The kinds of steps. *)

\* A request begins its transaction.
Begins(c) ==
    \E in \in Work, statement \in {"insert", "preread"} :
        /\ pc[c] = "idle" /\ Begin(c, in, statement)
        /\ statement = "insert" => in.op = "create" /\ in.slug \in Slug
        /\ statement = "preread" =>
              /\ in.op \in {"update", "archive"} /\ in.project \in At /\ Exists(in.project)
              /\ in.op = "update" => in.ahead \/ in.expected <= row[in.project].image.version

\* It commits a new project, or a change of one.
Creates(c) ==
    /\ pc[c] = "insert" /\ row[began[c]] = None
    /\ \E e : Written(c, began[c], e) /\ e.after.version = 1 /\ e.before = None

Edits(c) ==
    LET p == req[c].project
    IN  /\ pc[c] \in {"update", "archive"} /\ Live(p)
        /\ \E e : /\ Written(c, p, e)
                  /\ e.after.version = row[p].image.version + 1
                  /\ e.before = before[c] /\ e.action = pc[c]
                  /\ pc[c] = "update" => /\ e.ahead = req[c].ahead
                                         /\ row[p].image.version = req[c].expected

\* It ends without having changed anything.
Ends(c) ==
    /\ \E code, p, image : Finish(c, code, p, image)
    /\ answer'.image = None
    /\ UNCHANGED <<clock, row, trail, walk>>

\* Nothing but an answer, or a page, is given.
Shows ==
    /\ UNCHANGED <<clock, row, trail, pc, tx>>
    /\ \/ answer' = answer \/ answer'.image = None
       \/ \E p \in At : Exists(p) /\ answer'.project = p /\ answer'.image = row[p].image

\* There are no others.
LEMMA StepKinds ==
    ASSUME TypeOK, RequestInv, [Next]_vars
    PROVE  \/ \E c \in Client : \/ Begins(c) \/ Creates(c) \/ Edits(c) \/ Ends(c)
                                \/ PreRead(c) \/ NoRows(c)
           \/ Shows
<1> DEFINE Goal == \/ \E c \in Client : \/ Begins(c) \/ Creates(c) \/ Edits(c) \/ Ends(c)
                                        \/ PreRead(c) \/ NoRows(c)
                   \/ Shows
<1>0. NoAnswer.image = None
  BY DEF NoAnswer
<1>1. ASSUME NEW c \in Client, NEW in \in CreateRequest, handleCreateProject(c, in) PROVE Goal
  <2>1. CASE Refused
    BY <1>0, <2>1 DEF Refused, Shows
  <2>2. CASE validateCreate(in)
    <3> DEFINE w == [op |-> "create", slug |-> ChosenSlug(in)]
    <3>1. ChosenSlug(in) \in Slug
      BY <2>2, ProjectAssumption DEF validateCreate, ChosenSlug, Slugify
    <3>2. w \in Work /\ w.op = "create" /\ w.slug \in Slug
      BY <3>1 DEF Work
    <3> HIDE DEF w
    <3>3. pc[c] = "idle" /\ (Refused \/ Begin(c, w, "insert"))
      BY <1>1 DEF handleCreateProject, w
    <3>4. Begin(c, w, "insert") => Begins(c)
      BY <3>2, <3>3 DEF Begins
    <3> QED
      BY <2>1, <3>3, <3>4
  <2> QED
    BY <1>1, <2>1, <2>2 DEF handleCreateProject
<1>2. ASSUME NEW c \in Client, NEW in \in UpdateRequest, handleUpdateProject(c, in) PROVE Goal
  <2>1. CASE Refused
    BY <1>0, <2>1 DEF Refused, Shows
  <2>2. CASE validUpdate(in)
    <3> DEFINE ahead == in.expected > row[in.project].image.version
               w == [op |-> "update", project |-> in.project, fields |-> in.fields,
                     expected |-> in.expected, ahead |-> ahead]
    <3>1. /\ in.project \in At /\ in.fields \in SUBSET Field /\ in.expected \in 0 .. MaxTx - 1
      BY <2>2 DEF validUpdate, UpdateRequest
    <3>2. Exists(in.project) /\ pc[c] = "idle" /\ (Refused \/ Begin(c, w, "preread"))
      BY <1>2 DEF handleUpdateProject
    <3>3. row[in.project].image.version \in Nat
      BY <3>1, <3>2 DEF Exists, TypeOK, Row, Image
    <3>4. ahead \in BOOLEAN /\ (ahead \/ in.expected <= row[in.project].image.version)
      BY <3>1, <3>3, ProjectAssumption
    <3> HIDE DEF ahead
    <3>5. /\ w \in Work /\ w.op = "update" /\ w.project = in.project
          /\ w.ahead = ahead /\ w.expected = in.expected
      BY <3>1, <3>4 DEF Work
    <3> HIDE DEF w
    <3>6. Begin(c, w, "preread") => Begins(c)
      BY <3>1, <3>2, <3>4, <3>5 DEF Begins
    <3> QED
      BY <2>1, <3>2, <3>6
  <2> QED
    BY <1>2, <2>1, <2>2 DEF handleUpdateProject
<1>3. ASSUME NEW c \in Client, NEW in \in ArchiveRequest, handleArchiveProject(c, in) PROVE Goal
  <2> DEFINE w == [op |-> "archive", project |-> in.project, ahead |-> FALSE]
  <2>1. in.project \in At /\ w \in Work /\ w.op = "archive" /\ w.project = in.project
    BY DEF ArchiveRequest, Work
  <2>2. Exists(in.project) /\ pc[c] = "idle" /\ Begin(c, w, "preread")
    BY <1>3 DEF handleArchiveProject
  <2> HIDE DEF w
  <2>3. Begins(c)
    BY <2>1, <2>2 DEF Begins
  <2> QED
    BY <2>3
<1>4. ASSUME NEW c \in Client, NEW p \in At, Get(c, p) PROVE Goal
  BY <1>4 DEF Get, Shows
<1>5. ASSUME NEW c \in Client, Create(c) PROVE Creates(c) \/ Ends(c)
  <2>1. pc[c] = "insert"
    BY <1>5 DEF Create
  <2> QED
    BY <1>5, <2>1, CreateWrites DEF Creates, Ends
<1>6. ASSUME NEW c \in Client, Update(c) \/ Archive(c) PROVE Edits(c)
  BY <1>6, EditWrites DEF Edits
<1>7. ASSUME NEW c \in Client, ClassifyUpdate(c) PROVE Ends(c)
  BY <1>7, FinishStep DEF ClassifyUpdate, Ends
<1>8. ASSUME NEW c \in Client, ClassifyArchive(c) PROVE Ends(c)
  BY <1>8, FinishStep DEF ClassifyArchive, Ends
<1>9. ASSUME NEW c \in Client, Abort(c) PROVE Ends(c)
  BY <1>9, FinishStep DEF Abort, Ends
<1>10. ASSUME NEW l \in Listing, NEW n \in 0 .. MaxPageSize + 1, FirstPage(l, n) \/ NextPage(l, n)
       PROVE  Shows
  <2>1. answer' = NoAnswer /\ UNCHANGED <<clock, row, trail, pc, tx>>
    BY <1>10 DEF FirstPage, NextPage
  <2> QED
    BY <1>0, <2>1 DEF Shows
<1>11. ASSUME UNCHANGED vars PROVE Shows
  BY <1>11 DEF vars, Shows
<1> HIDE DEF Goal
<1>12. Goal
  <2>1. ASSUME NEW c \in Client, Serve(c) PROVE Goal
    <3>1. CASE Creates(c) \/ Edits(c) \/ Ends(c) \/ PreRead(c) \/ NoRows(c)
      BY <3>1 DEF Goal
    <3> QED
      BY <1>1, <1>2, <1>3, <1>4, <1>5, <1>6, <1>7, <1>8, <1>9, <2>1, <3>1 DEF Serve
  <2>2. CASE Shows
    BY <2>2 DEF Goal
  <2> QED
    BY <1>10, <1>11, <2>1, <2>2 DEF Next
<1> QED
  BY <1>12 DEF Goal
-----------------------------------------------------------------------------
(* Types and requests. *)

\* A statement that does not end its request keeps the types.
LEMMA GotoType ==
    ASSUME TypeOK, NEW c \in Client, UNCHANGED <<clock, row, trail, began, req>>,
           pc[c] \notin {"idle", "insert"},
           NEW label \in {"update", "archive", "classify", "classifyarchive"},
           pc' = [pc EXCEPT ![c] = label],
           NEW image \in Image \cup {None}, before' = [before EXCEPT ![c] = image]
    PROVE  TypeOK'
  BY DEF TypeOK, Exists

\* The image that PreRead reads, and what it leaves.
LEMMA PreReadStep ==
    ASSUME TypeOK, RequestInv, NEW c \in Client, PreRead(c)
    PROVE  /\ row[req[c].project].image \in Image /\ before'[c] = row[req[c].project].image
           /\ pc[c] = "preread" /\ pc'[c] = req[c].op /\ req[c].op \in {"update", "archive"}
           /\ req[c].project \in At /\ Exists(req[c].project)
           /\ UNCHANGED <<clock, row, trail, began, req, walk>> /\ answer'.image = None
           /\ OthersKept(c)
<1>1. pc[c] = "preread" /\ req[c].op \in {"update", "archive"}
  BY DEF PreRead, RequestInv
<1>2. req[c].project \in At /\ Exists(req[c].project)
  BY <1>1, WorkOf
<1>3. row[req[c].project].image \in Image
  BY <1>2 DEF Exists, TypeOK, Row
<1> QED
  BY <1>1, <1>2, <1>3 DEF PreRead, OthersKept, TypeOK, NoAnswer

\* What NoRows leaves.
LEMMA NoRowsStep ==
    ASSUME TypeOK, RequestInv, NEW c \in Client, NoRows(c)
    PROVE  /\ \/ pc[c] = "update" /\ pc'[c] = "classify" /\ ~UpdateMatches(c)
              \/ pc[c] = "archive" /\ pc'[c] = "classifyarchive" /\ ~ArchiveMatches(c)
           /\ req[c].project \in At /\ Exists(req[c].project)
           /\ UNCHANGED <<clock, row, trail, tx, walk>> /\ answer'.image = None
           /\ OthersKept(c)
<1>1. pc[c] \in {"update", "archive"}
  BY DEF NoRows
<1>2. req[c].project \in At /\ Exists(req[c].project)
  BY <1>1, WorkOf
<1> QED
  BY <1>1, <1>2 DEF NoRows, OthersKept, TypeOK, NoAnswer, tx

\* No step breaks the types.
LEMMA NextType ==
    ASSUME TypeOK, RequestInv, [Next]_vars
    PROVE  TypeOK'
<1>0. \A d \in Client : pc[d] \notin {"idle", "insert"} => req[d].project \in At
  BY WorkOf
<1>1. ASSUME NEW c \in Client, Begins(c) PROVE TypeOK'
  <2>1. PICK in \in Work, statement \in {"insert", "preread"} :
          /\ Begin(c, in, statement)
          /\ statement = "insert" => in.slug \in Slug
          /\ statement = "preread" => Exists(in.project)
    BY <1>1 DEF Begins
  <2>2. row[clock + 1] = None
    <3>1. clock + 1 \in At /\ clock \in Nat
      BY <2>1, ProjectAssumption DEF Begin, TypeOK, At
    <3> QED
      BY <3>1 DEF RequestInv, Exists
  <2> QED
    BY <2>1, <2>2, BeginType
<1>2. ASSUME NEW c \in Client, NEW p, NEW e, Written(c, p, e),
             \A d \in Client : d # c /\ pc[d] = "insert" => began[d] # p
      PROVE  TypeOK'
  <2>1. PICK code, image : Finish(c, code, p, image)
    BY <1>2 DEF Written
  <2>2. /\ clock' = clock /\ row' \in [At -> Row \cup {None}] /\ trail' \subseteq Entry
        /\ \A q \in At : q # p => row'[q] = row[q]
        /\ row'[p] \in Row
    BY <1>2 DEF Written, TypeOK
  <2>3. \A q \in At : Exists(q) => row'[q] # None
    BY <2>2, NoneAssumption DEF Exists
  <2>4. \A d \in Client : d # c /\ pc[d] = "insert" => row'[began[d]] = row[began[d]]
    BY <1>2, <2>2 DEF RequestInv
  <2> QED
    BY <1>0, <2>1, <2>2, <2>3, <2>4, FinishType
<1>3. ASSUME NEW c \in Client, Creates(c) PROVE TypeOK'
  <2>1. \A d \in Client : d # c /\ pc[d] = "insert" => began[d] # began[c]
    BY <1>3 DEF Creates, RequestInv
  <2> QED
    BY <1>2, <1>3, <2>1 DEF Creates
<1>4. ASSUME NEW c \in Client, Edits(c) PROVE TypeOK'
  <2>1. \A d \in Client : d # c /\ pc[d] = "insert" => began[d] # req[c].project
    BY <1>4 DEF Edits, Live, Exists, TypeOK
  <2> QED
    BY <1>2, <1>4, <2>1 DEF Edits
<1>5. ASSUME NEW c \in Client, Ends(c) PROVE TypeOK'
  <2>1. PICK code, p, image : Finish(c, code, p, image)
    BY <1>5 DEF Ends
  <2>2. UNCHANGED <<clock, row, trail>>
    BY <1>5 DEF Ends
  <2> QED
    BY <1>0, <2>1, <2>2, FinishType DEF TypeOK, Exists
<1>6. ASSUME NEW c \in Client, PreRead(c) PROVE TypeOK'
  BY <1>6, PreReadStep, GotoType DEF PreRead
<1>7. ASSUME NEW c \in Client, NoRows(c) PROVE TypeOK'
  <2>1. before' = [before EXCEPT ![c] = before[c]] /\ before[c] \in Image \cup {None}
    BY <1>7 DEF NoRows, tx, TypeOK
  <2> QED
    BY <1>7, <2>1, NoRowsStep, GotoType DEF NoRows, tx
<1>8. CASE Shows
  BY <1>8 DEF Shows, TypeOK, Exists, tx
<1> QED
  BY <1>1, <1>3, <1>4, <1>5, <1>6, <1>7, <1>8, StepKinds

\* Requests keep their instants and their statements.
LEMMA NextRequest ==
    ASSUME TypeOK, RequestInv, [Next]_vars
    PROVE  RequestInv'
<1> DEFINE Own(d) == /\ pc'[d] # "idle" => began'[d] \in At /\ began'[d] <= clock'
                     /\ pc'[d] = "insert" => req'[d].op = "create"
                     /\ pc'[d] = "preread" => req'[d].op \in {"update", "archive"}
                     /\ pc'[d] \in {"update", "classify"} => req'[d].op = "update"
                     /\ pc'[d] \in {"archive", "classifyarchive"} => req'[d].op = "archive"
<1>0. clock \in Nat /\ At \subseteq Nat
  BY ProjectAssumption DEF TypeOK, At
<1>1. ASSUME NEW c \in Client, OthersKept(c), Own(c), clock' = clock,
             \A p \in At : row'[p] # None => p <= clock,
             pc'[c] # "idle" => pc[c] # "idle" /\ began'[c] = began[c]
      PROVE  RequestInv'
  BY <1>1 DEF RequestInv, OthersKept, Exists
<1>2. ASSUME NEW c \in Client, Begins(c) PROVE RequestInv'
  <2>1. PICK in \in Work, statement \in {"insert", "preread"} :
          /\ pc[c] = "idle" /\ Begin(c, in, statement)
          /\ statement = "insert" => in.op = "create"
          /\ statement = "preread" => in.op \in {"update", "archive"}
    BY <1>2 DEF Begins
  <2>2. /\ clock' = clock + 1 /\ clock' \in At /\ began'[c] = clock' /\ req'[c] = in
        /\ pc'[c] = statement /\ row' = row /\ OthersKept(c)
    BY <2>1, BeginStep
  <2>3. \A d \in Client : d # c /\ pc'[d] # "idle" =>
           began'[d] \in At /\ began'[d] <= clock /\ began'[d] # began'[c]
    BY <1>0, <2>2 DEF OthersKept, RequestInv
  <2>4. \A d \in Client : Own(d)
    <3>1. Own(c)
      BY <1>0, <2>1, <2>2
    <3>2. ASSUME NEW d \in Client, d # c PROVE Own(d)
      <4>1. pc'[d] = pc[d] /\ req'[d] = req[d]
        BY <2>2, <3>2 DEF OthersKept
      <4>2. pc'[d] # "idle" => began'[d] \in At /\ began'[d] <= clock'
        <5> SUFFICES ASSUME pc'[d] # "idle" PROVE began'[d] \in At /\ began'[d] <= clock'
          OBVIOUS
        <5>1. began'[d] \in At /\ began'[d] <= clock
          BY <2>3, <3>2
        <5>2. began'[d] \in Nat /\ clock \in Nat /\ clock' = clock + 1
          BY <1>0, <2>2, <5>1
        <5> QED
          BY <5>1, <5>2
      <4> QED
        BY <4>1, <4>2 DEF RequestInv
    <3> QED
      BY <3>1, <3>2
  <2>5. \A c1, c2 \in Client : c1 # c2 /\ pc'[c1] # "idle" /\ pc'[c2] # "idle" => began'[c1] # began'[c2]
    BY <2>2, <2>3 DEF OthersKept, RequestInv
  <2>6. \A p \in At : row'[p] # None => p <= clock'
    BY <1>0, <2>2 DEF RequestInv, Exists
  <2> QED
    BY <2>4, <2>5, <2>6 DEF RequestInv, Exists
<1>3. ASSUME NEW c \in Client, NEW p \in At, NEW e, Written(c, p, e), p <= clock PROVE RequestInv'
  <2>1. \A q \in At : row'[q] # None => q <= clock
    BY <1>3 DEF Written, RequestInv, Exists
  <2> QED
    BY <1>1, <1>3, <2>1 DEF Written
<1>4. ASSUME NEW c \in Client, Creates(c) PROVE RequestInv'
  <2>1. began[c] \in At /\ began[c] <= clock
    BY <1>4 DEF Creates, RequestInv
  <2> QED
    BY <1>3, <1>4, <2>1 DEF Creates
<1>5. ASSUME NEW c \in Client, Edits(c) PROVE RequestInv'
  <2>1. req[c].project \in At /\ req[c].project <= clock
    <3>1. pc[c] \in {"update", "archive"}
      BY <1>5 DEF Edits
    <3> QED
      BY <3>1, WorkOf DEF RequestInv
  <2> QED
    BY <1>3, <1>5, <2>1 DEF Edits
<1>6. ASSUME NEW c \in Client, Ends(c) PROVE RequestInv'
  <2>1. pc'[c] = "idle" /\ OthersKept(c) /\ clock' = clock /\ row' = row
    BY <1>6, FinishStep DEF Ends
  <2> QED
    BY <1>1, <2>1 DEF RequestInv, Exists
<1>7. ASSUME NEW c \in Client, PreRead(c) PROVE RequestInv'
  <2>1. /\ pc[c] = "preread" /\ pc'[c] = req[c].op /\ req[c].op \in {"update", "archive"}
        /\ UNCHANGED <<clock, row, began, req>> /\ OthersKept(c)
    BY <1>7, PreReadStep
  <2>2. Own(c)
    BY <2>1 DEF RequestInv
  <2> QED
    BY <1>1, <2>1, <2>2 DEF RequestInv, Exists
<1>8. ASSUME NEW c \in Client, NoRows(c) PROVE RequestInv'
  <2>1. /\ \/ pc[c] = "update" /\ pc'[c] = "classify"
           \/ pc[c] = "archive" /\ pc'[c] = "classifyarchive"
        /\ UNCHANGED <<clock, row, began, req>> /\ OthersKept(c)
    BY <1>8, NoRowsStep DEF tx
  <2>2. Own(c)
    BY <2>1 DEF RequestInv
  <2> QED
    BY <1>1, <2>1, <2>2 DEF RequestInv, Exists
<1>9. CASE Shows
  BY <1>9 DEF Shows, RequestInv, Exists, tx
<1> QED
  BY <1>2, <1>4, <1>5, <1>6, <1>7, <1>8, <1>9, StepKinds
-----------------------------------------------------------------------------
(* The trail. *)

\* A write keeps the trail telling the whole story.
LEMMA WriteTrail ==
    ASSUME TypeOK, TrailReplays, NEW c \in Client, NEW p \in At, NEW e, Written(c, p, e),
           \/ row[p] = None /\ e.after.version = 1
           \/ Exists(p) /\ e.after.version = row[p].image.version + 1
    PROVE  TrailReplays'
<1>1. /\ e \in Entry /\ e.project = p /\ trail' = trail \cup {e}
      /\ \A q \in At : q # p => row'[q] = row[q]
      /\ row'[p] # None /\ row'[p].image = e.after /\ e.after.version \in Nat \ {0}
      /\ answer'.image = None \/ (answer'.project = p /\ answer'.image = e.after)
  BY NoneAssumption DEF Written, Entry, Image
<1>2. \A d \in trail : d.project \in At /\ d.after.version \in Nat \ {0}
  BY DEF TypeOK, Entry, Image
<1>3. \A d \in trail : d.project = p => Exists(p) /\ d.after.version < e.after.version
  <2>1. Exists(p) => row[p].image.version \in Nat
    BY DEF TypeOK, Exists, Row, Image
  <2> QED
    BY <1>1, <1>2, <2>1 DEF TrailReplays, Exists
<1>4. \A d, f \in trail' : d.project = f.project /\ d.after.version = f.after.version => d = f
  BY <1>1, <1>2, <1>3 DEF TrailReplays
<1>5. ASSUME NEW d \in trail'
      PROVE  row'[d.project] # None /\ d.after.version <= row'[d.project].image.version
  <2>1. CASE d = e
    BY <1>1, <2>1
  <2>2. CASE d \in trail /\ d.project = p
    BY <1>1, <1>2, <1>3, <2>2
  <2>3. CASE d \in trail /\ d.project # p
    BY <1>1, <1>2, <2>3 DEF TrailReplays, Exists
  <2> QED
    BY <1>1, <2>1, <2>2, <2>3
<1>6. ASSUME NEW q \in At, row'[q] # None
      PROVE  /\ \A v \in 1 .. row'[q].image.version :
                   \E d \in trail' : d.project = q /\ d.after.version = v
             /\ \A d \in trail' : d.project = q /\ d.after.version = row'[q].image.version
                                     => d.after = row'[q].image
  <2>1. CASE q # p
    BY <1>1, <1>6, <2>1 DEF TrailReplays, Exists
  <2>2. CASE q = p
    <3>1. ASSUME NEW v \in 1 .. e.after.version
          PROVE  \E d \in trail' : d.project = q /\ d.after.version = v
      <4>1. CASE v = e.after.version
        BY <1>1, <2>2, <4>1
      <4>2. CASE v # e.after.version
        <5>1. Exists(p) /\ row[p].image.version \in Nat
          BY <1>1, <4>2, <3>1 DEF TypeOK, Exists, Row, Image
        <5>2. v \in 1 .. row[p].image.version
          BY <1>1, <3>1, <4>2, <5>1 DEF Exists
        <5> QED
          BY <1>1, <2>2, <5>1, <5>2 DEF TrailReplays
      <4> QED
        BY <4>1, <4>2
    <3>2. \A d \in trail' : d.project = q /\ d.after.version = e.after.version => d.after = e.after
      BY <1>1, <1>2, <1>3, <2>2
    <3> QED
      BY <1>1, <2>2, <3>1, <3>2
  <2> QED
    BY <2>1, <2>2
<1>7. answer'.image # None =>
        \E d \in trail' : d.project = answer'.project /\ d.after = answer'.image
  BY <1>1
<1> QED
  BY <1>4, <1>5, <1>6, <1>7 DEF TrailReplays, Exists

\* Steps that leave the tables alone show nothing that is not in the trail.
LEMMA QuietTrail ==
    ASSUME TypeOK, TrailReplays, UNCHANGED <<row, trail>>,
           \/ answer' = answer \/ answer'.image = None
           \/ \E p \in At : Exists(p) /\ answer'.project = p /\ answer'.image = row[p].image
    PROVE  TrailReplays'
<1>1. answer'.image # None =>
        \E e \in trail : e.project = answer'.project /\ e.after = answer'.image
  <2>1. ASSUME NEW p \in At, Exists(p), answer'.project = p, answer'.image = row[p].image
        PROVE  \E e \in trail : e.project = answer'.project /\ e.after = answer'.image
    <3>1. row[p].image.version \in 1 .. row[p].image.version
      BY <2>1 DEF TypeOK, Exists, Row, Image
    <3>2. PICK e \in trail : e.project = p /\ e.after.version = row[p].image.version
      BY <2>1, <3>1 DEF TrailReplays
    <3> QED
      BY <2>1, <3>2 DEF TrailReplays
  <2> QED
    BY <2>1 DEF TrailReplays
<1> QED
  BY <1>1 DEF TrailReplays, Exists

\* The trail keeps telling the whole story.
LEMMA NextTrail ==
    ASSUME TypeOK, RequestInv, TrailReplays, [Next]_vars
    PROVE  TrailReplays'
<1>1. ASSUME NEW c \in Client, Begins(c) PROVE TrailReplays'
  <2>1. UNCHANGED <<row, trail>> /\ answer'.image = None
    BY <1>1, BeginStep DEF Begins, NoAnswer
  <2> QED
    BY <2>1, QuietTrail
<1>2. ASSUME NEW c \in Client, Creates(c) PROVE TrailReplays'
  <2>1. PICK e : Written(c, began[c], e) /\ e.after.version = 1
    BY <1>2 DEF Creates
  <2>2. began[c] \in At /\ row[began[c]] = None
    BY <1>2 DEF Creates, RequestInv
  <2> QED
    BY <2>1, <2>2, WriteTrail
<1>3. ASSUME NEW c \in Client, Edits(c) PROVE TrailReplays'
  <2> DEFINE p == req[c].project
  <2>1. PICK e : Written(c, p, e) /\ e.after.version = row[p].image.version + 1
    BY <1>3 DEF Edits
  <2>2. p \in At /\ Exists(p)
    BY <1>3, <2>1 DEF Edits, Written, Live
  <2> HIDE DEF p
  <2> QED
    BY <2>1, <2>2, WriteTrail
<1>4. ASSUME NEW c \in Client, Ends(c) \/ PreRead(c) \/ NoRows(c) PROVE TrailReplays'
  <2>1. UNCHANGED <<row, trail>> /\ answer'.image = None
    BY <1>4, PreReadStep, NoRowsStep DEF Ends
  <2> QED
    BY <2>1, QuietTrail
<1>5. CASE Shows
  BY <1>5, QuietTrail DEF Shows
<1> QED
  BY <1>1, <1>2, <1>3, <1>4, <1>5, StepKinds

\* A project stays, its version never falls, and an archived one never changes.
LEMMA RowsGrow ==
    ASSUME TypeOK, RequestInv, [Next]_vars, NEW p \in At, Exists(p)
    PROVE  /\ row'[p] # None
           /\ row[p].image.version \in Nat /\ row'[p].image.version \in Nat
           /\ row[p].image.version <= row'[p].image.version
           /\ ~Live(p) => row'[p] = row[p]
<1>1. row[p].image.version \in Nat
  BY DEF TypeOK, Exists, Row, Image
<1>2. ASSUME NEW c \in Client, NEW q, NEW e, Written(c, q, e), q # p PROVE row'[p] = row[p]
  BY <1>2 DEF Written
<1>3. ASSUME NEW c \in Client, Creates(c) PROVE row'[p] = row[p]
  <2>1. began[c] # p
    BY <1>3 DEF Creates, Exists
  <2> QED
    BY <1>2, <1>3, <2>1 DEF Creates
<1>4. ASSUME NEW c \in Client, Edits(c)
      PROVE  \/ row'[p] = row[p]
             \/ /\ Live(p) /\ row'[p] # None
                /\ row'[p].image.version = row[p].image.version + 1
  <2>1. CASE req[c].project = p
    <3>1. PICK e : Written(c, p, e) /\ e.after.version = row[p].image.version + 1
      BY <1>4, <2>1 DEF Edits
    <3>2. row'[p] \in Row /\ row'[p].image = e.after
      BY <3>1 DEF Written
    <3> QED
      BY <1>4, <2>1, <3>1, <3>2, NoneAssumption DEF Edits
  <2>2. CASE req[c].project # p
    BY <1>2, <1>4, <2>2 DEF Edits
  <2> QED
    BY <2>1, <2>2
<1>5. ASSUME NEW c \in Client, Begins(c) \/ Ends(c) \/ PreRead(c) \/ NoRows(c) PROVE row'[p] = row[p]
  BY <1>5, PreReadStep, NoRowsStep, BeginStep DEF Begins, Ends
<1>6. Shows => row'[p] = row[p]
  BY DEF Shows
<1>7. \/ row'[p] = row[p]
      \/ /\ Live(p) /\ row'[p] # None
         /\ row'[p].image.version = row[p].image.version + 1
  BY <1>3, <1>4, <1>5, <1>6, StepKinds
<1> QED
  BY <1>1, <1>7 DEF Exists

\* Entries stay.
LEMMA TrailGrows ==
    ASSUME TypeOK, RequestInv, [Next]_vars
    PROVE  trail \subseteq trail'
<1>1. ASSUME NEW c \in Client, Creates(c) \/ Edits(c) PROVE trail \subseteq trail'
  BY <1>1 DEF Creates, Edits, Written
<1>2. ASSUME NEW c \in Client, Begins(c) \/ Ends(c) \/ PreRead(c) \/ NoRows(c) PROVE trail' = trail
  BY <1>2, PreReadStep, NoRowsStep, BeginStep DEF Begins, Ends
<1>3. Shows => trail' = trail
  BY DEF Shows
<1> QED
  BY <1>1, <1>2, <1>3, StepKinds

\* What a request has read.
Reading(c) ==
    /\ pc[c] \in {"update", "archive"} =>
          /\ \E d \in trail : d.project = req[c].project /\ d.after = before[c]
          /\ before[c].version <= row[req[c].project].image.version
    /\ pc[c] = "preread" /\ req[c].op = "update" =>
          req[c].ahead \/ req[c].expected <= row[req[c].project].image.version
    /\ pc[c] = "update" => req[c].ahead \/ req[c].expected <= before[c].version
    /\ pc[c] = "classify" =>
          \/ ~Live(req[c].project) \/ req[c].ahead
          \/ req[c].expected < row[req[c].project].image.version

\* The numbers in it.
LEMMA ReadingType ==
    ASSUME TypeOK, RequestInv, NEW c \in Client, Reading(c)
    PROVE  /\ pc[c] \in {"update", "archive"} => before[c].version \in Nat
           /\ pc[c] \notin {"idle", "insert"} =>
                 req[c].project \in At /\ Exists(req[c].project)
           /\ pc[c] \notin {"idle", "insert"} /\ req[c].op = "update" => req[c].expected \in Nat
<1>1. \A d \in trail : d.after.version \in Nat
  BY DEF TypeOK, Entry, Image
<1>2. pc[c] # "idle" /\ req[c].op = "update" => req[c].expected \in Nat
  <2>1. pc[c] # "idle" => req[c] \in Work
    BY WorkOf
  <2>2. pc[c] # "idle" /\ req[c].op = "update" => req[c].expected \in 0 .. MaxTx - 1
    BY <2>1 DEF Work
  <2> QED
    BY <2>2, ProjectAssumption
<1> QED
  BY <1>1, <1>2, WorkOf DEF Reading

\* It stays true of a request that a step does not touch.
LEMMA ReadingKept ==
    ASSUME TypeOK, RequestInv, [Next]_vars, NEW c \in Client, Reading(c),
           pc'[c] = pc[c], req'[c] = req[c], before'[c] = before[c]
    PROVE  Reading(c)'
<1> DEFINE p == req[c].project
<1>1. CASE pc[c] \in {"idle", "insert"}
  BY <1>1 DEF Reading
<1>2. CASE pc[c] \notin {"idle", "insert"}
  <2>1. p \in At /\ Exists(p) /\ req'[c].project = p
    BY <1>2, ReadingType
  <2>2. /\ row[p].image.version \in Nat /\ row'[p].image.version \in Nat
        /\ row[p].image.version <= row'[p].image.version
        /\ ~Live(p) => row'[p] = row[p]
    BY <2>1, RowsGrow
  <2>3. trail \subseteq trail'
    BY TrailGrows
  <2>4. ~Live(p) => ~Live(p)'
    BY <2>2 DEF Live, Exists
  <2>5. /\ pc[c] \in {"update", "archive"} => before[c].version \in Nat
        /\ req[c].op = "update" => req[c].expected \in Nat
        /\ pc[c] \in {"update", "classify"} => req[c].op = "update"
    BY <1>2, ReadingType DEF RequestInv
  <2>6. /\ pc[c] \in {"update", "archive"} =>
              /\ \E d \in trail' : d.project = p /\ d.after = before[c]
              /\ before[c].version <= row'[p].image.version
        /\ pc[c] = "preread" /\ req[c].op = "update" =>
              req[c].ahead \/ req[c].expected <= row'[p].image.version
        /\ pc[c] = "update" => req[c].ahead \/ req[c].expected <= before[c].version
    BY <2>2, <2>3, <2>5 DEF Reading
  <2>7. pc[c] = "classify" =>
              ~Live(p)' \/ req[c].ahead \/ req[c].expected < row'[p].image.version
    BY <2>2, <2>4, <2>5 DEF Reading
  <2>8. Live(req[c].project)' <=> Live(p)'
    BY <2>1 DEF Live, Exists
  <2> QED
    BY <2>1, <2>6, <2>7, <2>8 DEF Reading
<1> QED
  BY <1>1, <1>2

\* Requests keep knowing what they read.
LEMMA NextRead ==
    ASSUME TypeOK, RequestInv, TrailReplays, ReadInv, [Next]_vars
    PROVE  ReadInv'
<1>0. \A d \in Client : Reading(d)
  BY DEF ReadInv, Reading
<1>1. ASSUME NEW c \in Client, OthersKept(c), Reading(c)' PROVE ReadInv'
  <2>1. \A d \in Client : Reading(d)'
    BY <1>0, <1>1, ReadingKept DEF OthersKept
  <2> QED
    BY <2>1 DEF ReadInv, Reading
<1>2. ASSUME NEW c \in Client, Begins(c) PROVE ReadInv'
  <2>1. PICK in \in Work, statement \in {"insert", "preread"} :
          /\ Begin(c, in, statement)
          /\ statement = "preread" /\ in.op = "update" =>
                in.ahead \/ in.expected <= row[in.project].image.version
    BY <1>2 DEF Begins
  <2>2. req'[c] = in /\ pc'[c] = statement /\ row' = row /\ OthersKept(c)
    BY <2>1, BeginStep
  <2>3. Reading(c)'
    BY <2>1, <2>2 DEF Reading
  <2> QED
    BY <1>1, <2>2, <2>3
<1>3. ASSUME NEW c \in Client, Creates(c) \/ Edits(c) \/ Ends(c) PROVE ReadInv'
  <2>1. pc'[c] = "idle" /\ OthersKept(c)
    BY <1>3, FinishStep DEF Creates, Edits, Written, Ends
  <2>2. Reading(c)'
    BY <2>1 DEF Reading
  <2> QED
    BY <1>1, <2>1, <2>2
<1>4. ASSUME NEW c \in Client, PreRead(c) PROVE ReadInv'
  <2> DEFINE p == req[c].project
  <2>1. /\ before'[c] = row[p].image /\ row[p].image \in Image
        /\ pc[c] = "preread" /\ pc'[c] = req[c].op /\ pc'[c] \in {"update", "archive"}
        /\ p \in At /\ Exists(p)
        /\ UNCHANGED <<row, trail, req>> /\ OthersKept(c)
    BY <1>4, PreReadStep
  <2>2. row[p].image.version \in Nat \ {0}
    BY <2>1 DEF Image
  <2>3. \E d \in trail : d.project = p /\ d.after = row[p].image
    <3>1. row[p].image.version \in 1 .. row[p].image.version
      BY <2>2
    <3> QED
      BY <2>1, <3>1 DEF TrailReplays
  <2>4. pc'[c] = "update" => req[c].ahead \/ req[c].expected <= row[p].image.version
    BY <1>0, <2>1 DEF Reading
  <2>5. Reading(c)'
    BY <2>1, <2>2, <2>3, <2>4 DEF Reading
  <2> QED
    BY <1>1, <2>1, <2>5
<1>5. ASSUME NEW c \in Client, NoRows(c) PROVE ReadInv'
  <2> DEFINE p == req[c].project
  <2>1. /\ \/ pc[c] = "update" /\ pc'[c] = "classify" /\ ~UpdateMatches(c)
           \/ pc[c] = "archive" /\ pc'[c] = "classifyarchive"
        /\ p \in At /\ Exists(p) /\ UNCHANGED <<row, req>> /\ OthersKept(c)
    BY <1>5, NoRowsStep DEF tx
  <2>2. CASE pc'[c] = "classifyarchive"
    <3>1. Reading(c)'
      BY <2>2 DEF Reading
    <3> QED
      BY <1>1, <2>1, <3>1
  <2>3. CASE pc[c] = "update" /\ pc'[c] = "classify" /\ ~UpdateMatches(c)
    <3>1. /\ row[p].image.version \in Nat /\ before[c].version \in Nat /\ req[c].expected \in Nat
      BY <1>0, <2>1, <2>3, RowsGrow, ReadingType DEF RequestInv
    <3>2. /\ before[c].version <= row[p].image.version
          /\ req[c].ahead \/ req[c].expected <= before[c].version
          /\ ~Live(p) \/ row[p].image.version # req[c].expected
      BY <1>0, <2>3 DEF Reading, UpdateMatches
    <3>3. ~Live(p) \/ req[c].ahead \/ req[c].expected < row[p].image.version
      BY <3>1, <3>2
    <3>4. Live(req[c].project)' <=> Live(p)
      BY <2>1 DEF Live, Exists
    <3>5. Reading(c)'
      BY <2>1, <2>3, <3>3, <3>4 DEF Reading
    <3> QED
      BY <1>1, <2>1, <3>5
  <2> QED
    BY <2>1, <2>2, <2>3
<1>6. CASE Shows
  <2>1. \A d \in Client : Reading(d)'
    BY <1>0, <1>6, ReadingKept DEF Shows, tx
  <2> QED
    BY <2>1 DEF ReadInv, Reading
<1> QED
  BY <1>2, <1>3, <1>4, <1>5, <1>6, StepKinds

\* Entries keep true images of what they replaced.
LEMMA NextBefore ==
    ASSUME TypeOK, RequestInv, ReadInv, TrueBefore, [Next]_vars
    PROVE  TrueBefore'
<1>0. trail \subseteq trail'
  BY TrailGrows
<1>1. ASSUME NEW e \in trail', e.before # None
      PROVE  \E d \in trail :
                /\ d.project = e.project /\ d.after = e.before
                /\ d.after.version < e.after.version
                /\ e.action = "update" /\ ~e.ahead => d.after.version = e.after.version - 1
  <2>1. CASE e \in trail
    BY <1>1, <2>1 DEF TrueBefore
  <2>2. ASSUME NEW c \in Client, Creates(c) PROVE e \in trail
    <3>1. PICK f : Written(c, began[c], f) /\ f.before = None
      BY <2>2 DEF Creates
    <3> QED
      BY <1>1, <3>1 DEF Written
  <2>3. ASSUME NEW c \in Client, Edits(c), e \notin trail
        PROVE  \E d \in trail :
                  /\ d.project = e.project /\ d.after = e.before
                  /\ d.after.version < e.after.version
                  /\ e.action = "update" /\ ~e.ahead => d.after.version = e.after.version - 1
    <3> DEFINE p == req[c].project
    <3>1. PICK f : /\ Written(c, p, f) /\ f.after.version = row[p].image.version + 1
                   /\ f.before = before[c] /\ f.action = pc[c]
                   /\ pc[c] = "update" => f.ahead = req[c].ahead
                                          /\ row[p].image.version = req[c].expected
      BY <2>3 DEF Edits
    <3>2. f = e /\ e.project = p
      BY <1>1, <2>3, <3>1 DEF Written
    <3>3. pc[c] \in {"update", "archive"} /\ Reading(c)
      BY <2>3 DEF Edits, ReadInv, Reading
    <3>4. PICK d \in trail : d.project = p /\ d.after = before[c]
      BY <3>3 DEF Reading
    <3>5. /\ before[c].version \in Nat /\ row[p].image.version \in Nat
          /\ before[c].version <= row[p].image.version
      BY <3>3, RowsGrow, ReadingType DEF Reading
    <3>6. pc[c] = "update" => /\ req[c].expected \in Nat
                              /\ req[c].ahead \/ req[c].expected <= before[c].version
      BY <3>3, ReadingType DEF Reading, RequestInv
    <3>7. pc[c] = "update" /\ ~req[c].ahead => before[c].version = row[p].image.version
      BY <3>1, <3>5, <3>6
    <3>8. /\ d.project = e.project /\ d.after = e.before
          /\ d.after.version < e.after.version
      BY <3>1, <3>2, <3>4, <3>5
    <3>9. e.action = "update" /\ ~e.ahead => d.after.version = e.after.version - 1
      BY <3>1, <3>2, <3>4, <3>5, <3>7
    <3> QED
      BY <3>4, <3>8, <3>9
  <2>4. ASSUME NEW c \in Client, Begins(c) \/ Ends(c) \/ PreRead(c) \/ NoRows(c) PROVE e \in trail
    BY <1>1, <2>4, PreReadStep, NoRowsStep, BeginStep DEF Begins, Ends
  <2>5. Shows => e \in trail
    BY <1>1 DEF Shows
  <2> QED
    BY <2>1, <2>2, <2>3, <2>4, <2>5, StepKinds
<1> QED
  BY <1>0, <1>1 DEF TrueBefore
-----------------------------------------------------------------------------
(* Pages. *)

\* Instants are numbers.
LEMMA InstantType ==
    ASSUME NEW S, S \subseteq At, NEW k \in S
    PROVE  k \in Nat /\ k <= MaxTx /\ MaxTx \in Nat
<1>1. k \in At
  OBVIOUS
<1> QED
  BY <1>1, ProjectAssumption DEF At

\* A nonempty set of numbers has a least one.
LEMMA FirstInstant ==
    ASSUME NEW S, S \subseteq Nat, S # {}
    PROVE  \E k \in S : \A j \in S : k <= j
<1> DEFINE R == OpToRel(<, Nat)
<1>1. \A x, y \in Nat : x < y => <<x, y>> \in R
  BY DEF OpToRel
<1>2. IsWellFoundedOn(R, Nat)
  BY NatLessThanWellFounded
<1> HIDE DEF R
<1>3. PICK k \in S : \A j \in S : ~(<<j, k>> \in R)
  BY <1>2, WFMin
<1>4. ASSUME NEW j \in S PROVE k <= j
  <2>1. j \in Nat /\ k \in Nat /\ ~(j < k)
    BY <1>1, <1>3
  <2> QED
    BY <2>1
<1> QED
  BY <1>4

\* A nonempty set of instants has a last one.
LEMMA LastInstant ==
    ASSUME NEW S, S \subseteq At, S # {}
    PROVE  \E k \in S : \A j \in S : j <= k
<1> DEFINE T == {MaxTx - k : k \in S}
<1>0. \A k \in S : k \in Nat /\ k <= MaxTx /\ MaxTx \in Nat
  BY InstantType
<1>1. T \subseteq Nat /\ T # {}
  BY <1>0
<1> HIDE DEF T
<1>2. PICK t \in T : \A u \in T : t <= u
  BY <1>1, FirstInstant
<1>3. PICK k \in S : t = MaxTx - k
  BY <1>2 DEF T
<1>4. ASSUME NEW j \in S PROVE j <= k
  <2>1. MaxTx - j \in T
    BY DEF T
  <2>2. MaxTx - k <= MaxTx - j
    BY <1>2, <1>3, <2>1
  <2> QED
    BY <1>0, <2>2
<1> QED
  BY <1>4

\* Sets of instants are finite.
LEMMA InstantsFinite ==
    ASSUME NEW S, S \subseteq At
    PROVE  IsFiniteSet(S) /\ Cardinality(S) \in Nat
<1>1. IsFiniteSet(At)
  BY FS_Interval, ProjectAssumption DEF At
<1> QED
  BY <1>1, FS_Subset, FS_CardinalityType

\* The newest of a set are those above some instant ...
LEMMA NewestUp ==
    ASSUME NEW S, S \subseteq At, NEW n \in Nat, NEW k \in Newest(S, n), NEW j \in S, k < j
    PROVE  j \in Newest(S, n)
<1> DEFINE J == {i \in S : i > j}
           K == {i \in S : i > k}
<1>0. k \in S /\ Cardinality(K) < n
  BY DEF Newest
<1>1. J \subseteq K /\ J \subseteq At /\ K \subseteq At
  <2>1. \A i \in S : i > j => i > k
    <3> SUFFICES ASSUME NEW i \in S, i > j PROVE i > k
      OBVIOUS
    <3>1. i \in Nat /\ j \in Nat /\ k \in Nat
      BY <1>0, InstantType
    <3> QED
      BY <3>1
  <2> QED
    BY <2>1
<1> HIDE DEF J, K
<1>2. /\ IsFiniteSet(K) /\ Cardinality(K) \in Nat /\ Cardinality(J) \in Nat
  BY <1>1, InstantsFinite
<1>3. Cardinality(J) <= Cardinality(K)
  BY <1>1, <1>2, FS_Subset
<1>4. Cardinality(J) < n
  BY <1>0, <1>2, <1>3
<1> QED
  BY <1>4 DEF Newest, J

\* ... there is one if the set is not empty ...
LEMMA NewestSome ==
    ASSUME NEW S, S \subseteq At, S # {}, NEW n \in Nat \ {0}
    PROVE  Newest(S, n) # {}
<1>1. PICK k \in S : \A j \in S : j <= k
  BY LastInstant
<1>2. {j \in S : j > k} = {}
  <2>1. ASSUME NEW j \in S PROVE ~(j > k)
    <3>1. j \in Nat /\ k \in Nat /\ j <= k
      BY <1>1, InstantType
    <3> QED
      BY <3>1
  <2> QED
    BY <2>1
<1>3. Cardinality({j \in S : j > k}) = 0
  BY <1>2, FS_EmptySet
<1>4. k \in Newest(S, n)
  BY <1>3 DEF Newest
<1> QED
  BY <1>4

\* ... all of them are if there are no more than asked for ...
LEMMA NewestAll ==
    ASSUME NEW S, S \subseteq At, NEW n \in Nat, Cardinality(S) <= n
    PROVE  Newest(S, n) = S
<1>1. ASSUME NEW k \in S PROVE Cardinality({j \in S : j > k}) < n
  <2> DEFINE K == {j \in S : j > k}
  <2>1. K \subseteq S /\ k \notin K
    BY DEF At
  <2> HIDE DEF K
  <2>2. IsFiniteSet(S) /\ Cardinality(S) \in Nat /\ Cardinality(K) \in Nat
    BY <2>1, InstantsFinite
  <2>3. Cardinality(K) <= Cardinality(S) /\ Cardinality(K) # Cardinality(S)
    BY <2>1, <2>2, FS_Subset
  <2>4. Cardinality(K) < n
    BY <2>2, <2>3
  <2> QED
    BY <2>4 DEF K
<1> QED
  BY <1>1 DEF Newest

\* ... and if not all of them are, there are as many as asked for.
LEMMA NewestFull ==
    ASSUME NEW S, S \subseteq At, NEW n \in Nat, Newest(S, n) # S
    PROVE  Cardinality(Newest(S, n)) >= n
<1> DEFINE Rest == S \ Newest(S, n)
<1>0. Newest(S, n) \subseteq S
  BY DEF Newest
<1>1. Rest # {} /\ Rest \subseteq At
  BY <1>0
<1>2. PICK k \in Rest : \A j \in Rest : j <= k
  BY <1>1, LastInstant
<1> DEFINE K == {j \in S : j > k}
<1>3. K \subseteq Newest(S, n)
  <2>1. ASSUME NEW j \in S, j > k, j \notin Newest(S, n) PROVE FALSE
    <3>1. j <= k /\ j \in Nat /\ k \in Nat
      BY <1>1, <1>2, <2>1 DEF At
    <3> QED
      BY <2>1, <3>1
  <2> QED
    BY <2>1
<1>4. ~(Cardinality(K) < n)
  BY <1>2 DEF Newest
<1> HIDE DEF K, Rest
<1>5. /\ IsFiniteSet(Newest(S, n)) /\ Cardinality(Newest(S, n)) \in Nat /\ Cardinality(K) \in Nat
  BY <1>0, <1>3, InstantsFinite
<1>6. Cardinality(K) <= Cardinality(Newest(S, n))
  BY <1>3, <1>5, FS_Subset
<1> QED
  BY <1>4, <1>5, <1>6

\* What List returns: rows below the position it was given, either all of them,
\* or those from the next position on.
LEMMA ListStep ==
    ASSUME TypeOK, NEW l \in Listing, NEW after \in At \cup {None}, NEW n \in 0 .. MaxPageSize + 1
    PROVE  LET res == List(l, after, n)
               B   == Below(Selected(l), after)
           IN  /\ B \subseteq At /\ res.rows \subseteq B
               /\ res.next = None => res.rows = B
               /\ res.next # None => /\ res.next \in At /\ res.next \in res.rows
                                     /\ \A k \in res.rows : res.next <= k
                                     /\ \A k \in B \ res.rows : k < res.next
<1> DEFINE res == List(l, after, n)
           B == Below(Selected(l), after)
           limit == NormalizePageSize(n)
           fetched == Newest(B, limit + 1)
           rows == Newest(fetched, limit)
<1>1. limit \in Nat \ {0} /\ limit + 1 \in Nat
  BY ProjectAssumption DEF NormalizePageSize
<1>2. B \subseteq At
  <2>1. Selected(l) \subseteq At
    BY DEF Selected, Listing, TypeOK, Entry
  <2> QED
    BY <2>1 DEF Below
<1>3. res.rows = rows /\ res.next = NextAfter(fetched, limit)
  BY DEF List
<1> HIDE DEF res, B, limit
<1>4. fetched \subseteq B /\ rows \subseteq fetched /\ fetched \subseteq At /\ rows \subseteq At
  BY <1>2 DEF Newest
<1> HIDE DEF fetched
<1>5. Cardinality(fetched) \in Nat
  BY <1>4, InstantsFinite
<1>6. CASE Cardinality(fetched) > limit
  <2>1. res.next = Least(rows)
    BY <1>3, <1>6 DEF NextAfter
  <2>2. fetched # {}
    BY <1>1, <1>6, FS_EmptySet
  <2>3. rows # {}
    BY <1>1, <1>4, <2>2, NewestSome
  <2> HIDE DEF rows
  <2>4. \E k \in rows : \A j \in rows : k <= j
    <3>1. rows \subseteq Nat
      BY <1>4 DEF At
    <3> QED
      BY <2>3, <3>1, FirstInstant
  <2>5. Least(rows) \in rows /\ \A j \in rows : Least(rows) <= j
    BY <2>4 DEF Least
  <2>6. ASSUME NEW k \in B \ rows PROVE k < Least(rows)
    <3>1. k \in Nat /\ Least(rows) \in Nat
      BY <1>2, <1>4, <2>5, <2>6, InstantType
    <3>2. ~(Least(rows) < k)
      <4>1. ASSUME Least(rows) < k PROVE k \in fetched
        BY <1>1, <1>2, <1>4, <2>5, <4>1, NewestUp DEF fetched
      <4>2. ASSUME Least(rows) < k, k \in fetched PROVE k \in rows
        BY <1>1, <1>4, <2>5, <4>2, NewestUp DEF rows
      <4> QED
        BY <2>6, <4>1, <4>2
    <3> QED
      BY <2>5, <2>6, <3>1, <3>2
  <2>7. Least(rows) \in At /\ Least(rows) # None
    <3>1. Least(rows) \in At /\ Least(rows) \in Nat
      BY <1>4, <2>5, InstantType
    <3> QED
      BY <3>1, ProjectAssumption
  <2> QED
    BY <1>2, <1>3, <1>4, <2>1, <2>5, <2>6, <2>7 DEF res, B
<1>7. CASE ~(Cardinality(fetched) > limit)
  <2>1. res.next = None
    BY <1>3, <1>7 DEF NextAfter
  <2>2. fetched = B
    <3>1. ~(Cardinality(fetched) >= limit + 1)
      BY <1>1, <1>5, <1>7
    <3> QED
      BY <1>1, <1>2, <3>1, NewestFull DEF fetched
  <2>3. rows = fetched
    BY <1>1, <1>4, <1>5, <1>7, NewestAll
  <2> QED
    BY <1>2, <1>3, <2>1, <2>2, <2>3 DEF res, B
<1> QED
  BY <1>6, <1>7

\* A page of a walk, which owes no more than the rows below its cursor.
LEMMA GiveStep ==
    ASSUME TypeOK, NEW l \in Listing, NEW after \in At \cup {None}, NEW n \in 0 .. MaxPageSize + 1,
           NEW token, NEW given \in SUBSET At, \A k \in given : after # None /\ after <= k,
           NEW S \in SUBSET Below(Selected(l), after), wrong = {},
           Give([listing |-> l, token |-> token, given |-> given], List(l, after, n), l),
           owed' = S \ List(l, after, n).rows
    PROVE  WalkInv'
<1> DEFINE res == List(l, after, n)
           B == Below(Selected(l), after)
           w == [listing |-> l, token |-> token, given |-> given]
<1>1. /\ B \subseteq At /\ res.rows \subseteq B
      /\ res.next = None => res.rows = B
      /\ res.next # None => /\ res.next \in At /\ res.next \in res.rows
                            /\ \A k \in res.rows : res.next <= k
                            /\ \A k \in B \ res.rows : k < res.next
  BY ListStep
<1>2. /\ page' = IF res.next = None THEN NoWalk
                 ELSE [w EXCEPT !.token = Encode(l, res.next), !.given = @ \cup res.rows]
      /\ wrong' = wrong \cup (res.rows \cap given) \cup (res.rows \ Selected(l))
  BY DEF Give
<1>3. B \subseteq Selected(l) /\ \A k \in B : after = None \/ k < after
  BY DEF Below
<1> HIDE DEF res, B
<1>4. wrong' = {}
  <2>1. ASSUME NEW k \in res.rows, k \in given PROVE FALSE
    <3>1. k \in B /\ after # None /\ after \in At /\ after <= k /\ k < after
      BY <1>1, <1>3, <2>1
    <3>2. k \in Nat /\ after \in Nat
      BY <1>1, <3>1, InstantType
    <3> QED
      BY <3>1, <3>2
  <2> QED
    BY <1>1, <1>2, <1>3, <2>1
<1>5. owed' \subseteq B \ res.rows /\ owed' \subseteq At
  BY <1>1 DEF B, res
<1>6. CASE res.next = None
  <2>1. page' = NoWalk /\ owed' = {}
    BY <1>1, <1>2, <1>5, <1>6
  <2> QED
    BY <1>4, <2>1 DEF WalkInv, WalksExact
<1>7. CASE res.next # None
  <2>1. page' = [listing |-> l, token |-> [binding |-> l, position |-> res.next],
                 given |-> given \cup res.rows]
    BY <1>2, <1>7 DEF Encode
  <2>2. page' # NoWalk
    <3>1. page'.listing = l /\ NoWalk.listing = None
      BY <2>1 DEF NoWalk
    <3> QED
      BY <3>1, NoneAssumption
  <2>3. /\ page' \in [listing : Listing, token : Token, given : SUBSET At]
        /\ page'.token.binding = page'.listing /\ page'.token.position = res.next
    BY <1>1, <1>7, <2>1 DEF Token
  <2>4. \A k \in page'.given : res.next <= k
    <3>1. ASSUME NEW k \in given PROVE res.next <= k
      <4>1. after \in At /\ after # None /\ after <= k /\ k \in At
        BY <3>1
      <4>2. res.next \in At /\ res.next < after
        BY <1>1, <1>3, <1>7, <4>1
      <4>3. k \in Nat /\ after \in Nat /\ res.next \in Nat
        BY <4>1, <4>2, InstantType
      <4> QED
        BY <4>1, <4>2, <4>3
    <3> QED
      BY <1>1, <1>7, <2>1, <3>1
  <2>5. \A k \in owed' : k < res.next
    BY <1>1, <1>5, <1>7
  <2> QED
    BY <1>4, <1>5, <2>2, <2>3, <2>4, <2>5 DEF WalkInv, WalksExact
<1> QED
  BY <1>6, <1>7

\* Whatever commits between its pages, a walk keeps its place.
LEMMA NextWalk ==
    ASSUME TypeOK, WalkInv, [Next]_vars
    PROVE  WalkInv'
<1>1. ASSUME UNCHANGED walk PROVE WalkInv'
  BY <1>1 DEF walk, WalkInv, WalksExact
<1>2. ASSUME NEW l \in Listing, NEW n \in 0 .. MaxPageSize + 1, FirstPage(l, n) PROVE WalkInv'
  <2>1. Below(Selected(l), None) = Selected(l) /\ wrong = {}
    BY DEF Below, WalkInv, WalksExact
  <2>2. /\ Give([listing |-> l, token |-> None, given |-> {}], List(l, None, n), l)
        /\ owed' = Selected(l) \ List(l, None, n).rows
    BY <1>2 DEF FirstPage
  <2> QED
    BY <2>1, <2>2, GiveStep
<1>3. ASSUME NEW l \in Listing, NEW n \in 0 .. MaxPageSize + 1, NextPage(l, n) PROVE WalkInv'
  <2> DEFINE after == page.token.position
             S == owed \cap Selected(l)
  <2>1. /\ page # NoWalk /\ page.token.binding = l /\ Give(page, List(l, after, n), l)
        /\ owed' = (owed \cap Selected(page.listing)) \ List(l, after, n).rows
    BY <1>3 DEF NextPage, Decodes
  <2>2. /\ page.listing = l /\ page.token \in Token /\ page.given \subseteq At
        /\ \A k \in page.given : after <= k
        /\ \A k \in owed : k < after
        /\ wrong = {}
        /\ page = [listing |-> page.listing, token |-> page.token, given |-> page.given]
    BY <2>1 DEF WalkInv, WalksExact
  <2>3. after \in At /\ after # None
    <3>1. after \in At /\ after \in Nat
      BY <2>2, InstantType DEF Token
    <3> QED
      BY <3>1, ProjectAssumption
  <2>4. S \subseteq Below(Selected(l), after)
    BY <2>2 DEF Below
  <2>5. Give([listing |-> l, token |-> page.token, given |-> page.given], List(l, after, n), l)
    BY <2>1, <2>2
  <2> HIDE DEF after
  <2> QED
    BY <2>1, <2>2, <2>3, <2>4, <2>5, GiveStep
<1>4. ASSUME NEW c \in Client, Serve(c) PROVE UNCHANGED walk
  BY <1>4 DEF Serve, handleCreateProject, handleUpdateProject, handleArchiveProject, Refused, Begin,
     Get, Create, PreRead, Update, Archive, NoRows, ClassifyUpdate, ClassifyArchive, Abort
<1> QED
  BY <1>1, <1>2, <1>3, <1>4 DEF Next, vars
-----------------------------------------------------------------------------
(* Theorems. *)

\* Without projects and requests the invariant holds.
LEMMA InitInv == Init => IInv
<1> SUFFICES ASSUME Init PROVE IInv
  OBVIOUS
<1>1. TypeOK
  BY ProjectAssumption DEF Init, TypeOK
<1>2. /\ \A c \in Client : pc[c] = "idle"
      /\ \A p \in At : ~Exists(p)
      /\ trail = {} /\ answer.image = None
  BY DEF Init, Exists, NoAnswer
<1>3. RequestInv /\ TrailReplays /\ ReadInv /\ TrueBefore
  BY <1>2 DEF RequestInv, TrailReplays, ReadInv, TrueBefore
<1>4. WalkInv
  BY DEF Init, WalkInv, WalksExact
<1> QED
  BY <1>1, <1>3, <1>4 DEF IInv

\* No step breaks it.
LEMMA NextInv == IInv /\ [Next]_vars => IInv'
  BY NextType, NextRequest, NextTrail, NextRead, NextBefore, NextWalk DEF IInv

\* The invariant holds in every reachable state of the project store.
THEOREM Invariance == Spec => []IInv
  BY InitInv, NextInv, PTL DEF Spec

\* Tables and requests keep their types; only slugs that match the pattern reach
\* the database (validateCreate), and an INSERT finds its id unused.
THEOREM TypeCorrect == Spec => []TypeOK
<1>1. IInv => TypeOK
  BY DEF IInv
<1> QED
  BY <1>1, Invariance, PTL

\* The audit trail replays to every project, and clients are shown nothing else
\* (auditProject in the transaction of the change).
THEOREM TrailIsStory == Spec => []TrailReplays
<1>1. IInv => TrailReplays
  BY DEF IInv
<1> QED
  BY <1>1, Invariance, PTL

\* The before image of an update is what it replaced (Update's pre-read and its
\* WHERE version = $5).
THEOREM BeforeIsTrue == Spec => []TrueBefore
<1>1. IInv => TrueBefore
  BY DEF IInv
<1> QED
  BY <1>1, Invariance, PTL

\* Walks over the listings give each row that stays once, whatever commits between
\* two pages and whatever the page sizes (List, cursor.Decode).
THEOREM WalksAreExact == Spec => []WalksExact
<1>1. IInv => WalksExact
  BY DEF IInv, WalkInv
<1> QED
  BY <1>1, Invariance, PTL

\* No request changes an archived project (archived_at IS NULL in Update and in
\* Archive).
THEOREM ArchivedStays == Spec => ArchivedIsFinal
<1>1. IInv /\ [Next]_vars => [\A p \in At : Exists(p) /\ ~Live(p) => row'[p] = row[p]]_vars
  BY RowsGrow DEF IInv
<1> QED
  BY <1>1, Invariance, PTL DEF Spec, ArchivedIsFinal

\* A version conflict is reported only of a row that moved on, or to a client that
\* named a version ahead of the row (Update's classification).
THEOREM ConflictsAreReal == Spec => ConflictIsReal
<1>1. ASSUME IInv, [Next]_vars, NEW c \in Client,
             pc[c] = "classify", pc'[c] = "idle", answer'.code = "stale"
      PROVE  /\ Live(req[c].project)
             /\ req[c].ahead \/ row[req[c].project].image.version > req[c].expected
  <2>1. Live(req[c].project)
    <3>1. ASSUME NEW d \in Client, Serve(d), d # c PROVE pc'[c] = pc[c]
      BY <1>1, <3>1 DEF Serve, handleCreateProject, handleUpdateProject, handleArchiveProject,
         Refused, Begin, Finish, Get, Create, PreRead, Update, Archive, NoRows, ClassifyUpdate,
         ClassifyArchive, Abort, IInv, TypeOK
    <3>2. ASSUME Serve(c) PROVE ClassifyUpdate(c) \/ Abort(c)
      BY <1>1, <3>2 DEF Serve, handleCreateProject, handleUpdateProject, handleArchiveProject,
         Get, Create, PreRead, Update, Archive, NoRows, ClassifyArchive
    <3>3. ASSUME NEW l \in Listing, NEW n \in 0 .. MaxPageSize + 1, FirstPage(l, n) \/ NextPage(l, n)
          PROVE  pc'[c] = pc[c]
      BY <3>3 DEF FirstPage, NextPage
    <3>4. ClassifyUpdate(c) \/ Abort(c)
      BY <1>1, <3>1, <3>2, <3>3 DEF Next, vars
    <3>5. Abort(c) => answer'.code = "error"
      BY <1>1, FinishStep DEF Abort, IInv
    <3>6. ClassifyUpdate(c) => answer'.code = ClassifyCode(req[c].project)
      BY <1>1, FinishStep DEF ClassifyUpdate, IInv
    <3> QED
      BY <1>1, <3>4, <3>5, <3>6 DEF ClassifyCode
  <2> QED
    BY <1>1, <2>1 DEF IInv, ReadInv
<1>2. IInv /\ [Next]_vars =>
        [\A c \in Client :
            pc[c] = "classify" /\ pc'[c] = "idle" /\ answer'.code = "stale" =>
                /\ Live(req[c].project)
                /\ req[c].ahead \/ row[req[c].project].image.version > req[c].expected]_vars
  BY <1>1
<1> QED
  BY <1>2, Invariance, PTL DEF Spec, ConflictIsReal
=============================================================================
