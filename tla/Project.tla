------------------------------- MODULE Project -------------------------------
(***************************************************************************)
(* The projects of one tenant, their audit trail and the two paginated     *)
(* listings: internal/project, internal/audit and internal/platform/cursor *)
(* as the handlers of internal/httpx call them.  A write is a READ         *)
(* COMMITTED transaction of several statements; other requests commit      *)
(* between them.  A row is sorted by the instant its transaction began,    *)
(* and appears when it commits, so rows do not appear in key order.        *)
(***************************************************************************)
EXTENDS Integers, FiniteSets

CONSTANTS
    Client,
    Machine,          \* the clients that are API keys
    Field,            \* the fields an update may set: name, description
    Slug,
    DerivedSlug,      \* what Slugify makes of the names in use, which collide
    None,
    MaxTx,            \* bound: transactions that begin
    DefaultPageSize, MaxPageSize

ASSUME ProjectAssumption ==
    /\ Machine \subseteq Client /\ DerivedSlug \in Slug
    /\ None \notin Client /\ None \notin Slug /\ None \notin Nat
    /\ MaxTx \in Nat
    /\ DefaultPageSize \in Nat \ {0} /\ MaxPageSize \in Nat \ {0}

VARIABLES
    clock,    \* transactions begun; the k-th has now() = k
    row,      \* projects, by the instant of their creation; None: no committed row
    trail,    \* audit_log
    pc,       \* the statement a client's request is about to run
    began,    \* now() of its transaction
    req,      \* the decoded request
    before,   \* the image its first statement read
    answer,   \* the response the last step sent, if it sent one
    page,     \* the walk over a listing, page by page
    owed,     \* history: rows the walk has still to give
    wrong     \* history: rows a walk should not have given

tx      == <<began, req, before>>
walk    == <<page, owed, wrong>>
vars    == <<clock, row, trail, pc, tx, answer, walk>>

At == 1 .. MaxTx

\* A value of a field is the instant of the transaction that wrote it.
Image == [version : Nat \ {0}, value : [Field -> At], slug : Slug, archived : BOOLEAN]

\* created_by or created_by_key: the database wants exactly one.
Creator == [user : (Client \ Machine) \cup {None}, key : Machine \cup {None}]

Row    == [image : Image, creator : Creator]
Exists(p)  == row[p] # None
Live(p)    == Exists(p) /\ ~row[p].image.archived

\* A row of audit_log for a project; expected: the request's, a history field.
Entry == [at : At, project : At, action : {"create", "update", "archive"},
          actor : Client, kind : {"user", "api_key"},
          before : Image \cup {None}, after : Image, ahead : BOOLEAN]
-----------------------------------------------------------------------------
(* Requests, and what is refused before any SQL. *)

\* One request stands for all those with a name, or with fields, that do not fit.
CreateRequest  == [op : {"create"}, name : {"fits"}, slug : Slug \cup {"", "malformed"}]
                    \cup [op : {"create"}, name : {"blank", "long"}, slug : {""}]
UpdateRequest  == [op : {"update"}, project : At, fields : SUBSET Field, fits : {TRUE},
                   expected : 0 .. MaxTx - 1]
                    \cup [op : {"update"}, project : At, fields : {Field}, fits : {FALSE},
                          expected : {1}]
ArchiveRequest == [op : {"archive"}, project : At]

\* What the transaction of a request is asked to do.
Work == [op : {"create"}, slug : Slug]
          \cup [op : {"update"}, project : At, fields : SUBSET Field, expected : 0 .. MaxTx - 1,
                ahead : BOOLEAN]
          \cup [op : {"archive"}, project : At, ahead : {FALSE}]

Listing == {"live", "all", "audit"}

Token == [binding : Listing, position : At]

ASSUME NoneAssumption == None \notin Row \cup Image \cup Work \cup Listing \cup Token

\* Slugify: a name always yields a slug the pattern accepts.
Slugify == DerivedSlug

\* Mutant: a slug the client chose is not matched against the pattern.
validateCreateName(in) == in.name = "fits"

validateCreate(in) == in.name = "fits" /\ (in.slug \in Slug \/ (in.slug = "" /\ Slugify \in Slug))

ChosenSlug(in) == IF in.slug = "" THEN Slugify ELSE in.slug

\* handleUpdateProject wants a field, Update a positive version and fields that fit.
validUpdate(in) == in.fields # {} /\ in.expected > 0 /\ in.fits

NoAnswer == [code |-> "none", project |-> None, image |-> None]

\* A 400, which leaves everything as it was.
Refused == answer' = NoAnswer /\ UNCHANGED <<clock, row, trail, pc, tx, walk>>

\* db.WithIdentityTx: BEGIN fixes now().  ahead: the client names a version that
\* nobody has written yet.
Begin(c, in, statement) ==
    /\ clock < MaxTx
    /\ clock' = clock + 1
    /\ began' = [began EXCEPT ![c] = clock + 1]
    /\ req' = [req EXCEPT ![c] = in]
    /\ before' = [before EXCEPT ![c] = None]
    /\ pc' = [pc EXCEPT ![c] = statement]
    /\ answer' = NoAnswer
    /\ UNCHANGED <<row, trail, walk>>

handleCreateProject(c, in) ==
    /\ pc[c] = "idle"
    /\ \/ ~validateCreate(in) /\ Refused
       \/ validateCreate(in) /\ Begin(c, [op |-> "create", slug |-> ChosenSlug(in)], "insert")

\* A client knows the ids it has been shown, those of committed rows.
handleUpdateProject(c, in) ==
    /\ pc[c] = "idle" /\ Exists(in.project)
    /\ \/ ~validUpdate(in) /\ Refused
       \/ /\ validUpdate(in)
          /\ Begin(c, [op |-> "update", project |-> in.project, fields |-> in.fields,
                       expected |-> in.expected,
                       ahead |-> in.expected > row[in.project].image.version], "preread")

handleArchiveProject(c, in) ==
    /\ pc[c] = "idle" /\ Exists(in.project)
    /\ Begin(c, [op |-> "archive", project |-> in.project, ahead |-> FALSE], "preread")
-----------------------------------------------------------------------------
(* The statements of the transactions. *)

\* COMMIT or ROLLBACK, and the response.
Finish(c, code, p, image) ==
    /\ pc' = [pc EXCEPT ![c] = "idle"]
    /\ answer' = [code |-> code, project |-> p, image |-> image]
    /\ req' = [req EXCEPT ![c] = None]
    /\ began' = [began EXCEPT ![c] = 0]
    /\ before' = [before EXCEPT ![c] = None]

Attribution(c) == [user |-> IF c \in Machine THEN None ELSE c,
                   key  |-> IF c \in Machine THEN c ELSE None]

ActorFromAuthorized(c) == IF c \in Machine THEN "api_key" ELSE "user"

\* Entry.Validate, of what these callers can get wrong.
Validate(e) == e.before # None \/ e.after # None

\* Mutant: the entry of a change is written only for people.
auditProjectPeople(c, action, p, pre, post) ==
    trail' = IF c \in Machine THEN trail
             ELSE trail \cup {[at |-> began[c], project |-> p, action |-> action, actor |-> c,
                               kind |-> "user", before |-> pre, after |-> post,
                               ahead |-> action = "update" /\ req[c].ahead]}

\* auditProject in the caller's transaction: the entry commits with the change.
auditProject(c, action, p, pre, post) ==
    LET e == [at |-> began[c], project |-> p, action |-> action, actor |-> c,
              kind |-> ActorFromAuthorized(c), before |-> pre, after |-> post,
              ahead |-> action = "update" /\ req[c].ahead]
    IN  Validate(e) /\ trail' = trail \cup {e}

\* The partial unique index.  An INSERT that meets an uncommitted row waits for it.
SlugTaken(s) == \E p \in At : Live(p) /\ row[p].image.slug = s

\* INSERT, the entry, COMMIT.
Create(c) ==
    LET p     == began[c]
        image == [version |-> 1, value |-> [f \in Field |-> p], slug |-> req[c].slug,
                  archived |-> FALSE]
    IN  /\ pc[c] = "insert"
        /\ \/ /\ SlugTaken(req[c].slug)
              /\ Finish(c, "conflict", None, None)
              /\ UNCHANGED <<row, trail>>
           \/ /\ ~SlugTaken(req[c].slug)
              /\ row' = [row EXCEPT ![p] = [image |-> image, creator |-> Attribution(c)]]
              /\ auditProject(c, "create", p, None, image)
              /\ Finish(c, "ok", p, image)
        /\ UNCHANGED <<clock, walk>>

\* The SELECT that takes the before image, of Update and of Archive.
PreRead(c) ==
    /\ pc[c] = "preread"
    /\ before' = [before EXCEPT ![c] = row[req[c].project].image]
    /\ pc' = [pc EXCEPT ![c] = req[c].op]
    /\ answer' = NoAnswer
    /\ UNCHANGED <<clock, row, trail, began, req, walk>>

\* Mutant: the version is checked against the image that was read.
UpdateMatchesRead(c) == Live(req[c].project) /\ before[c].version = req[c].expected

\* WHERE version = $5 AND archived_at IS NULL, decided on the latest committed row.
UpdateMatches(c) == Live(req[c].project) /\ row[req[c].project].image.version = req[c].expected

\* SET name = COALESCE($3, name), ..., version = version + 1.
Updated(c) ==
    LET old == row[req[c].project].image
    IN  [old EXCEPT !.value = [f \in Field |-> IF f \in req[c].fields THEN began[c] ELSE @[f]],
                    !.version = @ + 1]

Update(c) ==
    LET p == req[c].project
    IN  /\ pc[c] = "update"
        /\ UpdateMatches(c)
        /\ row' = [row EXCEPT ![p].image = Updated(c)]
        /\ auditProject(c, "update", p, before[c], Updated(c))
        /\ Finish(c, "ok", p, Updated(c))
        /\ UNCHANGED <<clock, walk>>

\* Mutant: archiving again writes again.
ArchiveMatchesAny(c) == Exists(req[c].project)

\* WHERE archived_at IS NULL: no version is asserted.
ArchiveMatches(c) == Live(req[c].project)

Archived(c) ==
    LET old == row[req[c].project].image
    IN  [old EXCEPT !.archived = TRUE, !.version = @ + 1]

Archive(c) ==
    LET p == req[c].project
    IN  /\ pc[c] = "archive"
        /\ ArchiveMatches(c)
        /\ row' = [row EXCEPT ![p].image = Archived(c)]
        /\ auditProject(c, "archive", p, before[c], Archived(c))
        /\ Finish(c, "ok", p, None)
        /\ UNCHANGED <<clock, walk>>

\* The statement matched no row.
NoRows(c) ==
    /\ \/ pc[c] = "update" /\ ~UpdateMatches(c)
       \/ pc[c] = "archive" /\ ~ArchiveMatches(c)
    /\ pc' = [pc EXCEPT ![c] = IF @ = "update" THEN "classify" ELSE "classifyarchive"]
    /\ answer' = NoAnswer
    /\ UNCHANGED <<clock, row, trail, tx, walk>>

\* Mutant: anything that did not match is called a conflict.
ClassifyCodeStale(p) == "stale"

\* Zero rows: archived is reported as missing, anything else as a version conflict.
ClassifyCode(p) == IF Live(p) THEN "stale" ELSE "notfound"

\* A later statement of the same transaction, which sees what committed meanwhile.
ClassifyUpdate(c) ==
    /\ pc[c] = "classify"
    /\ Finish(c, ClassifyCode(req[c].project), req[c].project, None)
    /\ UNCHANGED <<clock, row, trail, walk>>

\* Already archived is a success; a live row is the branch called unreachable.
ClassifyArchive(c) ==
    /\ pc[c] = "classifyarchive"
    /\ Finish(c, IF Live(req[c].project) THEN "notfound" ELSE "ok", req[c].project, None)
    /\ UNCHANGED <<clock, row, trail, walk>>

\* The request's context ends, or a statement fails: ROLLBACK.
Abort(c) ==
    /\ pc[c] # "idle"
    /\ Finish(c, "error", None, None)
    /\ UNCHANGED <<clock, row, trail, walk>>

\* One SELECT.
Get(c, p) ==
    /\ pc[c] = "idle" /\ Exists(p)
    /\ answer' = [code |-> "ok", project |-> p, image |-> row[p].image]
    /\ UNCHANGED <<clock, row, trail, pc, tx, walk>>
-----------------------------------------------------------------------------
(* Listings: "live" and "all" are the projects with and without the archived *)
(* filter, "audit" the trail.                                                *)

\* The rows a listing selects, as their keys.
Selected(l) == CASE l = "live"  -> {p \in At : Live(p)}
                 [] l = "all"   -> {p \in At : Exists(p)}
                 [] l = "audit" -> {e.at : e \in trail}

NormalizePageSize(n) == IF n <= 0 THEN DefaultPageSize
                        ELSE IF n > MaxPageSize THEN MaxPageSize ELSE n

\* ORDER BY key DESC LIMIT n.
Newest(S, n) == {k \in S : Cardinality({j \in S : j > k}) < n}

Least(S) == CHOOSE k \in S : \A j \in S : k <= j

\* (created_at, id) < (after.Time, after.ID).
Below(S, after) == {k \in S : after = None \/ k < after}

\* Mutant: the cursor names the extra row that was fetched.
NextAfterExtra(fetched, limit) ==
    IF Cardinality(fetched) > limit THEN Least(fetched) ELSE None

\* The position of the last row the client was given, when there are more.
NextAfter(fetched, limit) ==
    IF Cardinality(fetched) > limit THEN Least(Newest(fetched, limit)) ELSE None

\* project.Store.List and audit.Reader.List: limit+1 rows, the extra one dropped.
List(l, after, n) ==
    LET limit   == NormalizePageSize(n)
        fetched == Newest(Below(Selected(l), after), limit + 1)
    IN  [rows |-> Newest(fetched, limit), next |-> NextAfter(fetched, limit)]

\* A cursor carries the query it was minted for; Decode compares it.
Encode(l, position) == IF position = None THEN None ELSE [binding |-> l, position |-> position]

Decodes(l, token) == token.binding = l

NoWalk == [listing |-> None, token |-> None, given |-> {}]

\* A page has been given.  owed: the rows listed when the walk began and not given yet;
\* wrong: rows given twice, or that the listing of the walk does not select.
Give(w, res, l) ==
    /\ page'  = IF res.next = None THEN NoWalk
                ELSE [w EXCEPT !.token = Encode(l, res.next), !.given = @ \cup res.rows]
    /\ wrong' = wrong \cup (res.rows \cap w.given) \cup (res.rows \ Selected(w.listing))

\* A client asks for the first page of a listing, with a page size of its choice.
FirstPage(l, n) ==
    LET res == List(l, None, n)
    IN  /\ page = NoWalk
        /\ Give([listing |-> l, token |-> None, given |-> {}], res, l)
        /\ owed' = Selected(l) \ res.rows
        /\ answer' = NoAnswer
        /\ UNCHANGED <<clock, row, trail, pc, tx>>

\* It presents its cursor to listing l.  The cursor of another listing is a 400 and
\* the walk stays where it was.
NextPage(l, n) ==
    LET res == List(l, page.token.position, n)
    IN  /\ page # NoWalk
        /\ Decodes(l, page.token)
        /\ Give(page, res, l)
        /\ owed' = (owed \cap Selected(page.listing)) \ res.rows
        /\ answer' = NoAnswer
        /\ UNCHANGED <<clock, row, trail, pc, tx>>
-----------------------------------------------------------------------------
Init ==
    /\ clock = 0
    /\ row = [p \in At |-> None]
    /\ trail = {}
    /\ pc = [c \in Client |-> "idle"]
    /\ began = [c \in Client |-> 0]
    /\ req = [c \in Client |-> None]
    /\ before = [c \in Client |-> None]
    /\ answer = NoAnswer
    /\ page = NoWalk /\ owed = {} /\ wrong = {}

Serve(c) ==
    \/ \E in \in CreateRequest : handleCreateProject(c, in)
    \/ \E in \in UpdateRequest : handleUpdateProject(c, in)
    \/ \E in \in ArchiveRequest : handleArchiveProject(c, in)
    \/ \E p \in At : Get(c, p)
    \/ Create(c) \/ PreRead(c) \/ Update(c) \/ Archive(c) \/ NoRows(c)
    \/ ClassifyUpdate(c) \/ ClassifyArchive(c) \/ Abort(c)

Next ==
    \/ \E c \in Client : Serve(c)
    \/ \E l \in Listing, n \in 0 .. MaxPageSize + 1 : FirstPage(l, n) \/ NextPage(l, n)

Spec == Init /\ [][Next]_vars
-----------------------------------------------------------------------------
(* Properties. *)

\* The reachable values of the tables and of the requests being served; a statement
\* about a project runs only while its row exists.
TypeOK ==
    /\ clock \in 0 .. MaxTx
    /\ row \in [At -> Row \cup {None}]
    /\ trail \subseteq Entry
    /\ pc \in [Client -> {"idle", "insert", "preread", "update", "archive",
                          "classify", "classifyarchive"}]
    /\ began \in [Client -> 0 .. MaxTx]
    /\ before \in [Client -> Image \cup {None}]
    /\ req \in [Client -> Work \cup {None}]
    /\ \A c \in Client :
        /\ pc[c] # "idle" <=> req[c] # None
        /\ pc[c] = "insert" => req[c].slug \in Slug /\ row[began[c]] = None
        /\ pc[c] \notin {"idle", "insert"} => Exists(req[c].project)

\* The trail tells the whole story of a project (0007_audit_log.sql, auditProject): its
\* entries carry the versions 1, 2, ... up to the row's, each once, and the last one's after
\* image is the row.  A change without an entry, an entry without a change, or two entries
\* of one change would break it.  Whatever Get, Create or Update showed a client is one of
\* these states.
TrailReplays ==
    /\ \A e, f \in trail : e.project = f.project /\ e.after.version = f.after.version => e = f
    /\ \A e \in trail : Exists(e.project) /\ e.after.version <= row[e.project].image.version
    /\ \A p \in At : Exists(p) =>
        /\ \A v \in 1 .. row[p].image.version :
              \E e \in trail : e.project = p /\ e.after.version = v
        /\ \A e \in trail : e.project = p /\ e.after.version = row[p].image.version
                             => e.after = row[p].image
    /\ answer.image # None =>
        \E e \in trail : e.project = answer.project /\ e.after = answer.image

\* An update replaces what its client had seen (project.Store.Update: "it can only succeed
\* if the row is still in the state just read"): the before image of its entry is the after
\* image of the version it replaced, provided the client did not name a version ahead of the
\* row's.  An archive asserts no version, so of its before image only this holds: it is an
\* earlier state of the project, possibly not the last one.
TrueBefore ==
    \A e \in trail : e.before # None =>
        \E d \in trail :
            /\ d.project = e.project /\ d.after = e.before
            /\ d.after.version < e.after.version
            /\ e.action = "update" /\ ~e.ahead => d.after.version = e.after.version - 1

\* A walk over a listing, with pages of any size, gives a row at most once and gives only
\* rows of the listing it was started on (the keyset predicate and the cursor's binding).
\* When it is finished it has given every row that was committed when it began and that the
\* listing still selects, however many rows were inserted, changed or archived between the
\* pages.
WalksExact == wrong = {} /\ (page = NoWalk => owed = {})

\* Archiving is final: no request changes an archived project again, not even its version or
\* the recorded instant (Archive's WHERE archived_at IS NULL, Update's likewise).
ArchivedIsFinal ==
    [][\A p \in At : Exists(p) /\ ~Live(p) => row'[p] = row[p]]_vars

\* An update is refused as stale only when it is: the row has moved past the version the
\* client named, unless it named one ahead of the row, in which case the classifying read,
\* a later statement, may see that very version (Update's classification).
ConflictIsReal ==
    [][\A c \in Client :
        pc[c] = "classify" /\ pc'[c] = "idle" /\ answer'.code = "stale" =>
            /\ Live(req[c].project)
            /\ req[c].ahead \/ row[req[c].project].image.version > req[c].expected]_vars
=============================================================================
