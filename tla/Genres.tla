------------------------------- MODULE Genres -------------------------------
(***************************************************************************)
(* POST, PATCH and DELETE of app/genres. A genre has a name and a slug     *)
(* that is derived from it. Both are unique without regard to case: a      *)
(* handler looks for a conflicting row before it writes, and the unique    *)
(* indexes decide between handlers that overlap.                           *)
(*                                                                         *)
(* Handlers read under READ COMMITTED and interleave at every statement.   *)
(* A PATCH writes the columns that differ from the row it has read, as     *)
(* SQLAlchemy does, onto whatever the row is by then.                      *)
(***************************************************************************)
EXTENDS FiniteSets, Naturals

CONSTANTS Genre,     \* ids of genres
          Name,      \* names, stripped and not empty
          Key,       \* what names are compared by
          Slug,      \* slugs, which have one case
          Lower,     \* lower(name) of PostgreSQL
          Casefold,  \* name.casefold() of Python, which nothing relates to Lower
          SlugOf,    \* _slugify, as a function of the casefolded name
          Proc,      \* requests the server handles at the same time
          NoRequest, \* the handler is idle
          Unborn,    \* no row yet
          Deleted,   \* no row any more
          Keep       \* the transaction has not written the row

Row == [name : Name, slug : Slug]

ASSUME NamesAssumption ==
    /\ Lower \in [Name -> Key]
    /\ Casefold \in [Name -> Key]
    /\ SlugOf \in [Key -> Slug]

ASSUME NullsAssumption ==
    /\ Unborn \notin Row /\ Deleted \notin Row /\ Keep \notin Row
    /\ Unborn # Deleted /\ Unborn # Keep /\ Deleted # Keep

VARIABLES genres,    \* committed rows of genres
          write,     \* the version of its row that each handler's transaction has written
          pc,        \* the statement each handler runs next
          req,       \* what each handler was asked for and has read
          clashed    \* history: genres that two requests worked on at the same time

vars == <<genres, write, pc, req, clashed>>

Version == Row \cup {Unborn, Deleted}

Request == [id : Genre,
            asked : Row \cup {Deleted},  \* the name asked for with its slug, or a DELETE
            read : Version]              \* the row when the handler found it

ASSUME NoRequestAssumption == NoRequest \notin Request

TypeOK ==
    /\ genres \in [Genre -> Version]
    /\ write \in [Proc -> Row \cup {Keep, Deleted}]
    /\ pc \in [Proc -> {"idle", "insert", "check", "update", "remove", "finish"}]
    /\ req \in [Proc -> Request \cup {NoRequest}]
    /\ clashed \in SUBSET Genre
    /\ \A p \in Proc : IF pc[p] = "idle" THEN req[p] = NoRequest /\ write[p] = Keep
                       ELSE req[p] # NoRequest

\* No genre: the seeded ones are rows that a POST could have made, and may have been deleted.
Init ==
    /\ genres = [g \in Genre |-> Unborn]
    /\ write = [p \in Proc |-> Keep]
    /\ pc = [p \in Proc |-> "idle"]
    /\ req = [p \in Proc |-> NoRequest]
    /\ clashed = {}

Busy(p) == pc[p] # "idle"

Exists(g) == genres[g] \in Row

-----------------------------------------------------------------------------
(* Names.                                                                  *)

\* The row that a name asks for.
Named(n) == [name |-> n, slug |-> SlugOf[Casefold[n]]]

\* The WHERE of the pre-check.
Matches(n) ==
    {g \in Genre : /\ Exists(g)
                    /\ \/ Lower[genres[g].name] = Casefold[n]
                       \/ genres[g].slug = SlugOf[Casefold[n]]}

\* The unique indexes on lower(name) and lower(slug) tell two rows apart.
Collides(r, s) == Lower[r.name] = Lower[s.name] \/ r.slug = s.slug

\* What the UPDATE of p makes of the committed row.
Updated(p) ==
    LET r == req[p]
        row == genres[r.id]
    IN  [name |-> IF r.asked.name # r.read.name THEN r.asked.name ELSE row.name,
         slug |-> IF r.asked.slug # r.read.slug THEN r.asked.slug ELSE row.slug]

-----------------------------------------------------------------------------
(* Locks and the session of a request.                                     *)

\* A transaction keeps the row it has written locked until it ends.
Locked(p) == \E q \in Proc \ {p} : write[q] # Keep /\ req[q].id = req[p].id

\* Fault: the index does not look at entries of transactions that are not committed.
DoubtfulNever(p, row) == FALSE

\* A unique index makes p wait for a transaction that has written a colliding row, or that may
\* yet give up the new version of one.
Doubtful(p, row) ==
    \E q \in Proc \ {p} :
        /\ write[q] # Keep
        /\ \/ write[q] \in Row /\ Collides(row, write[q])
           \/ Exists(req[q].id) /\ Collides(row, genres[req[q].id])

\* The unique indexes refuse the row.
Violates(row, g) == \E h \in Genre \ {g} : Exists(h) /\ Collides(row, genres[h])

Begin(p, next, request) ==
    /\ ~Busy(p)
    /\ pc' = [pc EXCEPT ![p] = next]
    /\ req' = [req EXCEPT ![p] = request]
    /\ clashed' = IF \E q \in Proc : Busy(q) /\ req[q].id = request.id
                  THEN clashed \cup {request.id} ELSE clashed
    /\ UNCHANGED <<genres, write>>

\* The statement of p writes row, and the handler goes on.
Wrote(p, row) ==
    /\ write' = [write EXCEPT ![p] = row]
    /\ pc' = [pc EXCEPT ![p] = "finish"]
    /\ UNCHANGED <<genres, req, clashed>>

Ended(p) ==
    /\ pc' = [pc EXCEPT ![p] = "idle"]
    /\ req' = [req EXCEPT ![p] = NoRequest]
    /\ write' = [write EXCEPT ![p] = Keep]
    /\ UNCHANGED clashed

\* Fault: the session is not closed, so the transaction stays open.
FailOpen(p) ==
    /\ pc' = [pc EXCEPT ![p] = "idle"]
    /\ UNCHANGED <<genres, write, req, clashed>>

\* The handler raises: get_db_session rolls back, the client gets 404, 409 or 500.
Fail(p) == Ended(p) /\ UNCHANGED genres

\* The handler has returned: get_db_session commits.
Commit(p) ==
    /\ pc[p] = "finish"
    /\ genres' = IF write[p] = Keep THEN genres ELSE [genres EXCEPT ![req[p].id] = write[p]]
    /\ Ended(p)

-----------------------------------------------------------------------------
(* The handlers.                                                           *)

\* create_genre: the pre-check finds no row in the way.
CreateGenre(p, g, n) ==
    /\ genres[g] = Unborn
    /\ \A q \in Proc : Busy(q) => req[q].id # g
    /\ Matches(n) = {}
    /\ Begin(p, "insert", [id |-> g, asked |-> Named(n), read |-> Unborn])

\* The INSERT: IntegrityError, answered 409, if the name was taken since the pre-check.
InsertGenre(p) ==
    LET row == req[p].asked IN
    /\ pc[p] = "insert"
    /\ ~Doubtful(p, row)
    /\ IF Violates(row, req[p].id) THEN Fail(p) ELSE Wrote(p, row)

\* update_genre reads the row, which is not what was asked for already.
UpdateGenre(p, g, n) ==
    /\ Exists(g)
    /\ genres[g] # Named(n)
    /\ Begin(p, "check", [id |-> g, asked |-> Named(n), read |-> genres[g]])

\* The pre-check of the rename, against the other genres.
CheckConflict(p) ==
    /\ pc[p] = "check"
    /\ IF Matches(req[p].asked.name) \subseteq {req[p].id}
       THEN /\ pc' = [pc EXCEPT ![p] = "update"]
            /\ UNCHANGED <<genres, write, req, clashed>>
       ELSE Fail(p)

\* Fault: the slug is left as it was.
UpdateRowNameOnly(p) ==
    LET row == [name |-> req[p].asked.name, slug |-> genres[req[p].id].slug] IN
    /\ pc[p] = "update"
    /\ ~Locked(p)
    /\ IF Exists(req[p].id)
       THEN /\ ~Doubtful(p, row)
            /\ IF Violates(row, req[p].id) THEN Fail(p) ELSE Wrote(p, row)
       ELSE Fail(p)

\* Fault: the row is merged, which inserts it again if it is gone.
UpdateRowMerged(p) ==
    LET row == req[p].asked IN
    /\ pc[p] = "update"
    /\ ~Locked(p)
    /\ ~Doubtful(p, row)
    /\ IF Violates(row, req[p].id) THEN Fail(p) ELSE Wrote(p, row)

\* The UPDATE: StaleDataError if the row is gone, IntegrityError if the name was taken.
UpdateRow(p) ==
    /\ pc[p] = "update"
    /\ ~Locked(p)
    /\ IF Exists(req[p].id)
       THEN /\ ~Doubtful(p, Updated(p))
            /\ IF Violates(Updated(p), req[p].id) THEN Fail(p) ELSE Wrote(p, Updated(p))
       ELSE Fail(p)

\* delete_genre finds the row.
DeleteGenre(p, g) ==
    /\ Exists(g)
    /\ Begin(p, "remove", [id |-> g, asked |-> Deleted, read |-> genres[g]])

\* The DELETE: a book of the genre restricts it, a row that is gone by now is no error.
RemoveGenre(p) ==
    /\ pc[p] = "remove"
    /\ ~Locked(p)
    /\ \/ Wrote(p, IF Exists(req[p].id) THEN Deleted ELSE Keep)
       \/ Exists(req[p].id) /\ Fail(p)

\* Requests that are answered without a write: the pre-check of a creation meets a row (409) or
\* more than one (MultipleResultsFound, 500), there is no such genre, or it has the name already.
Answered(p) ==
    /\ ~Busy(p)
    /\ UNCHANGED vars

\* A lost connection, a crash of the server.
Abort(p) == Busy(p) /\ Fail(p)

Handle(p) ==
    \/ InsertGenre(p)
    \/ CheckConflict(p)
    \/ UpdateRow(p)
    \/ RemoveGenre(p)
    \/ Commit(p)

Arrive(p) ==
    \/ \E g \in Genre, n \in Name : CreateGenre(p, g, n) \/ UpdateGenre(p, g, n)
    \/ \E g \in Genre : DeleteGenre(p, g)
    \/ Answered(p)

Next == \E p \in Proc : Arrive(p) \/ Handle(p) \/ Abort(p)

Spec == Init /\ [][Next]_vars

-----------------------------------------------------------------------------
(* Properties.                                                             *)

\* No two genres have names or slugs that differ in case only: what the pre-check of a POST or
\* PATCH misses because another request has not committed yet, the unique indexes catch.
NamesDistinct ==
    \A g, h \in Genre : g # h /\ Exists(g) /\ Exists(h) => ~Collides(genres[g], genres[h])

\* A genre has the slug of its name as long as no two requests work on it at the same time.
LoneSlugDerived ==
    \A g \in Genre \ clashed : Exists(g) => genres[g] = Named(genres[g].name)

\* A deleted genre stays deleted: no PATCH that has read the row before a DELETE committed
\* brings it back, in whatever order their statements come.
DeletedForGood == [][\A g \in Genre : genres[g] = Deleted => genres'[g] = Deleted]_vars

\* "Returns 409 on case-insensitive duplicate of either name or slug": the pre-check of a name
\* meets one row at most, for scalar_one_or_none raises MultipleResultsFound at two, a 500. A
\* name whose lower() is the casefold() of another but not its own breaks it, without overlap.
PreCheckDecides == \A n \in Name : Cardinality(Matches(n)) <= 1

\* "slug is always derived from name to avoid drift". Renamings that overlap break it.
SlugDerived == \A g \in Genre : Exists(g) => genres[g] = Named(genres[g].name)

=============================================================================
