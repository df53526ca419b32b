---------------------------- MODULE BookCatalog ----------------------------
(***************************************************************************)
(* Books, their authors and their genres under concurrent POST, PATCH and  *)
(* DELETE requests of app/books and the DELETE of app/genres.              *)
(*                                                                         *)
(* A handler reads under READ COMMITTED, then flushes one SQL statement    *)
(* after the other in one transaction. Each statement waits for the row    *)
(* locks that PostgreSQL and the foreign keys ask for (Blocks), so requests *)
(* interleave between statements and may block each other in a circle.     *)
(***************************************************************************)
EXTENDS FiniteSets, Naturals, Relation

CONSTANTS Book,      \* ids of books
          Author,    \* ids of authors, all of them stored: no request deletes one
          Genre,     \* ids of genres
          Proc,      \* requests the server handles at the same time
          NoGenre,   \* genre_id is NULL
          Unborn,    \* no row yet
          Deleted,   \* no row any more
          NoBook,    \* the request is about no book
          Keep       \* the transaction has not written the row

Row == Genre \cup {NoGenre}    \* of a row of books, its genre_id

ASSUME NullsAssumption ==
    /\ NoGenre \notin Genre
    /\ Unborn \notin Row /\ Deleted \notin Row /\ Keep \notin Row
    /\ Unborn # Deleted /\ Unborn # Keep /\ Deleted # Keep
    /\ NoBook \notin Book

VARIABLES genres,    \* committed rows of genres
          books,     \* committed rows of books
          linked,    \* committed rows of book_authors: the authors of each book
          write,     \* what each handler's open transaction has written
          pc,        \* the statement each handler runs next
          req,       \* what each handler was asked for and has read
          clashed    \* history: books that two requests worked on at the same time

vars == <<genres, books, linked, write, pc, req, clashed>>

Writes == [row : Row \cup {Keep, Deleted},  \* the new version of the request's book
           add : SUBSET Author,             \* rows of book_authors inserted for that book
           cut : SUBSET Author,             \* rows of book_authors deleted
           gone : SUBSET Genre]             \* genres deleted

NoWrites == [row |-> Keep, add |-> {}, cut |-> {}, gone |-> {}]

\* What a PATCH may change; "title" stands for the columns that refer to no other table.
Field == {"title", "genre_id", "author_ids"}

Request == [book : Book \cup {NoBook},
            changes : SUBSET Field,      \* the fields of a PATCH
            genre : Row,                 \* genre_id
            authors : SUBSET Author,     \* author_ids
            seen : SUBSET Author]        \* the authors that were read

NoRequest == [book |-> NoBook, changes |-> {}, genre |-> NoGenre, authors |-> {}, seen |-> {}]

TypeOK ==
    /\ genres \in SUBSET Genre
    /\ books \in [Book -> Row \cup {Unborn, Deleted}]
    /\ linked \in [Book -> SUBSET Author]
    /\ write \in [Proc -> Writes]
    /\ pc \in [Proc -> {"idle", "insert", "load", "validate", "update", "cut", "add", "refresh",
                        "erase", "drop", "remove", "finish"}]
    /\ req \in [Proc -> Request]
    /\ clashed \in SUBSET Book
    /\ \A p \in Proc : pc[p] = "idle" => req[p] = NoRequest /\ write[p] = NoWrites

\* The genres that the migration has seeded, and no book.
Init ==
    /\ genres = Genre
    /\ books = [b \in Book |-> Unborn]
    /\ linked = [b \in Book |-> {}]
    /\ write = [p \in Proc |-> NoWrites]
    /\ pc = [p \in Proc |-> "idle"]
    /\ req = [p \in Proc |-> NoRequest]
    /\ clashed = {}

Exists(b) == books[b] \in Row

Busy(p) == pc[p] # "idle"

-----------------------------------------------------------------------------
(* Row locks.                                                              *)

\* Fault: a PATCH adds authors to the list, it does not replace it.
CutsNone(p) == IF pc[p] = "erase" THEN req[p].seen ELSE {}

\* What the flush of book.authors deletes and inserts: the list asked for against the one
\* read. DELETE asks for no authors.
Cuts(p) == req[p].seen \ req[p].authors

Adds(p) == req[p].authors \ req[p].seen

\* The foreign key check of a changed genre_id keeps the genre from being deleted.
Shares(q, g) == write[q].row = g /\ books[req[q].book] # g

\* Must the next statement of p wait for the transaction of q?
Blocks(q, p) ==
    LET same == req[p].book # NoBook /\ req[p].book = req[q].book IN
    /\ p # q
    /\ CASE pc[p] = "insert" -> req[p].genre \in write[q].gone
         [] pc[p] = "update" -> \/ same /\ write[q].row # Keep
                                \/ "genre_id" \in req[p].changes /\ req[p].genre \in write[q].gone
         [] pc[p] \in {"cut", "erase"} -> same /\ Cuts(p) \cap write[q].cut # {}
         [] pc[p] = "add" -> /\ same
                             /\ Adds(p) # {}
                             /\ \/ write[q].row = Deleted
                                \/ Adds(p) \cap (write[q].add \cup write[q].cut) # {}
         [] pc[p] = "drop" -> same /\ write[q] # NoWrites
         [] pc[p] = "remove" -> \/ req[p].genre \in write[q].gone
                                \/ Shares(q, req[p].genre)
                                \/ /\ write[q].row = Deleted
                                   /\ books[req[q].book] = req[p].genre
         [] OTHER -> FALSE

Waits(p) == \E q \in Proc : Blocks(q, p)

\* Transactions that wait for each other in a circle.
Deadlocked(p) == TransitiveClosure([x, y \in Proc |-> Blocks(x, y)], Proc)[p, p]

-----------------------------------------------------------------------------
(* The session of a request.                                               *)

Begin(p, next, request) ==
    /\ ~Busy(p)
    /\ pc' = [pc EXCEPT ![p] = next]
    /\ req' = [req EXCEPT ![p] = request]
    /\ clashed' = IF \E q \in Proc : Busy(q) /\ req[q].book = request.book
                  THEN clashed \cup ({request.book} \ {NoBook}) ELSE clashed
    /\ UNCHANGED <<genres, books, linked, write>>

Continue(p, next) ==
    /\ pc' = [pc EXCEPT ![p] = next]
    /\ UNCHANGED <<genres, books, linked, req, clashed>>

Ended(p) ==
    /\ pc' = [pc EXCEPT ![p] = "idle"]
    /\ req' = [req EXCEPT ![p] = NoRequest]
    /\ write' = [write EXCEPT ![p] = NoWrites]
    /\ UNCHANGED clashed

\* Fault: the session is not closed, so the transaction stays open.
FailOpen(p) ==
    /\ pc' = [pc EXCEPT ![p] = "idle"]
    /\ UNCHANGED <<genres, books, linked, write, req, clashed>>

\* The handler raises: get_db_session rolls back and the client gets an error.
Fail(p) ==
    /\ Ended(p)
    /\ UNCHANGED <<genres, books, linked>>

\* The handler has returned: get_db_session commits.
Commit(p) ==
    LET b == req[p].book
        w == write[p] IN
    /\ pc[p] = "finish"
    /\ genres' = genres \ w.gone
    /\ books' = IF w.row = Keep THEN books ELSE [books EXCEPT ![b] = w.row]
    /\ linked' = IF b = NoBook THEN linked
                 ELSE [linked EXCEPT ![b] = (@ \ w.cut) \cup w.add]
    /\ Ended(p)

-----------------------------------------------------------------------------
(* POST /books, with at least one author: BookCreate refuses an empty list. *)

\* _validate_genre and get_authors_by_ids find what the request names.
CreateBook(p, b, g, A) ==
    /\ books[b] = Unborn
    /\ \A q \in Proc : req[q].book # b
    /\ g \in genres \cup {NoGenre}
    /\ A # {}
    /\ Begin(p, "insert", [NoRequest EXCEPT !.book = b, !.genre = g, !.authors = A])

\* Inserts the book and its rows of book_authors, unless its genre is gone by now.
InsertBook(p) ==
    LET r == req[p] IN
    /\ pc[p] = "insert"
    /\ ~Waits(p)
    /\ IF r.genre \in genres \cup {NoGenre}
       THEN /\ write' = [write EXCEPT ![p].row = r.genre, ![p].add = r.authors]
            /\ Continue(p, "finish")
       ELSE Fail(p)

-----------------------------------------------------------------------------
(* PATCH /books/{id}                                                       *)

\* Fault: an empty author list is not refused.
UpdateBookAnyList(p, b, changes, g, A) ==
    /\ Exists(b)
    /\ changes # {}
    /\ "genre_id" \in changes <=> g # books[b]
    /\ "author_ids" \notin changes => A = {}
    /\ Begin(p, "load", [book |-> b, changes |-> changes, genre |-> g, authors |-> A, seen |-> {}])

\* get_book reads the row. An empty list of authors is refused with 409; a column given the
\* value it has counts as left out, for SQLAlchemy does not write it.
UpdateBook(p, b, changes, g, A) ==
    /\ Exists(b)
    /\ changes # {}
    /\ "genre_id" \in changes <=> g # books[b]
    /\ "author_ids" \in changes <=> A # {}
    /\ Begin(p, "load", [book |-> b, changes |-> changes, genre |-> g, authors |-> A, seen |-> {}])

\* The first statement of a flush.
Flush(changes) == IF changes = {"author_ids"} THEN "cut" ELSE "update"

\* The SELECT of the authors, for PATCH and DELETE, which changes no field.
LoadAuthors(p) ==
    LET changes == req[p].changes IN
    /\ pc[p] = "load"
    /\ req' = [req EXCEPT ![p].seen = linked[req[p].book]]
    /\ pc' = [pc EXCEPT ![p] = IF changes = {} THEN "erase"
                               ELSE IF "genre_id" \in changes THEN "validate"
                               ELSE Flush(changes)]
    /\ UNCHANGED <<genres, books, linked, write, clashed>>

\* _validate_genre
ValidateGenre(p) ==
    /\ pc[p] = "validate"
    /\ IF req[p].genre \in genres \cup {NoGenre}
       THEN Continue(p, Flush(req[p].changes)) /\ UNCHANGED write
       ELSE Fail(p)

\* The genre_id of the new version of the row.
NewRow(p) == IF "genre_id" \in req[p].changes THEN req[p].genre ELSE books[req[p].book]

AfterUpdate(p) == IF "author_ids" \in req[p].changes THEN "cut" ELSE "refresh"

\* Fault: the row is upserted, so one that is gone is put back, and not read again.
UpdateRowMerged(p) ==
    /\ pc[p] = "update"
    /\ ~Waits(p)
    /\ IF NewRow(p) \in genres \cup {NoGenre}
       THEN /\ write' = [write EXCEPT ![p].row = NewRow(p)]
            /\ Continue(p, IF "author_ids" \in req[p].changes THEN "cut" ELSE "finish")
       ELSE Fail(p)

\* UPDATE books: no row left raises StaleDataError, no genre left violates the foreign key.
UpdateRow(p) ==
    /\ pc[p] = "update"
    /\ ~Waits(p)
    /\ IF Exists(req[p].book) /\ NewRow(p) \in genres \cup {NoGenre}
       THEN /\ write' = [write EXCEPT ![p].row = NewRow(p)]
            /\ Continue(p, AfterUpdate(p))
       ELSE Fail(p)

\* DELETE FROM book_authors: the rows of the list read and not asked for, those that are left.
CutLinks(p) ==
    /\ pc[p] \in {"cut", "erase"}
    /\ ~Waits(p)
    /\ write' = [write EXCEPT ![p].cut = Cuts(p) \cap linked[req[p].book]]
    /\ Continue(p, IF pc[p] = "erase" THEN "drop" ELSE "add")

\* INSERT INTO book_authors: fails if the book is gone or another request added the author.
AddLinks(p) ==
    LET b == req[p].book IN
    /\ pc[p] = "add"
    /\ ~Waits(p)
    /\ IF Adds(p) = {} \/ (Exists(b) /\ Adds(p) \cap linked[b] = {})
       THEN /\ write' = [write EXCEPT ![p].add = Adds(p)]
            /\ Continue(p, "refresh")
       ELSE Fail(p)

\* session.refresh raises if the row is gone.
RefreshBook(p) ==
    /\ pc[p] = "refresh"
    /\ IF Exists(req[p].book)
       THEN Continue(p, "finish") /\ UNCHANGED write
       ELSE Fail(p)

-----------------------------------------------------------------------------
(* DELETE /books/{id} and DELETE /genres/{id}                              *)

\* Reads the row.
DeleteBook(p, b) ==
    /\ Exists(b)
    /\ Begin(p, "load", [NoRequest EXCEPT !.book = b])

\* DELETE FROM books, which cascades to the rows of book_authors that are left. If another
\* request has deleted the book there is nothing to do, and the answer is 204 as well.
DropBook(p) ==
    LET b == req[p].book IN
    /\ pc[p] = "drop"
    /\ ~Waits(p)
    /\ write' = IF Exists(b) THEN [write EXCEPT ![p].row = Deleted, ![p].cut = linked[b]]
                             ELSE write
    /\ Continue(p, "finish")

\* Finds the genre.
DeleteGenre(p, g) ==
    /\ g \in genres
    /\ Begin(p, "remove", [NoRequest EXCEPT !.genre = g])

\* Fault: the foreign key of books does not restrict the deletion.
RemoveGenreUnrestricted(p) ==
    /\ pc[p] = "remove"
    /\ ~Waits(p)
    /\ write' = [write EXCEPT ![p].gone = {req[p].genre}]
    /\ Continue(p, "finish")

\* DELETE FROM genres: a committed book of the genre restricts it.
RemoveGenre(p) ==
    LET g == req[p].genre IN
    /\ pc[p] = "remove"
    /\ ~Waits(p)
    /\ IF \A b \in Book : books[b] # g
       THEN /\ write' = [write EXCEPT ![p].gone = {g} \cap genres]
            /\ Continue(p, "finish")
       ELSE Fail(p)

-----------------------------------------------------------------------------

\* A request that names a book or genre without a row is answered 404, a PATCH that changes no
\* column and no author 200; neither writes anything.
Answered(p) ==
    /\ ~Busy(p)
    /\ UNCHANGED vars

\* PostgreSQL's deadlock detector cancels one of the transactions.
DeadlockVictim(p) == Deadlocked(p) /\ Fail(p)

\* A lost connection, a crash of the server.
Abort(p) == Busy(p) /\ Fail(p)

Handle(p) ==
    \/ InsertBook(p)
    \/ LoadAuthors(p)
    \/ ValidateGenre(p)
    \/ UpdateRow(p)
    \/ CutLinks(p)
    \/ AddLinks(p)
    \/ RefreshBook(p)
    \/ DropBook(p)
    \/ RemoveGenre(p)
    \/ Commit(p)

Arrive(p) ==
    \/ \E b \in Book, g \in Row, A \in SUBSET Author : CreateBook(p, b, g, A)
    \/ \E b \in Book, changes \in SUBSET Field, g \in Row, A \in SUBSET Author :
          UpdateBook(p, b, changes, g, A)
    \/ \E b \in Book : DeleteBook(p, b)
    \/ \E g \in Genre : DeleteGenre(p, g)
    \/ Answered(p)

Next ==
    \/ \E p \in Proc : Arrive(p)
    \/ \E p \in Proc : Handle(p)
    \/ \E p \in Proc : DeadlockVictim(p)
    \/ \E p \in Proc : Abort(p)

Spec == Init /\ [][Next]_vars

\* The server runs every handler, PostgreSQL grants locks in the order they were asked for and
\* breaks circles. Nothing makes a request arrive or fail.
Fairness ==
    /\ \A p \in Proc : SF_vars(Handle(p))
    /\ WF_vars(\E p \in Proc : DeadlockVictim(p))

FairSpec == Spec /\ Fairness

-----------------------------------------------------------------------------
(* Properties.                                                             *)

\* No committed book has a genre that is gone and no row of book_authors outlives its book,
\* however PATCH, POST and the two DELETEs interleave between their checks and their writes.
ReferencesHold ==
    \A b \in Book : /\ books[b] \in Genre => books[b] \in genres
                    /\ linked[b] # {} => Exists(b)

\* A book has an author as long as no two requests work on it at the same time.
LoneBookHasAuthor == \A b \in Book \ clashed : Exists(b) => linked[b] # {}

\* A PATCH of author_ids that no other request overlaps leaves exactly the list it asked for.
LonePatchExact ==
    [][\A p \in Proc :
          LET b == req[p].book IN
          Commit(p) /\ b \in Book \ clashed /\ "author_ids" \in req[p].changes
              => linked'[b] = req[p].authors]_vars

\* "A book must have at least one author". Requests that overlap break it.
AtLeastOneAuthor == \A b \in Book : Exists(b) => linked[b] # {}

\* Every request ends: PATCH and DELETE of one book may wait for each other, not for ever.
EveryRequestEnds == \A p \in Proc : Busy(p) ~> ~Busy(p)

-----------------------------------------------------------------------------
(* Refinement: the tables implement the ledger of books.                   *)

\* What a reader finds of a book; the rows of book_authors of a book without a row count too.
Stored(b) ==
    IF Exists(b) \/ linked[b] # {} THEN [genre |-> books[b], authors |-> linked[b]] ELSE books[b]

Ledger == INSTANCE BookLedger WITH
             Content <- [genre : Row, authors : SUBSET Author],
             catalogue <- [b \in Book |-> Stored(b)]

\* Every commit creates, changes or deletes one book with its authors, and a deleted book stays
\* deleted, although no statement of a PATCH locks what it has read.
LedgerImplemented == Ledger!Spec

=============================================================================
