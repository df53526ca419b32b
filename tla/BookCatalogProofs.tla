------------------------- MODULE BookCatalogProofs --------------------------
(***************************************************************************)
(* Proofs about BookCatalog for every set of books, authors, genres and    *)
(* concurrent requests: references hold whatever overlaps, and a book that *)
(* no two requests worked on at a time keeps its authors and gets those a  *)
(* PATCH asked for.                                                        *)
(*                                                                         *)
(* No property is inductive, for a commit makes of the tables whatever its *)
(* transaction has written. The invariant says what that may be, and the   *)
(* locks of Blocks are what keeps it so while other transactions commit.   *)
(***************************************************************************)
EXTENDS BookCatalog, TLAPS

USE NullsAssumption

\* What a handler works on, by the statement it runs next.
HandlerOK(p) ==
    LET r == req[p]
        w == write[p]
    IN
    /\ Busy(p) /\ r.book = NoBook => /\ pc[p] \in {"remove", "finish"}
                                     /\ r.changes = {}
                                     /\ w.row = Keep /\ w.add = {} /\ w.cut = {}
    /\ r.book \in Book => w.gone = {}
    /\ pc[p] = "remove" => r.book = NoBook
    /\ pc[p] \in {"insert", "load", "validate", "update", "erase", "remove"} => w = NoWrites
    /\ pc[p] = "drop" => w.row = Keep
    /\ pc[p] \in {"cut", "add", "refresh"} => w.row \in Row \cup {Keep}
    /\ pc[p] \in {"cut", "drop", "add"} => w.add = {}

\* A book without a row belongs to the request that creates it, or to nobody.
CreatedOK(p) ==
    LET b == req[p].book IN
    b \in Book =>
        /\ pc[p] = "insert" => books[b] = Unborn
        /\ books[b] = Unborn => \/ pc[p] = "insert"
                                \/ pc[p] = "finish" /\ write[p].row \in Row
        /\ books[b] = Deleted => write[p].row = Keep /\ write[p].add = {}

CreatedAlone ==
    \A p, q \in Proc :
        Busy(p) /\ Busy(q) /\ req[p].book = req[q].book /\ req[p].book \in Book
            /\ books[req[p].book] = Unborn => p = q

\* A deletion that is not committed takes every author of the book along, and nobody else has
\* written the row or adds an author.
DeletionOK(p) ==
    LET b == req[p].book IN
    write[p].row = Deleted =>
        /\ b \in Book /\ Exists(b)
        /\ write[p].add = {}
        /\ linked[b] \subseteq write[p].cut
        /\ \A q \in Proc \ {p} : req[q].book = b => write[q].row = Keep /\ write[q].add = {}

\* The genre of a row that is written is stored, and nobody has deleted it.
GenreOK(p) ==
    /\ write[p].row \in Genre => write[p].row \in genres
    /\ \A q \in Proc : write[p].row \notin write[q].gone
    /\ \A b \in Book : books[b] \notin write[p].gone

IInv ==
    /\ TypeOK
    /\ \A p \in Proc : HandlerOK(p) /\ CreatedOK(p) /\ DeletionOK(p) /\ GenreOK(p)
    /\ CreatedAlone
    /\ ReferencesHold

LEMMA InitIInv == Init => IInv
<1> SUFFICES ASSUME Init PROVE IInv
  OBVIOUS
<1>1. NoWrites \in Writes /\ NoRequest \in Request
  BY DEF NoWrites, NoRequest, Writes, Request, Row
<1>2. TypeOK
  BY <1>1 DEF Init, TypeOK
<1>3. ASSUME NEW p \in Proc PROVE HandlerOK(p) /\ CreatedOK(p) /\ DeletionOK(p) /\ GenreOK(p)
  BY DEF Init, HandlerOK, CreatedOK, DeletionOK, GenreOK, Busy, NoWrites, NoRequest
<1>4. CreatedAlone /\ ReferencesHold
  BY DEF Init, CreatedAlone, ReferencesHold, Busy
<1> QED BY <1>2, <1>3, <1>4 DEF IInv

-----------------------------------------------------------------------------
(* Requests come and go.                                                   *)

\* p is alone in what it does, and the tables stay.
Alone(p) ==
    /\ UNCHANGED <<genres, books, linked>>
    /\ \A q \in Proc \ {p} : pc'[q] = pc[q] /\ req'[q] = req[q] /\ write'[q] = write[q]

\* What a step of p owes to the transactions of the others.
Respects(p) ==
    \A q \in Proc \ {p} :
        /\ write[q].row = Deleted /\ req[q].book = req'[p].book
               => write'[p].row = Keep /\ write'[p].add = {}
        /\ write[q].row \notin write'[p].gone

LEMMA AloneKept ==
  ASSUME IInv, NEW p \in Proc, Alone(p), Respects(p), TypeOK',
         HandlerOK(p)', CreatedOK(p)', DeletionOK(p)', GenreOK(p)', CreatedAlone'
  PROVE  IInv'
<1>1. ASSUME NEW q \in Proc, q # p PROVE HandlerOK(q)' /\ CreatedOK(q)'
  BY <1>1 DEF Alone, IInv, HandlerOK, CreatedOK, Busy
<1>2. ASSUME NEW q \in Proc, q # p PROVE DeletionOK(q)'
  BY <1>2 DEF Alone, IInv, DeletionOK, Exists, Respects
<1>3. ASSUME NEW q \in Proc, q # p PROVE GenreOK(q)'
  <2>1. GenreOK(q)
    BY DEF IInv
  <2> QED BY <1>3, <2>1 DEF Alone, GenreOK, Respects
<1>4. ReferencesHold'
  BY DEF Alone, IInv, ReferencesHold, Exists
<1> QED BY <1>1, <1>2, <1>3, <1>4 DEF IInv

\* A transaction that has written nothing is in nobody's way.
LEMMA NothingWritten ==
  ASSUME TypeOK', NEW p \in Proc, write'[p] = NoWrites
  PROVE  DeletionOK(p)' /\ GenreOK(p)' /\ Respects(p)
<1>1. write'[p].row = Keep /\ write'[p].gone = {} /\ write'[p].add = {}
  BY DEF NoWrites
<1>2. DeletionOK(p)' /\ Respects(p)
  BY <1>1 DEF DeletionOK, Respects
<1>3. Keep \notin Genre /\ \A q \in Proc : write'[q].gone \subseteq Genre
  BY DEF TypeOK, Writes, Row
<1>4. GenreOK(p)'
  BY <1>1, <1>3 DEF GenreOK
<1> QED BY <1>2, <1>4

LEMMA BeginKept ==
  ASSUME IInv, NEW p \in Proc, NEW request \in Request,
         NEW next \in {"insert", "load", "remove"},
         Begin(p, next, request),
         next = "remove" <=> request.book = NoBook,
         next = "remove" => request.changes = {},
         next = "insert" => /\ books[request.book] = Unborn
                            /\ \A q \in Proc : req[q].book # request.book,
         next = "load" => Exists(request.book)
  PROVE  IInv'
<1>1. /\ pc'[p] = next /\ req'[p] = request /\ write'[p] = NoWrites /\ write' = write
      /\ Alone(p)
  BY DEF Begin, IInv, TypeOK, Busy, Alone
<1>2. TypeOK'
  BY DEF Begin, IInv, TypeOK, Request
<1>3. HandlerOK(p)'
  BY <1>1 DEF HandlerOK, NoWrites, Busy
<1>4. CreatedOK(p)'
  BY <1>1 DEF CreatedOK, NoWrites, Exists, Alone, Row
<1>5. DeletionOK(p)' /\ GenreOK(p)' /\ Respects(p)
  BY <1>1, <1>2, NothingWritten
<1>6. CreatedAlone'
  BY <1>1 DEF Alone, CreatedAlone, IInv, Busy, Exists
<1> QED BY <1>1, <1>2, <1>3, <1>4, <1>5, <1>6, AloneKept

LEMMA ArriveKept ==
  ASSUME IInv, NEW p \in Proc, Arrive(p)
  PROVE  IInv' \/ UNCHANGED vars
<1>1. ASSUME NEW b \in Book, NEW g \in Row, NEW A \in SUBSET Author, CreateBook(p, b, g, A)
      PROVE  IInv'
  <2> DEFINE request == [NoRequest EXCEPT !.book = b, !.genre = g, !.authors = A]
  <2>1. request \in Request /\ request.book = b
    BY DEF NoRequest, Request, Row
  <2>2. Begin(p, "insert", request) /\ books[b] = Unborn /\ \A q \in Proc : req[q].book # b
    BY <1>1 DEF CreateBook
  <2> HIDE DEF request
  <2> QED BY <2>1, <2>2, BeginKept
<1>2. ASSUME NEW b \in Book, NEW changes \in SUBSET Field, NEW g \in Row,
             NEW A \in SUBSET Author, UpdateBook(p, b, changes, g, A)
      PROVE  IInv'
  <2> DEFINE request == [book |-> b, changes |-> changes, genre |-> g, authors |-> A,
                         seen |-> {}]
  <2>1. request \in Request /\ request.book = b
    BY DEF Request, IInv, TypeOK
  <2>2. Begin(p, "load", request) /\ Exists(b)
    BY <1>2 DEF UpdateBook
  <2> HIDE DEF request
  <2> QED BY <2>1, <2>2, BeginKept
<1>3. ASSUME NEW b \in Book, DeleteBook(p, b) PROVE IInv'
  <2> DEFINE request == [NoRequest EXCEPT !.book = b]
  <2>1. request \in Request /\ request.book = b
    BY DEF NoRequest, Request, Row, IInv, TypeOK
  <2>2. Begin(p, "load", request) /\ Exists(b)
    BY <1>3 DEF DeleteBook
  <2> HIDE DEF request
  <2> QED BY <2>1, <2>2, BeginKept
<1>4. ASSUME NEW g \in Genre, DeleteGenre(p, g) PROVE IInv'
  <2> DEFINE request == [NoRequest EXCEPT !.genre = g]
  <2>1. request \in Request /\ request.book = NoBook /\ request.changes = {}
    BY DEF NoRequest, Request, Row
  <2>2. Begin(p, "remove", request)
    BY <1>4 DEF DeleteGenre
  <2> HIDE DEF request
  <2> QED BY <2>1, <2>2, BeginKept
<1> QED BY <1>1, <1>2, <1>3, <1>4 DEF Arrive, Answered

LEMMA FailKept ==
  ASSUME IInv, NEW p \in Proc, Fail(p)
  PROVE  IInv'
<1>1. /\ pc'[p] = "idle" /\ req'[p] = NoRequest /\ write'[p] = NoWrites
      /\ Alone(p)
  BY DEF Fail, Ended, IInv, TypeOK, Alone
<1>2. TypeOK'
  <2>1. NoWrites \in Writes /\ NoRequest \in Request
    BY DEF NoWrites, NoRequest, Writes, Request, Row
  <2> QED BY <2>1 DEF Fail, Ended, IInv, TypeOK
<1>3. HandlerOK(p)'
  BY <1>1 DEF HandlerOK, NoWrites, NoRequest, Busy
<1>4. CreatedOK(p)'
  BY <1>1 DEF CreatedOK, NoRequest
<1>5. DeletionOK(p)' /\ GenreOK(p)' /\ Respects(p)
  BY <1>1, <1>2, NothingWritten
<1>6. CreatedAlone'
  BY <1>1 DEF Alone, CreatedAlone, IInv, Busy
<1> QED BY <1>1, <1>2, <1>3, <1>4, <1>5, <1>6, AloneKept

-----------------------------------------------------------------------------
(* Statements.                                                             *)

\* A statement of p has run: next is what p does then.
Ran(p, next) ==
    /\ Busy(p)
    /\ pc' = [pc EXCEPT ![p] = next]
    /\ write' \in [Proc -> Writes]
    /\ \A q \in Proc \ {p} : write'[q] = write[q]
    /\ UNCHANGED <<genres, books, linked, req, clashed>>

LEMMA RanAlone ==
  ASSUME IInv, NEW p \in Proc,
         NEW next \in {"validate", "update", "cut", "add", "refresh", "drop", "finish"},
         Ran(p, next)
  PROVE  Alone(p) /\ TypeOK' /\ CreatedAlone' /\ pc'[p] = next /\ Busy(p)'
<1>1. pc' \in [Proc -> {"idle", "insert", "load", "validate", "update", "cut", "add", "refresh",
                        "erase", "drop", "remove", "finish"}]
      /\ pc'[p] = next /\ \A q \in Proc \ {p} : pc'[q] = pc[q]
  BY DEF Ran, IInv, TypeOK
<1> QED BY <1>1 DEF Ran, Alone, IInv, TypeOK, CreatedAlone, Busy

\* What p has written of rows and genres stays.
LEMMA SameRowKept ==
  ASSUME IInv, NEW p \in Proc,
         NEW next \in {"validate", "update", "cut", "add", "refresh", "drop", "finish"},
         Ran(p, next), write'[p].row = write[p].row, write'[p].gone = write[p].gone,
         write[p].row # Deleted,
         write'[p].add = {} \/ /\ Exists(req[p].book)
                               /\ \A q \in Proc \ {p} :
                                     req[q].book = req[p].book => write[q].row # Deleted,
         HandlerOK(p)', CreatedOK(p)'
  PROVE  IInv'
<1>1. Alone(p) /\ TypeOK' /\ CreatedAlone' /\ UNCHANGED <<genres, books, linked, req>>
  BY RanAlone DEF Ran
<1>2. DeletionOK(p)'
  BY DEF DeletionOK
<1>3. GenreOK(p)'
  BY <1>1 DEF GenreOK, Alone, IInv
<1>4. Respects(p)
  BY <1>1 DEF Respects, IInv, DeletionOK, GenreOK
<1> QED BY <1>1, <1>2, <1>3, <1>4, AloneKept

LEMMA InsertBookKept ==
  ASSUME IInv, NEW p \in Proc, InsertBook(p)
  PROVE  IInv'
<1> DEFINE b == req[p].book
           g == req[p].genre
<1>1. CASE Fail(p)
  BY <1>1, FailKept
<1>2. CASE /\ g \in genres \cup {NoGenre}
           /\ write' = [write EXCEPT ![p].row = g, ![p].add = req[p].authors]
           /\ Continue(p, "finish")
  <2>1. /\ pc[p] = "insert" /\ Busy(p) /\ HandlerOK(p) /\ CreatedOK(p) /\ ~Waits(p)
        /\ req[p] \in Request /\ write[p] \in Writes
    BY DEF InsertBook, IInv, Busy, TypeOK
  <2>2. write[p] = NoWrites /\ b \in Book /\ books[b] = Unborn
    BY <2>1 DEF HandlerOK, CreatedOK, Request
  <2>3. /\ write' \in [Proc -> Writes] /\ \A q \in Proc \ {p} : write'[q] = write[q]
        /\ write'[p].row = g /\ write'[p].gone = {}
    <3>1. g \in Row /\ req[p].authors \subseteq Author
      BY <2>1 DEF Request
    <3>2. write \in [Proc -> Writes] /\ write[p].gone = {}
      BY <2>2 DEF IInv, TypeOK, NoWrites
    <3>3. write' = [write EXCEPT ![p] = [write[p] EXCEPT !.row = g, !.add = req[p].authors]]
      BY <1>2, <3>2
    <3>4. [write[p] EXCEPT !.row = g, !.add = req[p].authors] \in Writes
      BY <2>1, <3>1 DEF Writes
    <3> HIDE DEF g
    <3> QED BY <2>1, <3>1, <3>2, <3>3, <3>4 DEF Writes
  <2>4. Ran(p, "finish")
    BY <1>2, <2>1, <2>3 DEF Ran, Continue
  <2>5. Alone(p) /\ TypeOK' /\ CreatedAlone' /\ pc'[p] = "finish" /\ UNCHANGED req
    BY <2>4, RanAlone DEF Ran
  <2>6. HandlerOK(p)' /\ DeletionOK(p)'
    BY <2>1, <2>2, <2>3, <2>5 DEF HandlerOK, DeletionOK, Request
  <2>7. CreatedOK(p)'
    BY <2>1, <2>2, <2>3, <2>5 DEF CreatedOK, Alone, Request
  <2>8. \A q \in Proc \ {p} : g \notin write[q].gone
    BY <2>1 DEF Waits, Blocks
  <2>9. GenreOK(p)'
    BY <1>2, <2>3, <2>5, <2>8 DEF GenreOK, Alone
  <2>10. Respects(p)
    BY <2>2, <2>3, <2>5 DEF Respects, IInv, DeletionOK, Exists
  <2> QED BY <2>5, <2>6, <2>7, <2>9, <2>10, AloneKept
<1> QED BY <1>1, <1>2 DEF InsertBook

\* What PATCH and DELETE go on with once they have the authors.
LEMMA LoadAuthorsIs ==
  ASSUME IInv, NEW p \in Proc, LoadAuthors(p)
  PROVE  /\ pc[p] = "load" /\ Busy(p) /\ req[p].book \in Book
         /\ pc'[p] \in {"erase", "validate", "update", "cut"}
         /\ req[p].changes = {} <=> pc'[p] = "erase"
         /\ pc'[p] = "cut" => "author_ids" \in req[p].changes
         /\ req'[p] \in Request /\ req'[p].book = req[p].book
         /\ req'[p].changes = req[p].changes /\ req'[p].authors = req[p].authors
         /\ req'[p].seen = linked[req[p].book]
         /\ \A q \in Proc \ {p} : pc'[q] = pc[q] /\ req'[q] = req[q]
         /\ UNCHANGED <<genres, books, linked, write, clashed>>
         /\ TypeOK'
<1>1. /\ pc[p] = "load" /\ Busy(p) /\ HandlerOK(p) /\ req[p] \in Request
      /\ UNCHANGED <<genres, books, linked, write, clashed>>
  BY DEF LoadAuthors, IInv, TypeOK, Busy
<1>2. req[p].book \in Book
  BY <1>1 DEF HandlerOK, Request
<1>3. linked[req[p].book] \in SUBSET Author
  BY <1>2 DEF IInv, TypeOK
<1> DEFINE loaded == [req[p] EXCEPT !.seen = linked[req[p].book]]
           next == IF req[p].changes = {} THEN "erase"
                   ELSE IF "genre_id" \in req[p].changes THEN "validate" ELSE Flush(req[p].changes)
<1>4. /\ loaded \in Request /\ loaded.book = req[p].book /\ loaded.changes = req[p].changes
      /\ loaded.authors = req[p].authors /\ loaded.seen = linked[req[p].book]
  BY <1>1, <1>3 DEF Request
<1>5. /\ next \in {"erase", "validate", "update", "cut"}
      /\ req[p].changes = {} <=> next = "erase"
      /\ next = "cut" => "author_ids" \in req[p].changes
  BY DEF Flush
<1>6. req' = [req EXCEPT ![p] = loaded] /\ pc' = [pc EXCEPT ![p] = next]
  BY DEF LoadAuthors
<1> HIDE DEF loaded, next
<1>7. TypeOK'
  BY <1>1, <1>4, <1>5, <1>6 DEF IInv, TypeOK
<1> QED BY <1>1, <1>2, <1>4, <1>5, <1>6, <1>7 DEF IInv, TypeOK

LEMMA LoadAuthorsKept ==
  ASSUME IInv, NEW p \in Proc, LoadAuthors(p)
  PROVE  IInv'
<1>1. Alone(p) /\ HandlerOK(p) /\ CreatedOK(p) /\ write'[p] = NoWrites
  BY LoadAuthorsIs DEF Alone, IInv, HandlerOK
<1>2. HandlerOK(p)' /\ CreatedOK(p)'
  BY <1>1, LoadAuthorsIs, NullsAssumption DEF HandlerOK, CreatedOK, NoWrites, Busy
<1>3. DeletionOK(p)' /\ GenreOK(p)' /\ Respects(p)
  BY <1>1, LoadAuthorsIs, NothingWritten
<1>4. CreatedAlone'
  BY LoadAuthorsIs DEF CreatedAlone, IInv, Busy
<1> QED BY <1>1, <1>2, <1>3, <1>4, LoadAuthorsIs, AloneKept

LEMMA ValidateGenreKept ==
  ASSUME IInv, NEW p \in Proc, ValidateGenre(p)
  PROVE  IInv'
<1>1. CASE Fail(p)
  BY <1>1, FailKept
<1>2. CASE Continue(p, Flush(req[p].changes)) /\ UNCHANGED write
  <2> DEFINE next == Flush(req[p].changes)
  <2>1. next \in {"update", "cut"} /\ pc[p] = "validate" /\ Busy(p)
    BY DEF Flush, ValidateGenre, Busy
  <2>2. Ran(p, next)
    BY <1>2, <2>1 DEF Ran, Continue, IInv, TypeOK
  <2>3. Alone(p) /\ pc'[p] = next /\ UNCHANGED <<req, write>>
    BY <1>2, <2>1, <2>2, RanAlone DEF Ran
  <2>4. write[p] = NoWrites /\ HandlerOK(p) /\ CreatedOK(p)
    BY <2>1 DEF IInv, HandlerOK
  <2>5. HandlerOK(p)' /\ CreatedOK(p)'
    BY <2>1, <2>3, <2>4 DEF HandlerOK, CreatedOK, Alone, NoWrites, Busy
  <2> HIDE DEF next
  <2> QED BY <2>1, <2>2, <2>3, <2>4, <2>5, SameRowKept DEF NoWrites
<1> QED BY <1>1, <1>2 DEF ValidateGenre

LEMMA UpdateRowKept ==
  ASSUME IInv, NEW p \in Proc, UpdateRow(p)
  PROVE  IInv'
<1> DEFINE b == req[p].book
           row == NewRow(p)
           next == AfterUpdate(p)
<1>1. CASE Fail(p)
  BY <1>1, FailKept
<1>2. CASE /\ Exists(b) /\ row \in genres \cup {NoGenre}
           /\ write' = [write EXCEPT ![p].row = row]
           /\ Continue(p, next)
  <2>1. /\ pc[p] = "update" /\ Busy(p) /\ HandlerOK(p) /\ ~Waits(p)
        /\ req[p] \in Request /\ write[p] \in Writes
    BY DEF UpdateRow, IInv, Busy, TypeOK
  <2>2. write[p] = NoWrites /\ b \in Book
    BY <2>1 DEF HandlerOK, Request
  <2>3. row \in Row /\ next \in {"cut", "refresh"}
    BY <1>2 DEF IInv, TypeOK, Row, AfterUpdate
  <2>4. /\ write' \in [Proc -> Writes] /\ \A q \in Proc \ {p} : write'[q] = write[q]
        /\ write'[p].row = row /\ write'[p].gone = {} /\ write'[p].add = {}
    <3> HIDE DEF row
    <3> QED BY <1>2, <2>1, <2>2, <2>3 DEF IInv, TypeOK, Writes, NoWrites
  <2>5. Ran(p, next)
    BY <1>2, <2>1, <2>4 DEF Ran, Continue
  <2>6. Alone(p) /\ TypeOK' /\ CreatedAlone' /\ pc'[p] = next /\ UNCHANGED req
    BY <2>3, <2>5, RanAlone DEF Ran
  <2> HIDE DEF next, row
  <2>7. HandlerOK(p)' /\ DeletionOK(p)'
    BY <2>1, <2>2, <2>3, <2>4, <2>6 DEF HandlerOK, DeletionOK
  <2>8. CreatedOK(p)'
    BY <1>2, <2>2, <2>3, <2>4, <2>6 DEF CreatedOK, Alone, Exists
  <2>9. \A q \in Proc \ {p} : req[q].book = b => write[q].row = Keep
    BY <2>1, <2>2 DEF Waits, Blocks
  <2>10. ASSUME NEW q \in Proc \ {p} PROVE row \notin write[q].gone
    <3>1. CASE "genre_id" \in req[p].changes
      BY <2>1, <3>1 DEF Waits, Blocks, row, NewRow
    <3>2. CASE "genre_id" \notin req[p].changes
      BY <2>2, <3>2 DEF IInv, GenreOK, row, NewRow
    <3> QED BY <3>1, <3>2
  <2>11. GenreOK(p)'
    BY <1>2, <2>4, <2>6, <2>10 DEF GenreOK, Alone
  <2>12. Respects(p)
    BY <2>4, <2>6, <2>9 DEF Respects
  <2> QED BY <2>6, <2>7, <2>8, <2>11, <2>12, AloneKept
<1> QED BY <1>1, <1>2 DEF UpdateRow

LEMMA CutLinksKept ==
  ASSUME IInv, NEW p \in Proc, CutLinks(p)
  PROVE  IInv'
<1> DEFINE next == IF pc[p] = "erase" THEN "drop" ELSE "add"
<1>1. /\ pc[p] \in {"cut", "erase"} /\ Busy(p) /\ HandlerOK(p) /\ CreatedOK(p)
      /\ req[p] \in Request /\ write[p] \in Writes /\ next \in {"drop", "add"}
  BY DEF CutLinks, IInv, Busy, TypeOK
<1>2. write[p].add = {} /\ write[p].row \in Row \cup {Keep} /\ req[p].book \in Book
  BY <1>1 DEF HandlerOK, NoWrites, Request
<1>3. /\ write' \in [Proc -> Writes] /\ \A q \in Proc \ {p} : write'[q] = write[q]
      /\ write'[p].row = write[p].row /\ write'[p].gone = write[p].gone
      /\ write'[p].add = write[p].add
  <2> DEFINE cut == Cuts(p) \cap linked[req[p].book]
  <2>1. cut \subseteq Author
    BY <1>1 DEF Cuts, Request
  <2>2. write' = [write EXCEPT ![p].cut = cut]
    BY DEF CutLinks
  <2> HIDE DEF cut
  <2> QED BY <1>1, <2>1, <2>2 DEF IInv, TypeOK, Writes
<1>4. Ran(p, next)
  BY <1>1, <1>3 DEF Ran, CutLinks, Continue
<1>5. Alone(p) /\ pc'[p] = next /\ UNCHANGED req
  BY <1>1, <1>4, RanAlone DEF Ran
<1>6. next = "drop" => write[p].row = Keep
  BY <1>1 DEF HandlerOK, NoWrites
<1>7. pc[p] \notin {"insert", "finish"}
  BY <1>1
<1> HIDE DEF next
<1>8. HandlerOK(p)' /\ CreatedOK(p)'
  BY <1>1, <1>2, <1>3, <1>5, <1>6, <1>7 DEF HandlerOK, CreatedOK, Alone
<1> QED BY <1>1, <1>2, <1>3, <1>4, <1>8, SameRowKept

LEMMA AddLinksKept ==
  ASSUME IInv, NEW p \in Proc, AddLinks(p)
  PROVE  IInv'
<1> DEFINE b == req[p].book
<1>1. CASE Fail(p)
  BY <1>1, FailKept
<1>2. CASE /\ Adds(p) = {} \/ (Exists(b) /\ Adds(p) \cap linked[b] = {})
           /\ write' = [write EXCEPT ![p].add = Adds(p)]
           /\ Continue(p, "refresh")
  <2>1. /\ pc[p] = "add" /\ Busy(p) /\ HandlerOK(p) /\ CreatedOK(p) /\ ~Waits(p)
        /\ req[p] \in Request /\ write[p] \in Writes
    BY DEF AddLinks, IInv, Busy, TypeOK
  <2>2. write[p].row \in Row \cup {Keep} /\ b \in Book
    BY <2>1 DEF HandlerOK, Request
  <2>3. /\ write' \in [Proc -> Writes] /\ \A q \in Proc \ {p} : write'[q] = write[q]
        /\ write'[p].row = write[p].row /\ write'[p].gone = write[p].gone
        /\ write'[p].add = Adds(p)
    <3>1. Adds(p) \subseteq Author
      BY <2>1 DEF Adds, Request
    <3> QED BY <1>2, <2>1, <3>1 DEF IInv, TypeOK, Writes
  <2>4. Ran(p, "refresh")
    BY <1>2, <2>1, <2>3 DEF Ran, Continue
  <2>5. Alone(p) /\ pc'[p] = "refresh" /\ UNCHANGED req
    BY <2>4, RanAlone DEF Ran
  <2>6. Adds(p) # {} => \A q \in Proc \ {p} : req[q].book = b => write[q].row # Deleted
    BY <2>1, <2>2 DEF Waits, Blocks
  <2>7. HandlerOK(p)'
    BY <2>1, <2>2, <2>3, <2>5 DEF HandlerOK, Busy
  <2>8. CreatedOK(p)'
    BY <1>2, <2>1, <2>3, <2>5 DEF CreatedOK, Alone, Exists
  <2> QED BY <1>2, <2>2, <2>3, <2>4, <2>6, <2>7, <2>8, SameRowKept
<1> QED BY <1>1, <1>2 DEF AddLinks

LEMMA RefreshBookKept ==
  ASSUME IInv, NEW p \in Proc, RefreshBook(p)
  PROVE  IInv'
<1>1. CASE Fail(p)
  BY <1>1, FailKept
<1>2. CASE Exists(req[p].book) /\ Continue(p, "finish") /\ UNCHANGED write
  <2>1. pc[p] = "refresh" /\ Busy(p) /\ HandlerOK(p) /\ CreatedOK(p) /\ write[p] \in Writes
    BY DEF RefreshBook, IInv, Busy, TypeOK
  <2>2. write[p].row \in Row \cup {Keep}
    BY <2>1 DEF HandlerOK
  <2>3. Ran(p, "finish")
    BY <1>2, <2>1 DEF Ran, Continue, IInv, TypeOK
  <2>4. Alone(p) /\ pc'[p] = "finish" /\ UNCHANGED <<req, write>>
    BY <1>2, <2>3, RanAlone DEF Ran
  <2>5. HandlerOK(p)' /\ CreatedOK(p)'
    BY <1>2, <2>1, <2>4 DEF HandlerOK, CreatedOK, Alone, Exists
  <2>6. CASE write[p].add = {}
    BY <2>2, <2>3, <2>4, <2>5, <2>6, SameRowKept
  <2>7. CASE write[p].add # {}
    <3>1. \A q \in Proc \ {p} : req[q].book = req[p].book => write[q].row # Deleted
      BY <2>7 DEF IInv, DeletionOK
    <3> QED BY <1>2, <2>2, <2>3, <2>4, <2>5, <3>1, SameRowKept
  <2> QED BY <2>6, <2>7
<1> QED BY <1>1, <1>2 DEF RefreshBook

LEMMA DropBookKept ==
  ASSUME IInv, NEW p \in Proc, DropBook(p)
  PROVE  IInv'
<1> DEFINE b == req[p].book
<1>1. /\ pc[p] = "drop" /\ Busy(p) /\ HandlerOK(p) /\ CreatedOK(p) /\ ~Waits(p)
      /\ req[p] \in Request /\ write[p] \in Writes
  BY DEF DropBook, IInv, Busy, TypeOK
<1>2. b \in Book /\ write[p].row = Keep /\ write[p].add = {} /\ write[p].gone = {}
  BY <1>1 DEF HandlerOK, Request
<1>3. Continue(p, "finish")
  BY DEF DropBook
<1>4. CASE ~Exists(b)
  <2>1. UNCHANGED write
    BY <1>4 DEF DropBook
  <2>2. Ran(p, "finish")
    BY <1>1, <1>3, <2>1 DEF Ran, Continue, IInv, TypeOK
  <2>3. Alone(p) /\ pc'[p] = "finish" /\ UNCHANGED <<req, write>>
    BY <2>1, <2>2, RanAlone DEF Ran
  <2>4. HandlerOK(p)' /\ CreatedOK(p)'
    BY <1>1, <1>2, <2>3 DEF HandlerOK, CreatedOK, Alone
  <2> QED BY <1>2, <2>2, <2>3, <2>4, SameRowKept
<1>5. CASE Exists(b)
  <2>1. /\ write' \in [Proc -> Writes] /\ \A q \in Proc \ {p} : write'[q] = write[q]
        /\ write'[p].row = Deleted /\ write'[p].cut = linked[b]
        /\ write'[p].add = {} /\ write'[p].gone = {}
    <3>1. write' = [write EXCEPT ![p].row = Deleted, ![p].cut = linked[b]]
      BY <1>5 DEF DropBook
    <3>2. linked[b] \subseteq Author
      BY <1>2 DEF IInv, TypeOK
    <3> QED BY <1>1, <1>2, <3>1, <3>2 DEF IInv, TypeOK, Writes
  <2>2. Ran(p, "finish")
    BY <1>1, <1>3, <2>1 DEF Ran, Continue
  <2>3. Alone(p) /\ TypeOK' /\ CreatedAlone' /\ pc'[p] = "finish" /\ UNCHANGED req
    BY <2>2, RanAlone DEF Ran
  <2>4. \A q \in Proc \ {p} : req[q].book = b => write[q] = NoWrites
    BY <1>1, <1>2 DEF Waits, Blocks
  <2>5. HandlerOK(p)' /\ CreatedOK(p)'
    BY <1>1, <1>2, <1>5, <2>1, <2>3 DEF HandlerOK, CreatedOK, Alone, Exists
  <2>6. DeletionOK(p)'
    BY <1>2, <1>5, <2>1, <2>3, <2>4 DEF DeletionOK, Alone, Exists, NoWrites
  <2>7. GenreOK(p)'
    <3>1. Deleted \notin Genre /\ \A q \in Proc : write'[q].gone \subseteq Genre
      BY <2>1 DEF Writes, Row
    <3> QED BY <2>1, <3>1 DEF GenreOK
  <2>8. Respects(p)
    BY <2>1, <2>3, <2>4 DEF Respects, NoWrites
  <2> QED BY <2>3, <2>5, <2>6, <2>7, <2>8, AloneKept
<1> QED BY <1>4, <1>5

LEMMA RemoveGenreKept ==
  ASSUME IInv, NEW p \in Proc, RemoveGenre(p)
  PROVE  IInv'
<1> DEFINE g == req[p].genre
           gone == {g} \cap genres
<1>1. CASE Fail(p)
  BY <1>1, FailKept
<1>2. CASE /\ \A b \in Book : books[b] # g
           /\ write' = [write EXCEPT ![p].gone = gone]
           /\ Continue(p, "finish")
  <2>1. /\ pc[p] = "remove" /\ Busy(p) /\ HandlerOK(p) /\ ~Waits(p)
        /\ write[p] \in Writes /\ gone \subseteq Genre
    BY DEF RemoveGenre, IInv, Busy, TypeOK
  <2>2. req[p].book = NoBook /\ write[p] = NoWrites
    BY <2>1 DEF HandlerOK
  <2>3. /\ write' \in [Proc -> Writes] /\ \A q \in Proc \ {p} : write'[q] = write[q]
        /\ write'[p].row = Keep /\ write'[p].add = {} /\ write'[p].cut = {}
        /\ write'[p].gone = gone
    <3> HIDE DEF gone
    <3> QED BY <1>2, <2>1, <2>2 DEF IInv, TypeOK, Writes, NoWrites
  <2>4. Ran(p, "finish")
    BY <1>2, <2>1, <2>3 DEF Ran, Continue
  <2>5. Alone(p) /\ TypeOK' /\ CreatedAlone' /\ pc'[p] = "finish" /\ UNCHANGED req
    BY <2>4, RanAlone DEF Ran
  <2>6. HandlerOK(p)' /\ CreatedOK(p)' /\ DeletionOK(p)'
    BY <2>1, <2>2, <2>3, <2>5 DEF HandlerOK, CreatedOK, DeletionOK
  <2>7. ASSUME NEW q \in Proc, q # p PROVE write[q].row \notin gone
    <3> SUFFICES ASSUME write[q].row = g, g \in Genre PROVE FALSE
      BY <2>1
    <3>1. ~Shares(q, g)
      BY <2>1, <2>7 DEF Waits, Blocks
    <3>2. req[q].book \in Book
      BY DEF IInv, TypeOK, HandlerOK, Busy, NoWrites, Request, Row
    <3> QED BY <1>2, <3>1, <3>2 DEF Shares
  <2>8. GenreOK(p)'
    <3>1. Keep \notin Genre /\ \A q \in Proc : write'[q].gone \subseteq Genre
      BY <2>3 DEF Writes, Row
    <3> QED BY <1>2, <2>3, <2>5, <3>1 DEF GenreOK, Alone
  <2>9. Respects(p)
    BY <2>3, <2>7 DEF Respects
  <2> QED BY <2>5, <2>6, <2>8, <2>9, AloneKept
<1> QED BY <1>1, <1>2 DEF RemoveGenre

-----------------------------------------------------------------------------
(* A transaction commits.                                                  *)

\* The table of books after a commit of p.
LEMMA CommitTable ==
  ASSUME IInv, NEW p \in Proc, Commit(p)
  PROVE  /\ pc[p] = "finish" /\ pc'[p] = "idle" /\ req'[p] = NoRequest
         /\ write'[p] = NoWrites /\ clashed' = clashed
         /\ \A q \in Proc \ {p} : pc'[q] = pc[q] /\ req'[q] = req[q] /\ write'[q] = write[q]
         /\ genres' = genres \ write[p].gone
         /\ req[p].book \in Book \cup {NoBook}
         /\ \A b \in Book : b # req[p].book => books'[b] = books[b] /\ linked'[b] = linked[b]
         /\ req[p].book \in Book =>
               /\ books'[req[p].book] = IF write[p].row = Keep THEN books[req[p].book]
                                                              ELSE write[p].row
               /\ linked'[req[p].book] = (linked[req[p].book] \ write[p].cut) \cup write[p].add
         /\ TypeOK'
<1>1. /\ pc[p] = "finish" /\ Busy(p) /\ HandlerOK(p)
      /\ req[p] \in Request /\ write[p] \in Writes
  BY DEF Commit, IInv, TypeOK, Busy
<1>2. req[p].book \in Book \cup {NoBook} /\ (req[p].book = NoBook => write[p].row = Keep)
  BY <1>1 DEF HandlerOK, Request
<1>3. write[p].row \in Row \cup {Keep, Deleted} /\ write[p].add \subseteq Author
  BY <1>1 DEF Writes
<1>4. /\ books' \in [Book -> Row \cup {Unborn, Deleted}] /\ linked' \in [Book -> SUBSET Author]
      /\ genres' \in SUBSET Genre
  BY <1>2, <1>3 DEF Commit, IInv, TypeOK
<1>5. /\ \A b \in Book : b # req[p].book => books'[b] = books[b] /\ linked'[b] = linked[b]
      /\ req[p].book \in Book =>
            /\ books'[req[p].book] = IF write[p].row = Keep THEN books[req[p].book]
                                                           ELSE write[p].row
            /\ linked'[req[p].book] = (linked[req[p].book] \ write[p].cut) \cup write[p].add
  BY <1>2 DEF Commit, IInv, TypeOK
<1>6. /\ pc'[p] = "idle" /\ req'[p] = NoRequest /\ write'[p] = NoWrites
      /\ \A q \in Proc \ {p} : pc'[q] = pc[q] /\ req'[q] = req[q] /\ write'[q] = write[q]
  BY DEF Commit, Ended, IInv, TypeOK
<1>7. NoWrites \in Writes /\ NoRequest \in Request
  BY DEF NoWrites, NoRequest, Writes, Request, Row
<1>8. TypeOK'
  BY <1>4, <1>6, <1>7 DEF Commit, Ended, IInv, TypeOK
<1> QED BY <1>1, <1>2, <1>5, <1>6, <1>8 DEF Commit, Ended

LEMMA CommitKept ==
  ASSUME IInv, NEW p \in Proc, Commit(p)
  PROVE  IInv'
<1> DEFINE b == req[p].book
           w == write[p]
<1>1. Busy(p) /\ HandlerOK(p) /\ CreatedOK(p) /\ DeletionOK(p) /\ GenreOK(p)
  BY DEF Commit, Busy, IInv
<1>2. w \in Writes /\ w.gone \subseteq Genre
  BY DEF IInv, TypeOK, Writes
<1>3. ~Busy(p)' /\ req'[p].book = NoBook /\ write'[p].row = Keep /\ write'[p].gone = {}
  BY CommitTable DEF Busy, NoRequest, NoWrites
<1>4. ASSUME NEW q \in Proc PROVE HandlerOK(q)'
  <2>1. CASE q = p
    BY <1>3, <2>1, CommitTable DEF HandlerOK, NoWrites, NoRequest
  <2>2. CASE q # p
    BY <2>2, CommitTable DEF IInv, HandlerOK, Busy
  <2> QED BY <2>1, <2>2
<1>5. ASSUME NEW q \in Proc PROVE CreatedOK(q)'
  <2>1. CASE q = p
    BY <1>3, <2>1 DEF CreatedOK
  <2>2. CASE q # p /\ req[q].book # b
    <3>1. CreatedOK(q)
      BY DEF IInv
    <3> QED BY <2>2, <3>1, CommitTable DEF CreatedOK
  <2>3. CASE q # p /\ req[q].book = b /\ b \in Book
    <3>1. CreatedOK(q) /\ DeletionOK(q) /\ Busy(q) /\ pc'[q] = pc[q] /\ write'[q] = write[q]
          /\ req'[q] = req[q]
      BY <2>3, CommitTable DEF IInv, TypeOK, Busy, NoRequest
    <3>2. books[b] # Unborn
      BY <1>1, <2>3, <3>1 DEF IInv, CreatedAlone
    <3>3. pc[q] # "insert"
      BY <2>3, <3>1, <3>2 DEF CreatedOK
    <3>4. books'[b] # Unborn
      BY <1>2, <2>3, <3>2, CommitTable DEF Writes
    <3>5. books'[b] = Deleted => write[q].row = Keep /\ write[q].add = {}
      BY <1>1, <2>3, <3>1, CommitTable DEF CreatedOK, DeletionOK
    <3> QED BY <2>3, <3>1, <3>3, <3>4, <3>5 DEF CreatedOK
  <2>4. CASE q # p /\ b \notin Book /\ req[q].book = b
    BY <2>4, CommitTable DEF CreatedOK
  <2> QED BY <2>1, <2>2, <2>3, <2>4
<1>6. ASSUME NEW q \in Proc PROVE DeletionOK(q)'
  <2> SUFFICES ASSUME write'[q].row = Deleted PROVE DeletionOK(q)'
    BY DEF DeletionOK
  <2>1. /\ q # p /\ DeletionOK(q) /\ write[q].row = Deleted
        /\ pc'[q] = pc[q] /\ write'[q] = write[q] /\ req'[q] = req[q]
    BY <1>3, CommitTable DEF IInv
  <2>2. req[q].book \in Book /\ Exists(req[q].book) /\ write[q].add = {}
        /\ linked[req[q].book] \subseteq write[q].cut
    BY <2>1 DEF DeletionOK
  <2>3. b = req[q].book => w.row = Keep /\ w.add = {}
    BY <2>1 DEF DeletionOK
  <2>4. Exists(req[q].book)' /\ linked'[req[q].book] \subseteq write[q].cut
    BY <2>1, <2>2, <2>3, CommitTable DEF Exists
  <2>5. \A r \in Proc \ {q} : req'[r].book = req[q].book
                                => write'[r].row = Keep /\ write'[r].add = {}
    BY <1>3, <2>1, <2>2, CommitTable DEF DeletionOK, NoWrites
  <2> QED BY <2>1, <2>2, <2>4, <2>5 DEF DeletionOK
<1>7. ASSUME NEW q \in Proc PROVE GenreOK(q)'
  <2>1. CASE q = p
    <3>1. Keep \notin Genre /\ \A r \in Proc : write'[r].gone \subseteq Genre
      BY CommitTable DEF TypeOK, Writes, Row
    <3> QED BY <1>3, <2>1, <3>1 DEF GenreOK
  <2>2. CASE q # p
    <3>1. GenreOK(q) /\ write'[q] = write[q]
      BY <2>2, CommitTable DEF IInv
    <3>2. write[q].row \in Genre => write[q].row \in genres'
      BY <3>1, CommitTable DEF GenreOK
    <3>3. \A r \in Proc : write[q].row \notin write'[r].gone
      BY <1>3, <3>1, CommitTable DEF GenreOK
    <3>4. \A c \in Book : books'[c] \notin write[q].gone
      BY <1>1, <3>1, CommitTable DEF GenreOK
    <3> QED BY <3>1, <3>2, <3>3, <3>4 DEF GenreOK
  <2> QED BY <2>1, <2>2
<1>8. CreatedAlone'
  <2> SUFFICES ASSUME NEW q \in Proc, NEW r \in Proc, Busy(q)', Busy(r)',
                      req'[q].book = req'[r].book, req'[q].book \in Book,
                      books'[req'[q].book] = Unborn
               PROVE  q = r
    BY DEF CreatedAlone
  <2>1. /\ q # p /\ r # p /\ Busy(q) /\ Busy(r) /\ req'[q] = req[q] /\ req'[r] = req[r]
    BY <1>3, CommitTable DEF Busy
  <2>2. books[req[q].book] = Unborn
    BY <1>2, <2>1, CommitTable DEF Writes
  <2> QED BY <2>1, <2>2 DEF IInv, CreatedAlone
<1>9. ReferencesHold'
  <2>1. ASSUME NEW c \in Book, books'[c] \in Genre PROVE books'[c] \in genres'
    <3>1. CASE c = b /\ w.row # Keep
      BY <1>1, <2>1, <3>1, CommitTable DEF GenreOK
    <3>2. CASE c # b \/ w.row = Keep
      BY <1>1, <2>1, <3>2, CommitTable DEF IInv, ReferencesHold, GenreOK
    <3> QED BY <3>1, <3>2
  <2>2. ASSUME NEW c \in Book, linked'[c] # {} PROVE Exists(c)'
    <3>1. CASE c # b
      BY <2>2, <3>1, CommitTable DEF IInv, ReferencesHold, Exists
    <3>2. CASE c = b /\ w.row \in Row
      BY <3>2, CommitTable DEF Exists
    <3>3. CASE c = b /\ w.row = Deleted
      BY <1>1, <2>2, <3>3, CommitTable DEF DeletionOK
    <3>4. CASE c = b /\ w.row = Keep /\ linked[c] # {}
      BY <3>4, CommitTable DEF IInv, ReferencesHold, Exists
    <3>5. CASE c = b /\ w.row = Keep /\ w.add # {}
      <4>1. books[c] # Unborn /\ books[c] # Deleted
        BY <1>1, <3>5, CommitTable DEF CreatedOK
      <4>2. books[c] \in Row
        BY <4>1 DEF IInv, TypeOK
      <4> QED BY <3>5, <4>2, CommitTable DEF Exists
    <3> QED BY <1>2, <2>2, <3>1, <3>2, <3>3, <3>4, <3>5, CommitTable DEF Writes
  <2> QED BY <2>1, <2>2 DEF ReferencesHold
<1> QED BY <1>4, <1>5, <1>6, <1>7, <1>8, <1>9, CommitTable DEF IInv

-----------------------------------------------------------------------------

LEMMA HandleKept ==
  ASSUME IInv, NEW p \in Proc, Handle(p)
  PROVE  IInv'
BY InsertBookKept, LoadAuthorsKept, ValidateGenreKept, UpdateRowKept, CutLinksKept, AddLinksKept,
   RefreshBookKept, DropBookKept, RemoveGenreKept, CommitKept
   DEF Handle

LEMMA NextIInv == IInv /\ [Next]_vars => IInv'
<1> SUFFICES ASSUME IInv, [Next]_vars PROVE IInv'
  OBVIOUS
<1>1. CASE UNCHANGED vars
  BY <1>1 DEF vars, IInv, TypeOK, HandlerOK, CreatedOK, DeletionOK, GenreOK, CreatedAlone,
              ReferencesHold, Exists, Busy
<1>2. CASE Next
  BY <1>1, <1>2, ArriveKept, HandleKept, FailKept DEF Next, DeadlockVictim, Abort
<1> QED BY <1>1, <1>2

\* The invariant above holds for every set of books, authors, genres and requests.
THEOREM CatalogInvariant == Spec => []IInv
<1> QED BY InitIInv, NextIInv, PTL DEF Spec

\* Every variable keeps its type, and a handler that is done leaves nothing behind.
THEOREM CatalogTypeCorrect == Spec => []TypeOK
<1>1. IInv => TypeOK
  BY DEF IInv
<1> QED BY <1>1, CatalogInvariant, PTL

\* References hold, however POST, PATCH and the two DELETEs interleave between their checks, their
\* statements and their commits: the locks of PostgreSQL and its foreign keys suffice, for every
\* number of requests.
THEOREM ReferencesHoldHolds == Spec => []ReferencesHold
<1>1. IInv => ReferencesHold
  BY DEF IInv
<1> QED BY <1>1, CatalogInvariant, PTL

-----------------------------------------------------------------------------
(* Books that no two requests worked on at a time.                         *)

\* A PATCH that nobody has met on its book finds the authors it has read, so what it writes of
\* book_authors turns them into those it was asked for.
PatchOK(p) ==
    LET r == req[p]
        w == write[p]
    IN
    /\ Exists(r.book) /\ w.row # Deleted
    /\ pc[p] # "load" => r.seen = linked[r.book]
    /\ pc[p] \in {"load", "validate", "update", "cut", "add", "refresh", "finish"}
    /\ IF "author_ids" \in r.changes
       THEN /\ r.authors # {}
            /\ pc[p] = "add" => w.cut = Cuts(p)
            /\ pc[p] \in {"refresh", "finish"} => w.cut = Cuts(p) /\ w.add = Adds(p)
       ELSE pc[p] \notin {"cut", "add"} /\ w.cut = {} /\ w.add = {}

\* A POST writes a book with authors, a DELETE deletes the one it has found.
PostOrDeleteOK(p) ==
    LET r == req[p]
        w == write[p]
    IN
    /\ pc[p] \in {"insert", "load", "erase", "drop", "finish"}
    /\ pc[p] = "insert" => r.authors # {}
    /\ pc[p] \in {"load", "erase", "drop"} => Exists(r.book)
    /\ pc[p] = "finish" => \/ w.row = Deleted
                           \/ w.row \in Row /\ w.add # {}

LoneOK(p) ==
    Busy(p) /\ req[p].book \in Book \ clashed =>
        IF req[p].changes # {} THEN PatchOK(p) ELSE PostOrDeleteOK(p)

LoneWorker ==
    \A p, q \in Proc :
        Busy(p) /\ Busy(q) /\ req[p].book = req[q].book /\ req[p].book \in Book \ clashed
            => p = q

LoneInv == (\A p \in Proc : LoneOK(p)) /\ LoneWorker /\ LoneBookHasAuthor

LEMMA LoneBegin ==
  ASSUME IInv, LoneInv, NEW p \in Proc, NEW next, NEW request \in Request,
         Begin(p, next, request), next # "idle", LoneOK(p)'
  PROVE  LoneInv'
<1>1. /\ pc'[p] = next /\ req'[p] = request /\ ~Busy(p)
      /\ UNCHANGED <<books, linked, write>>
      /\ \A q \in Proc \ {p} : pc'[q] = pc[q] /\ req'[q] = req[q]
  BY DEF Begin, IInv, TypeOK, Busy
<1>2. clashed \subseteq clashed'
  BY DEF Begin
<1>3. \A q \in Proc : Busy(q) /\ req[q].book = request.book /\ request.book \in Book
                      => request.book \in clashed'
  BY DEF Begin
<1>4. ASSUME NEW q \in Proc PROVE LoneOK(q)'
  <2>1. CASE q # p
    BY <1>1, <1>2, <2>1
       DEF LoneInv, LoneOK, PatchOK, PostOrDeleteOK, Busy, Exists, Cuts, Adds
  <2> QED BY <2>1
<1>5. LoneWorker'
  BY <1>1, <1>2, <1>3 DEF LoneInv, LoneWorker, Busy
<1>6. LoneBookHasAuthor'
  BY <1>1, <1>2 DEF LoneInv, LoneBookHasAuthor, Exists
<1> QED BY <1>4, <1>5, <1>6 DEF LoneInv

LEMMA LoneArrive ==
  ASSUME IInv, LoneInv, NEW p \in Proc, Arrive(p)
  PROVE  LoneInv' \/ UNCHANGED vars
<1>1. write[p] = NoWrites \/ Busy(p)
  BY DEF IInv, TypeOK, Busy
<1>2. ASSUME NEW b \in Book, NEW g \in Row, NEW A \in SUBSET Author, CreateBook(p, b, g, A)
      PROVE  LoneInv'
  <2> DEFINE request == [NoRequest EXCEPT !.book = b, !.genre = g, !.authors = A]
  <2>1. request \in Request /\ request.changes = {} /\ request.authors # {}
    BY <1>2 DEF NoRequest, Request, Row, CreateBook
  <2>2. Begin(p, "insert", request)
    BY <1>2 DEF CreateBook
  <2> HIDE DEF request
  <2>3. pc'[p] = "insert" /\ req'[p] = request
    BY <2>2 DEF Begin, IInv, TypeOK
  <2>4. LoneOK(p)'
    BY <2>1, <2>3 DEF LoneOK, PostOrDeleteOK
  <2> QED BY <2>1, <2>2, <2>4, LoneBegin
<1>3. ASSUME NEW b \in Book, NEW changes \in SUBSET Field, NEW g \in Row,
             NEW A \in SUBSET Author, UpdateBook(p, b, changes, g, A)
      PROVE  LoneInv'
  <2> DEFINE request == [book |-> b, changes |-> changes, genre |-> g, authors |-> A,
                         seen |-> {}]
  <2>1. /\ request \in Request /\ request.book = b /\ request.changes = changes
        /\ request.authors = A
    BY DEF Request, IInv, TypeOK
  <2>2. Begin(p, "load", request) /\ Exists(b) /\ ("author_ids" \in changes => A # {})
    BY <1>3 DEF UpdateBook
  <2> HIDE DEF request
  <2>3. /\ pc'[p] = "load" /\ req'[p] = request /\ write'[p] = NoWrites
        /\ UNCHANGED <<books, linked>>
    BY <1>1, <2>2 DEF Begin, IInv, TypeOK
  <2>4. PatchOK(p)'
    BY <2>1, <2>2, <2>3 DEF PatchOK, Exists, NoWrites
  <2>5. LoneOK(p)'
    BY <1>3, <2>1, <2>3, <2>4 DEF LoneOK, UpdateBook
  <2> QED BY <2>1, <2>2, <2>5, LoneBegin
<1>4. ASSUME NEW b \in Book, DeleteBook(p, b) PROVE LoneInv'
  <2> DEFINE request == [NoRequest EXCEPT !.book = b]
  <2>1. request \in Request /\ request.book = b /\ request.changes = {}
    BY DEF NoRequest, Request, Row, IInv, TypeOK
  <2>2. Begin(p, "load", request) /\ Exists(b)
    BY <1>4 DEF DeleteBook
  <2> HIDE DEF request
  <2>3. pc'[p] = "load" /\ req'[p] = request /\ UNCHANGED books
    BY <2>2 DEF Begin, IInv, TypeOK
  <2>4. LoneOK(p)'
    BY <2>1, <2>2, <2>3 DEF LoneOK, PostOrDeleteOK, Exists
  <2> QED BY <2>1, <2>2, <2>4, LoneBegin
<1>5. ASSUME NEW g \in Genre, DeleteGenre(p, g) PROVE LoneInv'
  <2> DEFINE request == [NoRequest EXCEPT !.genre = g]
  <2>1. request \in Request /\ request.book = NoBook
    BY DEF NoRequest, Request, Row
  <2>2. Begin(p, "remove", request)
    BY <1>5 DEF DeleteGenre
  <2> HIDE DEF request
  <2>3. req'[p] = request
    BY <2>2 DEF Begin, IInv, TypeOK
  <2>4. LoneOK(p)'
    BY <2>1, <2>3 DEF LoneOK
  <2> QED BY <2>1, <2>2, <2>4, LoneBegin
<1> QED BY <1>2, <1>3, <1>4, <1>5 DEF Arrive, Answered

LEMMA LoneFail ==
  ASSUME IInv, LoneInv, NEW p \in Proc, Fail(p)
  PROVE  LoneInv'
<1>1. /\ pc'[p] = "idle" /\ UNCHANGED <<books, linked, clashed>>
      /\ \A q \in Proc \ {p} : pc'[q] = pc[q] /\ req'[q] = req[q] /\ write'[q] = write[q]
  BY DEF Fail, Ended, IInv, TypeOK
<1>2. ASSUME NEW q \in Proc PROVE LoneOK(q)'
  BY <1>1 DEF LoneInv, LoneOK, PatchOK, PostOrDeleteOK, Busy, Exists, Cuts, Adds
<1>3. LoneWorker' /\ LoneBookHasAuthor'
  BY <1>1 DEF LoneInv, LoneWorker, LoneBookHasAuthor, Busy, Exists
<1> QED BY <1>2, <1>3 DEF LoneInv

\* A statement of p that leaves its own transaction in order.
LEMMA LoneContinue ==
  ASSUME IInv, LoneInv, NEW p \in Proc, Busy(p), NEW next, next # "idle", Continue(p, next),
         \A q \in Proc \ {p} : write'[q] = write[q],
         Busy(p) /\ req[p].book \in Book \ clashed =>
             IF req[p].changes # {} THEN PatchOK(p)' ELSE PostOrDeleteOK(p)'
  PROVE  LoneInv'
<1>1. /\ pc'[p] = next /\ UNCHANGED <<books, linked, req, clashed>>
      /\ \A q \in Proc \ {p} : pc'[q] = pc[q]
  BY DEF Continue, IInv, TypeOK
<1>2. ASSUME NEW q \in Proc PROVE LoneOK(q)'
  <2>1. CASE q = p
    BY <1>1, <2>1 DEF LoneOK
  <2>2. CASE q # p
    BY <1>1, <2>2 DEF LoneInv, LoneOK, PatchOK, PostOrDeleteOK, Busy, Exists, Cuts, Adds
  <2> QED BY <2>1, <2>2
<1>3. LoneWorker' /\ LoneBookHasAuthor'
  BY <1>1 DEF LoneInv, LoneWorker, LoneBookHasAuthor, Busy, Exists
<1> QED BY <1>2, <1>3 DEF LoneInv

LEMMA LoneLoad ==
  ASSUME IInv, LoneInv, NEW p \in Proc, LoadAuthors(p)
  PROVE  LoneInv'
<1>1. HandlerOK(p) /\ LoneOK(p) /\ write[p] = NoWrites
  BY LoadAuthorsIs DEF IInv, LoneInv, HandlerOK
<1>2. ASSUME NEW q \in Proc PROVE LoneOK(q)'
  <2>1. CASE q = p
    BY <1>1, <2>1, LoadAuthorsIs DEF LoneOK, PatchOK, PostOrDeleteOK, Exists, NoWrites
  <2>2. CASE q # p
    BY <2>2, LoadAuthorsIs
       DEF LoneInv, LoneOK, PatchOK, PostOrDeleteOK, Busy, Exists, Cuts, Adds
  <2> QED BY <2>1, <2>2
<1>3. LoneWorker' /\ LoneBookHasAuthor'
  BY LoadAuthorsIs DEF LoneInv, LoneWorker, LoneBookHasAuthor, Busy, Exists
<1> QED BY <1>2, <1>3 DEF LoneInv

LEMMA LoneStatement ==
  ASSUME IInv, LoneInv, NEW p \in Proc,
         \/ InsertBook(p) \/ ValidateGenre(p) \/ UpdateRow(p) \/ CutLinks(p)
         \/ AddLinks(p) \/ RefreshBook(p) \/ DropBook(p) \/ RemoveGenre(p),
         ~Fail(p)
  PROVE  LoneInv'
<1> DEFINE b == req[p].book
<1>1. /\ write \in [Proc -> Writes] /\ write[p] \in Writes /\ req[p] \in Request
      /\ HandlerOK(p) /\ LoneOK(p) /\ pc \in [Proc -> {"idle", "insert", "load",
            "validate", "update", "cut", "add", "refresh", "erase", "drop", "remove", "finish"}]
  BY DEF IInv, TypeOK, LoneInv
<1>2. CASE InsertBook(p)
  <2>1. /\ pc[p] = "insert" /\ Busy(p) /\ Continue(p, "finish") /\ req[p].genre \in Row
        /\ write' = [write EXCEPT ![p].row = req[p].genre, ![p].add = req[p].authors]
    BY <1>1, <1>2 DEF InsertBook, Busy, Request
  <2>2. /\ \A q \in Proc \ {p} : write'[q] = write[q]
        /\ write'[p].row = req[p].genre /\ write'[p].add = req[p].authors
    BY <1>1, <2>1 DEF Writes
  <2>3. pc'[p] = "finish" /\ UNCHANGED req
    BY <1>1, <2>1 DEF Continue
  <2>4. ASSUME b \in Book \ clashed
        PROVE  IF req[p].changes # {} THEN PatchOK(p)' ELSE PostOrDeleteOK(p)'
    BY <1>1, <2>1, <2>2, <2>3, <2>4 DEF LoneOK, PatchOK, PostOrDeleteOK
  <2> QED BY <2>1, <2>2, <2>4, LoneContinue
<1>3. CASE ValidateGenre(p)
  <2> DEFINE next == Flush(req[p].changes)
  <2>1. /\ pc[p] = "validate" /\ Busy(p) /\ Continue(p, next) /\ UNCHANGED write
        /\ next \in {"update", "cut"} /\ ("author_ids" \notin req[p].changes => next # "cut")
    BY <1>3 DEF ValidateGenre, Busy, Flush
  <2> HIDE DEF next
  <2>2. pc'[p] = next /\ UNCHANGED <<req, books, linked>>
    BY <1>1, <2>1 DEF Continue
  <2>3. ASSUME b \in Book \ clashed
        PROVE  IF req[p].changes # {} THEN PatchOK(p)' ELSE PostOrDeleteOK(p)'
    BY <1>1, <2>1, <2>2, <2>3 DEF LoneOK, PatchOK, PostOrDeleteOK, Exists
  <2> QED BY <2>1, <2>3, LoneContinue
<1>4. CASE UpdateRow(p)
  <2> DEFINE row == NewRow(p)
             next == AfterUpdate(p)
  <2>1. /\ pc[p] = "update" /\ Busy(p) /\ Continue(p, next)
        /\ row \in genres \cup {NoGenre} /\ write' = [write EXCEPT ![p].row = row]
    BY <1>4 DEF UpdateRow, Busy
  <2>2. next = IF "author_ids" \in req[p].changes THEN "cut" ELSE "refresh"
    BY DEF AfterUpdate
  <2>3. row # Deleted
    BY <2>1 DEF IInv, TypeOK, Row
  <2> HIDE DEF row, next
  <2>4. /\ \A q \in Proc \ {p} : write'[q] = write[q]
        /\ write'[p].row = row /\ write'[p].cut = write[p].cut /\ write'[p].add = write[p].add
    BY <1>1, <2>1 DEF Writes
  <2>5. pc'[p] = next /\ UNCHANGED <<req, books, linked>>
    BY <1>1, <2>1 DEF Continue
  <2>6. ASSUME b \in Book \ clashed
        PROVE  IF req[p].changes # {} THEN PatchOK(p)' ELSE PostOrDeleteOK(p)'
    BY <1>1, <2>1, <2>2, <2>3, <2>4, <2>5, <2>6 DEF LoneOK, PatchOK, PostOrDeleteOK, Exists
  <2> QED BY <2>1, <2>2, <2>4, <2>6, LoneContinue
<1>5. CASE CutLinks(p)
  <2> DEFINE next == IF pc[p] = "erase" THEN "drop" ELSE "add"
             cut == Cuts(p) \cap linked[b]
  <2>1. /\ pc[p] \in {"cut", "erase"} /\ Busy(p) /\ Continue(p, next)
        /\ write' = [write EXCEPT ![p].cut = cut]
    BY <1>5 DEF CutLinks, Busy
  <2>2. req[p].seen = linked[b] => cut = Cuts(p)
    BY DEF Cuts
  <2> HIDE DEF cut
  <2>3. /\ \A q \in Proc \ {p} : write'[q] = write[q]
        /\ write'[p].cut = cut /\ write'[p].row = write[p].row
    BY <1>1, <2>1 DEF Writes
  <2>4. pc'[p] = next /\ UNCHANGED <<req, books, linked>>
    BY <1>1, <2>1 DEF Continue
  <2>5. ASSUME b \in Book \ clashed
        PROVE  IF req[p].changes # {} THEN PatchOK(p)' ELSE PostOrDeleteOK(p)'
    BY <1>1, <2>1, <2>2, <2>3, <2>4, <2>5 DEF LoneOK, PatchOK, PostOrDeleteOK, Exists, Cuts
  <2> QED BY <2>1, <2>3, <2>5, LoneContinue
<1>6. CASE AddLinks(p)
  <2>1. /\ pc[p] = "add" /\ Busy(p) /\ Continue(p, "refresh")
        /\ write' = [write EXCEPT ![p].add = Adds(p)]
    BY <1>6 DEF AddLinks, Busy
  <2>2. /\ \A q \in Proc \ {p} : write'[q] = write[q]
        /\ write'[p].add = Adds(p) /\ write'[p].row = write[p].row
        /\ write'[p].cut = write[p].cut
    BY <1>1, <2>1 DEF Writes
  <2>3. pc'[p] = "refresh" /\ UNCHANGED <<req, books, linked>>
    BY <1>1, <2>1 DEF Continue
  <2>4. ASSUME b \in Book \ clashed
        PROVE  IF req[p].changes # {} THEN PatchOK(p)' ELSE PostOrDeleteOK(p)'
    BY <1>1, <2>1, <2>2, <2>3, <2>4 DEF LoneOK, PatchOK, PostOrDeleteOK, Exists, Cuts, Adds
  <2> QED BY <2>1, <2>2, <2>4, LoneContinue
<1>7. CASE RefreshBook(p)
  <2>1. pc[p] = "refresh" /\ Busy(p) /\ Continue(p, "finish") /\ UNCHANGED write
    BY <1>7 DEF RefreshBook, Busy
  <2>2. pc'[p] = "finish" /\ UNCHANGED <<req, books, linked>>
    BY <1>1, <2>1 DEF Continue
  <2>3. ASSUME b \in Book \ clashed
        PROVE  IF req[p].changes # {} THEN PatchOK(p)' ELSE PostOrDeleteOK(p)'
    BY <1>1, <2>1, <2>2, <2>3 DEF LoneOK, PatchOK, PostOrDeleteOK, Exists, Cuts, Adds
  <2> QED BY <2>1, <2>3, LoneContinue
<1>8. CASE DropBook(p)
  <2>1. pc[p] = "drop" /\ Busy(p) /\ Continue(p, "finish")
        /\ write' = IF Exists(b) THEN [write EXCEPT ![p].row = Deleted, ![p].cut = linked[b]]
                                 ELSE write
    BY <1>8 DEF DropBook, Busy
  <2>2. /\ \A q \in Proc \ {p} : write'[q] = write[q]
        /\ Exists(b) => write'[p].row = Deleted
    BY <1>1, <2>1 DEF Writes
  <2>3. pc'[p] = "finish" /\ UNCHANGED <<req, books, linked>>
    BY <1>1, <2>1 DEF Continue
  <2>4. ASSUME b \in Book \ clashed
        PROVE  IF req[p].changes # {} THEN PatchOK(p)' ELSE PostOrDeleteOK(p)'
    BY <1>1, <2>1, <2>2, <2>3, <2>4 DEF LoneOK, PatchOK, PostOrDeleteOK
  <2> QED BY <2>1, <2>2, <2>4, LoneContinue
<1>9. CASE RemoveGenre(p)
  <2> DEFINE gone == {req[p].genre} \cap genres
  <2>1. /\ pc[p] = "remove" /\ Busy(p) /\ Continue(p, "finish") /\ b = NoBook
        /\ write' = [write EXCEPT ![p].gone = gone]
    BY <1>1, <1>9 DEF RemoveGenre, Busy, HandlerOK
  <2> HIDE DEF gone
  <2>2. \A q \in Proc \ {p} : write'[q] = write[q]
    BY <1>1, <2>1
  <2> QED BY <2>1, <2>2, LoneContinue
<1> QED BY <1>2, <1>3, <1>4, <1>5, <1>6, <1>7, <1>8, <1>9

\* The book of a PATCH of authors that nobody has met is left with those it was asked for.
LEMMA LonePatchCommit ==
  ASSUME IInv, LoneInv, NEW p \in Proc, Commit(p), req[p].book \in Book \ clashed,
         "author_ids" \in req[p].changes
  PROVE  linked'[req[p].book] = req[p].authors /\ req[p].authors # {}
<1>1. PatchOK(p) /\ pc[p] = "finish"
  BY CommitTable DEF LoneInv, LoneOK, Busy
<1>2. /\ req[p].seen = linked[req[p].book] /\ req[p].authors # {}
      /\ write[p].cut = Cuts(p) /\ write[p].add = Adds(p)
  BY <1>1 DEF PatchOK
<1>3. linked'[req[p].book] = (req[p].seen \ Cuts(p)) \cup Adds(p)
  BY <1>2, CommitTable
<1> QED BY <1>2, <1>3 DEF Cuts, Adds

LEMMA LoneCommit ==
  ASSUME IInv, LoneInv, NEW p \in Proc, Commit(p)
  PROVE  LoneInv'
<1> DEFINE b == req[p].book
<1>1. Busy(p) /\ LoneOK(p)
  BY CommitTable DEF Busy, LoneInv
<1>2. ASSUME NEW q \in Proc PROVE LoneOK(q)'
  <2> SUFFICES ASSUME Busy(q)', req'[q].book \in Book \ clashed' PROVE LoneOK(q)'
    BY DEF LoneOK
  <2>1. /\ q # p /\ Busy(q) /\ LoneOK(q) /\ clashed' = clashed
        /\ pc'[q] = pc[q] /\ req'[q] = req[q] /\ write'[q] = write[q]
    BY CommitTable DEF Busy, LoneInv
  <2>2. req[q].book # b
    BY <1>1, <2>1 DEF LoneInv, LoneWorker
  <2>3. books'[req[q].book] = books[req[q].book] /\ linked'[req[q].book] = linked[req[q].book]
    BY <2>1, <2>2, CommitTable
  <2> QED BY <2>1, <2>3 DEF LoneOK, PatchOK, PostOrDeleteOK, Exists, Cuts, Adds
<1>3. LoneWorker'
  BY CommitTable DEF LoneInv, LoneWorker, Busy
<1>4. LoneBookHasAuthor'
  <2> SUFFICES ASSUME NEW c \in Book \ clashed, Exists(c)' PROVE linked'[c] # {}
    BY CommitTable DEF LoneBookHasAuthor
  <2>1. CASE c # b
    BY <2>1, CommitTable DEF LoneInv, LoneBookHasAuthor, Exists
  <2>2. CASE c = b /\ req[p].changes = {}
    <3>1. PostOrDeleteOK(p) /\ pc[p] = "finish"
      BY <1>1, <2>2, CommitTable DEF LoneOK
    <3>2. write[p].row # Deleted
      BY <2>2, CommitTable DEF Exists
    <3> QED BY <2>2, <3>1, <3>2, CommitTable DEF PostOrDeleteOK
  <2>3. CASE c = b /\ "author_ids" \in req[p].changes
    BY <2>3, LonePatchCommit
  <2>4. CASE c = b /\ req[p].changes # {} /\ "author_ids" \notin req[p].changes
    <3>1. PatchOK(p)
      BY <1>1, <2>4 DEF LoneOK
    <3>2. Exists(c) /\ linked'[c] = linked[c]
      <4>1. Exists(b) /\ write[p].cut = {} /\ write[p].add = {}
        BY <2>4, <3>1 DEF PatchOK
      <4>2. linked'[b] = (linked[b] \ write[p].cut) \cup write[p].add
        BY <2>4, CommitTable
      <4> QED BY <2>4, <4>1, <4>2
    <3> QED BY <3>2 DEF LoneInv, LoneBookHasAuthor
  <2> QED BY <2>1, <2>2, <2>3, <2>4
<1> QED BY <1>2, <1>3, <1>4 DEF LoneInv

LEMMA LoneInvariant == Spec => []LoneInv
<1>1. Init => LoneInv
  BY DEF Init, LoneInv, LoneOK, LoneWorker, LoneBookHasAuthor, Busy, Exists
<1>2. IInv /\ LoneInv /\ [Next]_vars => LoneInv'
  <2> SUFFICES ASSUME IInv, LoneInv, [Next]_vars PROVE LoneInv'
    OBVIOUS
  <2>1. CASE UNCHANGED vars
    BY <2>1 DEF vars, LoneInv, LoneOK, PatchOK, PostOrDeleteOK, LoneWorker, LoneBookHasAuthor,
                Busy, Exists, Cuts, Adds
  <2>2. ASSUME NEW p \in Proc, Handle(p) PROVE LoneInv'
    BY <2>2, LoneFail, LoneLoad, LoneStatement, LoneCommit DEF Handle
  <2> QED BY <2>1, <2>2, LoneArrive, LoneFail DEF Next, DeadlockVictim, Abort
<1> QED BY <1>1, <1>2, CatalogInvariant, PTL DEF Spec

\* A book has an author as long as no two requests work on it at the same time, for every set of
\* authors and however many requests work on the other books and delete genres.
THEOREM LoneBookHasAuthorHolds == Spec => []LoneBookHasAuthor
<1>1. LoneInv => LoneBookHasAuthor
  BY DEF LoneInv
<1> QED BY <1>1, LoneInvariant, PTL

\* A PATCH of author_ids that no other request overlaps leaves exactly the list it asked for: the
\* rows that its flush deletes and inserts, computed from the list it has read, make the
\* difference to the committed one.
THEOREM LonePatchExactHolds == Spec => LonePatchExact
<1>1. ASSUME IInv, LoneInv, [Next]_vars, NEW p \in Proc, Commit(p),
             req[p].book \in Book \ clashed, "author_ids" \in req[p].changes
      PROVE  linked'[req[p].book] = req[p].authors
  BY <1>1, LonePatchCommit
<1>2. IInv /\ LoneInv /\ [Next]_vars
      => [\A p \in Proc :
            LET b == req[p].book IN
            Commit(p) /\ b \in Book \ clashed /\ "author_ids" \in req[p].changes
                => linked'[b] = req[p].authors]_vars
  BY <1>1
<1> QED BY <1>2, CatalogInvariant, LoneInvariant, PTL DEF Spec, LonePatchExact

-----------------------------------------------------------------------------
(* The tables implement the ledger of books.                               *)

\* A step that ends nothing or rolls back leaves the tables of books alone.
LEMMA TablesStep ==
  ASSUME [Next]_vars
  PROVE  UNCHANGED <<books, linked>> \/ \E p \in Proc : Commit(p)
<1>1. CASE UNCHANGED vars
  BY <1>1 DEF vars
<1>2. ASSUME NEW p \in Proc, Arrive(p) PROVE UNCHANGED <<books, linked>>
  <2>1. Answered(p) \/ \E next, request : Begin(p, next, request)
    <3>1. ASSUME NEW b \in Book, NEW g \in Row, NEW A \in SUBSET Author, CreateBook(p, b, g, A)
          PROVE  \E next, request : Begin(p, next, request)
      BY <3>1, Zenon DEF CreateBook
    <3>2. ASSUME NEW b \in Book, NEW changes \in SUBSET Field, NEW g \in Row,
                 NEW A \in SUBSET Author, UpdateBook(p, b, changes, g, A)
          PROVE  \E next, request : Begin(p, next, request)
      BY <3>2, Zenon DEF UpdateBook
    <3>3. ASSUME NEW b \in Book, DeleteBook(p, b) PROVE \E next, request : Begin(p, next, request)
      BY <3>3, Zenon DEF DeleteBook
    <3>4. ASSUME NEW g \in Genre, DeleteGenre(p, g) PROVE \E next, request : Begin(p, next, request)
      BY <3>4, Zenon DEF DeleteGenre
    <3> QED BY <1>2, <3>1, <3>2, <3>3, <3>4, Zenon DEF Arrive
  <2> QED BY <2>1, Zenon DEF Begin, Answered, vars
<1>3. ASSUME NEW p \in Proc, Handle(p) PROVE UNCHANGED <<books, linked>> \/ Commit(p)
  BY <1>3 DEF Handle, InsertBook, LoadAuthors, ValidateGenre, UpdateRow, CutLinks, AddLinks, RefreshBook,
              DropBook, RemoveGenre, Continue, Fail
<1>4. ASSUME NEW p \in Proc, DeadlockVictim(p) \/ Abort(p) PROVE UNCHANGED <<books, linked>>
  BY <1>4 DEF DeadlockVictim, Abort, Fail
<1> QED BY <1>1, <1>2, <1>3, <1>4 DEF Next

Content == [genre : Row, authors : SUBSET Author]

\* With references that hold, a book without a row has no authors to show.
LEMMA StoredIs ==
  IInv => \A b \in Book : IF Exists(b) THEN Stored(b) \in Content
                                       ELSE Stored(b) = books[b] /\ books[b] \notin Row
<1> SUFFICES ASSUME IInv, NEW b \in Book
             PROVE  IF Exists(b) THEN Stored(b) \in Content
                                 ELSE Stored(b) = books[b] /\ books[b] \notin Row
  OBVIOUS
<1>1. linked[b] \in SUBSET Author /\ (~Exists(b) => linked[b] = {})
  BY DEF IInv, TypeOK, ReferencesHold
<1> QED BY <1>1 DEF Stored, Exists, Content

\* A commit keeps what it has not written, and what it writes is a step of one book: the row of a
\* book that was deleted is not written again, for a PATCH that has an UPDATE or an author to
\* insert holds a lock that the DELETE waits for.
LEMMA CommitOneBook ==
  ASSUME IInv, NEW p \in Proc, Commit(p), NEW b \in Book, b = req[p].book
  PROVE  \/ books'[b] = books[b] /\ (~Exists(b) => linked'[b] = linked[b])
         \/ books[b] = Unborn /\ books'[b] \in Row
         \/ Exists(b) /\ books'[b] \in Row
         \/ Exists(b) /\ books'[b] = Deleted
<1>1. /\ CreatedOK(p) /\ DeletionOK(p) /\ write[p].row \in Row \cup {Keep, Deleted}
      /\ books[b] \in Row \cup {Unborn, Deleted}
  BY DEF IInv, TypeOK, Writes
<1>2. /\ pc[p] = "finish"
      /\ books'[b] = IF write[p].row = Keep THEN books[b] ELSE write[p].row
  BY CommitTable
<1>3. ReferencesHold' /\ ReferencesHold
  BY CommitKept DEF IInv
<1>4. CASE write[p].row = Keep
  <2>1. books'[b] = books[b]
    BY <1>2, <1>4
  <2>2. ~Exists(b) => linked'[b] = {} /\ linked[b] = {}
    BY <1>3, <2>1 DEF ReferencesHold, Exists
  <2> QED BY <2>1, <2>2
<1>5. CASE write[p].row = Deleted
  <2>1. Exists(b) /\ Keep # Deleted
    BY <1>1, <1>5 DEF DeletionOK
  <2> QED BY <1>2, <1>5, <2>1
<1>6. CASE write[p].row \in Row
  <2>1. books'[b] \in Row /\ books[b] # Deleted
    BY <1>1, <1>2, <1>6 DEF CreatedOK
  <2> QED BY <1>1, <2>1 DEF Exists
<1> QED BY <1>1, <1>4, <1>5, <1>6

LEMMA CommitIsLedgerStep ==
  ASSUME IInv, IInv', NEW p \in Proc, Commit(p),
         \A b \in Book : IF Exists(b)' THEN Stored(b)' \in Content
                                       ELSE Stored(b)' = books'[b] /\ books'[b] \notin Row
  PROVE  [Ledger!Next]_[c \in Book |-> Stored(c)]
<1> DEFINE was == [c \in Book |-> Stored(c)]
           now == [c \in Book |-> Stored(c)']
<1> SUFFICES Ledger!Next \/ now = was
  BY DEF Stored, Exists
<1>1. \A c \in Book : c # req[p].book => Stored(c)' = Stored(c)
  BY CommitTable DEF Stored, Exists
<1>2. CASE req[p].book \notin Book
  BY <1>1, <1>2
<1>3. ASSUME NEW b \in Book, b = req[p].book PROVE Ledger!Next \/ now = was
  <2>1. now = [was EXCEPT ![b] = Stored(b)'] /\ was[b] = Stored(b)
    BY <1>1, <1>3
  <2>2. now = [c \in Book |-> Stored(c)]'
    BY DEF Stored, Exists
  <2>3. /\ IF Exists(b) THEN Stored(b) \in Content
                        ELSE Stored(b) = books[b] /\ books[b] \notin Row
        /\ Exists(b) <=> books[b] \in Row
        /\ Exists(b)' <=> books'[b] \in Row
    BY StoredIs DEF Exists
  <2>4. CASE books'[b] = books[b] /\ (~Exists(b) => linked'[b] = linked[b])
    <3>1. CASE Exists(b)
      <4>1. Stored(b) \in Content /\ Stored(b)' \in Content
        BY <2>3, <2>4, <3>1
      <4>2. Ledger!Update(b, Stored(b)')
        BY <2>1, <2>2, <4>1 DEF Ledger!Update, Content
      <4> QED BY <4>1, <4>2 DEF Ledger!Next, Content
    <3>2. CASE ~Exists(b)
      BY <2>1, <2>3, <2>4, <3>2
    <3> QED BY <3>1, <3>2
  <2>5. CASE books[b] = Unborn /\ books'[b] \in Row
    <3>1. Stored(b) = Unborn /\ Stored(b)' \in Content
      BY <2>3, <2>5
    <3>2. Ledger!Create(b, Stored(b)')
      BY <2>1, <2>2, <3>1 DEF Ledger!Create
    <3> QED BY <3>1, <3>2 DEF Ledger!Next, Content
  <2>6. CASE Exists(b) /\ books'[b] \in Row
    <3>1. Stored(b) \in Content /\ Stored(b)' \in Content
      BY <2>3, <2>6
    <3>2. Ledger!Update(b, Stored(b)')
      BY <2>1, <2>2, <3>1 DEF Ledger!Update, Content
    <3> QED BY <3>1, <3>2 DEF Ledger!Next, Content
  <2>7. CASE Exists(b) /\ books'[b] = Deleted
    <3>1. Stored(b) \in Content /\ Stored(b)' = Deleted
      BY <2>3, <2>7
    <3>2. Ledger!Delete(b)
      BY <2>1, <2>2, <3>1 DEF Ledger!Delete, Content
    <3> QED BY <3>2 DEF Ledger!Next
  <2> QED BY <1>3, <2>4, <2>5, <2>6, <2>7, CommitOneBook
<1> QED BY <1>2, <1>3

\* The tables implement the ledger.
THEOREM LedgerImplementedHolds == Spec => LedgerImplemented
<1>1. Init => Ledger!Init
  BY DEF Init, Ledger!Init, Stored, Exists
<1>2. IInv /\ [Next]_vars => [Ledger!Next]_[b \in Book |-> Stored(b)]
  <2> SUFFICES ASSUME IInv, [Next]_vars PROVE [Ledger!Next]_[b \in Book |-> Stored(b)]
    OBVIOUS
  <2>1. CASE UNCHANGED <<books, linked>>
    BY <2>1 DEF Stored, Exists
  <2>2. ASSUME NEW p \in Proc, Commit(p) PROVE [Ledger!Next]_[b \in Book |-> Stored(b)]
    <3>1. IInv'
      BY <2>2, CommitKept
    <3>2. (\A b \in Book : IF Exists(b) THEN Stored(b) \in Content
                                        ELSE Stored(b) = books[b] /\ books[b] \notin Row)'
      BY <3>1, StoredIs, PTL
    <3> QED BY <2>2, <3>1, <3>2, CommitIsLedgerStep
  <2> QED BY <2>1, <2>2, TablesStep
<1> QED BY <1>1, <1>2, CatalogInvariant, PTL DEF Spec, LedgerImplemented, Ledger!Spec

=============================================================================
