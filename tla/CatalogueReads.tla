--------------------------- MODULE CatalogueReads ---------------------------
(***************************************************************************)
(* The reads of app/books while books are created, changed and deleted: a  *)
(* client that walks the pages of GET /books or GET /books/{id}/similar,   *)
(* GET /books/{id}, and the streamed GET /books/export.                    *)
(*                                                                         *)
(* Under READ COMMITTED every statement sees the catalogue committed when  *)
(* it starts: the count of a page, its rows and the authors of its rows    *)
(* are three statements, the next page is another request. The export      *)
(* reads its rows through one cursor, which keeps its snapshot, and their  *)
(* authors in a statement per partition, which does not.                   *)
(***************************************************************************)
EXTENDS SimilarBooks, FiniteSets, SequencesExt

CONSTANTS Book,        \* ids of books; numbers, for ids break ties in every order
          Rows,        \* rows that books have
          Filters,     \* conditions of a list or an export, see Holds; one is empty
          Limit,       \* rows of a page
          Partition,   \* rows of a partition of the export
          MaxWrites,   \* bound: commits that change the catalogue
          Unborn, Deleted,   \* no row yet, no row any more
          NoBook

ASSUME BookAssumption == Book \subseteq Nat /\ IsFiniteSet(Book) /\ NoBook \notin Book
ASSUME RowsAssumption ==
    Rows \subseteq Row /\ Unborn \notin Row /\ Deleted \notin Row /\ Unborn # Deleted
ASSUME FiltersAssumption == {} \in Filters
ASSUME SizesAssumption == Limit \in Nat \ {0} /\ Partition \in Nat \ {0} /\ MaxWrites \in Nat

VARIABLES books,     \* the committed catalogue
          written,   \* the commits so far
          pc,        \* the statement the reader runs next
          query,     \* what it asks for
          source,    \* the book that others are compared with, as it was read
          offset,    \* the page it is at
          total,     \* the total that the page will give
          items,     \* rows that were fetched, their authors not yet
          cursor,    \* rows of the export still to be fetched
          seen,      \* history: what the client was sent
          start,     \* history: the catalogue when the reader began
          since,     \* history: what the commits since then did to the order of the query
          bare       \* history: books that have been without authors since then

reader == <<pc, query, source, offset, total, items, cursor, seen, start, since, bare>>
vars == <<books, written, reader>>

Item == [id : Book, row : Row]

Query == [kind : {"list", "export", "similar", "book"}, filter : Filters, of : Book \cup {NoBook}]

NoSource == [year |-> NoYear, genre |-> NoGenre, authors |-> {}]

TypeOK ==
    /\ books \in [Book -> Rows \cup {Unborn, Deleted}]
    /\ written \in 0 .. MaxWrites
    /\ pc \in {"source", "similar_to", "count", "page", "stream", "authors", "done", "failed"}
    /\ query \in Query
    /\ source \in Row
    /\ offset \in Nat /\ offset % Limit = 0
    /\ total \in 0 .. Cardinality(Book)
    /\ items \in Seq(Item) /\ Len(items) <= IF query.kind = "export" THEN Partition ELSE Limit
    /\ cursor \in Seq(Item)
    /\ seen \in Seq(Item)
    /\ start \in [Book -> Rows \cup {Unborn, Deleted}]
    /\ since \in {"calm", "grown", "disturbed"}
    /\ bare \subseteq Book

\* Books whose row has no author: an import of blank names or two PATCHes can leave one.
Authorless(catalogue) == {b \in Book : catalogue[b] \in Row /\ catalogue[b].authors = {}}

\* Any catalogue; nobody reads.
Init ==
    /\ books \in [Book -> Rows \cup {Unborn}]
    /\ written = 0
    /\ pc = "done"
    /\ query = [kind |-> "book", filter |-> {}, of |-> NoBook]
    /\ source = NoSource
    /\ offset = 0
    /\ total = 0
    /\ items = <<>>
    /\ cursor = <<>>
    /\ seen = <<>>
    /\ start = books
    /\ since = "calm"
    /\ bare = Authorless(books)

-----------------------------------------------------------------------------
(* What a statement selects, and in which order.                           *)

\* A condition of apply_filters; a year that is NULL is in no range.
Holds(c, row) ==
    CASE c.field = "author" -> c.value \in row.authors
      [] c.field = "genre" -> row.genre = c.value
      [] c.field = "year_from" -> row.year # NoYear /\ row.year >= c.value
      [] c.field = "year_to" -> row.year # NoYear /\ row.year <= c.value

Selects(q, src, b, row) ==
    /\ row \in Row
    /\ IF q.kind = "similar" THEN b # q.of /\ Candidate(row, src)
                             ELSE \A c \in q.filter : Holds(c, row)

Selected(catalogue, q, src) == {b \in Book : Selects(q, src, b, catalogue[b])}

\* The sort key: published_year ascending with NULLS LAST, or the score descending.
KeyBefore(q, src, r, s) ==
    IF q.kind = "similar" THEN Score(r, src) > Score(s, src)
    ELSE r.year # NoYear /\ (s.year = NoYear \/ r.year < s.year)

\* Fault: the order has no tie-breaker.
BeforeUntied(catalogue, q, src, a, b) == KeyBefore(q, src, catalogue[a], catalogue[b])

\* ORDER BY the key, then the id.
Before(catalogue, q, src, a, b) ==
    \/ KeyBefore(q, src, catalogue[a], catalogue[b])
    \/ a < b /\ ~KeyBefore(q, src, catalogue[b], catalogue[a])

\* What PostgreSQL may return: any order of the selected rows that ORDER BY allows.
Orderings(catalogue, q, src) ==
    {s \in SetToSeqs(Selected(catalogue, q, src)) :
        \A i, j \in DOMAIN s : i < j => ~Before(catalogue, q, src, s[j], s[i])}

\* At most n elements from index i on.
Slice(s, i, n) == SubSeq(s, i, Min({i + n - 1, Len(s)}))

RowsOf(catalogue, s) == [i \in DOMAIN s |-> [id |-> s[i], row |-> catalogue[s[i]]]]

-----------------------------------------------------------------------------
(* The writers: BookCatalog shows what a commit may do to a book.          *)

\* Does the new row leave every page of the query as it was, but for its own place?
Undisturbed(b, row) ==
    LET src == IF query.of \in Book /\ start[query.of] \in Row THEN start[query.of]
                                                               ELSE NoSource
        was == Selects(query, src, b, books[b])
    IN  /\ b # query.of
        /\ was => /\ Selects(query, src, b, row)
                  /\ ~KeyBefore(query, src, books[b], row)
                  /\ ~KeyBefore(query, src, row, books[b])

Change(b, row) ==
    /\ written < MaxWrites
    /\ written' = written + 1
    /\ books' = [books EXCEPT ![b] = row]
    /\ bare' = bare \cup Authorless(books')
    /\ since' = IF ~Undisturbed(b, row) \/ since = "disturbed" THEN "disturbed" ELSE "grown"
    /\ UNCHANGED <<pc, query, source, offset, total, items, cursor, seen, start>>

CreateBook(b, row) == books[b] = Unborn /\ Change(b, row)

UpdateBook(b, row) == books[b] \in Row \ {row} /\ Change(b, row)

DeleteBook(b) == books[b] \in Row /\ Change(b, Deleted)

-----------------------------------------------------------------------------
(* The requests of the reader, who has one at a time.                      *)

Ready == pc \in {"done", "failed"}

Begin(next, kind, filter, of) ==
    /\ Ready
    /\ query' = [kind |-> kind, filter |-> filter, of |-> of]
    /\ pc' = next
    /\ source' = NoSource
    /\ offset' = 0
    /\ total' = 0
    /\ seen' = <<>>
    /\ start' = books
    /\ since' = "calm"
    /\ bare' = Authorless(books)
    /\ UNCHANGED <<books, written>>

ListBooks(f) == Begin("count", "list", f, NoBook) /\ UNCHANGED <<items, cursor>>

ListSimilar(b) ==
    /\ books[b] \in Row
    /\ Begin("source", "similar", {}, b)
    /\ UNCHANGED <<items, cursor>>

\* get_book: the row with its genre, then the authors.
GetBook(b) ==
    /\ books[b] \in Row
    /\ Begin("authors", "book", {}, b)
    /\ items' = <<[id |-> b, row |-> books[b]]>>
    /\ UNCHANGED cursor

\* iter_all_books opens its cursor; the order, by creation, is left open.
ExportBooks(f) ==
    /\ Begin("stream", "export", f, NoBook)
    /\ LET q == [kind |-> "export", filter |-> f, of |-> NoBook] IN
       \E s \in SetToSeqs(Selected(books, q, NoSource)) : cursor' = RowsOf(books, s)
    /\ UNCHANGED items

\* similar_books_stmt reads the source; every page does. 404 if it is gone.
ReadSource ==
    /\ pc = "source"
    /\ IF books[query.of] \in Row
       THEN source' = books[query.of] /\ pc' = "similar_to"
       ELSE pc' = "failed" /\ UNCHANGED source
    /\ UNCHANGED <<books, written, query, offset, total, items, cursor, seen, start, since, bare>>

\* Fault: the authors are loaded once for all pages.
AuthorsOfStart(b) == IF start[b] \in Row THEN start[b].authors ELSE {}

AuthorsOf(b) == IF books[b] \in Row THEN books[b].authors ELSE {}

ReadSourceAuthors ==
    /\ pc = "similar_to"
    /\ source' = [source EXCEPT !.authors = AuthorsOf(query.of)]
    /\ pc' = "count"
    /\ UNCHANGED <<books, written, query, offset, total, items, cursor, seen, start, since, bare>>

CountTotal ==
    /\ pc = "count"
    /\ total' = Cardinality(Selected(books, query, source))
    /\ pc' = "page"
    /\ UNCHANGED <<books, written, query, source, offset, items, cursor, seen, start, since, bare>>

\* Fault: the limit is forgotten.
FetchPageUnlimited ==
    /\ pc = "page"
    /\ \E s \in Orderings(books, query, source) :
          items' = RowsOf(books, SubSeq(s, offset + 1, Len(s)))
    /\ pc' = "authors"
    /\ UNCHANGED <<books, written, query, source, offset, total, cursor, seen, start, since, bare>>

FetchPage ==
    /\ pc = "page"
    /\ \E s \in Orderings(books, query, source) : items' = RowsOf(books, Slice(s, offset + 1, Limit))
    /\ pc' = "authors"
    /\ UNCHANGED <<books, written, query, source, offset, total, cursor, seen, start, since, bare>>

\* Fault: every partition is a query of its own, by offset.
FetchPartitionAnew ==
    /\ pc = "stream"
    /\ \E s \in SetToSeqs(Selected(books, query, NoSource)) :
          LET rows == RowsOf(books, SubSeq(s, Len(seen) + 1, Len(s))) IN
          /\ items' = Slice(rows, 1, Partition)
          /\ cursor' = SubSeq(rows, Partition + 1, Len(rows))
    /\ pc' = "authors"
    /\ UNCHANGED <<books, written, query, source, offset, total, seen, start, since, bare>>

FetchPartition ==
    /\ pc = "stream"
    /\ items' = Slice(cursor, 1, Partition)
    /\ cursor' = SubSeq(cursor, Partition + 1, Len(cursor))
    /\ pc' = "authors"
    /\ UNCHANGED <<books, written, query, source, offset, total, seen, start, since, bare>>

\* Fault: the client stops at the total, which was counted before the page was read.
LastPageByTotal ==
    query.kind = "book" \/ (query.kind # "export" /\ offset + Len(items) >= total)

\* The client asks for the next page until one is short.
LastPage == query.kind = "book" \/ (query.kind # "export" /\ Len(items) < Limit)

\* The selectin load of the authors of the fetched rows. The answer, or the next part of the
\* export, is sent.
LoadAuthors ==
    /\ pc = "authors"
    /\ seen' = seen \o [i \in DOMAIN items |->
                          [items[i] EXCEPT !.row.authors = AuthorsOf(items[i].id)]]
    /\ items' = <<>>
    /\ IF query.kind = "export"
       THEN pc' = (IF cursor = <<>> THEN "done" ELSE "stream") /\ UNCHANGED offset
       ELSE IF LastPage THEN pc' = "done" /\ UNCHANGED offset
       ELSE /\ offset' = offset + Limit
            /\ pc' = IF query.kind = "similar" THEN "source" ELSE "count"
    /\ UNCHANGED <<books, written, query, source, total, cursor, start, since, bare>>

\* A statement fails or the stream is cut off; an export has sent its first rows by then.
Fail ==
    /\ ~Ready
    /\ pc' = "failed"
    /\ items' = <<>>
    /\ cursor' = <<>>
    /\ UNCHANGED <<books, written, query, source, offset, total, seen, start, since, bare>>

Read ==
    \/ ReadSource
    \/ ReadSourceAuthors
    \/ CountTotal
    \/ FetchPage
    \/ FetchPartition
    \/ LoadAuthors

Next ==
    \/ \E b \in Book, row \in Rows : CreateBook(b, row) \/ UpdateBook(b, row)
    \/ \E b \in Book : DeleteBook(b)
    \/ \E f \in Filters : ListBooks(f) \/ ExportBooks(f)
    \/ \E b \in Book : ListSimilar(b) \/ GetBook(b)
    \/ Read
    \/ Fail

Spec == Init /\ [][Next]_vars

-----------------------------------------------------------------------------
(* Properties.                                                             *)

Ids(s) == [i \in DOMAIN s |-> s[i].id]

\* What the query selected when the reader began.
Begun ==
    Selected(start, query, IF query.of \in Book /\ start[query.of] \in Row THEN start[query.of]
                                                                           ELSE NoSource)

Walked == pc = "done" /\ query.kind \in {"list", "similar"}

\* Pages read while nothing changes are one list: every book exactly once, in one order
\* although each page sorts anew, and with the right total on each.
QuietWalkExact ==
    since = "calm" /\ Walked =>
        /\ Ids(seen) \in Orderings(start, query, source)
        /\ total = Cardinality(Begun)

\* A walk misses no book that was there all the time, whatever is inserted meanwhile. A book
\* may come twice, and only books that leave or move make the others slip past.
StableBooksSeen ==
    since # "disturbed" /\ Walked => Begun \subseteq ToSet(Ids(seen))

\* Similar books are the books of positive score, all of them and best first, although the
\* source is read before them and may change or lose its authors meanwhile.
SimilarExact ==
    query.kind = "similar" /\ pc = "authors" =>
        /\ \A b \in Book \ {query.of} :
              books[b] \in Row /\ Score(books[b], source) > 0
                  => b \in Selected(books, query, source)
        /\ \A i \in DOMAIN items : items[i].id # query.of /\ Score(items[i].row, source) > 0
        /\ \A i, j \in DOMAIN items :
              i < j => Score(items[i].row, source) >= Score(items[j].row, source)

\* A finished export is the catalogue as it was when its cursor was opened, each book once
\* with its columns of that time, however long the stream took.
ExportIsSnapshot ==
    query.kind = "export" /\ pc = "done" =>
        /\ IsInjective(Ids(seen))
        /\ ToSet(Ids(seen)) = Begun
        /\ \A i \in DOMAIN seen : LET row == start[seen[i].id] IN
              seen[i].row.year = row.year /\ seen[i].row.genre = row.genre

\* The client sees a book without authors only if it was deleted, or was committed without any at
\* some time since the request began: the statement that loads the authors of a row fetched
\* earlier, by the page or by an export's cursor, strips no book of authors it had all along.
AuthorlessIsDeleted ==
    \A i \in DOMAIN seen :
        seen[i].row.authors = {} => books[seen[i].id] = Deleted \/ seen[i].id \in bare

=============================================================================
