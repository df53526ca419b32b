----------------------------- MODULE BulkImport -----------------------------
(***************************************************************************)
(* POST /books/import: the rate limit counted from import_sessions, the    *)
(* session row, and the rows of the file, each in a savepoint of the one   *)
(* transaction of the request. Imports overlap with each other and with    *)
(* the genre endpoints.                                                    *)
(***************************************************************************)
EXTENDS FiniteSets, Integers, Sequences

CONSTANTS User, Genre, Proc,
          Import,      \* ids of import_sessions; bound: attempts that pass the rate limit
          File,        \* bound: what clients upload, sequences of Kind or Unparsable
          Limit,       \* import_rate_limit_per_window
          MaxErrors,   \* bulk_import_max_stored_errors
          Unparsable,  \* a file that is not CSV or JSON of the right shape
          Orders,      \* when the framework closes the session: before or after it responds
          NoFile, NoUser, NoImport, NoSession

\* What a row of a file asks for: "invalid" fails before any SQL (no title, no author, a bad
\* year), "long" has a title the column cannot hold, "blank" is a JSON list of blank author
\* names, "plain" names no genre and a genre stands for a row that names it.
Kind == {"invalid", "long", "blank", "plain"} \cup Genre

ASSUME FileAssumption == \A f \in File : f = Unparsable \/ f \in Seq(Kind)
ASSUME GenreAssumption == Genre \cap {"invalid", "long", "blank", "plain"} = {}
ASSUME LimitAssumption == Limit \in Nat \ {0} /\ MaxErrors \in Nat \ {0}
ASSUME OrdersAssumption == Orders \subseteq {"commit_first", "respond_first"}
ASSUME ProcAssumption == IsFiniteSet(Proc)
ASSUME NullsAssumption == /\ NoFile \notin File
                          /\ NoUser \notin User
                          /\ NoImport \notin Import

VARIABLES genres,    \* committed rows of genres
          sessions,  \* committed rows of import_sessions
          books,     \* committed books: <<i, n>> is the one of row n of import i
          authors,   \* committed authors, likewise: those that row n of import i names
          aged,      \* imports whose created_at has left the rate-limit window
          input,     \* the file of each import
          write,     \* rows of the file whose book and authors a transaction has inserted
          pc,        \* what each handler does next
          req,       \* the request and the running counts of each handler
          answered   \* history: imports whose client was answered by run_import or the parser

vars == <<genres, sessions, books, authors, aged, input, write, pc, req, answered>>

\* failed stands for error_count_total as well, they are always equal.
Report == [user : User, received : Nat, successful : Nat, failed : Nat, errors : Seq(Nat)]

ASSUME NoSessionAssumption == NoSession \notin Report

NoWrites == [books |-> {}, authors |-> {}]

NoRequest == [user |-> NoUser, id |-> NoImport, row |-> 0, successful |-> 0, failed |-> 0,
              errors |-> <<>>]

TypeOK ==
    /\ genres \in SUBSET Genre
    /\ \A i \in Import : sessions[i] = NoSession \/ sessions[i] \in Report
    /\ books \cup authors \subseteq Import \X Nat
    /\ aged \cup answered \subseteq Import
    /\ input \in [Import -> File \cup {NoFile}]
    /\ \A p \in Proc : write[p].books \cup write[p].authors \subseteq 1..req[p].row
    /\ pc \in [Proc -> {"idle", "open", "parse", "row", "authors", "book", "close", "finish",
                        "respond", "commit"}]
    /\ \A p \in Proc : IF pc[p] = "idle" THEN req[p] = NoRequest /\ write[p] = NoWrites
                       ELSE req[p].user \in User /\ req[p].id \in Import

Init ==
    /\ genres = Genre
    /\ sessions = [i \in Import |-> NoSession]
    /\ books = {} /\ authors = {}
    /\ aged = {}
    /\ input = [i \in Import |-> NoFile]
    /\ write = [p \in Proc |-> NoWrites]
    /\ pc = [p \in Proc |-> "idle"]
    /\ req = [p \in Proc |-> NoRequest]
    /\ answered = {}

Stored(i) == sessions[i] # NoSession

\* The imports of a user that the rate limit counts: the committed ones of the last hour.
Counted(u) == {i \in Import \ aged : Stored(i) /\ sessions[i].user = u}

-----------------------------------------------------------------------------
(* The session of a request.                                               *)

Continue(p, next) == pc' = [pc EXCEPT ![p] = next]

Ended(p) ==
    /\ Continue(p, "idle")
    /\ req' = [req EXCEPT ![p] = NoRequest]
    /\ write' = [write EXCEPT ![p] = NoWrites]

\* Fault: the session is not closed, so the transaction stays open.
RollbackOpen(p) ==
    /\ Continue(p, "idle")
    /\ req' = [req EXCEPT ![p] = NoRequest]
    /\ UNCHANGED <<genres, sessions, books, authors, aged, input, write>>

Rollback(p) ==
    /\ Ended(p)
    /\ UNCHANGED <<genres, sessions, books, authors, aged, input>>

-----------------------------------------------------------------------------
(* The import.                                                             *)

\* Fault: the imports of the last hour are counted and not compared with the limit.
RateLimitIgnored(p, u, i, f) ==
    /\ pc[p] = "idle"
    /\ input[i] = NoFile
    /\ input' = [input EXCEPT ![i] = f]
    /\ req' = [req EXCEPT ![p] = [NoRequest EXCEPT !.user = u, !.id = i]]
    /\ Continue(p, "open")
    /\ UNCHANGED <<genres, sessions, books, authors, aged, write, answered>>

\* enforce_import_rate_limit lets the request pass.
RateLimitPassed(p, u, i, f) ==
    /\ pc[p] = "idle"
    /\ input[i] = NoFile
    /\ Cardinality(Counted(u)) < Limit
    /\ input' = [input EXCEPT ![i] = f]
    /\ req' = [req EXCEPT ![p] = [NoRequest EXCEPT !.user = u, !.id = i]]
    /\ Continue(p, "open")
    /\ UNCHANGED <<genres, sessions, books, authors, aged, write, answered>>

\* 429 above the limit, 415 for a file that is neither CSV nor JSON: nothing is written.
ImportRefused(p) ==
    /\ pc[p] = "idle"
    /\ UNCHANGED vars

\* INSERT INTO import_sessions, for none but this transaction to see.
OpenSession(p) ==
    /\ pc[p] = "open"
    /\ Continue(p, "parse")
    /\ UNCHANGED <<genres, sessions, books, authors, aged, input, write, req, answered>>

\* The parser raises ValueError: the route marks the session failed, flushes and raises 400,
\* which rolls the session back.
ParseFails(p) ==
    /\ pc[p] = "parse"
    /\ input[req[p].id] = Unparsable
    /\ Rollback(p)
    /\ answered' = answered \cup {req[p].id}

\* Goes on to row n, or to the end of the file.
ToRow(p, n, request) ==
    /\ req' = [req EXCEPT ![p] = [request EXCEPT !.row = n]]
    /\ Continue(p, IF n > Len(input[req[p].id]) THEN "close" ELSE "row")

ParseSucceeds(p) ==
    /\ pc[p] = "parse"
    /\ input[req[p].id] # Unparsable
    /\ ToRow(p, 1, req[p])
    /\ UNCHANGED <<genres, sessions, books, authors, aged, input, write, answered>>

RowKind(p) == input[req[p].id][req[p].row]

\* Fault: the list of errors may hold one entry too many.
StoreErrorUncapped(errors, n) == Append(errors, n)

StoreError(errors, n) == IF Len(errors) < MaxErrors THEN Append(errors, n) ELSE errors

\* Fault: the row is not in a savepoint of its own, what it has inserted stays.
FailRowUnsaved(p) ==
    LET r == req[p] IN
    /\ UNCHANGED write
    /\ ToRow(p, r.row + 1, [r EXCEPT !.failed = @ + 1, !.errors = StoreError(@, r.row)])

\* Fault: the first row that fails ends the import.
FailRowStops(p) ==
    LET r == req[p] IN
    /\ write' = [write EXCEPT ![p].authors = @ \ {r.row}]
    /\ ToRow(p, Len(input[r.id]) + 1,
             [r EXCEPT !.failed = @ + 1, !.errors = StoreError(@, r.row)])

\* The row rolls back to its savepoint and is reported.
FailRow(p) ==
    LET r == req[p] IN
    /\ write' = [write EXCEPT ![p].authors = @ \ {r.row}]
    /\ ToRow(p, r.row + 1, [r EXCEPT !.failed = @ + 1, !.errors = StoreError(@, r.row)])

\* Validates the row and looks its genre up.
ValidateRow(p) ==
    /\ pc[p] = "row"
    /\ IF RowKind(p) = "invalid" \/ RowKind(p) \in Genre \ genres
       THEN FailRow(p)
       ELSE Continue(p, "authors") /\ UNCHANGED <<write, req>>
    /\ UNCHANGED <<genres, sessions, books, authors, aged, input, answered>>

\* create_authors_from_names skips blank names.
CreateAuthors(p) ==
    /\ pc[p] = "authors"
    /\ write' = IF RowKind(p) = "blank" THEN write
                ELSE [write EXCEPT ![p].authors = @ \cup {req[p].row}]
    /\ Continue(p, "book")
    /\ UNCHANGED <<genres, sessions, books, authors, aged, input, req, answered>>

\* The flush of the book, whose foreign key misses a genre deleted since the lookup.
InsertBook(p) ==
    /\ pc[p] = "book"
    /\ IF RowKind(p) = "long" \/ RowKind(p) \in Genre \ genres
       THEN FailRow(p)
       ELSE /\ write' = [write EXCEPT ![p].books = @ \cup {req[p].row}]
            /\ ToRow(p, req[p].row + 1, [req[p] EXCEPT !.successful = @ + 1])
    /\ UNCHANGED <<genres, sessions, books, authors, aged, input, answered>>

\* The report is written to the session row.
CloseSession(p) ==
    /\ pc[p] = "close"
    /\ Continue(p, "finish")
    /\ UNCHANGED <<genres, sessions, books, authors, aged, input, write, req, answered>>

Rows(p, ns) == {<<req[p].id, n>> : n \in ns}

\* The rows that p has written, for all to see.
Commit(p) ==
    LET r == req[p] IN
    /\ sessions' = [sessions EXCEPT ![r.id] =
                      [user |-> r.user, received |-> r.row - 1, successful |-> r.successful,
                       failed |-> r.failed, errors |-> r.errors]]
    /\ books' = books \cup Rows(p, write[p].books)
    /\ authors' = authors \cup Rows(p, write[p].authors)
    /\ UNCHANGED <<genres, aged, input>>

-----------------------------------------------------------------------------
(* The end of a request: get_db_session commits once the handler has       *)
(* returned, before or after the framework sends the response.             *)

CommitFirst(p) ==
    /\ pc[p] = "finish"
    /\ "commit_first" \in Orders
    /\ Commit(p)
    /\ write' = [write EXCEPT ![p] = NoWrites]
    /\ Continue(p, "respond")
    /\ UNCHANGED <<req, answered>>

RespondLast(p) ==
    /\ pc[p] = "respond"
    /\ Ended(p)
    /\ answered' = answered \cup {req[p].id}
    /\ UNCHANGED <<genres, sessions, books, authors, aged, input>>

RespondFirst(p) ==
    /\ pc[p] = "finish"
    /\ "respond_first" \in Orders
    /\ Continue(p, "commit")
    /\ answered' = answered \cup {req[p].id}
    /\ UNCHANGED <<genres, sessions, books, authors, aged, input, write, req>>

CommitLast(p) ==
    /\ pc[p] = "commit"
    /\ Commit(p)
    /\ Ended(p)
    /\ UNCHANGED answered

\* A lost connection, a commit that fails, a crash of the server. An answer already sent stays
\* sent, a commit that was made stays made.
Abort(p) ==
    /\ pc[p] # "idle"
    /\ Rollback(p)
    /\ UNCHANGED answered

-----------------------------------------------------------------------------
(* The rest of the system.                                                 *)

\* An hour passes since an import.
Age(i) ==
    /\ Stored(i)
    /\ i \notin aged
    /\ aged' = aged \cup {i}
    /\ UNCHANGED <<genres, sessions, books, authors, input, write, pc, req, answered>>

\* POST /genres
CreateGenre(g) ==
    /\ g \notin genres
    /\ genres' = genres \cup {g}
    /\ UNCHANGED <<sessions, books, authors, aged, input, write, pc, req, answered>>

\* DELETE /genres/{id}: waits for transactions that have inserted a book of the genre, and a
\* committed book of the genre restricts it.
DeleteGenre(g) ==
    /\ g \in genres
    /\ \A p \in Proc : \A n \in write[p].books : input[req[p].id][n] # g
    /\ \A b \in books : input[b[1]][b[2]] # g
    /\ genres' = genres \ {g}
    /\ UNCHANGED <<sessions, books, authors, aged, input, write, pc, req, answered>>

-----------------------------------------------------------------------------

Handle(p) ==
    \/ OpenSession(p)
    \/ ParseFails(p)
    \/ ParseSucceeds(p)
    \/ ValidateRow(p)
    \/ CreateAuthors(p)
    \/ InsertBook(p)
    \/ CloseSession(p)
    \/ CommitFirst(p)
    \/ RespondLast(p)
    \/ RespondFirst(p)
    \/ CommitLast(p)
    \/ Abort(p)

Next ==
    \/ \E p \in Proc, u \in User, i \in Import, f \in File : RateLimitPassed(p, u, i, f)
    \/ \E p \in Proc : ImportRefused(p)
    \/ \E p \in Proc : Handle(p)
    \/ \E i \in Import : Age(i)
    \/ \E g \in Genre : CreateGenre(g) \/ DeleteGenre(g)

Spec == Init /\ [][Next]_vars

-----------------------------------------------------------------------------
(* Properties.                                                             *)

\* The rows of an import that have no book.
FailedRows(i) == {n \in 1..Len(input[i]) : <<i, n>> \notin books}

\* errors lists the first elements of the set, as many as it may.
ListsFirst(errors, set) ==
    LET n == Cardinality(set) IN
    /\ Len(errors) = IF n < MaxErrors THEN n ELSE MaxErrors
    /\ \A k \in 1..Len(errors) :
          errors[k] \in set /\ Cardinality({m \in set : m < errors[k]}) = k - 1

\* A committed report agrees with the tables: as many successful rows as books of the import,
\* the others failed, and errors lists the first of those, up to the cap.
ReportAgrees ==
    \A i \in Import : Stored(i) =>
        LET failed == Cardinality(FailedRows(i)) IN
        /\ sessions[i].received = Len(input[i])
        /\ sessions[i].successful = Len(input[i]) - failed
        /\ sessions[i].failed = failed
        /\ ListsFirst(sessions[i].errors, FailedRows(i))

\* A row is stored as a whole or not at all: no author without the book of its row, and no
\* book without the import_sessions row of its import, whatever fails in between.
RowsAtomic ==
    /\ authors \subseteq books
    /\ \A b \in books : Stored(b[1])

\* One bad row does not affect its neighbours: in a committed import every row that is good
\* on its own has a book, and no bad one has.
RowsIndependent ==
    \A i \in Import : Stored(i) =>
        \A n \in 1..Len(input[i]) :
            /\ input[i][n] \in {"plain", "blank"} => <<i, n>> \in books
            /\ input[i][n] \in {"invalid", "long"} => <<i, n>> \notin books

\* A user exceeds the rate limit by the imports that run at the same time, and not further. One
\* that was answered before its commit still runs, although its client has moved on.
RateBound == \A u \in User : Cardinality(Counted(u)) <= Limit - 1 + Cardinality(Proc)

\* "5 imports per user per hour". Imports that overlap break it.
RateLimitHolds == \A u \in User : Cardinality(Counted(u)) <= Limit

\* "every attempt creates an import_sessions row". A file that does not parse breaks it, and so
\* does a commit that fails after the response.
AttemptsRecorded == \A i \in answered : Stored(i)

=============================================================================
