# Verification of the book management service

TLA+ models of `src/app`, a FastAPI service that keeps books, authors, genres, users and refresh
tokens in PostgreSQL, with the TLC runs that check them and TLAPS proofs about them: every invariant
and action property of the passing runs is a theorem for every value of the constants.

## The system

Every request is served by a coroutine with a session of its own
(`app/db/session.py:get_db_session`): one transaction that commits when the handler has returned
and rolls back when it raises. Requests share nothing but the database, and interleave at every
`await`, that is between any two SQL statements. The engine's isolation level is PostgreSQL's
default, READ COMMITTED: a SELECT sees what is committed when it starts; an UPDATE or DELETE takes
a snapshot, waits for rows other transactions have written and evaluates its WHERE again on their
newest version. No handler locks what it reads (`FOR UPDATE` appears nowhere), so what a handler has
read may be stale when it writes. That is where nearly all that can go wrong in this code lies.

| Component | State | Operations | What makes it correct | Module |
|---|---|---|---|---|
| Refresh tokens (`auth/service.py`, `auth/routes.py`) | `refresh_tokens`: owner, `revoked_at`, `replaced_by_id`, `expires_at` | login, refresh (rotation, reuse detection), logout, logout-all | one successor per rotated token, revocation is final and complete, only reuse escalates, one user's requests leave others alone, no honest client is taken for a thief | `RefreshTokens`, `TokenLedger`, `TokenClients`, `RefreshTokensProofs`, `RotationProofs`, `TokenClientsProofs` |
| Book catalogue (`books/service.py`) | `books`, `book_authors` | POST, PATCH, DELETE | references hold, a book has an author, a PATCH does what it asked | `BookCatalog`, `BookLedger`, `BookCatalogProofs` |
| Bulk import (`books/bulk.py`, `books/import_deps.py`) | `import_sessions`, new books and authors | POST /books/import | rate limit, one savepoint per row, a report that agrees with the tables | `BulkImport`, `BulkImportProofs` |
| Genres (`genres/service.py`) | `genres`: name, slug | create, rename, delete | unique name and slug, slug derived from name, none deleted while in use | `Genres`, `GenresProofs`; against books `BookCatalog`, against imports `BulkImport` |
| Accounts (`auth/service.py`) | `users` | register, authenticate | one account per e-mail, a conflict is a real one | `Accounts`, `PipelineProofs` |
| Request pipeline (`main.py`, `middleware.py`, `exceptions.py`) | none | request id, size limit, error bodies, commit of the session | a success is stored, oversize is refused, every response has its id, every request ends | `RequestPipeline` around `Accounts`, `PipelineProofs` |
| Listing, export (`books/routes.py`, `books/service.py`, `books/bulk.py:212-254`) | none | filter, sort, page, stream | nothing is missed while other things change, one order, the export is one snapshot | `CatalogueReads`, `CatalogueReadsProofs` |
| Similar books (`books/service.py:149-205`) | none | scored query | the pre-filter selects the positive scores | `SimilarBooks`, walked by `CatalogueReads`, `CatalogueReadsProofs` |
| Authors (`authors/service.py`) | `authors` | create, look up by id, create from names | names need not be unique | the look-up in `BookCatalog`, the creation by import in `BulkImport` |
| Access tokens (`auth/security.py`, `auth/deps.py`) | none, signed | encode, decode | only unexpired access tokens name a user | not modelled: pure |
| Configuration, logging, migrations | environment, schema | start-up | - | not modelled; their limits and constraints are constants and guards |

Hard behaviours: overlapping requests on one row; stale reads; locks in different orders; a
failure between two statements; the session dependency's rollback after something was to be kept;
the response that leaves before or after the commit; foreign keys that meet a concurrent delete.
`PROJECT.json` lists every hazard at its line.

## Modules

**`RefreshTokens`**. `table` is the committed table, `write[p]` what the open transaction of request
`p` has written. `pc[p]` is the statement it runs next and `req[p]` its local variables: the row it
has read (`presented`, `caller`), the token it creates (`issued`) and the rows its sweep's snapshot
offers (`scope`). One action per statement: `RefreshAccepted` is the SELECT and the tests after it,
`RefreshIssue` the INSERT of `issue_tokens`, `RefreshMark` the UPDATE of the old row, and
`RevokeScope` the UPDATE of `revoke` and `revoke_all_for_user`, whose snapshot was taken by
`Logout`, `LogoutAll` or `ReuseSweep`. `ReusePersist` and `ReuseRefuse` are the explicit commit of
the reuse branch and the exception after it. `Abort` is every way a request dies. The raw token,
its hash and the row's id are one model value. A sweep's UPDATE takes its rows in one step once all
of them are free; PostgreSQL takes them one by one, so two sweeps that meet each other's rows in
opposite orders may deadlock there, which ends one of them and is the model's `Abort`.

`pyproject.toml` asks for `fastapi>=0.115`. Older versions close the session before they send the
response, 0.118 and later do so after it; `Orders` says which of the two the run allows.
`held` are the tokens whose value has left the server.

**`TokenLedger`** is the abstract specification: requests are atomic, a token is unborn, active,
rotated or revoked, a rotation retires a token for exactly one new token. With `Overlap` a rotation
may hit a token that was already retired; without, it may not. `RefreshTokens!LedgerImplemented`
instantiates it with a refinement mapping from the committed table, and `Overlap` is "there is more
than one concurrent request".

**`TokenClients`** composes `RefreshTokens` with devices that keep one refresh token each
(`wallet`), send one request at a time (`asks`) and replace their token by the one they are answered.
A client may give up (`TimeOut`) or lose its handler (`Dies`) and then tries again with what it has.
`troubled` are the clients that do not know how a request of theirs ended. The clients are not part of
the repository and are marked external; what they do is what a `TokenPair`, a 204 and a 401 ask for.

**`BookCatalog`**. `books[b]` is the committed row, reduced to its genre; `linked[b]` the committed
rows of `book_authors`; `write[p]` the pending version of the book, the link rows inserted and
deleted, and the genre deleted. A PATCH reads the book (`UpdateBook`) and in a second SELECT its
authors (`LoadAuthors`, as a DELETE does), validates the genre, then
flushes in SQLAlchemy's order: UPDATE `books` if a column changes, DELETE and INSERT of
`book_authors` by the difference between the list asked for and the list read, and the re-read of
`session.refresh`. `Blocks(q, p)` is the lock table: for which of `p`'s statements the locks of `q`,
those of foreign keys included, are in the way. An UPDATE that matches no row raises (500), a
DELETE that matches none does not, which is what SQLAlchemy does for unversioned mappers; asyncpg
reports no count for the multi-row DELETE of `book_authors`, so that one is never checked. The
statements that touch several rows take them in one step. Authors are never deleted by the service,
so the model has them all stored; `author_ids` is a set, as a duplicate either changes nothing or
makes a statement fail.

**`BulkImport`**. An import that passes the count of committed sessions opens its own session row
(visible to nobody else until the end), parses, then for every row looks the genre up, inserts the
authors and inserts the book, each a step. A failing row loses what it inserted since its savepoint.
`Kind` holds the outcomes a row can have on its own; the conversion of CSV and JSON into rows is
abstracted to them. A committed book or author is named by its import and row number. Genres are
created and deleted meanwhile: `DeleteGenre` is a whole request, which the foreign-key locks make
atomic for an import. `created_at` is the time a row's transaction started; `Age` moves a committed
row out of the window in any order. The commit and the response are two steps, in either order
(`Orders`, as in `RefreshTokens`): an import may be committed and never answered, or answered and
never committed.

**`Genres`**. `genres[g]` is the committed row, `write[p]` the version a transaction has written, and
`req[p]` the row asked for and the row read. POST is a pre-check (`CreateGenre`) and an INSERT, PATCH
a read (`UpdateGenre`), a pre-check (`CheckConflict`) and an UPDATE, DELETE a read and a DELETE. Names
are model values, of which only `lower(name)` in the database, `name.casefold()` in Python and the
slug matter, so these are constant functions, and nothing relates the first two: PostgreSQL lowers a sharp s to
itself, Python folds it to ss, and of a capital I with a dot (U+0130) PostgreSQL's libc makes i,
Python i with a combining dot.
`Updated` is the UPDATE that SQLAlchemy makes of the columns that differ from the read, on the
newest version of the row. An entry of a unique index that is not committed makes the next statement
wait for its transaction (`Doubtful`). A statement that waits for an index entry holds nothing in the
model; PostgreSQL has its new row version in place by then, so two of them may deadlock, which ends
one and is the model's `Abort`. Whether a book restricts a DELETE is left open. `clashed` is a history
of the genres that two requests worked on at a time.

**`Accounts`**. `users[u]` is the committed row, `write[p]` the user a registration has inserted,
`pc[p]` the statement that is next or how the handler ended: returned, or one of the exceptions of
`Raised`. `RegisterUser` is the casefolded look-up, `InsertUser` the flush, which waits for an
uncommitted entry of the same e-mail in the unique index (`Doubtful`) and raises IntegrityError if
it finds a committed one. `Authenticate` is the check of a login; a hash is the password it matches.
`ConnectionLost` may hit a commit that PostgreSQL has carried out all the same. Addresses casefold to
e-mails by a constant function, and `lower()` leaves a casefolded e-mail as it is.

**`RequestPipeline`** extends `Accounts` with the layers of `main.py`, outermost first:
`MaxBodySizeMiddleware` (`RejectDeclared`, `PassLimit`, `ReceiveChunk`), `RequestIDMiddleware`, the
exception handlers (`Status`, `AnswerError`) and the route with its session (`RunInsert`, `RunCommit`,
`AnswerSuccess`). `layer[p]` says where a request is, `body[p]` what its body is and how much of it has
been received, `answer[p]` the response that was started: its status, and whether its header and its
error body have the request id. The body is read by the framework's form parser, before the route
runs, so `_BodyTooLarge` of a body without Content-Length is raised in the parser, which answers 400
for any exception (a finding below); a body that is no form is never read. `ImportBooks` stands for
the route with the statuses it may give, its steps are in `BulkImport`. `Orders` is as in `RefreshTokens`.

**`SimilarBooks`** has the score and the pre-filter as operators, with SQL's NULL as "not true".

**`CatalogueReads`** is one reader against committed changes of the catalogue. A page of GET /books or
of GET /books/{id}/similar is three to five statements, each with a snapshot of its own: the source
and its authors (`ReadSource`, `ReadSourceAuthors`), the count, the rows, the authors of the rows
(`selectinload`). The client asks for the next page until one is short. The export has one cursor,
whose rows are those of its first statement, and loads the authors per partition. `Orderings` are the
sequences that ORDER BY allows; the sort key is the year with NULLS LAST or the score, ties are
broken by the id. `since` is a history of what the commits did to the order of the query: nothing,
added rows, or removed or moved some; `bare` is a history of the books that have been committed
without authors since the request began. Writers change a whole book in one step; that the commits of
`BookCatalog` do so is the ledger they both refer to.

**`BookLedger`** is the abstract specification between the two: a book is unborn, has content or is
deleted, a commit creates, changes or deletes one of them as a whole, and deleted is for good. The
handlers of `BookCatalog` implement it (`BookCatalog!LedgerImplemented`), where the content of a book is
its genre and its authors, and rows of `book_authors` that outlive their book would be content too. The
writers of `CatalogueReads` do exactly what it allows.

The `MC*` modules give symmetry sets, the names of the genres, the files of the imports, the rows and
filters of the reads, the spellings of the e-mails and the users of the devices. Definitions commented
"Fault" are variants of the definition that follows them, for measuring that a property detects a
mistake there; no specification uses them.

## Runs

| Run | Instance | Shows |
|---|---|---|
| `tokens_overlap` | 2 users, 4 tokens, 2 requests, commit before the response | `RotationLinks`, `SweepComplete`, `ForkBound`, `EscalatesOnlyOnRotated`, `HeldIsStored`, `RevocationIsFinal`, `OtherUsersUntouched` and the refinement of the overlapping ledger |
| `tokens_liveness` | 1 user, 2 tokens of which 1 expires, 2 requests, both orders | `EveryRequestEnds` under fairness |
| `clients_retry` | 2 devices of 1 user, 3 tokens, 2 requests, both orders | `NoFalseAlarm`, `WalletIsNewest`: only a client that lost an answer is taken for a thief |
| `tokens_survivor` | 1 user, 3 tokens, 2 requests | finding: a session survives logout-all |
| `catalog_overlap` | 1 book, 2 authors, 2 genres, 2 requests | `ReferencesHold`, the refinement of the ledger of books, and what requests that overlap no other guarantee: `LoneBookHasAuthor`, `LonePatchExact` |
| `catalog_liveness` | 1 book, 2 authors, no genre, 2 requests | `EveryRequestEnds` although PATCH and DELETE may deadlock |
| `catalog_authors` | 1 book, 2 authors, 1 genre, 2 requests | finding: a book loses all its authors |
| `import_overlap` | 2 users, 3 imports of 5 kinds of files, 2 requests, limit 1, one stored error, both orders | `ReportAgrees`, `RowsAtomic`, `RowsIndependent`, `RateBound` |
| `genres_overlap` | 3 genres, 5 names with 3 slugs, 2 requests | `NamesDistinct`, `DeletedForGood`, `LoneSlugDerived` |
| `genres_precheck` | 3 genres, 3 names, 1 request | finding: the pre-check of a name meets two genres |
| `pipeline_overlap` | 2 users, 3 addresses of 2 e-mails, 2 passwords, 2 requests, bodies of up to 3 chunks with a limit of 1, both orders | `OneAccountPerEmail`, `ConflictIsReal`, `AnsweredIsStored`, `OversizeRefused`, and `ReadRequestsEnd` under fairness |
| `reads_overlap` | any catalogue of 3 books of 4 kinds, one without authors, pages of 2, partitions of 1, 2 commits | `QuietWalkExact`, `StableBooksSeen`, `SimilarExact`, `ExportIsSnapshot`, `AuthorlessIsDeleted` |

**Bounds.** Two requests are enough for every race of a read against a write, and three would only
add a third party to it: what they prove for any number is under "Proofs". Three tokens give a token,
its successor and either a fork or another user's token; four give a chain of three, a second
session, or a token with three successors, which is what `ForkBound` excludes for two requests.
`MaxSessions` and `MaxExpired` bound logins and expiries. One book suffices because a
request touches one book and two books meet in nothing but genres; two genres let a PATCH move a book
between them while either is deleted. Book ids are not reused: once the book is deleted only
requests for it (404) and for genres remain. Two imports at once and a limit of one make the third
import of a user the one that would exceed `RateBound`; the files put every kind of row before and
after a failing one and have more failures than a report stores. The names of genres hold every way
two of them can be equal: in lower case, by slug only, and by case folding only (sharp s); a third
genre may take the name that two others compete for. `genres_precheck` has three names around a
dotted I, and needs one request at a time. In `tokens_liveness` two tokens suffice for
requests that wait for each other's rows: a rotation, a logout and a sweep of the same token.
Tokens expire in that run only; that expiry leaves the refinement of the ledger intact is what the
theorem `LedgerImplementedHolds` says, for every `MaxExpired`.
In `clients_retry` two devices make one of them log the other out everywhere while it refreshes, and
three tokens are two sessions and a rotation, or a session rotated twice.
Two registrations are what a unique index decides between; three addresses are a race for one e-mail
in two spellings and an independent one. A limit of one chunk and bodies of up to three are below, at
and over the limit, with the excess in the chunk after a legal one and a further chunk that must not
be read. Three books and pages of two make
a full and a short page, and an exact multiple of a page; two commits make one before and one after
any statement. The four rows, which several books may have, give scores by each signal alone, by all of them
(two books with one row) and by none, both sides of the five years, an unknown year and genre, and a row
without authors that a commit may give to a book or take from it.

**Fairness.** `EveryRequestEnds` needs a server that runs the coroutines it has started (weak
fairness of each handler) and locks that are granted: PostgreSQL queues the transactions that wait
for a row, so a handler that may proceed again and again does so, strong fairness of the statements
that wait. In the catalogue, a circle of waiting transactions is broken by PostgreSQL's deadlock
detector (weak fairness of `DeadlockVictim`); without that assumption TLC finds a PATCH that holds
the book and waits for its author rows, and a DELETE that holds those and waits for the book.
In the pipeline, `ReadRequestsEnd`
needs weak fairness of the layers and strong fairness of the INSERT that waits for another's entry; it
starts once the body has been read, because nothing makes a client send the rest of an upload and the
code sets no time limit. The liveness runs use no symmetry.
Arrivals, failures and expiry have no fairness. Deadlock is checked in every run.

## Proofs

`RefreshTokensProofs` proves for every set of users, tokens and concurrent requests, assuming only
the named assumptions of the module (null values are no ids or rows, bounds are natural numbers):

- `TypeCorrect`, `RotationLinksHolds`, `SweepCompleteHolds`, `HeldIsStoredHolds`,
  `EscalatesOnlyOnRotatedHolds`: the invariants;
- `RevocationIsFinalHolds`, `OtherUsersUntouchedHolds`: the action properties;
- `LedgerImplementedHolds`: every step of `RefreshTokens` is a step of `TokenLedger` or leaves it
  alone, with `Overlap` only if there are two requests.

None of these is inductive by itself, for what a commit does depends on what its transaction wrote
earlier. `IInv` adds, for each handler, that an uncommitted row is a new token, the marked old row or
a row of its scope (`WritesOnly`), that everything it must write by now is written (`WritesAll`), that
its new token has no row yet (`IssuedFresh`), and what its local variables refer to (`RequestOK`);
for pairs of handlers that no row has two writers and no token two issuers; and that a request served
alone rotates only active tokens (`SerialRotation`). One lemma per action shows that it keeps `IInv`.
`Frame` says that a handler that does not move keeps its part as long as rows only become more final
and its locked rows stay as they are, and the commit lemmas show that a commit has these effects.

`RotationProofs` continues from `IInv` about chains. `ForkBoundHolds`: every request that has read a
token active holds a part of the token's budget of successors, and the first commit shuts the budget
(`RotationBudget`), so a token has at most as many committed successors as there are requests at a
time. `SuccessorRecordedSerially` and `NoSurvivorSerially`: with one request at a time (`Serial`) the
documented properties that overlapping requests break (`SuccessorRecorded`, and `NoSurvivor` of the
run `tokens_survivor`) do hold, whatever fails and in either order of commit and response. So overlap
is what breaks them and nothing else.

`BookCatalogProofs` proves `CatalogTypeCorrect`, `ReferencesHoldHolds`, `LoneBookHasAuthorHolds` and
`LonePatchExactHolds` for every set of books, authors, genres and requests, assuming only that the
null values are no ids. A commit makes of the tables whatever its transaction wrote under older ones,
so the invariant says what an open transaction may contain while the others go on: a row it has written
has a genre that is stored and that nobody is deleting, and a genre being deleted has no book
(`GenreOK`: the foreign key check in both directions); a deletion takes along every author of the book,
and nobody else has written the row or adds an author to it (`DeletionOK`: the row lock and the key
share lock); a book without a row is its creator's alone (`CreatedOK`, `CreatedAlone`). The guards
`Blocks` of the statements are what re-establishes these parts; where none is needed `AloneKept` says
that a statement of one handler leaves the others' parts alone. For the books nobody clashed on
`LoneInv` adds that what a PATCH has read is still what is stored, so that the difference its flush
writes turns it into the list asked for.

`GenresProofs` proves `TypeCorrect`, `NamesDistinctHolds` and `DeletedForGoodHolds` for every set of
names with the named assumptions about the constants. Its invariant extends `NamesDistinct` to rows
written and not committed (`Apart`), and says that one transaction at a time has written a genre
(`LocksDistinct`) and that a genre being created is nobody else's (`CreatedAlone`). On top of it
`LoneInv` gives `LoneSlugDerivedHolds`: a handler nobody met has read the row as it is, so the columns it
writes make it the row asked for.

`BulkImportProofs` proves `ImportTypeCorrect`, `RowsAtomicHolds`, `RowsIndependentHolds` and
`RateBoundHolds` for every set of users and files, every limit, every finite set of handlers and
either order of commit and response. The properties are about committed imports only, so the invariant says of
a running one where in its file it is (`Position`) and what it has inserted of the rows before
(`Inserted`): every good one, no bad one, and no author without its book but for the row at hand.
`Apart` keeps two handlers off one session. For the rate limit, `Budget` counts a user's running
imports with the committed ones: the count is taken when an import starts, and by then all others of
the user either are in it or run, so together they never exceed the limit, less one, plus the handlers.

`ReportAgreesHolds`, for every file and every cap of the stored errors, needs what the counters mean
while an import runs (`Counts`): the successes are the books inserted so far, the errors listed are the
first of the rows that failed so far (`ListsFirst`), and the number of failures keeps counting when the
list is full.

`PipelineProofs` first proves of `Accounts` that e-mails stay unique (`OneAccountPerEmailHolds`) for
every set of users, e-mails and requests. What makes it inductive is `HandlerOK`, what each handler has
read and written, and `Apart`: no two registrations have inserted one e-mail and neither collides with
a committed row, which the wait for the other's index entry ensures. Then it shows that the layers
leave these handlers alone (`AccountsImplemented`: every step of the pipeline is a step of `Accounts` or
none), so that the uniqueness holds there as well (`UniqueEmails`). From `LayerOK`, which ties where a
request is to its body, its answer and how its handler has ended, follow `ConflictIsRealHolds`,
`AnsweredIsStoredHolds` and `OversizeRefusedHolds` for every limit, every length and both orders.

`TokenClientsProofs` starts from `ClientsImplement`: whatever clients do, the handlers make steps of
`RefreshTokens`, so `IInv` and all that follows from it hold for them. `ClientInv` ties the clients
to the handlers: every value that is presented or was rotated has been sent, and one about to be
issued has not (`ValuesSent`), no two clients hold one token (`WalletsApart`), a request presents
the token of the client that waits for it or of a troubled one (`PresenterWaits`), a response that
was sent before its commit has reached its client or nobody (`AnsweredOnce`), and the token of a
client that is not troubled has a successor only while the answer that brings it is still to be sent
(`SuccessorComing`). `NoFalseAlarmHolds` and `WalletIsNewestHolds` follow for every number of
devices.

`CatalogueReadsProofs` proves all properties of `CatalogueReads` for every finite set of books
(their ids are numbers, to have an order), every set of rows and filters and every size of pages and
partitions:

- `PrefilterExact` and, with what is on the way to the client (`SimilarItems`), `SimilarExactHolds`;
- `ExportIsSnapshotHolds` from `Streams`: what was sent, what was fetched and what the cursor still
  holds is always one sequence of the books selected when the cursor was opened, however it is
  partitioned;
- `AuthorlessIsDeletedHolds`, for any catalogue, also one that holds books without authors (finding
  `catalog_authors`): what the client was sent without authors is deleted or in `bare`, and `bare` has
  every book that lacks an author now (`ShownInv`);
- `QuietWalkExactHolds` and `StableBooksSeenHolds`. The order of a page is total because the id breaks
  ties, so what a query selects has only one ordering (`OrderingUnique`) and pages sorted anew fit
  together. The place of a book is the number of books ahead of it; a commit that disturbs nothing
  can only make it grow (`RankGrows`), hence no book that was to be seen slips in front of the page that
  comes next (`StableInv`), and if nothing is committed the pages are slices of one list (`QuietInv`).

Two results connect parts that are modelled apart. `BookCatalogProofs!LedgerImplementedHolds` says that
every commit of the catalogue is a step of `BookLedger`: by the invariant, a transaction that is about
to commit has written neither the row of a deleted book nor an author of it (`CommitOneBook`), and by
`ReferencesHold` a book without a row has no authors. The run `catalog_overlap` checks the same.
`CatalogueReadsProofs!WritersAreLedger` says that the writers of `CatalogueReads` are that ledger, no more
and, up to the bound `MaxWrites`, no less.

Only model-checked: liveness (`EveryRequestEnds` of `RefreshTokens` and of `BookCatalog`,
`ReadRequestsEnd` of `RequestPipeline`), which needs ENABLED and is outside TLAPS' reach; and the
violations of the findings, which are counterexamples.

## Findings

Three statements of the documentation, comments or error messages that the code does not keep have a
violation run: sessions that survive logout-all (`tokens_survivor`), a book without authors after
overlapping PATCHes (`catalog_authors`), and a name whose pre-check raises where a 409 is promised
(`genres_precheck`). `PROJECT.json` quotes the statements.

The last one needs no overlap. POST the genre Istanbul with a dotted capital I (slug `i-stanbul`), then
"Istanbul!" (slug `istanbul`), then "Istanbul": its casefolded name is the first genre's name in
PostgreSQL's lower case, its slug is the second's, and `scalar_one_or_none` raises at two rows: 500. It
rests on the lower case that libc gives U+0130, a plain i; a database with an ICU collation would agree
with `casefold()` here.

Six more are stated as properties in their modules and have no run; given as the INVARIANT of the
configuration named here, TLC refutes each:

| Property | Configuration | The code against the document |
|---|---|---|
| `RefreshTokens!SuccessorRecorded` | `tokens_survivor.cfg` | two refreshes of one token that overlap both succeed and the row names one of the two successors; README.md:180-181 says the old row names "its successor", and reuse is to be detected |
| `BulkImport!RateLimitHolds` | `import_overlap.cfg` | the count is of committed sessions, so imports that overlap all pass; `books/routes.py:140` states the limit per user and hour |
| `BulkImport!AttemptsRecorded` | `import_overlap.cfg` | the session row of a file that does not parse is rolled back with the request, and where the response precedes the commit an answered import may be lost with it; `books/routes.py:142` says that every attempt creates a row, README.md:158-159 that it counts |
| `Genres!SlugDerived` | `genres_overlap.cfg` | two renamings that overlap each write the columns that differ from what they read; `genres/schemas.py:24-25` says that the slug follows the name |
| `RequestPipeline!OversizeIs413` | `pipeline_overlap.cfg` | the exception that `MaxBodySizeMiddleware` raises while a body without Content-Length grows is caught by the framework's form parser, which answers 400; `middleware.py:54-55` says that it "aborts with 413" |
| `RequestPipeline!IdEverywhere` | `pipeline_overlap.cfg` | the 413 of a declared length is answered outside `RequestIDMiddleware`, for the size limit was added last (`main.py:31`), and has no request id in header or body; the header of a 500 has none either; README.md:224-230 says that every request's header and every error body has it |

What holds instead is stated by `ForkBound`, `LedgerImplemented` with overlap, `NoFalseAlarm`,
`LoneBookHasAuthor`, `LonePatchExact`, `RateBound`, `RowsAtomic`, `NamesDistinct`, `LoneSlugDerived` and
`OversizeRefused`.

Modelled, and not worth a run: a JSON row whose list of authors holds only blank names passes the test
of `books/bulk.py:176` and is imported as a book without authors (kind "blank" of `BulkImport`).
`bulk_import_max_rows` and `bulk_import_chunk_size` of the settings are read by nothing.

## Not modelled

- Access tokens: `security.py` and `deps.py` change no state; an access token stays good until it
  expires, also after logout-all, which the service's README.md:215-216 says, or once its user is gone.
- Hashing and signing (external libraries), the generation of ids and tokens (fresh values).
- Where `casefold()` and PostgreSQL's `lower()` differ for e-mails; for genre names they do (`Genres`).
- The filter by title and by name of author, sorting by other columns, the wording and format of
  bodies, CSV and JSON, the lists of imports and genres: reads without a state of their own.
- POST /authors: one INSERT that nothing constrains.
- Settings, logging, the health check, and the migrations, whose constraints are guards.

## Plan

1. Proofs: that genres, as `BookCatalog` and `BulkImport` delete them, obey one ledger, as books do.
2. Models: the deletion of genres and the imports against `CatalogueReads`' filters by genre name.
