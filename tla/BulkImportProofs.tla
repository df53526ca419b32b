-------------------------- MODULE BulkImportProofs --------------------------
(***************************************************************************)
(* Proofs about BulkImport for every set of users, files and handlers and  *)
(* every limit: the savepoints leave whole rows behind, one bad row spares *)
(* its neighbours, and overlapping imports exceed the rate limit by no     *)
(* more than their number.                                                 *)
(***************************************************************************)
EXTENDS BulkImport, FiniteSetTheorems, TLAPS

Request == [user : User \cup {NoUser}, id : Import \cup {NoImport}, row : Nat, successful : Nat,
            failed : Nat, errors : Seq(Nat)]

Writes == [books : SUBSET Nat, authors : SUBSET Nat]

\* The functions that the model's variables are.
Shape ==
    /\ genres \subseteq Genre
    /\ sessions \in [Import -> Report \cup {NoSession}]
    /\ books \cup authors \subseteq Import \X Nat
    /\ aged \cup answered \subseteq Import
    /\ input \in [Import -> File \cup {NoFile}]
    /\ write \in [Proc -> Writes]
    /\ pc \in [Proc -> {"idle", "open", "parse", "row", "authors", "book", "close", "finish",
                        "respond", "commit"}]
    /\ req \in [Proc -> Request]

\* p has yet to commit.
Running(p) == pc[p] \notin {"idle", "respond"}

\* A running import has a file and no stored session.
Unfinished(p) ==
    /\ req[p].user \in User /\ req[p].id \in Import
    /\ input[req[p].id] \in File
    /\ ~Stored(req[p].id)

\* Where in its file a handler is.
Position(p) ==
    LET f == input[req[p].id] IN
    /\ pc[p] \in {"open", "parse"} => req[p].row = 0 /\ write[p] = NoWrites
    /\ pc[p] \in {"row", "authors", "book"} => f # Unparsable /\ req[p].row \in 1..Len(f)
    /\ pc[p] \in {"close", "finish", "commit"} => f # Unparsable /\ req[p].row = Len(f) + 1

\* What it has inserted: the rows it is past are there as they should be, the current one has
\* its authors at most.
Inserted(p) ==
    LET f == input[req[p].id]
        r == req[p].row
        w == write[p]
    IN
    /\ w.books \subseteq 1..(r - 1)
    /\ w.authors \subseteq w.books \cup IF pc[p] = "book" THEN {r} ELSE {}
    /\ \A n \in 1..(r - 1) : /\ f[n] \in {"plain", "blank"} => n \in w.books
                             /\ f[n] \in {"invalid", "long"} => n \notin w.books
    /\ pc[p] \in {"authors", "book"} => f[r] # "invalid"

Handler(p) ==
    IF Running(p) THEN Unfinished(p) /\ Position(p) /\ Inserted(p)
    ELSE /\ write[p] = NoWrites
         /\ IF pc[p] = "idle" THEN req[p] = NoRequest
            ELSE req[p].user \in User /\ req[p].id \in Import

\* No two handlers work on one import.
Apart == \A p, q \in Proc : Running(p) /\ Running(q) /\ req[p].id = req[q].id => p = q

\* A stored session is about a file that has been parsed.
Recorded == \A i \in Import : Stored(i) => input[i] \in File \ {Unparsable}

Tables == Recorded /\ RowsAtomic /\ RowsIndependent

\* The imports of a user that run, each of which may yet be counted.
RunningOf(u) == {p \in Proc : Running(p) /\ req[p].user = u}

Budget(u) ==
    /\ IsFiniteSet(Counted(u))
    /\ Cardinality(Counted(u)) + Cardinality(RunningOf(u)) <= Limit - 1 + Cardinality(Proc)

Inv ==
    /\ Shape
    /\ \A p \in Proc : Handler(p)
    /\ Apart
    /\ Tables
    /\ \A u \in User : Budget(u)

LEMMA RunningFinite ==
  ASSUME NEW u
  PROVE  /\ IsFiniteSet(RunningOf(u)) /\ Cardinality(RunningOf(u)) \in Nat
         /\ Cardinality(Proc) \in Nat /\ Cardinality(RunningOf(u)) <= Cardinality(Proc)
<1>1. RunningOf(u) \subseteq Proc
  BY DEF RunningOf
<1> QED BY <1>1, ProcAssumption, FS_Subset, FS_CardinalityType

\* A budget that is not drawn upon is kept.
LEMMA BudgetKept ==
  ASSUME NEW u, Budget(u), Counted(u)' \subseteq Counted(u), RunningOf(u)' \subseteq RunningOf(u)
  PROVE  Budget(u)'
<1>1. /\ IsFiniteSet(Counted(u)') /\ Cardinality(Counted(u)') <= Cardinality(Counted(u))
      /\ Cardinality(Counted(u)) \in Nat /\ Cardinality(Counted(u)') \in Nat
  BY FS_Subset, FS_CardinalityType DEF Budget
<1>2. /\ Cardinality(RunningOf(u)') <= Cardinality(RunningOf(u))
      /\ Cardinality(RunningOf(u)) \in Nat /\ Cardinality(RunningOf(u)') \in Nat
  BY RunningFinite, FS_Subset, FS_CardinalityType
<1>3. Cardinality(Proc) \in Nat /\ Limit \in Nat
  BY ProcAssumption, FS_CardinalityType, LimitAssumption
<1> QED BY <1>1, <1>2, <1>3 DEF Budget

LEMMA InitInv == Init => Inv
<1> SUFFICES ASSUME Init PROVE Inv
  OBVIOUS
<1>1. Shape
  BY DEF Init, Shape, NoWrites, NoRequest, Writes, Request
<1>2. ASSUME NEW p \in Proc PROVE Handler(p)
  BY DEF Init, Handler, Running
<1>3. Apart
  BY DEF Init, Apart, Running
<1>4. Tables
  BY DEF Init, Tables, Recorded, RowsAtomic, RowsIndependent, Stored
<1>5. ASSUME NEW u \in User PROVE Budget(u)
  <2>1. Counted(u) = {}
    BY DEF Init, Counted, Stored
  <2>2. RunningOf(u) = {}
    BY DEF Init, RunningOf, Running
  <2>3. Cardinality(Proc) \in Nat
    BY ProcAssumption, FS_CardinalityType
  <2> QED BY <2>1, <2>2, <2>3, FS_EmptySet, LimitAssumption DEF Budget
<1> QED BY <1>1, <1>2, <1>3, <1>4, <1>5 DEF Inv

-----------------------------------------------------------------------------
(* Steps of a running handler that stays at work.                          *)

\* p goes on with its import, and nothing that others see changes.
Works(p) ==
    /\ Running(p) /\ Running(p)'
    /\ req'[p].user = req[p].user /\ req'[p].id = req[p].id
    /\ \A q \in Proc \ {p} : pc'[q] = pc[q] /\ req'[q] = req[q] /\ write'[q] = write[q]
    /\ UNCHANGED <<genres, sessions, books, authors, aged, input>>

LEMMA WorkKept ==
  ASSUME Inv, NEW p \in Proc, Works(p), Shape', Position(p)', Inserted(p)'
  PROVE  Inv'
<1>1. Handler(p)'
  BY DEF Inv, Handler, Works, Running, Unfinished, Stored
<1>2. ASSUME NEW q \in Proc, q # p PROVE Handler(q)'
  <2>1. /\ Handler(q) /\ pc'[q] = pc[q] /\ req'[q] = req[q] /\ write'[q] = write[q]
        /\ UNCHANGED <<sessions, books, input>>
    BY <1>2 DEF Inv, Works
  <2>2. Position(q)' = Position(q) /\ Inserted(q)' = Inserted(q)
    BY <2>1 DEF Position, Inserted
  <2>3. Unfinished(q)' = Unfinished(q) /\ Running(q)' = Running(q)
    BY <2>1 DEF Unfinished, Running, Stored
  <2> QED BY <2>1, <2>2, <2>3 DEF Handler
<1>3. Apart'
  BY DEF Inv, Apart, Works, Running
<1>4. Tables'
  BY DEF Inv, Tables, Recorded, RowsAtomic, RowsIndependent, Stored, Works
<1>5. ASSUME NEW u \in User PROVE Budget(u)'
  <2>1. Counted(u)' = Counted(u)
    BY DEF Counted, Stored, Works
  <2>2. RunningOf(u)' = RunningOf(u)
    BY DEF RunningOf, Works, Running
  <2> QED BY <2>1, <2>2, BudgetKept DEF Inv
<1> QED BY <1>1, <1>2, <1>3, <1>4, <1>5 DEF Inv

LEMMA SessionKept ==
  ASSUME Inv, NEW p \in Proc, OpenSession(p) \/ CloseSession(p) \/ RespondFirst(p)
  PROVE  Inv'
<1>1. Handler(p) /\ Running(p)
  BY DEF Inv, OpenSession, CloseSession, RespondFirst, Running
<1>2. Works(p)
  BY DEF Works, Running, OpenSession, CloseSession, RespondFirst, Continue, Inv, Shape
<1>3. Shape'
  BY <1>1 DEF OpenSession, CloseSession, RespondFirst, Continue, Inv, Shape, Handler, Unfinished
<1>4. Position(p)' /\ Inserted(p)'
  BY <1>1 DEF Handler, Position, Inserted, OpenSession, CloseSession, RespondFirst, Continue,
              Inv, Shape
<1> QED BY <1>2, <1>3, <1>4, WorkKept

\* A file that parses is a sequence of rows.
LEMMA FileRows ==
  ASSUME NEW f \in File, f # Unparsable
  PROVE  f \in Seq(Kind) /\ Len(f) \in Nat
BY FileAssumption

LEMMA ParseSucceedsKept ==
  ASSUME Inv, NEW p \in Proc, ParseSucceeds(p)
  PROVE  Inv'
<1>1. Handler(p) /\ Running(p) /\ pc[p] = "parse" /\ input[req[p].id] # Unparsable
  BY DEF Inv, ParseSucceeds, Running
<1>2. Len(input[req[p].id]) \in Nat
  BY <1>1, FileRows DEF Handler, Unfinished
<1>3. Shape' /\ Works(p)
  <2>1. [req[p] EXCEPT !.row = 1] \in Request
    BY DEF Inv, Shape, Request
  <2>2. /\ req' = [req EXCEPT ![p] = [req[p] EXCEPT !.row = 1]]
        /\ pc' = [pc EXCEPT ![p] = pc'[p]] /\ pc'[p] \in {"close", "row"}
        /\ UNCHANGED <<genres, sessions, books, authors, aged, input, write, answered>>
    BY DEF ParseSucceeds, ToRow, Continue, Inv, Shape
  <2>3. Shape'
    BY <2>1, <2>2 DEF Inv, Shape
  <2>4. req'[p].user = req[p].user /\ req'[p].id = req[p].id
    BY <2>2 DEF Inv, Shape, Request
  <2> QED BY <1>1, <2>2, <2>3, <2>4 DEF Inv, Shape, Works, Running
<1>4. Position(p)' /\ Inserted(p)'
  BY <1>1, <1>2
     DEF Handler, Position, Inserted, ParseSucceeds, ToRow, Continue, Inv, Shape, NoWrites
<1> QED BY <1>3, <1>4, WorkKept

\* Going on to the next row, with the right rows inserted so far.
LEMMA NextRowKept ==
  ASSUME Inv, NEW p \in Proc, pc[p] \in {"row", "book"},
         UNCHANGED <<genres, sessions, books, authors, aged, input, answered>>,
         NEW r \in Request, r.user = req[p].user, r.id = req[p].id,
         ToRow(p, req[p].row + 1, r),
         write' \in [Proc -> Writes],
         \A q \in Proc \ {p} : write'[q] = write[q],
         write'[p].authors \subseteq write'[p].books,
         \/ write'[p].books = write[p].books
            /\ input[req[p].id][req[p].row] \notin {"plain", "blank"}
         \/ write'[p].books = write[p].books \cup {req[p].row}
            /\ input[req[p].id][req[p].row] \notin {"invalid", "long"}
  PROVE  Inv'
<1> DEFINE f == input[req[p].id]
           n == req[p].row
           bs == write'[p].books
           next == IF n + 1 > Len(f) THEN "close" ELSE "row"
<1>1. Handler(p) /\ Running(p) /\ f # Unparsable /\ n \in 1..Len(f) /\ f \in File
  BY DEF Inv, Running, Handler, Position, Unfinished
<1>2. f \in Seq(Kind) /\ Len(f) \in Nat
  BY <1>1, FileRows
<1>3. req' = [req EXCEPT ![p] = [r EXCEPT !.row = n + 1]] /\ pc' = [pc EXCEPT ![p] = next]
  BY <1>1 DEF ToRow, Continue, Inv, Shape
<1>4. [r EXCEPT !.row = n + 1] \in Request
  <2>1. n + 1 \in Nat
    BY <1>1, <1>2
  <2> HIDE DEF n
  <2> QED BY <2>1 DEF Request
<1>5. Shape'
  BY <1>3, <1>4 DEF Inv, Shape
<1>6. /\ req'[p].row = n + 1 /\ req'[p].id = req[p].id /\ req'[p].user = req[p].user
      /\ pc'[p] = next /\ input' = input
  BY <1>3 DEF Inv, Shape, Request
<1>7. Works(p)
  <2>1. \A q \in Proc \ {p} : pc'[q] = pc[q] /\ req'[q] = req[q]
    BY <1>3 DEF Inv, Shape
  <2> QED BY <1>1, <1>6, <2>1 DEF Works, Running
<1>8. Position(p)'
  BY <1>1, <1>2, <1>6 DEF Position
<1>9. Inserted(p)
  BY <1>1 DEF Handler
<1>10. bs \subseteq 1..n
  BY <1>1, <1>2, <1>9 DEF Inserted
<1>11. ASSUME NEW k \in 1..n
       PROVE  /\ f[k] \in {"plain", "blank"} => k \in bs
              /\ f[k] \in {"invalid", "long"} => k \notin bs
  <2>1. CASE k = n
    <3>1. n \notin write[p].books
      BY <1>1, <1>2, <1>9 DEF Inserted
    <3> QED BY <2>1, <3>1
  <2>2. CASE k # n
    <3>1. k \in 1..(n - 1)
      BY <1>1, <1>2, <2>2
    <3> QED BY <3>1, <2>2, <1>9 DEF Inserted
  <2> QED BY <2>1, <2>2
<1>12. Inserted(p)'
  <2>1. req'[p].row - 1 = n
    BY <1>1, <1>2, <1>6
  <2>2. pc'[p] \notin {"authors", "book"} /\ input'[req'[p].id] = f
    BY <1>6
  <2> HIDE DEF f, n, next
  <2> QED BY <1>10, <1>11, <2>1, <2>2 DEF Inserted
<1> QED BY <1>5, <1>7, <1>8, <1>12, WorkKept

LEMMA FailRowKept ==
  ASSUME Inv, NEW p \in Proc, pc[p] \in {"row", "book"}, FailRow(p),
         UNCHANGED <<genres, sessions, books, authors, aged, input, answered>>,
         input[req[p].id][req[p].row] \notin {"plain", "blank"}
  PROVE  Inv'
<1> DEFINE r == [req[p] EXCEPT !.failed = @ + 1, !.errors = StoreError(@, req[p].row)]
<1>1. req[p] \in Request /\ write[p] \in Writes
  BY DEF Inv, Shape
<1>2. StoreError(req[p].errors, req[p].row) \in Seq(Nat)
  BY <1>1 DEF StoreError, Request
<1>3. r \in Request /\ r.user = req[p].user /\ r.id = req[p].id
  <2> DEFINE errors == StoreError(req[p].errors, req[p].row)
             failed == [req[p] EXCEPT !.failed = @ + 1]
  <2>1. failed \in Request /\ failed.user = req[p].user /\ failed.id = req[p].id
        /\ failed.errors = req[p].errors
    BY <1>1 DEF Request
  <2>2. r = [failed EXCEPT !.errors = errors]
    BY <1>1, <2>1
  <2> HIDE DEF errors, failed, r
  <2>3. ASSUME NEW x \in Request, NEW es \in Seq(Nat), NEW y, y = [x EXCEPT !.errors = es]
        PROVE  y \in Request /\ y.user = x.user /\ y.id = x.id
    BY <2>3 DEF Request
  <2>4. failed \in Request /\ errors \in Seq(Nat)
    BY <1>2, <2>1 DEF errors
  <2>5. r \in Request /\ r.user = failed.user /\ r.id = failed.id
    BY <2>2, <2>3, <2>4
  <2> QED BY <2>1, <2>5
<1>4. ToRow(p, req[p].row + 1, r)
  BY DEF FailRow
<1>5. /\ write' \in [Proc -> Writes]
      /\ \A q \in Proc \ {p} : write'[q] = write[q]
      /\ write'[p].books = write[p].books
      /\ write'[p].authors = write[p].authors \ {req[p].row}
  BY <1>1 DEF FailRow, Inv, Shape, Writes
<1>6. write'[p].authors \subseteq write'[p].books
  BY <1>5 DEF Inv, Handler, Running, Inserted
<1> HIDE DEF r
<1> QED BY <1>3, <1>4, <1>5, <1>6, NextRowKept

LEMMA ValidateRowKept ==
  ASSUME Inv, NEW p \in Proc, ValidateRow(p)
  PROVE  Inv'
<1>1. pc[p] = "row" /\ UNCHANGED <<genres, sessions, books, authors, aged, input, answered>>
  BY DEF ValidateRow
<1>2. CASE RowKind(p) = "invalid" \/ RowKind(p) \in Genre \ genres
  BY <1>1, <1>2, FailRowKept, GenreAssumption DEF ValidateRow, RowKind
<1>3. CASE ~(RowKind(p) = "invalid" \/ RowKind(p) \in Genre \ genres)
  <2>1. Continue(p, "authors") /\ UNCHANGED <<write, req>>
    BY <1>3 DEF ValidateRow
  <2>2. Shape' /\ Works(p)
    BY <1>1, <2>1 DEF Continue, Inv, Shape, Works, Running
  <2>3. Handler(p) /\ Running(p)
    BY <1>1 DEF Inv, Running
  <2>4. Position(p)' /\ Inserted(p)'
    BY <1>1, <1>3, <2>1, <2>3 DEF Handler, Position, Inserted, Continue, RowKind, Inv, Shape
  <2> QED BY <2>2, <2>4, WorkKept
<1> QED BY <1>2, <1>3

LEMMA CreateAuthorsKept ==
  ASSUME Inv, NEW p \in Proc, CreateAuthors(p)
  PROVE  Inv'
<1>1. pc[p] = "authors" /\ Handler(p) /\ Running(p)
  BY DEF CreateAuthors, Inv, Running
<1>2. Shape' /\ Works(p)
  <2>1. write[p] \in Writes /\ req[p].row \in Nat
    BY DEF Inv, Shape, Request
  <2>2. write' \in [Proc -> Writes] /\ \A q \in Proc \ {p} : write'[q] = write[q]
    BY <2>1 DEF CreateAuthors, Inv, Shape, Writes
  <2> QED BY <1>1, <2>2 DEF CreateAuthors, Continue, Inv, Shape, Works, Running
<1>3. /\ write'[p].books = write[p].books
      /\ write'[p].authors \subseteq write[p].authors \cup {req[p].row}
      /\ pc'[p] = "book" /\ UNCHANGED <<req, input>>
  BY DEF CreateAuthors, Continue, Inv, Shape, Writes
<1>4. Position(p)' /\ Inserted(p)'
  BY <1>1, <1>3 DEF Handler, Position, Inserted
<1> QED BY <1>2, <1>4, WorkKept

LEMMA InsertBookKept ==
  ASSUME Inv, NEW p \in Proc, InsertBook(p)
  PROVE  Inv'
<1>1. /\ pc[p] = "book" /\ Handler(p) /\ Running(p)
      /\ UNCHANGED <<genres, sessions, books, authors, aged, input, answered>>
  BY DEF InsertBook, Inv, Running
<1>2. CASE RowKind(p) = "long" \/ RowKind(p) \in Genre \ genres
  BY <1>1, <1>2, FailRowKept, GenreAssumption DEF InsertBook, RowKind
<1>3. CASE ~(RowKind(p) = "long" \/ RowKind(p) \in Genre \ genres)
  <2> DEFINE r == [req[p] EXCEPT !.successful = @ + 1]
  <2>1. req[p] \in Request /\ write[p] \in Writes /\ req[p].row \in Nat
    BY DEF Inv, Shape, Request
  <2>2. r \in Request /\ r.user = req[p].user /\ r.id = req[p].id
    BY <2>1 DEF Request
  <2>3. ToRow(p, req[p].row + 1, r)
    BY <1>3 DEF InsertBook
  <2>4. /\ write' \in [Proc -> Writes]
        /\ \A q \in Proc \ {p} : write'[q] = write[q]
        /\ write'[p].books = write[p].books \cup {req[p].row}
        /\ write'[p].authors = write[p].authors
    BY <1>3, <2>1 DEF InsertBook, Inv, Shape, Writes
  <2>5. write'[p].authors \subseteq write'[p].books
    BY <1>1, <2>4 DEF Handler, Inserted
  <2>6. input[req[p].id][req[p].row] \notin {"invalid", "long"}
    BY <1>1, <1>3 DEF Handler, Inserted, RowKind
  <2> HIDE DEF r
  <2> QED BY <1>1, <2>2, <2>3, <2>4, <2>5, <2>6, NextRowKept
<1> QED BY <1>2, <1>3

-----------------------------------------------------------------------------
(* An import begins and ends.                                              *)

LEMMA RateLimitPassedKept ==
  ASSUME Inv, NEW p \in Proc, NEW u \in User, NEW i \in Import, NEW f \in File,
         RateLimitPassed(p, u, i, f)
  PROVE  Inv'
<1> DEFINE r == [NoRequest EXCEPT !.user = u, !.id = i]
<1>1. /\ pc[p] = "idle" /\ input[i] = NoFile /\ Cardinality(Counted(u)) < Limit
      /\ input' = [input EXCEPT ![i] = f] /\ req' = [req EXCEPT ![p] = r]
      /\ pc' = [pc EXCEPT ![p] = "open"]
      /\ UNCHANGED <<genres, sessions, books, authors, aged, write, answered>>
  BY DEF RateLimitPassed, Continue
<1>2. r \in Request /\ r.user = u /\ r.id = i /\ r.row = 0
  <2>1. NoRequest \in Request /\ NoRequest.row = 0
    BY DEF NoRequest, Request
  <2> QED BY <2>1 DEF Request
<1> HIDE DEF r
<1>3. Shape'
  BY <1>1, <1>2 DEF Inv, Shape
<1>4. ~Stored(i)
  BY <1>1, NullsAssumption DEF Inv, Tables, Recorded
<1>5. write[p] = NoWrites
  BY <1>1 DEF Inv, Handler, Running
<1>6. req'[p] = r /\ pc'[p] = "open" /\ input'[i] = f /\ write'[p] = NoWrites
  BY <1>1, <1>5 DEF Inv, Shape
<1>7. Handler(p)'
  <2>1. Unfinished(p)'
    BY <1>1, <1>2, <1>4, <1>6 DEF Unfinished, Stored
  <2>2. Position(p)' /\ Inserted(p)'
    <3>1. 1..(r.row - 1) = {}
      BY <1>2
    <3> QED BY <1>2, <1>6, <3>1 DEF Position, Inserted, NoWrites
  <2> QED BY <1>6, <2>1, <2>2 DEF Handler, Running
<1>8. ASSUME NEW q \in Proc, q # p, Running(q) PROVE req[q].id \in Import \ {i}
  BY <1>1, <1>8, NullsAssumption DEF Inv, Handler, Unfinished
<1>9. ASSUME NEW q \in Proc, q # p PROVE Handler(q)'
  <2>1. pc'[q] = pc[q] /\ req'[q] = req[q] /\ write'[q] = write[q]
    BY <1>1, <1>9 DEF Inv, Shape
  <2>2. Running(q) => input'[req[q].id] = input[req[q].id]
    BY <1>1, <1>8, <1>9 DEF Inv, Shape
  <2> QED BY <1>1, <2>1, <2>2
          DEF Inv, Handler, Running, Unfinished, Position, Inserted, Stored
<1>10. Apart'
  BY <1>1, <1>2, <1>6, <1>8 DEF Inv, Apart, Running, Shape
<1>11. Tables'
  <2>1. ASSUME NEW j \in Import, input'[j] # input[j] PROVE j = i
    BY <1>1, <2>1 DEF Inv, Shape
  <2> QED BY <1>1, <1>4, <2>1, NullsAssumption
          DEF Inv, Tables, Recorded, RowsAtomic, RowsIndependent, Stored,
              Shape
<1>12. ASSUME NEW v \in User PROVE Budget(v)'
  <2>1. Counted(v)' = Counted(v)
    BY <1>1 DEF Counted, Stored
  <2>2. CASE v = u
    <3>1. Cardinality(RunningOf(v)') <= Cardinality(Proc) /\ Cardinality(RunningOf(v)') \in Nat
      <4>1. RunningOf(v)' \subseteq Proc
        BY DEF RunningOf
      <4> QED BY <4>1, ProcAssumption, FS_Subset, FS_CardinalityType
    <3>2. IsFiniteSet(Counted(v)) /\ Cardinality(Counted(v)) \in Nat
      BY FS_CardinalityType DEF Inv, Budget
    <3>3. Cardinality(Proc) \in Nat /\ Cardinality(Counted(v)) < Limit
      BY <1>1, <2>2, ProcAssumption, FS_CardinalityType
    <3> QED BY <2>1, <3>1, <3>2, <3>3, LimitAssumption DEF Budget
  <2>3. CASE v # u
    <3>1. RunningOf(v)' \subseteq RunningOf(v)
      BY <1>1, <1>2, <1>6, <2>3 DEF RunningOf, Running, Inv, Shape
    <3> QED BY <2>1, <3>1, BudgetKept DEF Inv
  <2> QED BY <2>2, <2>3
<1> QED BY <1>3, <1>7, <1>9, <1>10, <1>11, <1>12 DEF Inv

\* p has nothing left to commit, and nobody else has moved.
Leaves(p) ==
    /\ write' \in [Proc -> Writes]
    /\ pc' \in [Proc -> {"idle", "open", "parse", "row", "authors", "book", "close", "finish",
                         "respond", "commit"}]
    /\ req' \in [Proc -> Request]
    /\ ~Running(p)' /\ Handler(p)'
    /\ \A q \in Proc \ {p} : pc'[q] = pc[q] /\ req'[q] = req[q] /\ write'[q] = write[q]

LEMMA EndedLeaves ==
  ASSUME Inv, NEW p \in Proc, Ended(p)
  PROVE  Leaves(p)
BY DEF Inv, Shape, Leaves, Ended, Continue, Handler, Running, NoRequest, NoWrites, Request,
       Writes

LEMMA LeavesApart ==
  ASSUME Inv, NEW p \in Proc, Leaves(p)
  PROVE  Apart'
BY DEF Inv, Apart, Leaves, Running

\* A request that ends without a commit, or after it.
LEMMA RollbackKept ==
  ASSUME Inv, NEW p \in Proc, Rollback(p), answered' \subseteq Import
  PROVE  Inv'
<1>1. Leaves(p) /\ UNCHANGED <<genres, sessions, books, authors, aged, input>>
  BY EndedLeaves DEF Rollback
<1>2. Shape'
  BY <1>1 DEF Inv, Shape, Leaves
<1>3. ASSUME NEW q \in Proc, q # p PROVE Handler(q)'
  <2>1. pc'[q] = pc[q] /\ req'[q] = req[q] /\ write'[q] = write[q]
    BY <1>1, <1>3 DEF Leaves
  <2> QED BY <1>1, <2>1 DEF Inv, Handler, Running, Unfinished, Position, Inserted, Stored
<1>4. Tables'
  BY <1>1 DEF Inv, Tables, Recorded, RowsAtomic, RowsIndependent, Stored
<1>5. ASSUME NEW u \in User PROVE Budget(u)'
  <2>1. Counted(u)' = Counted(u)
    BY <1>1 DEF Counted, Stored
  <2>2. RunningOf(u)' \subseteq RunningOf(u)
    BY <1>1 DEF RunningOf, Running, Leaves
  <2> QED BY <2>1, <2>2, BudgetKept DEF Inv
<1>6. Handler(p)' /\ Apart'
  BY <1>1, LeavesApart DEF Leaves
<1> QED BY <1>2, <1>3, <1>4, <1>5, <1>6 DEF Inv

\* The imports that end with a rollback, with the answer that the file does not parse, or with
\* the response to what has been committed.
LEMMA EndKept ==
  ASSUME Inv, NEW p \in Proc, ParseFails(p) \/ RespondLast(p) \/ Abort(p)
  PROVE  Inv'
<1>1. Rollback(p) /\ pc[p] # "idle"
  BY DEF ParseFails, RespondLast, Abort, Rollback
<1>2. req[p].id \in Import
  BY <1>1 DEF Inv, Handler, Running, Unfinished
<1>3. answered' \subseteq answered \cup {req[p].id}
  BY DEF ParseFails, RespondLast, Abort
<1> QED BY <1>1, <1>2, <1>3, RollbackKept DEF Inv, Shape

LEMMA CommitKept ==
  ASSUME Inv, NEW p \in Proc, pc[p] \in {"finish", "commit"}, Commit(p), Leaves(p),
         UNCHANGED answered
  PROVE  Inv'
<1> DEFINE i == req[p].id
           f == input[i]
           w == write[p]
           session == [user |-> req[p].user, received |-> req[p].row - 1,
                       successful |-> req[p].successful, failed |-> req[p].failed,
                       errors |-> req[p].errors]
<1>1. /\ sessions' = [sessions EXCEPT ![i] = session]
      /\ books' = books \cup Rows(p, w.books)
      /\ authors' = authors \cup Rows(p, w.authors)
      /\ UNCHANGED <<genres, aged, input>>
  BY DEF Commit
<1>2. /\ Running(p) /\ Unfinished(p) /\ Inserted(p)
      /\ f \in File /\ f # Unparsable /\ req[p].row = Len(f) + 1 /\ i \in Import
  BY DEF Inv, Running, Handler, Position, Unfinished
<1>3. f \in Seq(Kind) /\ Len(f) \in Nat
  BY <1>2, FileRows
<1>4. /\ w.books \subseteq 1..Len(f) /\ w.authors \subseteq w.books
      /\ \A n \in 1..Len(f) : /\ f[n] \in {"plain", "blank"} => n \in w.books
                              /\ f[n] \in {"invalid", "long"} => n \notin w.books
  BY <1>2, <1>3 DEF Inserted
<1>5. session \in Report
  BY <1>2, <1>3 DEF Inv, Shape, Report, Unfinished, Request
<1> HIDE DEF session
<1>6. sessions'[i] # NoSession /\ \A j \in Import \ {i} : sessions'[j] = sessions[j]
  BY <1>1, <1>2, <1>5, NoSessionAssumption DEF Inv, Shape, Stored
<1>7. Shape'
  <2>1. sessions' \in [Import -> Report \cup {NoSession}]
    BY <1>1, <1>5 DEF Inv, Shape
  <2>2. Rows(p, w.books) \cup Rows(p, w.authors) \subseteq Import \X Nat
    BY <1>2, <1>3, <1>4 DEF Rows
  <2> QED BY <1>1, <2>1, <2>2 DEF Inv, Shape, Leaves
<1>8. ASSUME NEW q \in Proc, q # p PROVE Handler(q)'
  <2>1. pc'[q] = pc[q] /\ req'[q] = req[q] /\ write'[q] = write[q]
    BY <1>8 DEF Leaves
  <2>2. Running(q) => req[q].id # i
    BY <1>2, <1>8 DEF Inv, Apart
  <2> QED BY <1>1, <1>6, <2>1, <2>2
          DEF Inv, Handler, Running, Unfinished, Position, Inserted, Stored
<1>9. \A n : <<i, n>> \notin books
  <2> SUFFICES ASSUME NEW n, <<i, n>> \in books PROVE FALSE
    OBVIOUS
  <2>1. Stored(<<i, n>>[1])
    BY DEF Inv, Tables, RowsAtomic
  <2> QED BY <1>2, <2>1 DEF Unfinished
<1>10. \A n : <<i, n>> \in books' <=> n \in w.books
  BY <1>1, <1>9 DEF Rows
<1>11. \A j \in Import \ {i} : \A n : <<j, n>> \in books' <=> <<j, n>> \in books
  BY <1>1 DEF Rows
<1>12. Tables'
  <2>1. Recorded'
    BY <1>1, <1>2, <1>6 DEF Inv, Tables, Recorded, Stored
  <2>2. RowsAtomic'
    <3>1. authors' \subseteq books'
      BY <1>1, <1>4 DEF Inv, Tables, RowsAtomic, Rows
    <3>2. ASSUME NEW b \in books' PROVE Stored(b[1])'
      <4>1. CASE b \in books
        <5>1. b[1] \in Import /\ Stored(b[1])
          BY <4>1 DEF Inv, Tables, RowsAtomic, Shape
        <5> QED BY <1>6, <5>1 DEF Stored
      <4>2. CASE b \in Rows(p, w.books)
        <5>1. b[1] = i
          BY <4>2 DEF Rows
        <5> QED BY <1>6, <5>1 DEF Stored
      <4> QED BY <1>1, <4>1, <4>2
    <3> QED BY <3>1, <3>2 DEF RowsAtomic
  <2>3. RowsIndependent'
    <3> SUFFICES ASSUME NEW j \in Import, Stored(j)', NEW n \in 1..Len(input'[j])
                 PROVE  /\ input'[j][n] \in {"plain", "blank"} => <<j, n>> \in books'
                        /\ input'[j][n] \in {"invalid", "long"} => <<j, n>> \notin books'
      BY DEF RowsIndependent
    <3>1. CASE j = i
      BY <1>1, <1>4, <1>10, <3>1
    <3>2. CASE j # i
      <4>1. Stored(j) /\ input'[j] = input[j]
        BY <1>1, <1>6, <3>2 DEF Stored
      <4> QED BY <1>11, <3>2, <4>1 DEF Inv, Tables, RowsIndependent
    <3> QED BY <3>1, <3>2
  <2> QED BY <2>1, <2>2, <2>3 DEF Tables
<1>13. ASSUME NEW u \in User PROVE Budget(u)'
  <2>1. RunningOf(u)' = RunningOf(u) \ {p}
    BY DEF RunningOf, Running, Leaves
  <2>2. CASE u = req[p].user
    <3>1. Counted(u)' \subseteq Counted(u) \cup {i}
      BY <1>1, <1>6 DEF Counted, Stored
    <3>2. p \in RunningOf(u)
      BY <1>2, <2>2 DEF RunningOf
    <3>3. IsFiniteSet(Counted(u)) /\ Cardinality(Counted(u)) \in Nat
      BY FS_CardinalityType DEF Inv, Budget
    <3>4. /\ IsFiniteSet(Counted(u) \cup {i})
          /\ Cardinality(Counted(u) \cup {i}) <= Cardinality(Counted(u)) + 1
          /\ Cardinality(Counted(u) \cup {i}) \in Nat
      <4>1. /\ IsFiniteSet(Counted(u) \cup {i})
            /\ \/ Cardinality(Counted(u) \cup {i}) = Cardinality(Counted(u)) + 1
               \/ Cardinality(Counted(u) \cup {i}) = Cardinality(Counted(u))
        <5> HIDE DEF i
        <5> QED BY <3>3, FS_AddElement
      <4> QED BY <3>3, <4>1
    <3>5. /\ IsFiniteSet(Counted(u)')
          /\ Cardinality(Counted(u)') <= Cardinality(Counted(u) \cup {i})
          /\ Cardinality(Counted(u)') \in Nat
      BY <3>1, <3>4, FS_Subset, FS_CardinalityType
    <3>6. /\ Cardinality(RunningOf(u)') = Cardinality(RunningOf(u)) - 1
          /\ Cardinality(RunningOf(u)) \in Nat
      BY <2>1, <3>2, RunningFinite, FS_RemoveElement
    <3>7. Cardinality(Counted(u)) + Cardinality(RunningOf(u)) <= Limit - 1 + Cardinality(Proc)
      BY DEF Inv, Budget
    <3>8. Limit \in Nat /\ Cardinality(Proc) \in Nat
      BY LimitAssumption, ProcAssumption, FS_CardinalityType
    <3> QED BY <3>3, <3>4, <3>5, <3>6, <3>7, <3>8 DEF Budget
  <2>3. CASE u # req[p].user
    <3>1. Counted(u)' \subseteq Counted(u)
      <4>1. ~(i \in Counted(u)')
        <5>1. sessions'[i].user = req[p].user
          BY <1>1, <1>2 DEF Inv, Shape, session
        <5> QED BY <2>3, <5>1 DEF Counted
      <4> QED BY <1>1, <1>6, <4>1 DEF Counted, Stored
    <3> QED BY <2>1, <3>1, BudgetKept DEF Inv
  <2> QED BY <2>2, <2>3
<1>14. Handler(p)' /\ Apart'
  BY LeavesApart DEF Leaves
<1> QED BY <1>7, <1>8, <1>12, <1>13, <1>14 DEF Inv

\* Both orders commit the same rows; the one that responds later keeps its request till then.
LEMMA CommitLeaves ==
  ASSUME Inv, NEW p \in Proc, CommitFirst(p) \/ CommitLast(p)
  PROVE  /\ pc[p] \in {"finish", "commit"}
         /\ Commit(p) /\ Leaves(p) /\ UNCHANGED answered
<1>1. CASE CommitLast(p)
  BY <1>1, EndedLeaves DEF CommitLast
<1>2. CASE CommitFirst(p)
  <2>1. pc[p] = "finish" /\ Commit(p) /\ UNCHANGED <<req, answered>>
        /\ write' = [write EXCEPT ![p] = NoWrites] /\ pc' = [pc EXCEPT ![p] = "respond"]
    BY <1>2 DEF CommitFirst, Continue
  <2>2. Unfinished(p)
    BY <2>1 DEF Inv, Handler, Running
  <2> QED BY <2>1, <2>2
          DEF Inv, Shape, Leaves, Handler, Running, Unfinished, NoWrites, Writes
<1> QED BY <1>1, <1>2

LEMMA RestKept ==
  ASSUME Inv,
         \/ \E i \in Import : Age(i)
         \/ \E g \in Genre : CreateGenre(g) \/ DeleteGenre(g)
         \/ UNCHANGED vars
  PROVE  Inv'
<1>1. /\ UNCHANGED <<sessions, books, authors, input, write, pc, req, answered>>
      /\ aged \subseteq aged' /\ aged' \subseteq Import
      /\ genres' \subseteq Genre
  BY DEF Age, CreateGenre, DeleteGenre, vars, Inv, Shape
<1>2. Shape'
  BY <1>1 DEF Inv, Shape
<1>3. ASSUME NEW p \in Proc PROVE Handler(p)'
  BY <1>1 DEF Inv, Handler, Running, Unfinished, Position, Inserted, Stored
<1>4. Apart'
  BY <1>1 DEF Inv, Apart, Running
<1>5. Tables'
  BY <1>1 DEF Inv, Tables, Recorded, RowsAtomic, RowsIndependent, Stored
<1>6. ASSUME NEW u \in User PROVE Budget(u)'
  <2>1. Counted(u)' \subseteq Counted(u) /\ RunningOf(u)' = RunningOf(u)
    BY <1>1 DEF Counted, Stored, RunningOf, Running
  <2> QED BY <2>1, BudgetKept DEF Inv
<1> QED BY <1>2, <1>3, <1>4, <1>5, <1>6 DEF Inv

LEMMA NextInv == Inv /\ [Next]_vars => Inv'
<1> SUFFICES ASSUME Inv, [Next]_vars PROVE Inv'
  OBVIOUS
<1>1. CASE UNCHANGED vars
  BY <1>1, RestKept
<1>2. ASSUME NEW p \in Proc, Handle(p) PROVE Inv'
  <2>1. CASE CommitFirst(p) \/ CommitLast(p)
    BY <2>1, CommitLeaves, CommitKept
  <2> QED BY <1>2, <2>1, SessionKept, ParseSucceedsKept, ValidateRowKept, CreateAuthorsKept,
             InsertBookKept, EndKept DEF Handle
<1>3. ASSUME NEW p \in Proc, NEW u \in User, NEW i \in Import, NEW f \in File,
             RateLimitPassed(p, u, i, f)
      PROVE  Inv'
  BY <1>3, RateLimitPassedKept
<1>4. ASSUME NEW p \in Proc, ImportRefused(p) PROVE Inv'
  BY <1>4, RestKept DEF ImportRefused
<1>5. CASE \/ \E i \in Import : Age(i)
           \/ \E g \in Genre : CreateGenre(g) \/ DeleteGenre(g)
  BY <1>5, RestKept
<1> QED BY <1>1, <1>2, <1>3, <1>4, <1>5 DEF Next

-----------------------------------------------------------------------------
(* Theorems.                                                               *)

\* The invariant that every theorem below rests on.
THEOREM ImportInvariant == Spec => []Inv
BY InitInv, NextInv, PTL DEF Spec

LEMMA InvTypeOK == Inv => TypeOK
<1> SUFFICES ASSUME Inv PROVE TypeOK
  OBVIOUS
<1>1. ASSUME NEW p \in Proc
      PROVE  /\ write[p].books \cup write[p].authors \subseteq 1..req[p].row
             /\ IF pc[p] = "idle" THEN req[p] = NoRequest /\ write[p] = NoWrites
                ELSE req[p].user \in User /\ req[p].id \in Import
  <2>1. Handler(p) /\ req[p].row \in Nat
    BY DEF Inv, Shape, Request
  <2>2. CASE ~Running(p)
    BY <2>1, <2>2 DEF Handler, Running, NoWrites, NoRequest
  <2>3. CASE Running(p)
    <3>1. Unfinished(p) /\ Position(p) /\ Inserted(p)
      BY <2>1, <2>3 DEF Handler
    <3>2. pc[p] = "book" => req[p].row >= 1
      <4> SUFFICES ASSUME pc[p] = "book" PROVE req[p].row >= 1
        OBVIOUS
      <4>1. Len(input[req[p].id]) \in Nat
        BY <3>1, FileRows DEF Unfinished, Position
      <4> QED BY <3>1, <4>1 DEF Position
    <3> QED BY <2>1, <2>3, <3>1, <3>2 DEF Inserted, Unfinished, Running
  <2> QED BY <2>2, <2>3
<1> QED BY <1>1 DEF Inv, Shape, TypeOK

\* Every variable keeps its type, and an idle handler has left nothing behind.
THEOREM ImportTypeCorrect == Spec => []TypeOK
BY ImportInvariant, InvTypeOK, PTL

\* No author is stored without the book of its row, no book without its session: savepoints,
\* failing rows and the one commit of the request compose.
THEOREM RowsAtomicHolds == Spec => []RowsAtomic
<1>1. Inv => RowsAtomic
  BY DEF Inv, Tables
<1> QED BY <1>1, ImportInvariant, PTL

\* In every committed import each row has fared as it would have alone.
THEOREM RowsIndependentHolds == Spec => []RowsIndependent
<1>1. Inv => RowsIndependent
  BY DEF Inv, Tables
<1> QED BY <1>1, ImportInvariant, PTL

\* However many imports a user starts at a time, the hour holds at most the limit, less one,
\* and one for each handler.
THEOREM RateBoundHolds == Spec => []RateBound
<1>1. Inv => RateBound
  <2> SUFFICES ASSUME Inv, NEW u \in User
               PROVE  Cardinality(Counted(u)) <= Limit - 1 + Cardinality(Proc)
    BY DEF RateBound
  <2>1. Budget(u) /\ Cardinality(Counted(u)) \in Nat
    BY FS_CardinalityType DEF Inv, Budget
  <2>2. Limit \in Nat
    BY LimitAssumption
  <2> QED BY <2>1, <2>2, RunningFinite DEF Budget
<1> QED BY <1>1, ImportInvariant, PTL

-----------------------------------------------------------------------------
(* The report.                                                             *)

\* The rows a handler is past that have no book.
FailedSoFar(p) == 1..(req[p].row - 1) \ write[p].books

\* The running counts agree with the rows that are past, failed or not, until they are stored.
Counts(p) ==
    LET r == req[p] IN
    Running(p) => /\ r.successful + r.failed = IF r.row = 0 THEN 0 ELSE r.row - 1
                  /\ r.failed = Cardinality(FailedSoFar(p))
                  /\ ListsFirst(r.errors, FailedSoFar(p))

Reports == ReportAgrees /\ \A p \in Proc : Counts(p)

\* The next failed row is counted, and listed if there is room.
LEMMA StoreErrorLists ==
  ASSUME NEW n \in Nat, NEW F, F \subseteq 1..(n - 1), NEW errors \in Seq(Nat),
         ListsFirst(errors, F)
  PROVE  /\ Cardinality(F \cup {n}) = Cardinality(F) + 1
         /\ ListsFirst(StoreError(errors, n), F \cup {n})
<1> DEFINE G == F \cup {n}
           es == StoreError(errors, n)
           Before(S, e) == {m \in S : m < e}
<1>1. IsFiniteSet(F) /\ Cardinality(F) \in Nat
  <2>1. IsFiniteSet(1..(n - 1))
    BY FS_Interval
  <2> QED BY <2>1, FS_Subset, FS_CardinalityType
<1>2. n \notin F /\ \A m \in F : m \in Nat /\ m < n
  OBVIOUS
<1>3. Cardinality(G) = Cardinality(F) + 1
  BY <1>1, <1>2, FS_AddElement
<1>4. Len(errors) \in Nat
  OBVIOUS
<1>5. /\ Len(errors) = IF Cardinality(F) < MaxErrors THEN Cardinality(F) ELSE MaxErrors
      /\ \A k \in 1..Len(errors) : errors[k] \in F /\ Cardinality(Before(F, errors[k])) = k - 1
  BY DEF ListsFirst
<1>6. \A e \in F : Before(G, e) = Before(F, e)
  BY <1>2
<1>7. Before(G, n) = F
  <2>1. ~(n < n)
    OBVIOUS
  <2> QED BY <1>2, <2>1
<1>8. CASE Len(errors) < MaxErrors
  <2>1. es = Append(errors, n) /\ Len(errors) = Cardinality(F)
    BY <1>1, <1>5, <1>8, LimitAssumption DEF StoreError
  <2>2. /\ Len(es) = Cardinality(F) + 1
        /\ \A k \in 1..Len(errors) : es[k] = errors[k]
        /\ es[Len(errors) + 1] = n
    BY <2>1, <1>4
  <2>3. Len(es) = IF Cardinality(G) < MaxErrors THEN Cardinality(G) ELSE MaxErrors
    BY <1>1, <1>3, <1>8, <2>1, <2>2, LimitAssumption
  <2>4. ASSUME NEW k \in 1..Len(es) PROVE es[k] \in G /\ Cardinality(Before(G, es[k])) = k - 1
    <3>1. CASE k \in 1..Len(errors)
      <4>1. es[k] = errors[k] /\ errors[k] \in F /\ Cardinality(Before(F, errors[k])) = k - 1
        BY <1>5, <2>2, <3>1
      <4> QED BY <1>6, <4>1
    <3>2. CASE k \notin 1..Len(errors)
      <4>1. k = Cardinality(F) + 1 /\ es[k] = n
        BY <1>1, <2>1, <2>2, <3>2
      <4>2. Before(G, es[k]) = F /\ es[k] \in G
        BY <1>7, <4>1
      <4>3. Cardinality(F) = k - 1
        BY <1>1, <4>1
      <4> HIDE DEF G, es, Before
      <4> QED BY <4>2, <4>3
    <3> QED BY <3>1, <3>2
  <2> HIDE DEF G, es
  <2> QED BY <1>3, <2>3, <2>4 DEF ListsFirst, G, es
<1>9. CASE ~(Len(errors) < MaxErrors)
  <2>1. es = errors /\ ~(Cardinality(F) < MaxErrors)
    BY <1>1, <1>5, <1>9, LimitAssumption DEF StoreError
  <2>2. Len(es) = IF Cardinality(G) < MaxErrors THEN Cardinality(G) ELSE MaxErrors
    BY <1>1, <1>3, <1>5, <2>1, LimitAssumption
  <2>3. ASSUME NEW k \in 1..Len(es) PROVE es[k] \in G /\ Cardinality(Before(G, es[k])) = k - 1
    <3>1. es[k] \in F /\ Cardinality(Before(F, es[k])) = k - 1
      BY <1>5, <2>1
    <3> QED BY <1>6, <3>1
  <2> HIDE DEF G, es
  <2> QED BY <1>3, <2>2, <2>3 DEF ListsFirst, G, es
<1> QED BY <1>8, <1>9

\* A step of one handler that commits nothing concerns its own counts alone.
LEMMA WorkReports ==
  ASSUME Reports, NEW p \in Proc, UNCHANGED <<sessions, books, input>>,
         \A q \in Proc \ {p} : pc'[q] = pc[q] /\ req'[q] = req[q] /\ write'[q] = write[q],
         Counts(p)'
  PROVE  Reports'
<1>1. ReportAgrees'
  BY DEF Reports, ReportAgrees, Stored, FailedRows
<1>2. ASSUME NEW q \in Proc, q # p PROVE Counts(q)'
  BY <1>2 DEF Reports, Counts, Running, FailedSoFar
<1> QED BY <1>1, <1>2 DEF Reports

LEMMA NothingListed == Cardinality({}) = 0 /\ ListsFirst(<<>>, {})
BY FS_EmptySet, LimitAssumption DEF ListsFirst

LEMMA RateLimitPassedReports ==
  ASSUME Inv, Reports, NEW p \in Proc, NEW u \in User, NEW i \in Import, NEW f \in File,
         RateLimitPassed(p, u, i, f)
  PROVE  Reports'
<1>1. /\ pc[p] = "idle" /\ input[i] = NoFile /\ input' = [input EXCEPT ![i] = f]
      /\ req'[p] = [NoRequest EXCEPT !.user = u, !.id = i]
      /\ UNCHANGED <<sessions, books, write>>
      /\ \A q \in Proc \ {p} : pc'[q] = pc[q] /\ req'[q] = req[q] /\ write'[q] = write[q]
  BY DEF RateLimitPassed, Continue, Inv, Shape
<1>2. ~Stored(i)
  BY <1>1, NullsAssumption DEF Inv, Tables, Recorded
<1>3. ReportAgrees'
  <2>1. ASSUME NEW j \in Import, Stored(j)'
        PROVE  Stored(j) /\ input'[j] = input[j] /\ FailedRows(j)' = FailedRows(j)
    <3>1. Stored(j) /\ j # i
      BY <1>1, <1>2, <2>1 DEF Stored
    <3>2. input'[j] = input[j]
      BY <1>1, <3>1 DEF Inv, Shape
    <3> QED BY <1>1, <3>1, <3>2 DEF FailedRows
  <2> QED BY <1>1, <2>1 DEF Reports, ReportAgrees
<1>4. Counts(p)'
  <2>1. /\ req'[p].row = 0 /\ req'[p].successful = 0 /\ req'[p].failed = 0
        /\ req'[p].errors = <<>>
    BY <1>1 DEF NoRequest
  <2>2. FailedSoFar(p)' = {}
    BY <2>1 DEF FailedSoFar
  <2> QED BY <2>1, <2>2, NothingListed DEF Counts
<1>5. ASSUME NEW q \in Proc, q # p PROVE Counts(q)'
  BY <1>1, <1>5 DEF Reports, Counts, Running, FailedSoFar
<1> QED BY <1>3, <1>4, <1>5 DEF Reports

LEMMA SessionReports ==
  ASSUME Inv, Reports, NEW p \in Proc, OpenSession(p) \/ CloseSession(p) \/ CreateAuthors(p) \/ RespondFirst(p)
  PROVE  Reports'
<1>1. /\ UNCHANGED <<sessions, books, input, req>> /\ Running(p)
      /\ \A q \in Proc \ {p} : pc'[q] = pc[q] /\ write'[q] = write[q]
      /\ write'[p].books = write[p].books
  BY DEF OpenSession, CloseSession, CreateAuthors, RespondFirst, Continue, Running, Inv, Shape, Writes
<1>2. Counts(p)'
  BY <1>1 DEF Reports, Counts, FailedSoFar
<1> QED BY <1>1, <1>2, WorkReports

LEMMA ParseSucceedsReports ==
  ASSUME Inv, Reports, NEW p \in Proc, ParseSucceeds(p)
  PROVE  Reports'
<1>1. /\ UNCHANGED <<sessions, books, input, write>> /\ Running(p)
      /\ req' = [req EXCEPT ![p] = [req[p] EXCEPT !.row = 1]]
      /\ \A q \in Proc \ {p} : pc'[q] = pc[q]
  BY DEF ParseSucceeds, ToRow, Continue, Running, Inv, Shape
<1>2. req[p] \in Request /\ req[p].row = 0 /\ write[p] = NoWrites
  BY DEF ParseSucceeds, Inv, Shape, Handler, Running, Position
<1>3. /\ req'[p].row = 1 /\ req'[p].errors = req[p].errors /\ req'[p].failed = req[p].failed
      /\ req'[p].successful = req[p].successful
      /\ \A q \in Proc \ {p} : req'[q] = req[q]
  BY <1>1, <1>2 DEF Request, Inv, Shape
<1>4. FailedSoFar(p)' = {} /\ FailedSoFar(p) = {}
  BY <1>1, <1>2, <1>3 DEF FailedSoFar
<1>5. Counts(p)'
  <2>1. /\ req[p].successful + req[p].failed = 0
        /\ req[p].failed = Cardinality(FailedSoFar(p))
        /\ ListsFirst(req[p].errors, FailedSoFar(p))
    BY <1>1, <1>2 DEF Reports, Counts
  <2> QED BY <1>3, <1>4, <2>1 DEF Counts
<1> QED BY <1>1, <1>3, <1>5, WorkReports

\* A row that is about to be validated or inserted.
LEMMA RowIs ==
  ASSUME Inv, NEW p \in Proc, pc[p] \in {"row", "authors", "book"}
  PROVE  /\ req[p] \in Request /\ req[p].row \in Nat \ {0} /\ Running(p)
         /\ write[p] \in Writes /\ write[p].books \subseteq 1..(req[p].row - 1)
<1>1. Running(p) /\ Handler(p)
  BY DEF Inv, Running
<1>2. input[req[p].id] \in File \ {Unparsable} /\ req[p].row \in 1..Len(input[req[p].id])
  BY <1>1 DEF Handler, Unfinished, Position
<1>3. Len(input[req[p].id]) \in Nat
  BY <1>2, FileRows
<1> QED BY <1>1, <1>2, <1>3 DEF Handler, Inserted, Inv, Shape

LEMMA FailRowReports ==
  ASSUME Inv, Reports, NEW p \in Proc, pc[p] \in {"row", "book"}, FailRow(p),
         UNCHANGED <<sessions, books, input>>
  PROVE  Reports'
<1> DEFINE n == req[p].row
           es == StoreError(req[p].errors, n)
<1>1. /\ req[p] \in Request /\ n \in Nat \ {0} /\ Running(p) /\ write[p] \in Writes
      /\ write[p].books \subseteq 1..(n - 1)
  BY RowIs
<1>2. /\ req' = [req EXCEPT ![p] = [[req[p] EXCEPT !.failed = @ + 1, !.errors = es]
                                     EXCEPT !.row = n + 1]]
      /\ write' = [write EXCEPT ![p].authors = @ \ {n}]
      /\ \A q \in Proc \ {p} : pc'[q] = pc[q]
  BY DEF FailRow, ToRow, Continue, Inv, Shape
<1>3. /\ req'[p].row = n + 1 /\ req'[p].errors = es /\ req'[p].failed = req[p].failed + 1
      /\ req'[p].successful = req[p].successful
      /\ write'[p].books = write[p].books
      /\ \A q \in Proc \ {p} : req'[q] = req[q] /\ write'[q] = write[q]
  <2>1. /\ write'[p].books = write[p].books
        /\ \A q \in Proc \ {p} : req'[q] = req[q] /\ write'[q] = write[q]
    BY <1>1, <1>2 DEF Inv, Shape, Writes
  <2>2. ASSUME NEW r \in Request, NEW e, NEW k, NEW m
        PROVE  LET t == [[r EXCEPT !.failed = m, !.errors = e] EXCEPT !.row = k] IN
               t.row = k /\ t.errors = e /\ t.failed = m /\ t.successful = r.successful
    BY DEF Request
  <2>3. req'[p] = [[req[p] EXCEPT !.failed = req[p].failed + 1, !.errors = es] EXCEPT !.row = n + 1]
    BY <1>1, <1>2 DEF Inv, Shape, Request
  <2> HIDE DEF es, n
  <2> QED BY <1>1, <2>1, <2>2, <2>3
<1> HIDE DEF es
<1>4. FailedSoFar(p)' = FailedSoFar(p) \cup {n}
  <2>1. req'[p].row - 1 = n
    BY <1>1, <1>3
  <2>2. 1..n = 1..(n - 1) \cup {n} /\ n \notin write[p].books
    BY <1>1
  <2>3. FailedSoFar(p)' = 1..n \ write[p].books
    BY <1>3, <2>1 DEF FailedSoFar
  <2> QED BY <2>2, <2>3 DEF FailedSoFar
<1>5. /\ req[p].successful + req[p].failed = n - 1
      /\ req[p].failed = Cardinality(FailedSoFar(p))
      /\ ListsFirst(req[p].errors, FailedSoFar(p))
  BY <1>1 DEF Reports, Counts
<1>6. req[p].errors \in Seq(Nat) /\ req[p].failed \in Nat /\ req[p].successful \in Nat
  BY <1>1 DEF Request
<1>7. /\ Cardinality(FailedSoFar(p)') = Cardinality(FailedSoFar(p)) + 1
      /\ ListsFirst(es, FailedSoFar(p)')
  <2>1. FailedSoFar(p) \subseteq 1..(n - 1)
    BY DEF FailedSoFar
  <2> HIDE DEF n
  <2>2. n \in Nat
    BY <1>1
  <2> QED BY <1>4, <1>5, <1>6, <2>1, <2>2, StoreErrorLists DEF es
<1>8. Counts(p)'
  <2>1. req'[p].successful + req'[p].failed = req'[p].row - 1 /\ req'[p].row # 0
    <3> HIDE DEF n
    <3>1. n \in Nat /\ n + 1 # 0 /\ (n + 1) - 1 = n
      BY <1>1
    <3>2. req[p].successful + (req[p].failed + 1) = n
      BY <1>5, <1>6, <3>1
    <3> QED BY <1>3, <3>1, <3>2
  <2> QED BY <1>3, <1>5, <1>7, <2>1 DEF Counts
<1> QED BY <1>2, <1>3, <1>8, WorkReports

LEMMA ValidateRowReports ==
  ASSUME Inv, Reports, NEW p \in Proc, ValidateRow(p)
  PROVE  Reports'
<1>1. pc[p] = "row" /\ UNCHANGED <<sessions, books, input>>
  BY DEF ValidateRow
<1>2. CASE FailRow(p)
  BY <1>1, <1>2, FailRowReports
<1>3. CASE Continue(p, "authors") /\ UNCHANGED <<write, req>>
  <2>1. Running(p) /\ \A q \in Proc \ {p} : pc'[q] = pc[q]
    BY <1>1, <1>3 DEF Running, Continue, Inv, Shape
  <2>2. Counts(p)'
    BY <1>3, <2>1 DEF Reports, Counts, FailedSoFar
  <2> QED BY <1>1, <1>3, <2>1, <2>2, WorkReports
<1> QED BY <1>2, <1>3 DEF ValidateRow

LEMMA InsertBookReports ==
  ASSUME Inv, Reports, NEW p \in Proc, InsertBook(p)
  PROVE  Reports'
<1> DEFINE n == req[p].row
<1>1. pc[p] = "book" /\ UNCHANGED <<sessions, books, input>>
  BY DEF InsertBook
<1>2. /\ req[p] \in Request /\ n \in Nat \ {0} /\ Running(p) /\ write[p] \in Writes
      /\ write[p].books \subseteq 1..(n - 1)
  BY <1>1, RowIs
<1>3. CASE FailRow(p)
  BY <1>1, <1>3, FailRowReports
<1>4. CASE /\ write' = [write EXCEPT ![p].books = @ \cup {n}]
           /\ ToRow(p, n + 1, [req[p] EXCEPT !.successful = @ + 1])
  <2>1. /\ req' = [req EXCEPT ![p] = [[req[p] EXCEPT !.successful = @ + 1] EXCEPT !.row = n + 1]]
        /\ \A q \in Proc \ {p} : pc'[q] = pc[q]
    BY <1>4 DEF ToRow, Continue, Inv, Shape
  <2>2. /\ write'[p].books = write[p].books \cup {n}
        /\ \A q \in Proc \ {p} : req'[q] = req[q] /\ write'[q] = write[q]
    BY <1>2, <1>4, <2>1 DEF Inv, Shape, Writes
  <2>3. /\ req'[p].row = n + 1 /\ req'[p].errors = req[p].errors
        /\ req'[p].failed = req[p].failed /\ req'[p].successful = req[p].successful + 1
    <3>1. ASSUME NEW r \in Request, NEW k, NEW m
          PROVE  LET t == [[r EXCEPT !.successful = m] EXCEPT !.row = k] IN
                 t.row = k /\ t.errors = r.errors /\ t.failed = r.failed /\ t.successful = m
      BY DEF Request
    <3>2. req'[p] = [[req[p] EXCEPT !.successful = req[p].successful + 1] EXCEPT !.row = n + 1]
      BY <1>2, <2>1 DEF Inv, Shape, Request
    <3> HIDE DEF n
    <3> QED BY <1>2, <3>1, <3>2
  <2>4. FailedSoFar(p)' = FailedSoFar(p)
    <3>1. req'[p].row - 1 = n
      BY <1>2, <2>3
    <3>2. 1..n = 1..(n - 1) \cup {n} /\ n \notin 1..(n - 1)
      BY <1>2
    <3>3. FailedSoFar(p)' = 1..n \ (write[p].books \cup {n})
      BY <2>2, <3>1 DEF FailedSoFar
    <3> QED BY <3>2, <3>3 DEF FailedSoFar
  <2>5. Counts(p)'
    <3>1. /\ req[p].successful + req[p].failed = n - 1
          /\ req[p].successful \in Nat /\ req[p].failed \in Nat
      BY <1>2 DEF Reports, Counts, Request
    <3>2. req'[p].successful + req'[p].failed = req'[p].row - 1 /\ req'[p].row # 0
      BY <1>2, <2>3, <3>1
    <3> QED BY <1>2, <2>3, <2>4, <3>2 DEF Reports, Counts
  <2> QED BY <1>1, <2>1, <2>2, <2>5, WorkReports
<1> QED BY <1>3, <1>4 DEF InsertBook

LEMMA RollbackReports ==
  ASSUME Inv, Reports, NEW p \in Proc, Rollback(p)
  PROVE  Reports'
<1>1. UNCHANGED <<sessions, books, input>> /\ Leaves(p)
  BY EndedLeaves DEF Rollback
<1>2. Counts(p)'
  BY <1>1 DEF Counts, Leaves
<1> QED BY <1>1, <1>2, WorkReports DEF Leaves

LEMMA CommitReports ==
  ASSUME Inv, Reports, NEW p \in Proc, pc[p] \in {"finish", "commit"}, Commit(p), Leaves(p)
  PROVE  Reports'
<1> SUFFICES ASSUME NEW r, r = req[p], NEW i, i = r.id, NEW bs, bs = write[p].books
             PROVE  Reports'
  OBVIOUS
<1>1. /\ input' = input
      /\ sessions' = [sessions EXCEPT ![i] =
                        [user |-> r.user, received |-> r.row - 1, successful |-> r.successful,
                         failed |-> r.failed, errors |-> r.errors]]
      /\ books' = books \cup Rows(p, bs)
  BY DEF Commit
<1>2. /\ Running(p) /\ ~Stored(i) /\ i \in Import /\ r \in Request
      /\ input[i] \in File \ {Unparsable} /\ r.row = Len(input[i]) + 1
  BY DEF Inv, Shape, Running, Handler, Position, Unfinished
<1>3. Len(input[i]) \in Nat
  BY <1>2, FileRows
<1>4. \A n : <<i, n>> \in books' <=> n \in bs
  <2>1. \A n : <<i, n>> \notin books
    <3> SUFFICES ASSUME NEW n, <<i, n>> \in books PROVE FALSE
      OBVIOUS
    <3>1. Stored(<<i, n>>[1])
      BY DEF Inv, Tables, RowsAtomic
    <3> QED BY <1>2, <3>1
  <2> QED BY <1>1, <2>1 DEF Rows
<1>5. \A j \in Import \ {i} : \A n : <<j, n>> \in books' <=> <<j, n>> \in books
  BY <1>1 DEF Rows
<1>6. FailedRows(i)' = FailedSoFar(p)
  <2>1. r.row - 1 = Len(input[i])
    BY <1>2, <1>3
  <2> QED BY <1>1, <1>4, <2>1 DEF FailedRows, FailedSoFar
<1>7. /\ r.successful + r.failed = r.row - 1 /\ r.successful \in Nat /\ r.failed \in Nat
      /\ r.failed = Cardinality(FailedSoFar(p)) /\ ListsFirst(r.errors, FailedSoFar(p))
  <2>1. r.row # 0
    BY <1>2, <1>3
  <2> QED BY <1>2, <2>1 DEF Reports, Counts, Request
<1>8. /\ sessions'[i].received = r.row - 1 /\ sessions'[i].successful = r.successful
      /\ sessions'[i].failed = r.failed /\ sessions'[i].errors = r.errors
      /\ \A j \in Import \ {i} : sessions'[j] = sessions[j]
  BY <1>1, <1>2 DEF Inv, Shape
<1>9. ASSUME NEW j \in Import, Stored(j)'
      PROVE  /\ sessions'[j].received = Len(input'[j])
             /\ sessions'[j].successful = Len(input'[j]) - Cardinality(FailedRows(j)')
             /\ sessions'[j].failed = Cardinality(FailedRows(j)')
             /\ ListsFirst(sessions'[j].errors, FailedRows(j)')
  <2>1. CASE j = i
    <3>1. r.row - 1 = Len(input[i]) /\ r.successful = Len(input[i]) - r.failed
      BY <1>2, <1>3, <1>7
    <3> QED BY <1>1, <1>6, <1>7, <1>8, <2>1, <3>1
  <2>2. CASE j # i
    <3>1. Stored(j) /\ sessions'[j] = sessions[j] /\ input'[j] = input[j]
      BY <1>1, <1>8, <1>9, <2>2 DEF Stored
    <3>2. FailedRows(j)' = FailedRows(j)
      BY <1>1, <1>5, <2>2 DEF FailedRows
    <3> QED BY <3>1, <3>2 DEF Reports, ReportAgrees
  <2> QED BY <2>1, <2>2
<1>10. ReportAgrees'
  BY <1>9 DEF ReportAgrees
<1>11. ASSUME NEW q \in Proc PROVE Counts(q)'
  BY <1>1 DEF Leaves, Reports, Counts, Running, FailedSoFar
<1> QED BY <1>10, <1>11 DEF Reports

LEMMA ReportsStep == Inv /\ Reports /\ [Next]_vars => Reports'
<1> SUFFICES ASSUME Inv, Reports, [Next]_vars PROVE Reports'
  OBVIOUS
<1>1. CASE UNCHANGED <<sessions, books, input, write, pc, req>>
  BY <1>1 DEF Reports, ReportAgrees, Stored, FailedRows, Counts, Running, FailedSoFar
<1>2. ASSUME NEW p \in Proc, Handle(p) PROVE Reports'
  <2>1. CASE CommitFirst(p) \/ CommitLast(p)
    BY <2>1, CommitLeaves, CommitReports
  <2>2. CASE ParseFails(p) \/ RespondLast(p) \/ Abort(p)
    BY <2>2, RollbackReports DEF ParseFails, RespondLast, Abort, Rollback
  <2> QED BY <1>2, <2>1, <2>2, SessionReports, ParseSucceedsReports, ValidateRowReports,
             InsertBookReports DEF Handle
<1>3. CASE \E p \in Proc, u \in User, i \in Import, f \in File : RateLimitPassed(p, u, i, f)
  BY <1>3, RateLimitPassedReports
<1> QED BY <1>1, <1>2, <1>3 DEF Next, vars, ImportRefused, Age, CreateGenre, DeleteGenre

\* A committed report counts the books of its import and lists the first rows that failed, for
\* every file and every cap, although genres come and go and other imports overlap.
THEOREM ReportAgreesHolds == Spec => []ReportAgrees
<1>1. Init => Reports
  BY DEF Init, Reports, ReportAgrees, Stored, Counts, Running
<1>2. Reports => ReportAgrees
  BY DEF Reports
<1> QED BY <1>1, <1>2, ReportsStep, ImportInvariant, PTL DEF Spec

=============================================================================
