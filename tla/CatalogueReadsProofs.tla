------------------------ MODULE CatalogueReadsProofs ------------------------
(***************************************************************************)
(* Proofs about CatalogueReads for every set of books and every size of    *)
(* pages and partitions, however many commits come between two statements. *)
(***************************************************************************)
EXTENDS CatalogueReads, FiniteSetTheorems, SequenceTheorems, TLAPS

USE BookAssumption, RowsAssumption, SizesAssumption

-----------------------------------------------------------------------------
(* Sequences.                                                              *)

\* t has the elements of s that follow the first d, n of them or what is left.
IsSlice(t, s, d, n) ==
    /\ Len(t) = IF Len(s) <= d THEN 0 ELSE IF Len(s) - d < n THEN Len(s) - d ELSE n
    /\ \A k \in 1 .. Len(t) : d + k \in 1 .. Len(s) /\ t[k] = s[d + k]

\* Slice as it is used.
LEMMA SliceIs ==
    ASSUME NEW S, NEW s \in Seq(S), NEW d \in Nat, NEW n \in Nat
    PROVE  Slice(s, d + 1, n) \in Seq(S) /\ IsSlice(Slice(s, d + 1, n), s, d, n)
  <1> DEFINE i == d + 1
             m == Min({i + n - 1, Len(s)})
             t == SubSeq(s, i, m)
  <1>1. Len(s) \in Nat /\ i \in Int
    BY LenProperties
  <1>2. m = IF d + n <= Len(s) THEN d + n ELSE Len(s)
    BY <1>1 DEF Min
  <1>3. \A k \in i .. m : s[k] \in S
    BY <1>1, <1>2, ElementOfSeq
  <1>4. m \in Int
    BY <1>1, <1>2
  <1>5. /\ t \in Seq(S)
        /\ Len(t) = IF i <= m THEN m - i + 1 ELSE 0
        /\ \A k \in 1 .. m - i + 1 : t[k] = s[i + k - 1]
    <2> HIDE DEF m, i
    <2> QED BY <1>1, <1>3, <1>4, SubSeqProperties
  <1>6. Slice(s, d + 1, n) = t
    BY DEF Slice
  <1> HIDE DEF m, t
  <1>7. Len(t) = IF Len(s) <= d THEN 0 ELSE IF Len(s) - d < n THEN Len(s) - d ELSE n
    BY <1>1, <1>2, <1>5
  <1>8. \A k \in 1 .. Len(t) : d + k \in 1 .. Len(s) /\ t[k] = s[d + k]
    BY <1>1, <1>2, <1>5
  <1> QED BY <1>5, <1>6, <1>7, <1>8 DEF IsSlice

\* The sequences of SetToSeqs have every element exactly once.
LEMMA SeqsOf ==
    ASSUME NEW S \in SUBSET Book, NEW s \in SetToSeqs(S)
    PROVE  /\ IsFiniteSet(S) /\ Cardinality(S) \in Nat /\ Cardinality(S) <= Cardinality(Book)
           /\ Cardinality(Book) \in Nat
           /\ s \in Seq(S) /\ s \in Seq(Book) /\ Len(s) = Cardinality(S)
           /\ \A i, j \in 1 .. Len(s) : s[i] = s[j] => i = j
           /\ \A b \in S : \E i \in 1 .. Len(s) : s[i] = b
  <1> DEFINE n == Cardinality(S)
  <1>1. IsFiniteSet(S) /\ n <= Cardinality(Book)
    BY FS_Subset
  <1>2. n \in Nat /\ Cardinality(Book) \in Nat
    BY <1>1, FS_CardinalityType
  <1>3. s \in [1 .. n -> S] /\ \A i, j \in 1 .. n : i # j => s[i] # s[j]
    BY DEF SetToSeqs
  <1>4. s \in Injection(1 .. n, S)
    BY <1>3 DEF Injection, IsInjective
  <1>5. IsFiniteSet(1 .. n) /\ Cardinality(1 .. n) = n
    BY <1>2, FS_Interval
  <1>6. s \in Surjection(1 .. n, S)
    BY <1>1, <1>4, <1>5, FS_Injection
  <1>7. \A b \in S : \E i \in 1 .. n : s[i] = b
    BY <1>6 DEF Surjection
  <1>8. s \in Seq(S) /\ s \in Seq(Book) /\ Len(s) = n
    <2> HIDE DEF n
    <2>1. s \in Seq(S) /\ Len(s) = n
      BY <1>2, <1>3
    <2> QED BY <2>1, SeqMonotonic
  <1> QED BY <1>1, <1>2, <1>3, <1>7, <1>8

\* The items of a statement are the rows its snapshot has.
LEMMA RowsOfIs ==
    ASSUME NEW s \in Seq(Book), NEW catalogue, \A i \in 1 .. Len(s) : catalogue[s[i]] \in Row
    PROVE  /\ RowsOf(catalogue, s) \in Seq(Item)
           /\ Len(RowsOf(catalogue, s)) = Len(s)
           /\ \A i \in 1 .. Len(s) : /\ RowsOf(catalogue, s)[i].id = s[i]
                                     /\ RowsOf(catalogue, s)[i].row = catalogue[s[i]]
  <1>1. Len(s) \in Nat /\ DOMAIN s = 1 .. Len(s)
    BY LenProperties
  <1>2. \A i \in 1 .. Len(s) : s[i] \in Book
    BY ElementOfSeq
  <1>3. RowsOf(catalogue, s) = [i \in 1 .. Len(s) |-> [id |-> s[i], row |-> catalogue[s[i]]]]
    BY <1>1 DEF RowsOf
  <1>4. RowsOf(catalogue, s) \in [1 .. Len(s) -> Item]
    BY <1>2, <1>3 DEF Item
  <1> QED BY <1>1, <1>3, <1>4

\* The items once their authors are loaded.
Loaded == [i \in DOMAIN items |-> [items[i] EXCEPT !.row.authors = AuthorsOf(items[i].id)]]

LEMMA LoadedIs ==
    ASSUME TypeOK
    PROVE  /\ Loaded \in Seq(Item) /\ Len(Loaded) = Len(items)
           /\ \A i \in 1 .. Len(items) :
                 /\ Loaded[i].id = items[i].id
                 /\ Loaded[i].row.authors = AuthorsOf(items[i].id)
                 /\ Loaded[i].row.year = items[i].row.year
                 /\ Loaded[i].row.genre = items[i].row.genre
  <1>1. Len(items) \in Nat /\ DOMAIN items = 1 .. Len(items)
    BY LenProperties DEF TypeOK
  <1>2. \A i \in 1 .. Len(items) : items[i] \in Item
    BY ElementOfSeq DEF TypeOK
  <1>3. \A b \in Book : AuthorsOf(b) \in SUBSET Author
    BY DEF AuthorsOf, TypeOK, Row
  <1>4. \A i \in 1 .. Len(items) : items[i].id \in Book
    BY <1>2 DEF Item
  <1>5. Loaded = [i \in 1 .. Len(items) |->
                     [items[i] EXCEPT !.row.authors = AuthorsOf(items[i].id)]]
    BY <1>1 DEF Loaded
  <1>6. \A i \in 1 .. Len(items) :
           /\ Loaded[i] \in Item
           /\ Loaded[i].id = items[i].id
           /\ Loaded[i].row.authors = AuthorsOf(items[i].id)
           /\ Loaded[i].row.year = items[i].row.year
           /\ Loaded[i].row.genre = items[i].row.genre
    <2> SUFFICES ASSUME NEW i \in 1 .. Len(items), NEW x, x = items[i],
                        NEW A, A = AuthorsOf(items[i].id)
                 PROVE  /\ Loaded[i] \in Item
                        /\ Loaded[i].id = x.id
                        /\ Loaded[i].row.authors = A
                        /\ Loaded[i].row.year = x.row.year
                        /\ Loaded[i].row.genre = x.row.genre
      OBVIOUS
    <2>1. Loaded[i] = [x EXCEPT !.row.authors = A]
      BY <1>5
    <2>2. x \in Item /\ A \in SUBSET Author
      BY <1>2, <1>3, <1>4
    <2> DEFINE y == [x EXCEPT !.row.authors = A]
    <2>3. /\ y \in Item /\ y.id = x.id /\ y.row.authors = A
          /\ y.row.year = x.row.year /\ y.row.genre = x.row.genre
      BY <2>2 DEF Item, Row
    <2>4. Loaded[i] = y
      BY <2>1
    <2> HIDE DEF y
    <2> QED BY <2>3, <2>4
  <1>7. Loaded \in [1 .. Len(items) -> Item]
    BY <1>5, <1>6
  <1> QED BY <1>1, <1>6, <1>7

\* What LoadAuthors sends after what it has sent already.
Sends ==
    /\ seen' \in Seq(Item)
    /\ Len(seen') = Len(seen) + Len(items)
    /\ \A i \in 1 .. Len(seen) : seen'[i] = seen[i]
    /\ \A k \in 1 .. Len(items) :
          /\ seen'[Len(seen) + k].id = items[k].id
          /\ seen'[Len(seen) + k].row.authors = AuthorsOf(items[k].id)
          /\ seen'[Len(seen) + k].row.year = items[k].row.year
          /\ seen'[Len(seen) + k].row.genre = items[k].row.genre

LEMMA LoadAuthorsSends ==
    ASSUME TypeOK, LoadAuthors
    PROVE  Sends
  <1>1. seen \in Seq(Item) /\ Len(seen) \in Nat /\ items \in Seq(Item) /\ Len(items) \in Nat
    BY LenProperties DEF TypeOK
  <1>2. seen' = seen \o Loaded
    BY DEF LoadAuthors, Loaded
  <1>3. Loaded \in Seq(Item) /\ Len(Loaded) = Len(items)
    BY LoadedIs
  <1>4. /\ seen' \in Seq(Item)
        /\ Len(seen') = Len(seen) + Len(items)
        /\ \A i \in 1 .. Len(seen) + Len(items) :
              seen'[i] = IF i <= Len(seen) THEN seen[i] ELSE Loaded[i - Len(seen)]
    <2>1. ASSUME NEW t \in Seq(Item)
          PROVE  /\ seen \o t \in Seq(Item)
                 /\ Len(seen \o t) = Len(seen) + Len(t)
                 /\ \A i \in 1 .. Len(seen) + Len(t) :
                       (seen \o t)[i] = IF i <= Len(seen) THEN seen[i] ELSE t[i - Len(seen)]
      BY <1>1, ConcatProperties
    <2> QED BY <1>2, <1>3, <2>1
  <1>5. \A i \in 1 .. Len(seen) : seen'[i] = seen[i]
    BY <1>1, <1>4
  <1>6. ASSUME NEW k \in 1 .. Len(items) PROVE seen'[Len(seen) + k] = Loaded[k]
    <2> DEFINE i == Len(seen) + k
    <2>1. i \in 1 .. Len(seen) + Len(items) /\ ~(i <= Len(seen)) /\ i - Len(seen) = k
      BY <1>1
    <2> HIDE DEF i
    <2>2. seen'[i] = Loaded[k]
      BY <1>4, <2>1
    <2> QED BY <2>2 DEF i
  <1> QED BY <1>4, <1>5, <1>6, LoadedIs DEF Sends

LEMMA SelectedIs ==
    ASSUME NEW catalogue, NEW q, NEW src
    PROVE  /\ Selected(catalogue, q, src) \in SUBSET Book
           /\ \A b \in Selected(catalogue, q, src) : catalogue[b] \in Row
  BY DEF Selected, Selects

\* The rows of one page of the ordering s, as the catalogue has them.
IsPage(rows, s) ==
    /\ rows \in Seq(Item)
    /\ Len(rows) = IF Len(s) <= offset THEN 0
                   ELSE IF Len(s) - offset < Limit THEN Len(s) - offset ELSE Limit
    /\ \A k \in 1 .. Len(rows) :
          /\ offset + k \in 1 .. Len(s)
          /\ rows[k].id = s[offset + k]
          /\ rows[k].row = books[s[offset + k]]
          /\ s[offset + k] \in Selected(books, query, source)

LEMMA PageIs ==
    ASSUME TypeOK, NEW s \in Orderings(books, query, source)
    PROVE  IsPage(RowsOf(books, Slice(s, offset + 1, Limit)), s)
  <1> DEFINE S == Selected(books, query, source)
             page == Slice(s, offset + 1, Limit)
             rows == RowsOf(books, page)
  <1>1. s \in SetToSeqs(S) /\ S \in SUBSET Book
    BY SelectedIs DEF Orderings
  <1>2. s \in Seq(S) /\ s \in Seq(Book) /\ Len(s) \in Nat
    <2> HIDE DEF S
    <2> QED BY <1>1, SeqsOf
  <1>3. offset \in Nat /\ offset + 1 \in Nat \ {0} /\ Limit \in Nat
    BY DEF TypeOK
  <1>4. page \in Seq(Book) /\ IsSlice(page, s, offset, Limit)
    <2> HIDE DEF S
    <2> QED BY <1>2, <1>3, SliceIs
  <1>5. \A k \in 1 .. Len(page) : page[k] \in S /\ books[page[k]] \in Row
    <2>1. \A i \in 1 .. Len(s) : s[i] \in S
      BY <1>2, ElementOfSeq
    <2> HIDE DEF page
    <2> QED BY <1>4, <2>1, SelectedIs DEF IsSlice
  <1>6. /\ rows \in Seq(Item) /\ Len(rows) = Len(page)
        /\ \A k \in 1 .. Len(page) : rows[k].id = page[k] /\ rows[k].row = books[page[k]]
    <2> HIDE DEF page, S
    <2>1. page \in Seq(Book)
      BY <1>4
    <2> QED BY <1>5, <2>1, RowsOfIs
  <1> HIDE DEF page, rows, S
  <1>7. Len(rows) = IF Len(s) <= offset THEN 0
                    ELSE IF Len(s) - offset < Limit THEN Len(s) - offset ELSE Limit
    BY <1>4, <1>6 DEF IsSlice
  <1>8. \A k \in 1 .. Len(rows) :
           /\ offset + k \in 1 .. Len(s)
           /\ rows[k].id = s[offset + k]
           /\ rows[k].row = books[s[offset + k]]
           /\ s[offset + k] \in S
    BY <1>4, <1>5, <1>6 DEF IsSlice
  <1> QED BY <1>6, <1>7, <1>8 DEF IsPage, page, rows, S

\* A partition and what it leaves of the cursor.
IsPartition(part, rest) ==
    /\ part \in Seq(Item) /\ rest \in Seq(Item)
    /\ Len(part) <= Partition
    /\ Len(part) + Len(rest) = Len(cursor)
    /\ \A k \in 1 .. Len(part) : k \in 1 .. Len(cursor) /\ part[k] = cursor[k]
    /\ \A k \in 1 .. Len(rest) :
          Len(part) + k \in 1 .. Len(cursor) /\ rest[k] = cursor[Len(part) + k]

LEMMA PartitionIs ==
    ASSUME TypeOK
    PROVE  IsPartition(Slice(cursor, 1, Partition), SubSeq(cursor, Partition + 1, Len(cursor)))
  <1> DEFINE n == Len(cursor)
             part == Slice(cursor, 1, Partition)
             rest == SubSeq(cursor, Partition + 1, n)
  <1>1. /\ cursor \in Seq(Item) /\ n \in Nat
        /\ Partition + 1 \in Int /\ Partition \in Nat /\ 1 \in Nat \ {0}
    BY LenProperties DEF TypeOK
  <1>2. /\ part \in Seq(Item)
        /\ Len(part) = IF n < Partition THEN n ELSE Partition
        /\ \A k \in 1 .. Len(part) : k \in 1 .. n /\ part[k] = cursor[k]
    <2> DEFINE first == Slice(cursor, 0 + 1, Partition)
    <2>1. first \in Seq(Item) /\ IsSlice(first, cursor, 0, Partition)
      BY <1>1, SliceIs
    <2>2. 0 + 1 = 1
      OBVIOUS
    <2>3. part = first
      BY <2>2
    <2> HIDE DEF first, part
    <2> QED BY <1>1, <2>1, <2>3 DEF IsSlice
  <1>3. \A i \in Partition + 1 .. n : cursor[i] \in Item
    BY <1>1, ElementOfSeq
  <1>4. /\ rest \in Seq(Item)
        /\ Len(rest) = IF Partition + 1 <= n THEN n - (Partition + 1) + 1 ELSE 0
        /\ \A i \in 1 .. n - (Partition + 1) + 1 : rest[i] = cursor[Partition + 1 + i - 1]
    <2> HIDE DEF n
    <2> QED BY <1>1, <1>3, SubSeqProperties
  <1> HIDE DEF n, part, rest
  <1>5. \A i \in Int : Partition + 1 + i - 1 = Partition + i
    OBVIOUS
  <1>6. Len(part) <= Partition /\ Len(part) + Len(rest) = n
    BY <1>1, <1>2, <1>4
  <1>7. ASSUME NEW k \in 1 .. Len(rest)
        PROVE  Len(part) + k \in 1 .. n /\ rest[k] = cursor[Len(part) + k]
    <2>1. Partition + 1 <= n /\ k \in 1 .. n - Partition
      BY <1>1, <1>4, <1>7
    <2>2. Len(part) = Partition
      BY <1>1, <1>2, <2>1
    <2> QED BY <1>1, <1>4, <1>5, <2>1, <2>2
  <1> QED BY <1>2, <1>4, <1>6, <1>7 DEF IsPartition, n, part, rest

-----------------------------------------------------------------------------
(* Types.                                                                  *)

\* A page further is a page.
LEMMA NextOffset ==
    ASSUME NEW n \in Nat, n % Limit = 0
    PROVE  (n + Limit) % Limit = 0
  <1> DEFINE q == n \div Limit
             r == (n + Limit) % Limit
             v == (n + Limit) \div Limit
  <1>1. n = Limit * q /\ q \in Nat
    OBVIOUS
  <1>2. n + Limit = Limit * v + r /\ v \in Nat /\ r \in 0 .. (Limit - 1)
    OBVIOUS
  <1>3. Limit * (q + 1) = Limit * v + r
    BY <1>1, <1>2
  <1>4. Limit * (q + 1 - v) = r
    BY <1>1, <1>2, <1>3
  <1>5. q + 1 - v <= 0 => Limit * (q + 1 - v) <= 0
    BY <1>1, <1>2
  <1>6. q + 1 - v >= 1 => Limit * (q + 1 - v) >= Limit
    BY <1>1, <1>2
  <1> QED BY <1>1, <1>2, <1>4, <1>5, <1>6

\* What the reader holds between statements.
Shape ==
    /\ pc \in {"source", "similar_to"} => query.kind = "similar"
    /\ pc \in {"count", "page"} => query.kind \in {"list", "similar"}
    /\ pc = "stream" => query.kind = "export"
    /\ pc # "authors" => items = <<>>
    /\ query.kind # "export" \/ Ready => cursor = <<>>
    /\ query.kind = "similar" => query.of \in Book /\ start[query.of] \in Row
    /\ query.kind \in {"list", "export"} => query.of = NoBook
    /\ query.kind # "similar" => source = NoSource

LEMMA InitShape == Init => TypeOK /\ Shape
  <1> SUFFICES ASSUME Init PROVE TypeOK /\ Shape
    OBVIOUS
  <1>1. 0 % Limit = 0 /\ Cardinality(Book) \in Nat
    BY FS_CardinalityType
  <1>2. NoSource \in Row
    BY DEF NoSource, Row
  <1> QED BY <1>1, <1>2, FiltersAssumption DEF Init, Authorless, TypeOK, Shape, Ready, Query

\* A new request finds nothing of the last one but what it read.
LEMMA BeginShape ==
    ASSUME TypeOK, Shape, NEW next, NEW kind, NEW filter \in Filters, NEW of \in Book \cup {NoBook},
           Begin(next, kind, filter, of),
           \/ /\ items' = items /\ cursor' = cursor
              /\ \/ next = "count" /\ kind = "list" /\ of = NoBook
                 \/ next = "source" /\ kind = "similar" /\ of \in Book /\ books[of] \in Row
           \/ /\ next = "authors" /\ kind = "book" /\ of \in Book
              /\ items' \in Seq(Item) /\ Len(items') = 1 /\ cursor' = cursor
           \/ /\ next = "stream" /\ kind = "export" /\ of = NoBook
              /\ items' = items /\ cursor' \in Seq(Item)
    PROVE  TypeOK' /\ Shape'
  <1>1. NoSource \in Row /\ 0 % Limit = 0 /\ Cardinality(Book) \in Nat
    BY FS_CardinalityType DEF NoSource, Row
  <1>2. items = <<>> /\ cursor = <<>>
    BY DEF Begin, Ready, Shape
  <1>3. /\ items' \in Seq(Item) /\ cursor' \in Seq(Item)
        /\ Len(items') <= 1
        /\ next # "authors" => items' = <<>>
        /\ kind # "export" => cursor' = <<>>
    <2>1. <<>> \in Seq(Item) /\ Len(<<>>) = 0
      BY EmptySeq
    <2>2. CASE items' = items /\ cursor' = cursor /\ next # "authors"
      BY <1>2, <2>1, <2>2
    <2>3. CASE /\ next = "authors" /\ kind = "book"
               /\ items' \in Seq(Item) /\ Len(items') = 1 /\ cursor' = cursor
      BY <1>2, <2>1, <2>3
    <2>4. CASE next = "stream" /\ kind = "export" /\ items' = items /\ cursor' \in Seq(Item)
      BY <1>2, <2>1, <2>4
    <2> QED BY <2>2, <2>3, <2>4
  <1>4. /\ query'.kind = kind /\ query'.filter = filter /\ query'.of = of /\ query' \in Query
        /\ pc' = next /\ source' = NoSource /\ offset' = 0 /\ total' = 0 /\ seen' = <<>>
        /\ start' = books /\ since' = "calm" /\ books' = books /\ written' = written
        /\ bare' \subseteq Book
    BY DEF Begin, Query, Authorless
  <1>5. Shape'
    BY <1>3, <1>4 DEF Shape, Ready
  <1>6. TypeOK'
    <2>1. Len(items') <= IF query'.kind = "export" THEN Partition ELSE Limit
      BY <1>3, <1>4, EmptySeq
    <2> QED BY <1>1, <1>3, <1>4, <2>1, EmptySeq DEF TypeOK
  <1> QED BY <1>5, <1>6

LEMMA ChangeShape ==
    ASSUME TypeOK, Shape, NEW b \in Book, NEW row \in Rows \cup {Deleted}, Change(b, row)
    PROVE  TypeOK' /\ Shape'
  <1>1. books' \in [Book -> Rows \cup {Unborn, Deleted}] /\ written' \in 0 .. MaxWrites
    BY DEF Change, TypeOK
  <1>2. /\ UNCHANGED <<pc, query, source, offset, total, items, cursor, seen, start>>
        /\ since' \in {"grown", "disturbed"} /\ bare' \subseteq Book
    BY DEF Change, TypeOK, Authorless
  <1> QED BY <1>1, <1>2 DEF TypeOK, Shape, Ready

LEMMA FetchShape ==
    ASSUME TypeOK, Shape, FetchPage
    PROVE  /\ TypeOK' /\ Shape'
           /\ \E s \in Orderings(books, query, source) : IsPage(items', s)
  <1>1. PICK s \in Orderings(books, query, source) : IsPage(items', s)
    BY PageIs DEF FetchPage
  <1>2. Len(s) \in Nat
    <2>1. s \in SetToSeqs(Selected(books, query, source))
      BY DEF Orderings
    <2> QED BY <2>1, SelectedIs, SeqsOf
  <1>3. items' \in Seq(Item) /\ Len(items') <= Limit /\ query.kind # "export"
    BY <1>1, <1>2 DEF IsPage, TypeOK, Shape, FetchPage
  <1>4. TypeOK' /\ Shape'
    BY <1>3 DEF FetchPage, TypeOK, Shape, Ready
  <1> QED BY <1>1, <1>4

LEMMA PartitionShape ==
    ASSUME TypeOK, Shape, FetchPartition
    PROVE  TypeOK' /\ Shape' /\ IsPartition(items', cursor')
  <1>1. IsPartition(items', cursor')
    BY PartitionIs DEF FetchPartition
  <1>2. TypeOK' /\ Shape'
    BY <1>1 DEF IsPartition, FetchPartition, TypeOK, Shape, Ready
  <1> QED BY <1>1, <1>2

LEMMA LoadShape ==
    ASSUME TypeOK, Shape, LoadAuthors
    PROVE  TypeOK' /\ Shape' /\ Sends
  <1>1. Sends
    BY LoadAuthorsSends
  <1>2. offset' \in Nat /\ offset' % Limit = 0
    <2>1. offset' = offset \/ offset' = offset + Limit
      BY DEF LoadAuthors
    <2>2. offset \in Nat /\ offset % Limit = 0
      BY DEF TypeOK
    <2> QED BY <2>1, <2>2, NextOffset
  <1>3. /\ seen' \in Seq(Item) /\ items' = <<>>
        /\ UNCHANGED <<books, written, query, source, total, cursor, start, since, bare>>
        /\ pc = "authors"
        /\ \/ query.kind = "export" /\ pc' = "done" /\ cursor = <<>>
           \/ query.kind = "export" /\ pc' = "stream"
           \/ query.kind # "export" /\ pc' = "done"
           \/ query.kind = "similar" /\ pc' = "source"
           \/ query.kind \notin {"export", "similar", "book"} /\ pc' = "count"
    BY <1>1 DEF Sends, LoadAuthors, LastPage
  <1>4. items' \in Seq(Item) /\ Len(items') = 0
    BY <1>3, EmptySeq
  <1>5. query.kind \in {"list", "export", "similar", "book"}
    BY DEF TypeOK, Query
  <1>6. TypeOK'
    <2>1. pc' \in {"source", "count", "stream", "done"}
      BY <1>3
    <2>2. Len(items') <= IF query'.kind = "export" THEN Partition ELSE Limit
      BY <1>4
    <2> QED BY <1>2, <1>3, <1>4, <2>1, <2>2 DEF TypeOK
  <1>7. Shape'
    BY <1>3, <1>5 DEF Shape, Ready
  <1> QED BY <1>1, <1>6, <1>7

LEMMA ReadShape ==
    ASSUME TypeOK, Shape
    PROVE  /\ ReadSource => TypeOK' /\ Shape'
           /\ ReadSourceAuthors => TypeOK' /\ Shape'
           /\ CountTotal => TypeOK' /\ Shape'
           /\ Fail => TypeOK' /\ Shape'
  <1>1. ASSUME ReadSource PROVE TypeOK' /\ Shape'
    BY <1>1 DEF ReadSource, TypeOK, Shape, Ready
  <1>2. ASSUME ReadSourceAuthors PROVE TypeOK' /\ Shape'
    <2>1. ASSUME NEW A \in SUBSET Author PROVE [source EXCEPT !.authors = A] \in Row
      BY DEF TypeOK, Row
    <2>2. AuthorsOf(query.of) \in SUBSET Author
      BY <1>2 DEF ReadSourceAuthors, AuthorsOf, TypeOK, Shape, Row
    <2> QED BY <1>2, <2>1, <2>2 DEF ReadSourceAuthors, TypeOK, Shape, Ready
  <1>3. ASSUME CountTotal PROVE TypeOK' /\ Shape'
    <2>1. Cardinality(Selected(books, query, source)) \in 0 .. Cardinality(Book)
      BY SelectedIs, FS_Subset, FS_CardinalityType
    <2> QED BY <1>3, <2>1 DEF CountTotal, TypeOK, Shape, Ready
  <1>4. ASSUME Fail PROVE TypeOK' /\ Shape'
    <2>1. <<>> \in Seq(Item) /\ Len(<<>>) = 0
      BY EmptySeq
    <2> QED BY <1>4, <2>1 DEF Fail, TypeOK, Shape, Ready
  <1> QED BY <1>1, <1>2, <1>3, <1>4

\* A commit creates a book, or changes or deletes one that is there.
Writes ==
    \E b \in Book, row \in Rows \cup {Deleted} :
        /\ Change(b, row)
        /\ books[b] = Unborn => row \in Rows
        /\ books[b] # Deleted

Starts ==
    \/ \E f \in Filters : ListBooks(f) \/ ExportBooks(f)
    \/ \E b \in Book : ListSimilar(b) \/ GetBook(b)

LEMMA Steps ==
    ASSUME [Next]_vars
    PROVE  \/ UNCHANGED vars \/ Writes \/ Starts
           \/ ReadSource \/ ReadSourceAuthors \/ CountTotal \/ FetchPage
           \/ FetchPartition \/ LoadAuthors \/ Fail
  <1>1. ASSUME NEW b \in Book, NEW row \in Rows, CreateBook(b, row) \/ UpdateBook(b, row)
        PROVE  Writes
    BY <1>1 DEF CreateBook, UpdateBook, Writes
  <1>2. ASSUME NEW b \in Book, DeleteBook(b) PROVE Writes
    BY <1>2 DEF DeleteBook, Writes
  <1> QED BY <1>1, <1>2 DEF Next, Read, Starts

\* The rows of a cursor that has just been opened.
LEMMA CursorIs ==
    ASSUME TypeOK, NEW q, NEW src, NEW s \in SetToSeqs(Selected(books, q, src))
    PROVE  /\ RowsOf(books, s) \in Seq(Item)
           /\ Len(RowsOf(books, s)) = Len(s)
           /\ \A i \in 1 .. Len(s) : /\ RowsOf(books, s)[i].id = s[i]
                                     /\ RowsOf(books, s)[i].row = books[s[i]]
                                     /\ s[i] \in Selected(books, q, src)
                                     /\ s[i] \in Book /\ books[s[i]] \in Row
  <1> DEFINE S == Selected(books, q, src)
  <1>1. S \in SUBSET Book /\ \A b \in S : books[b] \in Row
    BY SelectedIs
  <1> HIDE DEF S
  <1>2. s \in Seq(S) /\ s \in Seq(Book)
    BY <1>1, SeqsOf DEF S
  <1>3. \A i \in 1 .. Len(s) : s[i] \in S /\ s[i] \in Book /\ books[s[i]] \in Row
    BY <1>1, <1>2, ElementOfSeq
  <1> QED BY <1>2, <1>3, RowsOfIs DEF S

LEMMA StartShape ==
    ASSUME TypeOK, Shape, Starts
    PROVE  TypeOK' /\ Shape'
  <1>1. ASSUME NEW f \in Filters, ListBooks(f) PROVE TypeOK' /\ Shape'
    BY <1>1, BeginShape DEF ListBooks
  <1>2. ASSUME NEW f \in Filters, ExportBooks(f) PROVE TypeOK' /\ Shape'
    <2>1. Begin("stream", "export", f, NoBook) /\ items' = items /\ cursor' \in Seq(Item)
      BY <1>2, CursorIs DEF ExportBooks
    <2> QED BY <2>1, BeginShape
  <1>3. ASSUME NEW b \in Book, ListSimilar(b) PROVE TypeOK' /\ Shape'
    BY <1>3, FiltersAssumption, BeginShape DEF ListSimilar
  <1>4. ASSUME NEW b \in Book, GetBook(b) PROVE TypeOK' /\ Shape'
    <2>1. items' \in Seq(Item) /\ Len(items') = 1
      BY <1>4 DEF GetBook, Item
    <2> QED BY <1>4, <2>1, FiltersAssumption, BeginShape DEF GetBook
  <1> QED BY <1>1, <1>2, <1>3, <1>4 DEF Starts

LEMMA ShapeStep == TypeOK /\ Shape /\ [Next]_vars => TypeOK' /\ Shape'
  <1> SUFFICES ASSUME TypeOK, Shape, [Next]_vars PROVE TypeOK' /\ Shape'
    OBVIOUS
  <1>1. CASE UNCHANGED vars
    BY <1>1 DEF vars, reader, TypeOK, Shape, Ready
  <1>2. CASE Writes
    BY <1>2, ChangeShape DEF Writes
  <1> QED BY <1>1, <1>2, Steps, StartShape, ReadShape, FetchShape, PartitionShape, LoadShape

LEMMA ShapeInvariant == Spec => [](TypeOK /\ Shape)
  BY InitShape, ShapeStep, PTL DEF Spec

\* The reader keeps to its statements: what it holds, and how much of it, whatever it asks for.
THEOREM TypeCorrect == Spec => []TypeOK
  BY ShapeInvariant, PTL

-----------------------------------------------------------------------------
(* Similar books.                                                          *)

\* The pre-filter drops no book the score would list and keeps none that it would not.
THEOREM PrefilterExact ==
    \A row, src \in Row : Candidate(row, src) <=> Score(row, src) > 0
  <1> SUFFICES ASSUME NEW row \in Row, NEW src \in Row
               PROVE  Candidate(row, src) <=> Score(row, src) > 0
    OBVIOUS
  <1>1. SharedAuthor(row, src) => src.authors # {}
    BY DEF SharedAuthor, Row
  <1>2. SameGenre(row, src) => src.genre # NoGenre
    BY DEF SameGenre
  <1>3. Nearby(row, src) => src.year # NoYear
    BY DEF Nearby
  <1> QED BY <1>1, <1>2, <1>3 DEF Candidate, Score

\* The page of similar books that is fetched, of scores that never rise.
SimilarItems ==
    query.kind = "similar" /\ pc = "authors" =>
        /\ \A i \in 1 .. Len(items) : items[i].id # query.of /\ Score(items[i].row, source) > 0
        /\ \A i, j \in 1 .. Len(items) :
              i < j => Score(items[i].row, source) >= Score(items[j].row, source)

LEMMA FetchSimilar ==
    ASSUME TypeOK, Shape, FetchPage
    PROVE  SimilarItems'
  <1> SUFFICES ASSUME query.kind = "similar" PROVE SimilarItems'
    BY DEF SimilarItems, FetchPage
  <1>1. PICK s \in Orderings(books, query, source) : IsPage(items', s)
    BY FetchShape
  <1>2. s \in SetToSeqs(Selected(books, query, source)) /\ DOMAIN s = 1 .. Len(s)
    <2>1. s \in SetToSeqs(Selected(books, query, source))
      BY DEF Orderings
    <2>2. s \in Seq(Book)
      BY <2>1, SelectedIs, SeqsOf
    <2> QED BY <2>1, <2>2, LenProperties
  <1>3. \A i, j \in 1 .. Len(s) : i < j => ~Before(books, query, source, s[j], s[i])
    BY <1>2 DEF Orderings
  <1>4. \A row \in Row : Score(row, source) \in Nat
    BY DEF Score
  <1>5. query' = query /\ source' = source
    BY DEF FetchPage
  <1>6. ASSUME NEW i \in 1 .. Len(items')
        PROVE  /\ items'[i].id # query.of /\ items'[i].row \in Row
               /\ Score(items'[i].row, source) > 0
    <2>1. /\ s[offset + i] \in Selected(books, query, source)
          /\ items'[i].id = s[offset + i] /\ items'[i].row = books[s[offset + i]]
      BY <1>1 DEF IsPage
    <2> QED BY <2>1, PrefilterExact DEF Selected, Selects, TypeOK
  <1>7. ASSUME NEW i \in 1 .. Len(items'), NEW j \in 1 .. Len(items'), i < j
        PROVE  Score(items'[i].row, source) >= Score(items'[j].row, source)
    <2>1. /\ offset + i \in 1 .. Len(s) /\ offset + j \in 1 .. Len(s)
          /\ items'[i].row = books[s[offset + i]] /\ items'[j].row = books[s[offset + j]]
      BY <1>1 DEF IsPage
    <2>2. offset + i < offset + j
      BY <1>7 DEF TypeOK
    <2>3. ~KeyBefore(query, source, items'[j].row, items'[i].row)
      BY <1>3, <2>1, <2>2 DEF Before
    <2> QED BY <1>4, <1>6, <2>3 DEF KeyBefore
  <1> QED BY <1>5, <1>6, <1>7 DEF SimilarItems

LEMMA SimilarStep == TypeOK /\ Shape /\ SimilarItems /\ [Next]_vars => SimilarItems'
  <1> SUFFICES ASSUME TypeOK, Shape, SimilarItems, [Next]_vars PROVE SimilarItems'
    OBVIOUS
  <1>1. CASE UNCHANGED vars
    BY <1>1 DEF vars, reader, SimilarItems
  <1>2. CASE Writes
    BY <1>2 DEF Writes, Change, SimilarItems
  <1>3. CASE Starts
    BY <1>3 DEF Starts, ListBooks, ExportBooks, ListSimilar, GetBook, Begin, SimilarItems
  <1>4. CASE ReadSource \/ ReadSourceAuthors \/ CountTotal \/ LoadAuthors \/ Fail
    BY <1>4 DEF ReadSource, ReadSourceAuthors, CountTotal, LoadAuthors, Fail, SimilarItems
  <1>5. CASE FetchPartition
    BY <1>5 DEF FetchPartition, SimilarItems, Shape
  <1> QED BY <1>1, <1>2, <1>3, <1>4, <1>5, Steps, FetchSimilar

\* GET /books/{id}/similar lists exactly the books of positive score, best first, whatever is
\* committed between the statements that read the source, count and fetch.
THEOREM SimilarExactHolds == Spec => []SimilarExact
  <1>1. TypeOK /\ Shape /\ SimilarItems => SimilarExact
    <2> SUFFICES ASSUME TypeOK, SimilarItems, query.kind = "similar", pc = "authors"
                 PROVE  SimilarExact
      BY DEF SimilarExact
    <2>1. ASSUME NEW b \in Book \ {query.of}, books[b] \in Row, Score(books[b], source) > 0
          PROVE  b \in Selected(books, query, source)
      BY <2>1, PrefilterExact DEF Selected, Selects, TypeOK
    <2>2. DOMAIN items = 1 .. Len(items)
      BY LenProperties DEF TypeOK
    <2> QED BY <2>1, <2>2 DEF SimilarExact, SimilarItems
  <1>2. Init => SimilarItems
    BY DEF Init, SimilarItems
  <1>3. Spec => []SimilarItems
    BY <1>2, SimilarStep, ShapeInvariant, PTL DEF Spec
  <1> QED BY <1>1, <1>3, ShapeInvariant, PTL

-----------------------------------------------------------------------------
(* Books without authors.                                                  *)

\* Rows are fetched of books that exist, and those shown without authors exist no more or have
\* been bare; bare has all books that lack an author now.
ShownInv ==
    /\ \A i \in 1 .. Len(items) : books[items[i].id] # Unborn
    /\ \A i \in 1 .. Len(cursor) : books[cursor[i].id] # Unborn
    /\ \A i \in 1 .. Len(seen) :
          seen[i].row.authors = {} => books[seen[i].id] = Deleted \/ seen[i].id \in bare
    /\ Authorless(books) \subseteq bare

\* A book that has been created stays so, one that is deleted stays deleted, and one that has
\* been bare is remembered.
LEMMA WritesBooks ==
    ASSUME TypeOK, Writes
    PROVE  /\ \A b \in Book : books[b] # Unborn => books'[b] # Unborn
           /\ \A b \in Book : books[b] = Deleted => books'[b] = Deleted
           /\ bare \subseteq bare' /\ Authorless(books') \subseteq bare'
           /\ UNCHANGED <<pc, query, source, offset, total, items, cursor, seen, start>>
  BY DEF Writes, Change, TypeOK

LEMMA ItemsBooks ==
    ASSUME TypeOK
    PROVE  /\ Len(items) \in Nat /\ \A i \in 1 .. Len(items) : items[i].id \in Book
           /\ Len(cursor) \in Nat /\ \A i \in 1 .. Len(cursor) : cursor[i].id \in Book
           /\ Len(seen) \in Nat /\ \A i \in 1 .. Len(seen) : seen[i].id \in Book
  <1>1. items \in Seq(Item) /\ cursor \in Seq(Item) /\ seen \in Seq(Item)
    BY DEF TypeOK
  <1>2. Len(items) \in Nat /\ Len(cursor) \in Nat /\ Len(seen) \in Nat
    BY <1>1, LenProperties
  <1>3. /\ \A i \in 1 .. Len(items) : items[i] \in Item
        /\ \A i \in 1 .. Len(cursor) : cursor[i] \in Item
        /\ \A i \in 1 .. Len(seen) : seen[i] \in Item
    BY <1>1, ElementOfSeq
  <1>4. \A x \in Item : x.id \in Book
    BY DEF Item
  <1> QED BY <1>2, <1>3, <1>4

LEMMA ShownStep ==
    ASSUME TypeOK, Shape, ShownInv, [Next]_vars
    PROVE  ShownInv'
  <1>0. Len(<<>>) = 0
    BY EmptySeq
  <1>1. CASE UNCHANGED vars
    BY <1>1 DEF vars, reader, ShownInv
  <1>2. CASE Writes
    <2>1. /\ UNCHANGED <<items, cursor, seen>>
          /\ bare \subseteq bare' /\ Authorless(books') \subseteq bare'
          /\ \A b \in Book : books[b] # Unborn => books'[b] # Unborn
          /\ \A b \in Book : books[b] = Deleted => books'[b] = Deleted
      BY <1>2, WritesBooks
    <2> QED BY <2>1, ItemsBooks DEF ShownInv
  <1>3. ASSUME Starts, UNCHANGED <<items, cursor>> PROVE ShownInv'
    <2>1. seen' = <<>> /\ books' = books /\ bare' = Authorless(books)
      BY <1>3 DEF Starts, ListBooks, ExportBooks, ListSimilar, GetBook, Begin
    <2> QED BY <1>0, <1>3, <2>1 DEF ShownInv
  <1>4. ASSUME NEW f \in Filters, ExportBooks(f) PROVE ShownInv'
    <2>1. \A i \in 1 .. Len(cursor') : books[cursor'[i].id] \in Row
      BY <1>4, CursorIs DEF ExportBooks
    <2> QED BY <1>0, <1>4, <2>1 DEF ExportBooks, Begin, ShownInv
  <1>5. ASSUME NEW b \in Book, GetBook(b) PROVE ShownInv'
    <2>1. Len(items') = 1 /\ items'[1].id = b /\ books[b] \in Row
      BY <1>5 DEF GetBook
    <2> QED BY <1>0, <1>5, <2>1 DEF GetBook, Begin, ShownInv
  <1>6. CASE ReadSource \/ ReadSourceAuthors \/ CountTotal \/ Fail
    BY <1>0, <1>6 DEF ReadSource, ReadSourceAuthors, CountTotal, Fail, ShownInv
  <1>7. CASE FetchPage
    <2>1. \A i \in 1 .. Len(items') : books[items'[i].id] \in Row
      <3>1. PICK s : IsPage(items', s)
        BY <1>7, FetchShape
      <3>2. \A b \in Selected(books, query, source) : books[b] \in Row
        BY SelectedIs
      <3> QED BY <3>1, <3>2 DEF IsPage
    <2> QED BY <1>7, <2>1 DEF FetchPage, ShownInv
  <1>8. CASE FetchPartition
    <2>1. IsPartition(items', cursor')
      BY <1>8, PartitionShape
    <2>2. \A i \in 1 .. Len(items') : books[items'[i].id] # Unborn
      BY <2>1 DEF IsPartition, ShownInv
    <2>3. \A i \in 1 .. Len(cursor') : books[cursor'[i].id] # Unborn
      BY <2>1 DEF IsPartition, ShownInv
    <2> QED BY <1>8, <2>2, <2>3 DEF FetchPartition, ShownInv
  <1>9. CASE LoadAuthors
    <2>1. Sends
      BY <1>9, LoadShape
    <2>2. ASSUME NEW i \in 1 .. Len(seen'), seen'[i].row.authors = {}
          PROVE  books[seen'[i].id] = Deleted \/ seen'[i].id \in bare
      <3>1. CASE i <= Len(seen)
        <4>1. i \in 1 .. Len(seen)
          BY <2>1, <2>2, <3>1, ItemsBooks DEF Sends
        <4>2. seen'[i] = seen[i]
          BY <2>1, <4>1 DEF Sends
        <4> QED BY <2>2, <4>1, <4>2 DEF ShownInv
      <3>2. CASE i > Len(seen)
        <4>1. PICK k \in 1 .. Len(items) : i = Len(seen) + k
          <5>1. i - Len(seen) \in 1 .. Len(items) /\ i = Len(seen) + (i - Len(seen))
            BY <2>1, <2>2, <3>2, ItemsBooks DEF Sends
          <5> QED BY <5>1
        <4>2. seen'[i].id = items[k].id /\ AuthorsOf(items[k].id) = {}
          BY <2>1, <2>2, <4>1 DEF Sends
        <4>3. books[items[k].id] \in Rows \cup {Deleted}
          BY ItemsBooks DEF TypeOK, ShownInv
        <4>4. CASE books[items[k].id] \in Rows
          <5>1. items[k].id \in Authorless(books)
            BY <4>2, <4>4, ItemsBooks DEF AuthorsOf, Authorless
          <5> QED BY <4>2, <5>1 DEF ShownInv
        <4> QED BY <4>2, <4>3, <4>4
      <3> QED BY <2>1, <2>2, <3>1, <3>2, ItemsBooks
    <2>3. items' = <<>> /\ cursor' = cursor /\ books' = books /\ bare' = bare
      BY <1>9 DEF LoadAuthors
    <2> QED BY <1>0, <2>2, <2>3 DEF ShownInv
  <1> QED BY <1>1, <1>2, <1>3, <1>4, <1>5, <1>6, <1>7, <1>8, <1>9, Steps
          DEF Starts, ListBooks, ListSimilar, GetBook

\* In the list, the similar books, the export and GET /books/{id} alike, a book shown without
\* authors has been deleted, or had none at some time since the request began, whatever is
\* committed between the statement of its row and that of its authors.
THEOREM AuthorlessIsDeletedHolds == Spec => []AuthorlessIsDeleted
  <1>1. Init => ShownInv
    BY EmptySeq DEF Init, ShownInv
  <1>2. TypeOK /\ ShownInv => AuthorlessIsDeleted
    <2>1. TypeOK => DOMAIN seen = 1 .. Len(seen)
      BY LenProperties DEF TypeOK
    <2> QED BY <2>1 DEF ShownInv, AuthorlessIsDeleted
  <1>3. Spec => []ShownInv
    BY <1>1, ShownStep, ShapeInvariant, PTL DEF Spec
  <1> QED BY <1>2, <1>3, ShapeInvariant, PTL

-----------------------------------------------------------------------------
(* Exports.                                                                *)

\* Item x shows book b with the columns it had when the reader began.
AsOf(x, b) == x.id = b /\ x.row.year = start[b].year /\ x.row.genre = start[b].genre

\* What was sent, what waits for its authors and what the cursor still has are the catalogue
\* of the beginning, in one order s.
Streams(s) ==
    /\ Len(s) = Len(seen) + Len(items) + Len(cursor)
    /\ \A i \in 1 .. Len(seen) : AsOf(seen[i], s[i])
    /\ \A i \in 1 .. Len(items) : AsOf(items[i], s[Len(seen) + i])
    /\ \A i \in 1 .. Len(cursor) : AsOf(cursor[i], s[Len(seen) + Len(items) + i])

SnapshotInv ==
    query.kind = "export" /\ pc # "failed" => \E s \in SetToSeqs(Begun) : Streams(s)

LEMMA ExportBegins ==
    ASSUME TypeOK, Shape, NEW f \in Filters, ExportBooks(f)
    PROVE  SnapshotInv'
  <1> DEFINE q == [kind |-> "export", filter |-> f, of |-> NoBook]
  <1>1. PICK s \in SetToSeqs(Selected(books, q, NoSource)) : cursor' = RowsOf(books, s)
    BY DEF ExportBooks
  <1>2. /\ start' = books /\ query' = q /\ seen' = <<>> /\ items' = <<>> /\ query'.of = NoBook
    BY DEF ExportBooks, Begin, Shape, Ready
  <1>3. Begun' = Selected(books, q, NoSource)
    BY <1>2 DEF Begun
  <1>4. /\ Len(cursor') = Len(s)
        /\ \A i \in 1 .. Len(s) : cursor'[i].id = s[i] /\ cursor'[i].row = books[s[i]]
    BY <1>1, CursorIs
  <1>5. Len(s) \in Nat /\ Len(<<>>) = 0
    BY <1>1, SelectedIs, SeqsOf, EmptySeq
  <1>6. Streams(s)'
    BY <1>2, <1>4, <1>5 DEF Streams, AsOf
  <1> QED BY <1>1, <1>3, <1>6 DEF SnapshotInv

LEMMA PartitionStreams ==
    ASSUME TypeOK, Shape, SnapshotInv, FetchPartition
    PROVE  SnapshotInv'
  <1>1. /\ query.kind = "export" /\ pc = "stream" /\ items = <<>> /\ pc' = "authors"
        /\ UNCHANGED <<query, start, seen>> /\ Begun' = Begun
    BY DEF FetchPartition, Shape, Begun
  <1>2. PICK s \in SetToSeqs(Begun) : Streams(s)
    BY <1>1 DEF SnapshotInv
  <1>3. IsPartition(items', cursor')
    BY PartitionShape
  <1>4. /\ Len(seen) \in Nat /\ Len(items) = 0 /\ Len(cursor) \in Nat
        /\ Len(items') \in Nat /\ Len(cursor') \in Nat
    BY <1>1, <1>3, ItemsBooks, EmptySeq, LenProperties DEF IsPartition
  <1>5. /\ Len(s) = Len(seen) + Len(cursor)
        /\ \A i \in 1 .. Len(seen) : AsOf(seen[i], s[i])
        /\ \A i \in 1 .. Len(cursor) : AsOf(cursor[i], s[Len(seen) + i])
    BY <1>2, <1>4 DEF Streams
  <1>6. Len(s) = Len(seen) + Len(items') + Len(cursor')
    <2>1. Len(items') + Len(cursor') = Len(cursor)
      BY <1>3 DEF IsPartition
    <2>2. Len(s) = Len(seen) + Len(cursor)
      BY <1>5
    <2> QED BY <1>4, <2>1, <2>2
  <1>7. \A i \in 1 .. Len(items') : AsOf(items'[i], s[Len(seen) + i])
    BY <1>3, <1>5 DEF IsPartition
  <1>8. ASSUME NEW i \in 1 .. Len(cursor')
        PROVE  AsOf(cursor'[i], s[Len(seen) + Len(items') + i])
    <2>1. Len(items') + i \in 1 .. Len(cursor) /\ cursor'[i] = cursor[Len(items') + i]
      BY <1>3 DEF IsPartition
    <2>2. Len(seen) + (Len(items') + i) = Len(seen) + Len(items') + i
      BY <1>4
    <2> QED BY <1>5, <2>1, <2>2
  <1>9. Streams(s)'
    BY <1>1, <1>5, <1>6, <1>7, <1>8 DEF Streams, AsOf
  <1> QED BY <1>1, <1>2, <1>9 DEF SnapshotInv

LEMMA LoadStreams ==
    ASSUME TypeOK, Shape, SnapshotInv, LoadAuthors
    PROVE  SnapshotInv'
  <1> SUFFICES ASSUME query.kind = "export" PROVE SnapshotInv'
    BY DEF LoadAuthors, SnapshotInv
  <1>1. pc = "authors" /\ items' = <<>> /\ UNCHANGED <<query, start, cursor>> /\ Begun' = Begun
    BY DEF LoadAuthors, Begun
  <1>2. PICK s \in SetToSeqs(Begun) : Streams(s)
    BY <1>1 DEF SnapshotInv
  <1>3. Sends
    BY LoadShape
  <1>4. Len(seen) \in Nat /\ Len(items) \in Nat /\ Len(cursor) \in Nat /\ Len(items') = 0
    BY <1>1, ItemsBooks, EmptySeq
  <1>5. Len(seen') = Len(seen) + Len(items)
    BY <1>3 DEF Sends
  <1>6. ASSUME NEW i \in 1 .. Len(seen') PROVE AsOf(seen'[i], s[i])
    <2>1. CASE i <= Len(seen)
      <3>1. i \in 1 .. Len(seen) /\ seen'[i] = seen[i]
        BY <1>3, <1>4, <2>1 DEF Sends
      <3> QED BY <1>2, <3>1 DEF Streams
    <2>2. CASE i > Len(seen)
      <3>1. PICK k \in 1 .. Len(items) : i = Len(seen) + k
        <4>1. i - Len(seen) \in 1 .. Len(items) /\ i = Len(seen) + (i - Len(seen))
          BY <1>4, <1>5, <2>2
        <4> QED BY <4>1
      <3>2. AsOf(items[k], s[i])
        BY <1>2, <3>1 DEF Streams
      <3> QED BY <1>3, <3>1, <3>2 DEF Sends, AsOf
    <2> QED BY <1>4, <1>5, <2>1, <2>2
  <1>7. \A i \in 1 .. Len(cursor) : AsOf(cursor[i], s[Len(seen') + Len(items') + i])
    <2>1. Len(seen') + Len(items') = Len(seen) + Len(items)
      BY <1>4, <1>5
    <2> QED BY <1>2, <2>1 DEF Streams
  <1>8. Len(s) = Len(seen') + Len(items') + Len(cursor)
    BY <1>2, <1>4, <1>5 DEF Streams
  <1>9. Streams(s)'
    BY <1>1, <1>4, <1>6, <1>7, <1>8 DEF Streams, AsOf
  <1> QED BY <1>1, <1>2, <1>9 DEF SnapshotInv

LEMMA SnapshotStep ==
    ASSUME TypeOK, Shape, SnapshotInv, [Next]_vars
    PROVE  SnapshotInv'
  <1>1. CASE UNCHANGED vars
    BY <1>1 DEF vars, reader, SnapshotInv, Begun, Streams, AsOf
  <1>2. CASE Writes
    <2>1. UNCHANGED <<pc, query, items, cursor, seen, start>>
      BY <1>2, WritesBooks
    <2>2. Begun' = Begun /\ \A s : Streams(s)' = Streams(s)
      BY <2>1 DEF Begun, Streams, AsOf
    <2> QED BY <2>1, <2>2 DEF SnapshotInv
  <1>3. ASSUME NEW kind, kind # "export", NEW next, NEW filter, NEW of, Begin(next, kind, filter, of)
        PROVE  SnapshotInv'
    <2>1. query'.kind = kind
      BY <1>3 DEF Begin
    <2> QED BY <1>3, <2>1 DEF SnapshotInv
  <1>4. CASE Starts
    BY <1>3, <1>4, ExportBegins DEF Starts, ListBooks, ListSimilar, GetBook
  <1>5. CASE ReadSource \/ ReadSourceAuthors \/ CountTotal
    BY <1>5 DEF ReadSource, ReadSourceAuthors, CountTotal, Shape, SnapshotInv
  <1>6. CASE FetchPage
    BY <1>6 DEF FetchPage, Shape, SnapshotInv
  <1>7. CASE Fail
    BY <1>7 DEF Fail, SnapshotInv
  <1> QED BY <1>1, <1>2, <1>4, <1>5, <1>6, <1>7, Steps, PartitionStreams, LoadStreams

\* A finished export is the catalogue of the moment its cursor was opened, every book once,
\* whatever is committed while it streams and however the partitions cut it.
THEOREM ExportIsSnapshotHolds == Spec => []ExportIsSnapshot
  <1>1. TypeOK /\ Shape /\ SnapshotInv => ExportIsSnapshot
    <2> SUFFICES ASSUME TypeOK, Shape, SnapshotInv, query.kind = "export", pc = "done"
                 PROVE  /\ IsInjective(Ids(seen))
                        /\ ToSet(Ids(seen)) = Begun
                        /\ \A i \in DOMAIN seen :
                              /\ seen[i].row.year = start[seen[i].id].year
                              /\ seen[i].row.genre = start[seen[i].id].genre
      BY DEF ExportIsSnapshot
    <2>1. PICK s \in SetToSeqs(Begun) : Streams(s)
      BY DEF SnapshotInv
    <2>2. items = <<>> /\ cursor = <<>> /\ Len(seen) \in Nat /\ DOMAIN seen = 1 .. Len(seen)
      BY ItemsBooks, LenProperties DEF Shape, Ready, TypeOK
    <2>3. Len(s) = Len(seen) /\ \A i \in 1 .. Len(seen) : AsOf(seen[i], s[i])
      BY <2>1, <2>2, EmptySeq DEF Streams
    <2>4. Begun \in SUBSET Book
      BY SelectedIs DEF Begun
    <2>5. /\ \A i, j \in 1 .. Len(seen) : s[i] = s[j] => i = j
          /\ \A b \in Begun : \E i \in 1 .. Len(seen) : s[i] = b
          /\ \A i \in 1 .. Len(seen) : s[i] \in Begun
      BY <2>1, <2>3, <2>4, SeqsOf, ElementOfSeq
    <2>6. DOMAIN Ids(seen) = 1 .. Len(seen) /\ \A i \in 1 .. Len(seen) : Ids(seen)[i] = s[i]
      BY <2>2, <2>3 DEF Ids, AsOf
    <2> QED BY <2>2, <2>3, <2>5, <2>6 DEF IsInjective, ToSet, AsOf
  <1>2. Init => SnapshotInv
    BY DEF Init, SnapshotInv
  <1>3. Spec => []SnapshotInv
    BY <1>2, SnapshotStep, ShapeInvariant, PTL DEF Spec
  <1> QED BY <1>1, <1>3, ShapeInvariant, PTL

-----------------------------------------------------------------------------
(* The order of a page.                                                    *)

\* The sort key, with NULLS LAST, is a weak order.
LEMMA KeyOrder ==
    ASSUME NEW q, NEW src \in Row, NEW r \in Row, NEW s \in Row, NEW t \in Row
    PROVE  /\ KeyBefore(q, src, r, s) => ~KeyBefore(q, src, s, r)
           /\ KeyBefore(q, src, r, s) /\ KeyBefore(q, src, s, t) => KeyBefore(q, src, r, t)
           /\ KeyBefore(q, src, r, t) => KeyBefore(q, src, r, s) \/ KeyBefore(q, src, s, t)
  <1>1. Score(r, src) \in Nat /\ Score(s, src) \in Nat /\ Score(t, src) \in Nat
    BY DEF Score
  <1>2. \A x \in {r, s, t} : x.year # NoYear => x.year \in Nat
    BY YearAssumption DEF Row
  <1> QED BY <1>1, <1>2 DEF KeyBefore

\* With the id as tie-breaker it orders the books.
LEMMA BookOrder ==
    ASSUME NEW catalogue, NEW q, NEW src \in Row, NEW a \in Book, NEW b \in Book, NEW c \in Book,
           catalogue[a] \in Row, catalogue[b] \in Row, catalogue[c] \in Row
    PROVE  /\ ~Before(catalogue, q, src, a, a)
           /\ a # b => Before(catalogue, q, src, a, b) \/ Before(catalogue, q, src, b, a)
           /\ Before(catalogue, q, src, a, b) => ~Before(catalogue, q, src, b, a)
           /\ Before(catalogue, q, src, a, b) /\ Before(catalogue, q, src, b, c)
                => Before(catalogue, q, src, a, c)
  BY KeyOrder DEF Before

\* The books that come before b.
Ahead(catalogue, q, src, b) ==
    {a \in Selected(catalogue, q, src) : Before(catalogue, q, src, a, b)}

\* An ordering as the statement that is sorted has it.
LEMMA OrderingIs ==
    ASSUME NEW catalogue, NEW q, NEW src, NEW s \in Orderings(catalogue, q, src)
    PROVE  /\ s \in Seq(Book) /\ Len(s) \in Nat
           /\ Len(s) = Cardinality(Selected(catalogue, q, src))
           /\ \A i \in 1 .. Len(s) : s[i] \in Selected(catalogue, q, src)
           /\ \A i, j \in 1 .. Len(s) : s[i] = s[j] => i = j
           /\ \A b \in Selected(catalogue, q, src) : \E i \in 1 .. Len(s) : s[i] = b
           /\ \A i, j \in 1 .. Len(s) : i < j => ~Before(catalogue, q, src, s[j], s[i])
  <1> DEFINE S == Selected(catalogue, q, src)
  <1>1. s \in SetToSeqs(S) /\ \A i, j \in DOMAIN s : i < j => ~Before(catalogue, q, src, s[j], s[i])
    BY DEF Orderings
  <1>2. S \in SUBSET Book
    BY SelectedIs
  <1> HIDE DEF S
  <1>3. s \in Seq(S) /\ s \in Seq(Book) /\ Len(s) \in Nat /\ DOMAIN s = 1 .. Len(s)
    BY <1>1, <1>2, SeqsOf, LenProperties
  <1>4. \A i \in 1 .. Len(s) : s[i] \in S
    BY <1>3, ElementOfSeq
  <1>5. /\ Len(s) = Cardinality(S)
        /\ \A i, j \in 1 .. Len(s) : s[i] = s[j] => i = j
        /\ \A b \in S : \E i \in 1 .. Len(s) : s[i] = b
    BY <1>1, <1>2, SeqsOf
  <1>6. \A i, j \in 1 .. Len(s) : i < j => ~Before(catalogue, q, src, s[j], s[i])
    BY <1>1, <1>3
  <1> QED BY <1>3, <1>4, <1>5, <1>6 DEF S

\* The place of a book in an ordering is the number of books before it.
LEMMA OrderingRank ==
    ASSUME NEW catalogue, NEW q, NEW src \in Row, NEW s \in Orderings(catalogue, q, src),
           NEW i \in 1 .. Len(s)
    PROVE  Cardinality(Ahead(catalogue, q, src, s[i])) = i - 1
  <1> DEFINE S == Selected(catalogue, q, src)
             A == Ahead(catalogue, q, src, s[i])
             f == [j \in 1 .. i - 1 |-> s[j]]
  <1>1. S \in SUBSET Book /\ \A b \in S : catalogue[b] \in Row
    BY SelectedIs
  <1>2. /\ Len(s) \in Nat /\ i \in Nat
        /\ \A j \in 1 .. Len(s) : s[j] \in S
        /\ \A j, k \in 1 .. Len(s) : s[j] = s[k] => j = k
        /\ \A b \in S : \E j \in 1 .. Len(s) : s[j] = b
        /\ \A j, k \in 1 .. Len(s) : j < k => ~Before(catalogue, q, src, s[k], s[j])
    BY OrderingIs
  <1>3. ASSUME NEW j \in 1 .. i - 1 PROVE s[j] \in A
    <2>1. j \in 1 .. Len(s) /\ j < i
      BY <1>2
    <2>2. s[j] \in S /\ s[i] \in S /\ s[j] # s[i] /\ ~Before(catalogue, q, src, s[i], s[j])
      BY <1>2, <2>1
    <2>3. Before(catalogue, q, src, s[j], s[i])
      BY <1>1, <2>2, BookOrder
    <2> QED BY <2>2, <2>3 DEF Ahead
  <1>4. ASSUME NEW b \in A PROVE \E j \in 1 .. i - 1 : s[j] = b
    <2>1. b \in S /\ Before(catalogue, q, src, b, s[i]) /\ s[i] \in S
      BY <1>2 DEF Ahead
    <2>2. PICK j \in 1 .. Len(s) : s[j] = b
      BY <1>2, <2>1
    <2>3. j # i
      BY <1>1, <2>1, <2>2, BookOrder
    <2>4. ~(i < j)
      BY <1>2, <2>1, <2>2
    <2>5. j \in 1 .. i - 1
      BY <1>2, <2>3, <2>4
    <2> QED BY <2>2, <2>5
  <1>5. f \in Bijection(1 .. i - 1, A)
    <2>1. f \in [1 .. i - 1 -> A]
      BY <1>3
    <2>2. \A j, k \in 1 .. i - 1 : f[j] = f[k] => j = k
      BY <1>2
    <2>3. \A b \in A : \E j \in 1 .. i - 1 : f[j] = b
      BY <1>4
    <2> HIDE DEF f, A
    <2> QED BY <2>1, <2>2, <2>3 DEF Bijection, Injection, Surjection, IsInjective
  <1>6. IsFiniteSet(1 .. i - 1) /\ Cardinality(1 .. i - 1) = i - 1
    <2> DEFINE n == i - 1
    <2>1. n \in Int /\ 1 \in Int /\ n >= 0
      BY <1>2
    <2> HIDE DEF n
    <2>2. IsFiniteSet(1 .. n) /\ Cardinality(1 .. n) = IF 1 > n THEN 0 ELSE n - 1 + 1
      BY <2>1, FS_Interval
    <2>3. Cardinality(1 .. n) = n
      BY <2>1, <2>2
    <2> QED BY <2>2, <2>3 DEF n
  <1>7. ExistsBijection(1 .. i - 1, A)
    BY <1>5 DEF ExistsBijection
  <1> QED BY <1>6, <1>7, FS_Bijection

\* So there is one ordering at most: pages that sort anew sort alike.
LEMMA OrderingUnique ==
    ASSUME NEW catalogue, NEW q, NEW src \in Row,
           NEW s \in Orderings(catalogue, q, src), NEW t \in Orderings(catalogue, q, src)
    PROVE  s = t
  <1>1. s \in Seq(Book) /\ t \in Seq(Book) /\ Len(s) = Len(t) /\ Len(s) \in Nat
    BY OrderingIs
  <1>2. ASSUME NEW i \in 1 .. Len(s) PROVE s[i] = t[i]
    <2>1. s[i] \in Selected(catalogue, q, src)
      BY OrderingIs
    <2>2. PICK k \in 1 .. Len(t) : t[k] = s[i]
      BY <2>1, OrderingIs
    <2>3. i - 1 = k - 1
      BY <2>2, OrderingRank
    <2> QED BY <1>1, <2>2, <2>3
  <1> QED BY <1>1, <1>2, SeqEqual

-----------------------------------------------------------------------------
(* Walks.                                                                  *)

\* A walk through the pages of GET /books or GET /books/{id}/similar.
Walking == query.kind \in {"list", "similar"} /\ pc # "failed"

\* The source that the walk began with.
Base == IF query.of \in Book /\ start[query.of] \in Row THEN start[query.of] ELSE NoSource

\* While nothing disturbs a walk, it compares with the source it began with.
SourceInv ==
    /\ since = "calm" => books = start
    /\ Walking /\ since # "disturbed" =>
          /\ query.kind = "similar" => books[query.of] = start[query.of]
          /\ pc # "source" => source = Base

LEMMA BaseRow == Base \in Row
  BY DEF Base, NoSource, Row

\* The commits that may come while a walk is not disturbed.
LEMMA CalmWrites ==
    ASSUME Writes, since' # "disturbed"
    PROVE  /\ since # "disturbed" /\ since' = "grown"
           /\ UNCHANGED <<pc, query, source, offset, total, items, cursor, seen, start>>
           /\ Base' = Base /\ Begun' = Begun
           /\ \E c \in Book, row \in Rows \cup {Deleted} :
                 /\ books' = [books EXCEPT ![c] = row]
                 /\ c # query.of
                 /\ Selects(query, Base, c, books[c]) =>
                       /\ Selects(query, Base, c, row)
                       /\ ~KeyBefore(query, Base, books[c], row)
                       /\ ~KeyBefore(query, Base, row, books[c])
  <1>1. PICK c \in Book, row \in Rows \cup {Deleted} : Change(c, row)
    BY DEF Writes
  <1>2. Undisturbed(c, row) /\ since # "disturbed"
    BY <1>1 DEF Change
  <1>3. /\ c # query.of
        /\ Selects(query, Base, c, books[c]) =>
              /\ Selects(query, Base, c, row)
              /\ ~KeyBefore(query, Base, books[c], row)
              /\ ~KeyBefore(query, Base, row, books[c])
    BY <1>2 DEF Undisturbed, Base
  <1>4. UNCHANGED <<pc, query, source, offset, total, items, cursor, seen, start>>
    BY <1>1 DEF Change
  <1>5. Base' = Base /\ Begun' = Begun
    BY <1>4 DEF Base, Begun
  <1> QED BY <1>1, <1>2, <1>3, <1>4, <1>5 DEF Change

\* Where a walk starts.
WalkStarts ==
    /\ pc' \in {"count", "source"} /\ query'.kind \in {"list", "similar"}
    /\ offset' = 0 /\ seen' = <<>> /\ since' = "calm"
    /\ books' = books /\ start' = books
    /\ query'.kind = "list" => source' = Base' /\ pc' = "count"
    /\ query'.kind = "similar" => pc' = "source"

LEMMA WalkStart ==
    ASSUME TypeOK, Starts
    PROVE  WalkStarts \/ (~Walking' /\ start' = books' /\ since' = "calm")
  <1>1. ASSUME NEW f \in Filters, ListBooks(f) PROVE WalkStarts
    <2>1. query'.of = NoBook /\ source' = NoSource /\ query'.kind = "list"
      BY <1>1 DEF ListBooks, Begin
    <2>2. Base' = NoSource
      BY <2>1 DEF Base
    <2> QED BY <1>1, <2>1, <2>2 DEF ListBooks, Begin, WalkStarts
  <1>2. ASSUME NEW b \in Book, ListSimilar(b) PROVE WalkStarts
    BY <1>2 DEF ListSimilar, Begin, WalkStarts
  <1>3. ASSUME NEW f \in Filters, ExportBooks(f)
        PROVE  ~Walking' /\ start' = books' /\ since' = "calm"
    BY <1>3 DEF ExportBooks, Begin, Walking
  <1>4. ASSUME NEW b \in Book, GetBook(b)
        PROVE  ~Walking' /\ start' = books' /\ since' = "calm"
    BY <1>4 DEF GetBook, Begin, Walking
  <1> QED BY <1>1, <1>2, <1>3, <1>4 DEF Starts

LEMMA SourceStep ==
    ASSUME TypeOK, Shape, SourceInv, [Next]_vars
    PROVE  SourceInv'
  <1> USE DEF SourceInv, Walking
  <1>1. CASE UNCHANGED vars
    BY <1>1 DEF vars, reader, Base
  <1>2. CASE Writes
    <2> SUFFICES ASSUME since' # "disturbed" PROVE SourceInv'
      BY <1>2 DEF Writes, Change
    <2>1. /\ since # "disturbed" /\ since' = "grown"
          /\ UNCHANGED <<pc, query, source, start>> /\ Base' = Base
          /\ \E c \in Book, row \in Rows \cup {Deleted} :
                books' = [books EXCEPT ![c] = row] /\ c # query.of
      BY <1>2, CalmWrites
    <2>2. query.kind = "similar" => books'[query.of] = books[query.of]
      BY <2>1 DEF TypeOK, Shape
    <2> QED BY <2>1, <2>2
  <1>3. CASE Starts
    BY <1>3, WalkStart DEF WalkStarts
  <1>4. CASE ReadSource
    BY <1>4 DEF ReadSource, Shape, Base
  <1>5. CASE ReadSourceAuthors
    <2>1. ASSUME NEW r \in Row PROVE [r EXCEPT !.authors = r.authors] = r
      BY DEF Row
    <2> SUFFICES ASSUME since # "disturbed" PROVE source' = Base
      BY <1>5 DEF ReadSourceAuthors, Base
    <2>2. /\ query.of \in Book /\ start[query.of] \in Row /\ books[query.of] = start[query.of]
          /\ source = start[query.of] /\ Base = start[query.of]
      BY <1>5 DEF ReadSourceAuthors, Shape, Base
    <2> QED BY <1>5, <2>1, <2>2 DEF ReadSourceAuthors, AuthorsOf
  <1>6. CASE CountTotal \/ FetchPage \/ Fail
    BY <1>6 DEF CountTotal, FetchPage, Fail, Base
  <1>7. CASE FetchPartition
    BY <1>7 DEF FetchPartition, Shape, Base
  <1>8. CASE LoadAuthors
    BY <1>8 DEF LoadAuthors, Base
  <1> QED BY <1>1, <1>2, <1>3, <1>4, <1>5, <1>6, <1>7, <1>8, Steps

LEMMA SourceInvariant == Spec => []SourceInv
  <1>1. Init => SourceInv
    BY DEF Init, SourceInv, Walking
  <1> QED BY <1>1, SourceStep, ShapeInvariant, PTL DEF Spec

\* The books that come before b in the order of the walk.
Rank(b) == Cardinality(Ahead(books, query, Base, b))

Shown(b) == \E i \in 1 .. Len(seen) : seen[i].id = b

Coming(b) == \E i \in 1 .. Len(items) : items[i].id = b

\* A book of the beginning that was not shown yet stands beyond the pages that were read.
StableInv ==
    Walking /\ since # "disturbed" =>
        \A b \in Begun :
            /\ b \in Selected(books, query, Base)
            /\ pc \notin {"authors", "done"} => Shown(b) \/ Rank(b) >= offset
            /\ pc = "authors" => \/ Shown(b) \/ Coming(b)
                                 \/ Len(items) = Limit /\ Rank(b) >= offset + Limit
            /\ pc = "done" => Shown(b)

LEMMA BegunIs == Begun = Selected(start, query, Base)
  BY DEF Begun, Base

LEMMA AheadFinite ==
    ASSUME NEW catalogue, NEW q, NEW src, NEW b
    PROVE  /\ IsFiniteSet(Ahead(catalogue, q, src, b))
           /\ Cardinality(Ahead(catalogue, q, src, b)) \in Nat
  <1>1. Ahead(catalogue, q, src, b) \subseteq Book
    BY SelectedIs DEF Ahead
  <1> QED BY <1>1, FS_Subset, FS_CardinalityType

\* A commit that does not disturb the walk takes no book away and brings none forward.
LEMMA RankGrows ==
    ASSUME TypeOK, Writes, since' # "disturbed", NEW b \in Selected(books, query, Base)
    PROVE  b \in Selected(books', query, Base) /\ Rank(b)' >= Rank(b)
  <1> DEFINE S == Selected(books, query, Base)
             T == Selected(books', query, Base)
             KB(r, s) == KeyBefore(query, Base, r, s)
             A == Ahead(books, query, Base, b)
             B == Ahead(books', query, Base, b)
  <1>1. PICK c \in Book, row \in Rows \cup {Deleted} :
           /\ books' = [books EXCEPT ![c] = row]
           /\ Selects(query, Base, c, books[c]) =>
                 /\ Selects(query, Base, c, row) /\ ~KB(books[c], row) /\ ~KB(row, books[c])
    BY CalmWrites
  <1>2. \A a \in Book : books'[a] = IF a = c THEN row ELSE books[a]
    BY <1>1 DEF TypeOK
  <1>3. \A a \in S : a \in Book /\ books[a] \in Row /\ Selects(query, Base, a, books[a])
    BY DEF Selected, Selects
  <1>4. ASSUME NEW a \in S
        PROVE  a \in T /\ books'[a] \in Row /\ ~KB(books[a], books'[a]) /\ ~KB(books'[a], books[a])
    <2>1. a \in Book /\ books[a] \in Row /\ Selects(query, Base, a, books[a])
      BY <1>3
    <2>2. /\ Selects(query, Base, a, books'[a])
          /\ ~KB(books[a], books'[a]) /\ ~KB(books'[a], books[a])
      <3>1. CASE a = c
        BY <1>1, <1>2, <2>1, <3>1
      <3>2. CASE a # c
        <4>1. books'[a] = books[a]
          BY <1>2, <2>1, <3>2
        <4>2. ~KB(books[a], books[a])
          BY <2>1, BaseRow, KeyOrder
        <4> QED BY <2>1, <4>1, <4>2
      <3> QED BY <3>1, <3>2
    <2> QED BY <2>1, <2>2 DEF Selected, Selects
  <1>5. ASSUME NEW a \in S, NEW d \in S, KB(books[a], books[d])
        PROVE  KB(books'[a], books'[d])
    <2>1. books[a] \in Row /\ books[d] \in Row /\ books'[a] \in Row /\ books'[d] \in Row
      BY <1>3, <1>4
    <2>2. ~KB(books[a], books'[a]) /\ ~KB(books'[d], books[d])
      BY <1>4
    <2>3. KB(books'[a], books[d])
      BY <1>5, <2>1, <2>2, BaseRow, KeyOrder
    <2> QED BY <2>1, <2>2, <2>3, BaseRow, KeyOrder
  <1>6. ASSUME NEW a \in S, NEW d \in S, KB(books'[a], books'[d])
        PROVE  KB(books[a], books[d])
    <2>1. books[a] \in Row /\ books[d] \in Row /\ books'[a] \in Row /\ books'[d] \in Row
      BY <1>3, <1>4
    <2>2. ~KB(books'[a], books[a]) /\ ~KB(books[d], books'[d])
      BY <1>4
    <2>3. KB(books[a], books'[d])
      BY <1>6, <2>1, <2>2, BaseRow, KeyOrder
    <2> QED BY <2>1, <2>2, <2>3, BaseRow, KeyOrder
  <1>7. ASSUME NEW a \in A PROVE a \in B
    <2>1. a \in S /\ b \in S /\ Before(books, query, Base, a, b)
      BY DEF Ahead
    <2>2. Before(books', query, Base, a, b)
      BY <1>5, <1>6, <2>1 DEF Before
    <2> QED BY <1>4, <2>1, <2>2 DEF Ahead
  <1>8. Cardinality(A) <= Cardinality(B)
    <2>1. A \subseteq B /\ IsFiniteSet(B)
      BY <1>7, AheadFinite
    <2> QED BY <2>1, FS_Subset
  <1>9. Rank(b)' = Cardinality(B) /\ Rank(b) = Cardinality(A)
    BY CalmWrites DEF Rank
  <1>10. Cardinality(A) \in Nat /\ Cardinality(B) \in Nat
    BY AheadFinite
  <1> HIDE DEF A, B
  <1> QED BY <1>4, <1>8, <1>9, <1>10

\* A page shows the books whose turn it is.
LEMMA StableFetch ==
    ASSUME TypeOK, Shape, SourceInv, StableInv, FetchPage
    PROVE  StableInv'
  <1> SUFFICES ASSUME Walking', since' # "disturbed", NEW b \in Begun'
               PROVE  /\ b \in Selected(books', query', Base')
                      /\ Shown(b)' \/ Coming(b)' \/ (Len(items') = Limit /\ Rank(b)' >= offset' + Limit)
    BY DEF StableInv, FetchPage
  <1>1. /\ pc = "page" /\ pc' = "authors" /\ Walking /\ since # "disturbed"
        /\ UNCHANGED <<books, query, source, offset, seen, start, since>>
    BY DEF FetchPage, Walking
  <1>2. source = Base /\ Base' = Base /\ Begun' = Begun /\ Rank(b)' = Rank(b) /\ Shown(b)' = Shown(b)
    BY <1>1 DEF SourceInv, Base, Begun, Rank, Shown
  <1>3. b \in Selected(books, query, Base) /\ (Shown(b) \/ Rank(b) >= offset)
    BY <1>1, <1>2 DEF StableInv
  <1> SUFFICES ASSUME Rank(b) >= offset
               PROVE  Coming(b)' \/ (Len(items') = Limit /\ Rank(b) >= offset + Limit)
    BY <1>1, <1>2, <1>3
  <1>4. PICK s \in Orderings(books, query, Base) : IsPage(items', s)
    BY <1>2, FetchShape
  <1>5. PICK k \in 1 .. Len(s) : s[k] = b
    BY <1>3, OrderingIs
  <1>6. Rank(b) = k - 1
    BY <1>5, BaseRow, OrderingRank DEF Rank
  <1>7. Len(s) \in Nat /\ Len(items') \in Nat /\ offset \in Nat
    BY <1>4, OrderingIs, LenProperties DEF IsPage, TypeOK
  <1>8. CASE k - offset \in 1 .. Len(items')
    <2>1. offset + (k - offset) = k
      BY <1>7
    <2>2. items'[k - offset].id = b
      BY <1>4, <1>5, <1>8, <2>1 DEF IsPage
    <2> QED BY <1>8, <2>2 DEF Coming
  <1>9. CASE k - offset \notin 1 .. Len(items')
    BY <1>4, <1>6, <1>7, <1>9 DEF IsPage
  <1> QED BY <1>8, <1>9

LEMMA SentIsShown ==
    ASSUME TypeOK, Sends, NEW b, Shown(b) \/ Coming(b)
    PROVE  Shown(b)'
  <1>1. Len(seen) \in Nat /\ Len(items) \in Nat /\ Len(seen') = Len(seen) + Len(items)
    BY ItemsBooks DEF Sends
  <1>2. CASE Shown(b)
    BY <1>1, <1>2 DEF Sends, Shown
  <1>3. CASE Coming(b)
    <2>1. PICK k \in 1 .. Len(items) : items[k].id = b
      BY <1>3 DEF Coming
    <2>2. Len(seen) + k \in 1 .. Len(seen') /\ seen'[Len(seen) + k].id = b
      BY <1>1, <2>1 DEF Sends
    <2> QED BY <2>2 DEF Shown
  <1> QED BY <1>2, <1>3

LEMMA StableLoad ==
    ASSUME TypeOK, Shape, StableInv, LoadAuthors
    PROVE  StableInv'
  <1> SUFFICES ASSUME Walking', since' # "disturbed", NEW b \in Begun'
               PROVE  /\ b \in Selected(books', query', Base')
                      /\ pc' # "authors"
                      /\ Shown(b)' \/ (pc' # "done" /\ Rank(b)' >= offset')
    BY DEF StableInv
  <1>1. /\ pc = "authors" /\ Walking /\ since # "disturbed"
        /\ UNCHANGED <<books, query, source, start, since>>
    BY DEF LoadAuthors, Walking
  <1>2. Base' = Base /\ Begun' = Begun /\ Rank(b)' = Rank(b)
    BY <1>1 DEF Base, Begun, Rank
  <1>3. /\ b \in Selected(books, query, Base)
        /\ \/ Shown(b) \/ Coming(b)
           \/ Len(items) = Limit /\ Rank(b) >= offset + Limit
    BY <1>1, <1>2 DEF StableInv
  <1>4. pc' # "authors" /\ query.kind \in {"list", "similar"}
    BY <1>1 DEF LoadAuthors, Walking
  <1>5. CASE Shown(b) \/ Coming(b)
    BY <1>1, <1>2, <1>3, <1>4, <1>5, SentIsShown, LoadShape
  <1>6. CASE Len(items) = Limit /\ Rank(b) >= offset + Limit
    <2>1. ~LastPage
      BY <1>4, <1>6 DEF LastPage
    <2>2. pc' # "done" /\ offset' = offset + Limit
      BY <1>4, <2>1 DEF LoadAuthors
    <2> QED BY <1>1, <1>2, <1>3, <1>4, <1>6, <2>2
  <1> QED BY <1>3, <1>5, <1>6

LEMMA StableStep ==
    ASSUME TypeOK, Shape, SourceInv, StableInv, [Next]_vars
    PROVE  StableInv'
  <1>1. CASE UNCHANGED vars
    BY <1>1 DEF vars, reader, StableInv, Walking, Begun, Base, Rank, Shown, Coming
  <1>2. CASE Writes
    <2> SUFFICES ASSUME Walking', since' # "disturbed" PROVE StableInv'
      BY DEF StableInv
    <2>1. /\ UNCHANGED <<pc, query, offset, items, seen>> /\ Base' = Base /\ Begun' = Begun
          /\ since # "disturbed" /\ Walking
      BY <1>2, CalmWrites DEF Walking
    <2>2. ASSUME NEW b \in Begun
          PROVE  /\ b \in Selected(books, query, Base) /\ b \in Selected(books', query, Base)
                 /\ \A n \in Nat : Rank(b) >= n => Rank(b)' >= n
      <3>1. b \in Selected(books, query, Base)
        BY <2>1 DEF StableInv
      <3>2. b \in Selected(books', query, Base) /\ Rank(b)' >= Rank(b)
        BY <1>2, <3>1, RankGrows
      <3>3. Rank(b) \in Nat /\ Rank(b)' \in Nat
        BY <2>1, AheadFinite DEF Rank
      <3> QED BY <3>1, <3>2, <3>3
    <2>3. offset \in Nat /\ offset + Limit \in Nat
      BY DEF TypeOK
    <2>4. \A b : Shown(b)' = Shown(b) /\ Coming(b)' = Coming(b)
      BY <2>1 DEF Shown, Coming
    <2> QED BY <2>1, <2>2, <2>3, <2>4 DEF StableInv
  <1>3. CASE Starts
    <2> SUFFICES ASSUME WalkStarts PROVE StableInv'
      BY <1>3, WalkStart DEF StableInv
    <2>1. Begun' = Selected(books', query', Base')
      BY DEF WalkStarts, Begun, Base
    <2>2. \A b : Rank(b)' \in Nat
      BY AheadFinite DEF Rank
    <2> QED BY <2>1, <2>2 DEF WalkStarts, StableInv
  <1>4. CASE ReadSource \/ ReadSourceAuthors \/ CountTotal
    <2>1. /\ UNCHANGED <<books, query, offset, seen, start, since>>
          /\ pc \in {"source", "similar_to", "count"}
          /\ pc' \in {"failed", "similar_to", "count", "page"}
      BY <1>4 DEF ReadSource, ReadSourceAuthors, CountTotal
    <2>2. Base' = Base /\ Begun' = Begun
      BY <2>1 DEF Base, Begun
    <2>3. \A b : Rank(b)' = Rank(b) /\ Shown(b)' = Shown(b)
      BY <2>1, <2>2 DEF Rank, Shown
    <2> QED BY <2>1, <2>2, <2>3 DEF StableInv, Walking
  <1>5. CASE FetchPartition
    BY <1>5 DEF FetchPartition, Shape, StableInv, Walking
  <1>6. CASE Fail
    BY <1>6 DEF Fail, StableInv, Walking
  <1> QED BY <1>1, <1>2, <1>3, <1>4, <1>5, <1>6, Steps, StableFetch, StableLoad

\* Whatever is inserted while a client walks the pages, and whichever books change without
\* changing place, no book that the walk began with is missed.
THEOREM StableBooksSeenHolds == Spec => []StableBooksSeen
  <1>1. TypeOK /\ StableInv => StableBooksSeen
    <2> SUFFICES ASSUME TypeOK, StableInv, since # "disturbed", Walked, NEW b \in Begun
                 PROVE  b \in ToSet(Ids(seen))
      BY DEF StableBooksSeen
    <2>1. PICK i \in 1 .. Len(seen) : seen[i].id = b
      BY DEF StableInv, Walked, Walking, Shown
    <2>2. DOMAIN seen = 1 .. Len(seen)
      BY LenProperties DEF TypeOK
    <2> QED BY <2>1, <2>2 DEF Ids, ToSet
  <1>2. Init => StableInv
    BY DEF Init, StableInv, Walking
  <1>3. Spec => []StableInv
    BY <1>2, StableStep, SourceInvariant, ShapeInvariant, PTL DEF Spec
  <1> QED BY <1>1, <1>3, ShapeInvariant, PTL

-----------------------------------------------------------------------------
(* Walks that nothing disturbs.                                            *)

\* The pages of a catalogue at rest are cut from its one ordering.
QuietInv ==
    Walking /\ since = "calm" =>
        /\ pc # "done" => Len(seen) = offset
        /\ pc \in {"page", "authors", "done"} => total = Cardinality(Begun)
        /\ pc \in {"authors", "done"} => Orderings(start, query, Base) # {}
        /\ \A s \in Orderings(start, query, Base) :
              /\ offset <= Len(s)
              /\ \A i \in 1 .. Len(seen) : seen[i].id = s[i]
              /\ pc = "authors" => IsPage(items, s)
              /\ pc = "done" => Len(seen) = Len(s)

LEMMA QuietFetch ==
    ASSUME TypeOK, Shape, SourceInv, QuietInv, FetchPage
    PROVE  QuietInv'
  <1> SUFFICES ASSUME Walking', since' = "calm" PROVE QuietInv'
    BY DEF QuietInv
  <1>1. /\ pc = "page" /\ pc' = "authors" /\ Walking /\ since = "calm"
        /\ UNCHANGED <<books, query, source, offset, total, seen, start, since>>
    BY DEF FetchPage, Walking
  <1>2. source = Base /\ books = start /\ Base' = Base /\ Begun' = Begun
    BY <1>1 DEF SourceInv, Base, Begun
  <1>3. PICK s \in Orderings(start, query, Base) : IsPage(items', s)
    BY <1>2, FetchShape
  <1>4. ASSUME NEW t \in Orderings(start, query, Base)
        PROVE  /\ t = s /\ offset <= Len(t)
               /\ \A i \in 1 .. Len(seen) : seen[i].id = t[i]
    BY <1>1, <1>3, BaseRow, OrderingUnique DEF QuietInv
  <1>5. IsPage(items, s)'
    BY <1>1, <1>3 DEF IsPage
  <1>6. \A t \in Orderings(start, query, Base) : IsPage(items, t)'
    BY <1>4, <1>5
  <1>7. Len(seen) = offset /\ total = Cardinality(Begun)
    BY <1>1 DEF QuietInv
  <1> QED BY <1>1, <1>2, <1>3, <1>4, <1>6, <1>7 DEF QuietInv

LEMMA QuietLoad ==
    ASSUME TypeOK, Shape, QuietInv, LoadAuthors
    PROVE  QuietInv'
  <1> SUFFICES ASSUME Walking', since' = "calm" PROVE QuietInv'
    BY DEF QuietInv
  <1>1. /\ pc = "authors" /\ pc' # "authors" /\ Walking /\ since = "calm"
        /\ query.kind \in {"list", "similar"}
        /\ UNCHANGED <<books, query, source, total, start, since>>
    BY DEF LoadAuthors, Walking
  <1>2. Base' = Base /\ Begun' = Begun
    BY <1>1 DEF Base, Begun
  <1>3. Len(seen) = offset /\ total = Cardinality(Begun) /\ Orderings(start, query, Base) # {}
    BY <1>1 DEF QuietInv
  <1>4. Sends /\ offset \in Nat /\ Len(items) \in Nat /\ Len(items) <= Limit
    BY <1>1, LoadShape, ItemsBooks DEF TypeOK
  <1>5. Len(seen') = offset + Len(items)
    BY <1>3, <1>4 DEF Sends
  <1>6. \/ pc' = "done" /\ offset' = offset /\ Len(items) < Limit
        \/ pc' # "done" /\ offset' = offset + Limit /\ Len(items) = Limit
    BY <1>1, <1>4 DEF LoadAuthors, LastPage
  <1>7. ASSUME NEW s \in Orderings(start, query, Base)
        PROVE  /\ offset' <= Len(s)
               /\ \A i \in 1 .. Len(seen') : seen'[i].id = s[i]
               /\ pc' = "done" => Len(seen') = Len(s)
    <2>1. /\ offset <= Len(s) /\ IsPage(items, s)
          /\ \A i \in 1 .. Len(seen) : seen[i].id = s[i]
      BY <1>1 DEF QuietInv
    <2>2. Len(s) \in Nat
      BY OrderingIs
    <2>3. offset + Len(items) <= Len(s) /\ (Len(items) < Limit => offset + Len(items) = Len(s))
      BY <1>4, <2>1, <2>2 DEF IsPage
    <2>4. ASSUME NEW i \in 1 .. Len(seen') PROVE seen'[i].id = s[i]
      <3>1. CASE i <= offset
        BY <1>3, <1>4, <2>1, <3>1 DEF Sends
      <3>2. CASE i > offset
        <4>1. PICK k \in 1 .. Len(items) : i = offset + k
          <5>1. i - offset \in 1 .. Len(items) /\ i = offset + (i - offset)
            BY <1>4, <1>5, <3>2
          <5> QED BY <5>1
        <4> QED BY <1>3, <1>4, <2>1, <4>1 DEF Sends, IsPage
      <3> QED BY <1>4, <1>5, <3>1, <3>2
    <2> QED BY <1>4, <1>5, <1>6, <2>1, <2>2, <2>3, <2>4
  <1> QED BY <1>1, <1>2, <1>3, <1>4, <1>5, <1>6, <1>7 DEF QuietInv

LEMMA QuietStep ==
    ASSUME TypeOK, Shape, SourceInv, QuietInv, [Next]_vars
    PROVE  QuietInv'
  <1>1. CASE UNCHANGED vars
    BY <1>1 DEF vars, reader, QuietInv, Walking, Begun, Base, IsPage
  <1>2. CASE Writes
    BY <1>2, CalmWrites DEF QuietInv
  <1>3. CASE Starts
    <2> SUFFICES ASSUME WalkStarts PROVE QuietInv'
      BY <1>3, WalkStart DEF QuietInv
    <2>1. \A s \in Orderings(start', query', Base') : Len(s) \in Nat
      BY OrderingIs
    <2>2. Len(seen') = 0 /\ offset' = 0
      BY EmptySeq DEF WalkStarts
    <2> QED BY <2>1, <2>2 DEF WalkStarts, QuietInv
  <1>4. CASE ReadSource \/ ReadSourceAuthors
    <2>1. /\ UNCHANGED <<query, offset, seen, start, since>>
          /\ pc \in {"source", "similar_to"} /\ pc' \in {"failed", "similar_to", "count"}
      BY <1>4 DEF ReadSource, ReadSourceAuthors
    <2> QED BY <2>1 DEF QuietInv, Walking, Base
  <1>5. CASE CountTotal
    <2>1. /\ UNCHANGED <<query, source, offset, seen, start, since>>
          /\ pc = "count" /\ pc' = "page" /\ total' = Cardinality(Selected(books, query, source))
      BY <1>5 DEF CountTotal
    <2>2. Base' = Base /\ Begun' = Begun
      BY <2>1 DEF Base, Begun
    <2>3. Walking /\ since = "calm" => total' = Cardinality(Begun)
      BY <2>1, BegunIs DEF SourceInv
    <2> QED BY <2>1, <2>2, <2>3 DEF QuietInv, Walking
  <1>6. CASE FetchPartition
    BY <1>6 DEF FetchPartition, Shape, QuietInv, Walking
  <1>7. CASE Fail
    BY <1>7 DEF Fail, QuietInv, Walking
  <1> QED BY <1>1, <1>2, <1>3, <1>4, <1>5, <1>6, <1>7, Steps, QuietFetch, QuietLoad

\* Pages read while nothing changes are one list, although each of them sorts anew: the books
\* selected, each once and in their order, and every page with the right total.
THEOREM QuietWalkExactHolds == Spec => []QuietWalkExact
  <1>1. TypeOK /\ SourceInv /\ QuietInv => QuietWalkExact
    <2> SUFFICES ASSUME TypeOK, SourceInv, QuietInv, since = "calm", Walked
                 PROVE  Ids(seen) \in Orderings(start, query, source) /\ total = Cardinality(Begun)
      BY DEF QuietWalkExact
    <2>1. /\ pc = "done" /\ source = Base /\ total = Cardinality(Begun)
          /\ Orderings(start, query, Base) # {}
      BY DEF SourceInv, QuietInv, Walked, Walking
    <2>2. PICK s \in Orderings(start, query, Base) : TRUE
      BY <2>1
    <2>3. Len(seen) = Len(s) /\ \A i \in 1 .. Len(seen) : seen[i].id = s[i]
      BY <2>1, <2>2 DEF QuietInv, Walked, Walking
    <2>4. s \in Seq(Book) /\ DOMAIN s = 1 .. Len(s) /\ DOMAIN seen = 1 .. Len(seen)
      BY <2>2, OrderingIs, LenProperties DEF TypeOK
    <2>5. s = [i \in 1 .. Len(s) |-> s[i]]
      BY <2>4
    <2>6. Ids(seen) = [i \in 1 .. Len(s) |-> s[i]]
      BY <2>3, <2>4 DEF Ids
    <2> QED BY <2>1, <2>2, <2>5, <2>6
  <1>2. Init => QuietInv
    BY DEF Init, QuietInv, Walking
  <1>3. Spec => []QuietInv
    BY <1>2, QuietStep, SourceInvariant, ShapeInvariant, PTL DEF Spec
  <1> QED BY <1>1, <1>3, SourceInvariant, ShapeInvariant, PTL

-----------------------------------------------------------------------------
(* The writers are those of the ledger that BookCatalog implements.        *)

Ledger == INSTANCE BookLedger WITH Content <- Rows, catalogue <- books

\* The writers change the catalogue as the ledger does, and while the bound on commits lasts they
\* may do all that the ledger does: what is proved of the reads assumes no more of the writes
\* than BookCatalog guarantees.
LEMMA WritersAreLedger ==
    ASSUME TypeOK
    PROVE
    /\ [Next]_vars => [Ledger!Next]_books
    /\ \A b \in Book, row \in Rows :
          Change(b, row) /\ (Ledger!Create(b, row) \/ Ledger!Update(b, row)) /\ books' # books => Next
    /\ \A b \in Book : Change(b, Deleted) /\ Ledger!Delete(b) => Next
  <1>1. ASSUME [Next]_vars PROVE [Ledger!Next]_books
    <2>1. CASE UNCHANGED books
      BY <2>1
    <2>2. ASSUME NEW b \in Book, books[b] \in Row PROVE books[b] \in Rows
      BY <2>2 DEF TypeOK
    <2>3. ASSUME NEW b \in Book, NEW row \in Rows, CreateBook(b, row) \/ UpdateBook(b, row)
          PROVE  Ledger!Create(b, row) \/ Ledger!Update(b, row)
      BY <2>2, <2>3 DEF CreateBook, UpdateBook, Change, Ledger!Create, Ledger!Update
    <2>4. ASSUME NEW b \in Book, DeleteBook(b) PROVE Ledger!Delete(b)
      BY <2>2, <2>4 DEF DeleteBook, Change, Ledger!Delete
    <2>5. CASE Starts \/ Read \/ Fail \/ UNCHANGED vars
      BY <2>1, <2>5 DEF Starts, ListBooks, ListSimilar, GetBook, ExportBooks, Begin, Read, ReadSource,
                        ReadSourceAuthors, CountTotal, FetchPage, FetchPartition, LoadAuthors, Fail, vars
    <2>6. \/ \E b \in Book, row \in Rows : CreateBook(b, row) \/ UpdateBook(b, row)
          \/ \E b \in Book : DeleteBook(b)
          \/ Starts \/ Read \/ Fail \/ UNCHANGED vars
      BY <1>1 DEF Next, Starts
    <2> QED BY <2>3, <2>4, <2>5, <2>6 DEF Ledger!Next
  <1>2. ASSUME NEW b \in Book, NEW row \in Rows, Change(b, row),
               Ledger!Create(b, row) \/ Ledger!Update(b, row), books' # books
        PROVE  Next
    <2>1. CASE Ledger!Create(b, row)
      BY <1>2, <2>1 DEF Ledger!Create, CreateBook, Next
    <2>2. CASE Ledger!Update(b, row)
      <3>1. books[b] \in Rows /\ books' = [books EXCEPT ![b] = row]
        BY <1>2, <2>2 DEF Ledger!Update, Change
      <3>2. books[b] # row
        BY <1>2, <3>1 DEF TypeOK
      <3> QED BY <1>2, <3>1, <3>2 DEF UpdateBook, Next
    <2> QED BY <1>2, <2>1, <2>2
  <1>3. ASSUME NEW b \in Book, Change(b, Deleted), Ledger!Delete(b) PROVE Next
    BY <1>3 DEF Ledger!Delete, DeleteBook, Next
  <1> QED BY <1>1, <1>2, <1>3

=============================================================================
