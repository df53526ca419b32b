---------------------------- MODULE SimilarBooks ----------------------------
(***************************************************************************)
(* The score of GET /books/{id}/similar and the pre-filter that is to keep *)
(* the database from scoring every book. A comparison with NULL is neither *)
(* true nor false in SQL, and counts as not true in WHERE and CASE alike.  *)
(***************************************************************************)
EXTENDS Integers

CONSTANTS Author, Genre, Year,
          NoGenre,   \* genre_id is NULL
          NoYear     \* published_year is NULL

ASSUME YearAssumption == Year \subseteq Nat /\ NoYear \notin Year
ASSUME GenreAssumption == NoGenre \notin Genre

\* A book, with its authors, as far as the reads of the catalogue compare books.
Row == [year : Year \cup {NoYear}, genre : Genre \cup {NoGenre}, authors : SUBSET Author]

Distance(x, y) == IF x < y THEN y - x ELSE x - y

\* func.abs(Book.published_year - src.published_year) <= 5, with both years known
Nearby(row, src) ==
    src.year # NoYear /\ row.year # NoYear /\ Distance(row.year, src.year) <= 5

SameGenre(row, src) == src.genre # NoGenre /\ row.genre = src.genre

SharedAuthor(row, src) == row.authors \cap src.authors # {}

\* The column that orders the answer.
Score(row, src) ==
    (IF SharedAuthor(row, src) THEN 3 ELSE 0)
        + (IF SameGenre(row, src) THEN 2 ELSE 0)
        + (IF Nearby(row, src) THEN 1 ELSE 0)

\* Fault: the years are compared with another bound than in the score.
CandidateNearer(row, src) ==
    \/ src.authors # {} /\ SharedAuthor(row, src)
    \/ src.genre # NoGenre /\ SameGenre(row, src)
    \/ /\ src.year # NoYear /\ row.year # NoYear
       /\ Distance(row.year, src.year) < 5

\* The WHERE: a signal the source does not have contributes no condition, and a source with
\* none of them selects nothing.
Candidate(row, src) ==
    \/ src.authors # {} /\ SharedAuthor(row, src)
    \/ src.genre # NoGenre /\ SameGenre(row, src)
    \/ src.year # NoYear /\ Nearby(row, src)

=============================================================================
