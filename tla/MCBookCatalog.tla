--------------------------- MODULE MCBookCatalog ---------------------------
\* BookCatalog with small sets of ids, which are interchangeable.
EXTENDS BookCatalog, TLC

Symmetry == Permutations(Book) \cup Permutations(Author) \cup Permutations(Genre) \cup
             Permutations(Proc)

=============================================================================
