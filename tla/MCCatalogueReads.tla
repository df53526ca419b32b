-------------------------- MODULE MCCatalogueReads --------------------------
\* CatalogueReads with four rows: each signal decides some score alone, and some score is none.
EXTENDS CatalogueReads

CONSTANTS a1, a2, g1

Years == {2000, 2005, 2006}

\* The first two differ by five years, the first and third by six; the last two share nothing,
\* and the last one has no author, as BookCatalog's catalog_authors shows it may happen.
FourRows == {[year |-> 2000, genre |-> g1, authors |-> {a1}],
             [year |-> 2005, genre |-> NoGenre, authors |-> {a2}],
             [year |-> 2006, genre |-> NoGenre, authors |-> {a1}],
             [year |-> NoYear, genre |-> g1, authors |-> {}]}

FewFilters == {{}, {[field |-> "year_from", value |-> 2005], [field |-> "author", value |-> a2]}}

=============================================================================
