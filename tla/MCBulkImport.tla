---------------------------- MODULE MCBulkImport ----------------------------
\* BulkImport with a few files of few rows.
EXTENDS BulkImport, TLC

CONSTANT g1    \* a genre

\* Every kind of row, before and after rows that fail, and more failures than the report stores.
MixedFiles == {<<g1, "invalid", "plain">>, <<"long", g1>>, <<"invalid", "long", "plain">>,
               <<"blank">>, Unparsable}

Symmetry == Permutations(User) \cup Permutations(Import) \cup Permutations(Proc)

=============================================================================
