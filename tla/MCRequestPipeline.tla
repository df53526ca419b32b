------------------------- MODULE MCRequestPipeline -------------------------
\* RequestPipeline with two ways to write one e-mail.
EXTENDS RequestPipeline, TLC

CONSTANTS lower, upper, other,    \* addresses, the first two equal but for their case
          shared, single          \* e-mails

CasefoldOf == [a \in Address |-> IF a = other THEN single ELSE shared]

Symmetry == Permutations(User) \cup Permutations(Proc) \cup Permutations(Password)

=============================================================================
