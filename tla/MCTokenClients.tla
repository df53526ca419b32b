--------------------------- MODULE MCTokenClients ---------------------------
\* TokenClients with two devices of one user.
EXTENDS TokenClients, TLC

CONSTANT u1    \* a user

OneUser == [c \in Client |-> u1]

Symmetry == Permutations(Client) \cup Permutations(Token) \cup Permutations(Proc)

=============================================================================
