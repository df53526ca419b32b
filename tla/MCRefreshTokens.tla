-------------------------- MODULE MCRefreshTokens --------------------------
(* Values for checking RefreshTokens with TLC.                             *)
EXTENDS RefreshTokens, TLC

Symmetry == Permutations(User) \cup Permutations(Token) \cup Permutations(Proc)

=============================================================================
