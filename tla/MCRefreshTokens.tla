--------------------------- MODULE MCRefreshTokens ---------------------------
(* Small instances of RefreshTokens for TLC. *)
EXTENDS RefreshTokens, TLC

\* Requests, users and tokens are only compared for equality.
Symmetry == Permutations(Workers) \cup Permutations(Users) \cup Permutations(Tokens)

\* The variables that steps and the properties of run refresh_safety depend on.
View == <<redis, minted, request, delivered, spent>>
=============================================================================
