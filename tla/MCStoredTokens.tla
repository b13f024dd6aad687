---------------------------- MODULE MCStoredTokens ----------------------------
(* Small instances of StoredTokens for TLC. *)
EXTENDS StoredTokens, TLC

CONSTANTS a1, i1, i2, c1

OneAdmin == {a1}
TwoRefreshes == {i1, i2}
OneCallback == {c1}

\* What the generic callback, and what Google's, may find in an answer.
GenericFields == {{"refresh"}, {"refresh", "access"}}
GoogleFields == {{"refresh"}}

Symmetry == Permutations(Refreshes)
=============================================================================
