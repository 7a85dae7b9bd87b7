---------------------------- MODULE MCTokenCache ----------------------------
(* Interchangeable connections and tokens.                                 *)
EXTENDS TokenCache, TLC

CONSTANTS c1, c2, t1, t2
TwoConns  == {c1, c2}
TwoTokens == {t1, t2}
Symmetry  == Permutations(TwoConns) \cup Permutations(TwoTokens)
=============================================================================
