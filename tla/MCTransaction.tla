--------------------------- MODULE MCTransaction ---------------------------
(* Two interchangeable statements on one connection.                       *)
EXTENDS TransactionProperties, TLC

CONSTANTS s1, s2
TwoStmts  == {s1, s2}
Symmetry  == Permutations(TwoStmts)
=============================================================================
