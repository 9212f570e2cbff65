--------------------------- MODULE MCProcessTable ---------------------------
(* Values of the constants of ProcessTable for model checking.             *)
EXTENDS ProcessTable, TLC

CONSTANTS t1, t2

TwoTerminals == {t1, t2}
TwoPids      == {1, 2}
Symmetry     == Permutations(TwoTerminals)
=============================================================================
