----------------------------- MODULE MCPtyHandles ----------------------------
(* Values of the constants of PtyHandles for model checking.               *)
EXTENDS PtyHandles, TLC

CONSTANTS t1, t2, t3

ThreeTerminals == {t1, t2, t3}
Symmetry       == Permutations(ThreeTerminals)
=============================================================================
