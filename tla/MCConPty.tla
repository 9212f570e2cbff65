------------------------------- MODULE MCConPty ------------------------------
(* Values of the constants of ConPty for model checking.                   *)
EXTENDS ConPty

CONSTANTS d1, d2

TwoSchedulers == {d1, d2}

Words(n) == UNION {[1..k -> Chars] : k \in 0..n}

\* One argument of up to three characters, or two of up to one.
ShortLists == {<<w>> : w \in Words(3)} \cup {<<v, w>> : v, w \in Words(1)}
=============================================================================
