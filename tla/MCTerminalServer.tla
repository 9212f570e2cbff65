-------------------------- MODULE MCTerminalServer --------------------------
(* Values of the constants of TerminalServer for model checking.           *)
EXTENDS TerminalServer, TLC

CONSTANTS c1, c2

TwoClients   == {c1, c2}
Symmetry     == Permutations(TwoClients)
NoCallbacks  == [k \in Kinds |-> "none"]
\* The example of the repository's README.
ModuleOption == [k \in Kinds |-> "module"]

\* pause and resume are also reached through flow control.
MostCalls ==
  ({"write"} \X Chars) \cup ({"flow"} \X BOOLEAN) \cup
  {<<"pause", TRUE>>, <<"echo", FALSE>>, <<"callback", "data">>}
=============================================================================
