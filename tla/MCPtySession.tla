---------------------------- MODULE MCPtySession ----------------------------
(***************************************************************************)
(* Small sessions for TLC.  Every run has buffers that fill up, binaries   *)
(* longer than a buffer, a fatal and a harmless signal, and a program that *)
(* may die at any moment.                                                  *)
(***************************************************************************)
EXTENDS PtySession

\* One binary fits a buffer of two units, the other needs two rounds.
ShortAndLong == {1, 3}
OnlyLong     == {3}
OnlyEmpty    == {0}

Codes        == {0, 1}

\* SIGKILL, and SIGTERM, which the program handles.
KillAndTerm  == {9, 15}
OnlyKill     == {9}
Deadly       == {1, 9}
=============================================================================
