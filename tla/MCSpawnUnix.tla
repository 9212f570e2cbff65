----------------------------- MODULE MCSpawnUnix -----------------------------
(* Values of the constants of SpawnUnix for model checking.                *)
EXTENDS SpawnUnix

CONSTANTS s1, s2, t1, t2

TwoSpawners == {s1, s2}
TwoThreads  == {t1, t2}
AnyFault    == Steps
ExecFault   == {"exec"}
=============================================================================
