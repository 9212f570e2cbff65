---------------------------- MODULE ProcessTable ----------------------------
(***************************************************************************)
(* The map `processes' of the Unix NIF (pty.cpp:129-135): one entry per    *)
(* program, for the destructor that sends SIGTERM to what still runs when  *)
(* the library is unloaded.  expty_spawn inserts after it has created the  *)
(* waiter thread, expty_kill erases whatever the signal was, the waiter    *)
(* erases after waitpid, when the kernel may have given the pid away.      *)
(*                                                                         *)
(* The map has no lock.  A thread is inside it from a Begin to an End      *)
(* step; once two were inside at the same time the map may hold anything,  *)
(* and any later step may be the last (a crash is a behaviour that stops). *)
(*                                                                         *)
(* While SIGCHLD is ignored a dead child leaves no zombie.  The first      *)
(* waiter thread ends that for the whole process, but a host that ignored  *)
(* it may lose a program and its pid before (HostIgnoresSigchld).          *)
(***************************************************************************)
EXTENDS Naturals, FiniteSets

CONSTANTS
  Terminals,     \* calls of ExPTY.spawn
  Pids,          \* the kernel's pid numbers
  MaxKills,      \* bound: calls of ExPTY.kill/2, per terminal
  RevokesOnExit, \* a reader sees the end of a dead program's terminal (BSD)
  HostIgnoresSigchld  \* SIGCHLD is ignored when the library is loaded

ASSUME TableAssumption ==
  /\ Pids \subseteq Nat \ {0}
  /\ MaxKills \in Nat
  /\ RevokesOnExit \in BOOLEAN
  /\ HostIgnoresSigchld \in BOOLEAN

VARIABLES
  \* the kernel
  pid,        \* of the program of each terminal, 0 before it is spawned
  program,    \* "none", "running", "zombie" or "gone"
  sigchldIgnored,  \* in the whole process of the host
  strangers,  \* pids of processes that are none of ours
  \* the native code
  spawner,    \* expty_spawn: "idle", "insert" or "done"
  server,     \* expty_kill: "free" or "erase"
  waiter,     \* pty_waitpid: "none", "start", "waitpid", "erase" or "done"
  hangup,     \* terminals whose reader has sent SIGHUP
  processes,  \* the keys of the map
  inside,     \* the threads inside the map
  torn,       \* have two been inside at once?
  unload,     \* the destructor: "no", "running" or "done"
  \* history
  kills,      \* calls of ExPTY.kill/2
  late,       \* terminals inserted after their waiter had erased them
  astray,     \* terminals one of whose signals hit another process
  termed,     \* terminals whose program the destructor signalled
  vanished    \* terminals whose program died while SIGCHLD was ignored

kernelVars == <<pid, program, strangers, sigchldIgnored>>
mapVars    == <<processes, inside, torn>>
history    == <<kills, late, astray, termed, vanished>>
vars == <<kernelVars, spawner, server, waiter, hangup, mapVars, unload, history>>

Threads == ({"spawner", "server", "waiter"} \X Terminals) \cup {<<"unload">>}

TypeOK ==
  /\ pid \in [Terminals -> Pids \cup {0}]
  /\ program \in [Terminals -> {"none", "running", "zombie", "gone"}]
  /\ strangers \subseteq Pids
  /\ sigchldIgnored \in BOOLEAN
  /\ spawner \in [Terminals -> {"idle", "insert", "done"}]
  /\ server \in [Terminals -> {"free", "erase"}]
  /\ waiter \in [Terminals -> {"none", "start", "waitpid", "erase", "done"}]
  /\ hangup \subseteq Terminals
  /\ processes \subseteq Pids
  /\ inside \subseteq Threads
  /\ torn \in BOOLEAN
  /\ unload \in {"no", "running", "done"}
  /\ kills \in [Terminals -> 0..MaxKills]
  /\ late \subseteq Terminals
  /\ astray \subseteq Terminals
  /\ termed \subseteq Terminals
  /\ vanished \subseteq Terminals

Init ==
  /\ pid = [t \in Terminals |-> 0]
  /\ program = [t \in Terminals |-> "none"]
  /\ strangers = {}
  /\ sigchldIgnored = HostIgnoresSigchld
  /\ spawner = [t \in Terminals |-> "idle"]
  /\ server = [t \in Terminals |-> "free"]
  /\ waiter = [t \in Terminals |-> "none"]
  /\ hangup = {}
  /\ processes = {}
  /\ inside = {}
  /\ torn = FALSE
  /\ unload = "no"
  /\ kills = [t \in Terminals |-> 0]
  /\ late = {}
  /\ astray = {}
  /\ termed = {}
  /\ vanished = {}

-----------------------------------------------------------------------------
(* The kernel (outside the repository).                                    *)

Running(t) == program[t] = "running"

\* A zombie keeps its pid, a reaped program does not.
Taken == strangers \cup {pid[t] : t \in {u \in Terminals :
                                           program[u] \in {"running", "zombie"}}}

\* Programs die: each is a zombie until a waitpid takes it, or gone at
\* once if SIGCHLD is ignored.
Die(dead) ==
  /\ program' = [u \in Terminals |->
                  IF u \notin dead THEN program[u]
                  ELSE IF sigchldIgnored THEN "gone" ELSE "zombie"]
  /\ vanished' = IF sigchldIgnored THEN vanished \cup dead ELSE vanished

\* kill(pid[t], sig): a fatal signal ends our program that has the pid
\* now, which need not be that of t; a zombie does not care.
Signal(t, fatal) ==
  LET victims == {u \in Terminals : pid[u] = pid[t] /\ Running(u)}
  IN /\ Die(IF fatal THEN victims ELSE {})
     /\ astray' = IF pid[t] \in strangers \/ victims \ {t} # {}
                  THEN astray \cup {t} ELSE astray

ProgramEnds(t) ==
  /\ Running(t)
  /\ Die({t})
  /\ UNCHANGED <<pid, strangers, sigchldIgnored, spawner, server, waiter,
                 hangup, mapVars, unload, kills, late, astray, termed>>

StrangerStarts(p) ==
  /\ p \notin Taken
  /\ strangers' = strangers \cup {p}
  /\ UNCHANGED <<pid, program, sigchldIgnored, spawner, server, waiter,
                 hangup, mapVars, unload, history>>

StrangerEnds(p) ==
  /\ p \in strangers
  /\ strangers' = strangers \ {p}
  /\ UNCHANGED <<pid, program, sigchldIgnored, spawner, server, waiter,
                 hangup, mapVars, unload, history>>

-----------------------------------------------------------------------------
(* The map.                                                                *)

Begin(th) ==
  /\ th \notin inside
  /\ inside' = inside \cup {th}
  /\ torn' = (torn \/ inside # {})
  /\ UNCHANGED processes

\* What a torn map holds is anybody's guess, taken where it is read
\* (UnloadEnd).
End(th, new) ==
  /\ th \in inside
  /\ inside' = inside \ {th}
  /\ processes' = IF torn THEN {} ELSE new
  /\ UNCHANGED torn

-----------------------------------------------------------------------------
(* expty_spawn, from posix_spawn on.                                       *)

\* The program runs and its waiter thread is created.
Spawn(t, p) ==
  /\ spawner[t] = "idle"
  /\ p \notin Taken
  /\ pid' = [pid EXCEPT ![t] = p]
  /\ program' = [program EXCEPT ![t] = "running"]
  /\ spawner' = [spawner EXCEPT ![t] = "insert"]
  /\ waiter' = [waiter EXCEPT ![t] = "start"]
  /\ UNCHANGED <<strangers, sigchldIgnored, server, hangup, mapVars, unload,
                 history>>

InsertBegin(t) ==
  /\ spawner[t] = "insert"
  /\ Begin(<<"spawner", t>>)
  /\ UNCHANGED <<kernelVars, spawner, server, waiter, hangup, unload, history>>

\* Slip: the pid is read before posix_spawn has stored it.
InsertedUnset(t) == processes \cup {0}

\* Slip: only the first terminal is entered.
InsertedFirst(t) == IF processes = {} THEN {pid[t]} ELSE processes

\* processes[pid] = pipesocket
Inserted(t) == processes \cup {pid[t]}

InsertEnd(t) ==
  /\ End(<<"spawner", t>>, Inserted(t))
  /\ spawner' = [spawner EXCEPT ![t] = "done"]
  /\ late' = IF waiter[t] = "done" THEN late \cup {t} ELSE late
  /\ UNCHANGED <<kernelVars, server, waiter, hangup, unload, kills, astray,
                 termed, vanished>>

-----------------------------------------------------------------------------
(* expty_kill, called by the server of the terminal.                       *)

Kill(t, fatal) ==
  /\ spawner[t] = "done" /\ server[t] = "free"
  /\ kills[t] < MaxKills
  /\ kills' = [kills EXCEPT ![t] = @ + 1]
  /\ Signal(t, fatal)
  /\ server' = [server EXCEPT ![t] = "erase"]
  /\ UNCHANGED <<pid, strangers, sigchldIgnored, spawner, waiter, hangup,
                 mapVars, unload, late, termed>>

KillBegin(t) ==
  /\ server[t] = "erase"
  /\ Begin(<<"server", t>>)
  /\ UNCHANGED <<kernelVars, spawner, server, waiter, hangup, unload, history>>

KillEnd(t) ==
  /\ End(<<"server", t>>, processes \ {pid[t]})
  /\ server' = [server EXCEPT ![t] = "free"]
  /\ UNCHANGED <<kernelVars, spawner, waiter, hangup, unload, history>>

-----------------------------------------------------------------------------
(* The native threads.                                                     *)

\* Slip: waitpid(-1) takes any child that has died.
DeadFor(t) == {u \in Terminals : program[u] \in {"running", "zombie"}}

\* Children that waitpid(baton->pid) may mean: the pid of a vanished
\* program may be that of a later one.
WaitedFor(t) == {u \in Terminals : /\ pid[u] = pid[t]
                                   /\ program[u] \in {"running", "zombie"}}

\* signal(SIGCHLD, SIG_DFL), for the whole process.
WaiterStart(t) ==
  /\ waiter[t] = "start"
  /\ sigchldIgnored' = FALSE
  /\ waiter' = [waiter EXCEPT ![t] = "waitpid"]
  /\ UNCHANGED <<pid, program, strangers, spawner, server, hangup, mapVars,
                 unload, history>>

\* It returns with a dead child, or fails when there is none to wait for;
\* its result is not looked at but for EINTR, which is no step.
Reap(t) ==
  /\ waiter[t] = "waitpid"
  /\ \/ \E u \in WaitedFor(t) :
          program[u] = "zombie" /\ program' = [program EXCEPT ![u] = "gone"]
     \/ WaitedFor(t) = {} /\ UNCHANGED program
  /\ waiter' = [waiter EXCEPT ![t] = "erase"]
  /\ UNCHANGED <<pid, strangers, sigchldIgnored, spawner, server, hangup,
                 mapVars, unload, history>>

EraseBegin(t) ==
  /\ waiter[t] = "erase"
  /\ Begin(<<"waiter", t>>)
  /\ UNCHANGED <<kernelVars, spawner, server, waiter, hangup, unload, history>>

\* Slip: the entry stays.
ErasedNot(t) == processes

Erased(t) == processes \ {pid[t]}

\* After the exit message and the free of the pid (modelled in PtySession).
EraseEnd(t) ==
  /\ End(<<"waiter", t>>, Erased(t))
  /\ waiter' = [waiter EXCEPT ![t] = "done"]
  /\ UNCHANGED <<kernelVars, spawner, server, hangup, unload, history>>

\* The reader's kill(pid, SIGHUP) at the end of the terminal.
Hangup(t) ==
  /\ RevokesOnExit
  /\ program[t] \in {"zombie", "gone"}
  /\ t \notin hangup
  /\ hangup' = hangup \cup {t}
  /\ Signal(t, TRUE)
  /\ UNCHANGED <<pid, strangers, sigchldIgnored, spawner, server, waiter,
                 mapVars, unload, kills, late, termed>>

-----------------------------------------------------------------------------
(* The destructor `cleanup'.                                               *)

UnloadBegin ==
  /\ unload = "no"
  /\ unload' = "running"
  /\ Begin(<<"unload">>)
  /\ UNCHANGED <<kernelVars, spawner, server, waiter, hangup, history>>

\* Slip: the loop begins at the second entry.
SignalledAtUnloadBut1 == {p \in processes : \E q \in processes : q < p}

\* Every entry is sent SIGTERM, in the order of the map.
SignalledAtUnload == processes

UnloadEnd ==
  /\ unload = "running"
  /\ unload' = "done"
  /\ End(<<"unload">>, processes)
  /\ \E ps \in IF torn THEN SUBSET Pids ELSE {SignalledAtUnload} :
       termed' = {t \in Terminals : Running(t) /\ pid[t] \in ps}
  /\ UNCHANGED <<kernelVars, spawner, server, waiter, hangup, kills, late,
                 astray, vanished>>

-----------------------------------------------------------------------------
TerminalStep(t) ==
  \/ \E p \in Pids : Spawn(t, p)
  \/ InsertBegin(t) \/ InsertEnd(t)
  \/ \E fatal \in BOOLEAN : Kill(t, fatal)
  \/ KillBegin(t) \/ KillEnd(t)
  \/ WaiterStart(t) \/ Reap(t) \/ EraseBegin(t) \/ EraseEnd(t)
  \/ Hangup(t)
  \/ ProgramEnds(t)

\* The library is gone once its destructor has run.
Next ==
  /\ unload # "done"
  /\ \/ \E t \in Terminals : TerminalStep(t)
     \/ \E p \in Pids : StrangerStarts(p) \/ StrangerEnds(p)
     \/ UnloadBegin \/ UnloadEnd

Spec == Init /\ [][Next]_vars

-----------------------------------------------------------------------------
(* Properties.                                                             *)

\* The pid of t was another terminal's before, whose late steps may still
\* use it.
Reused(t) == \E u \in Terminals \ {t} : pid[u] = pid[t]

Undisturbed(t) == spawner[t] = "done" /\ kills[t] = 0 /\ ~Reused(t)

\* A running program is in the map from the end of its spawn on, unless
\* ExPTY.kill was called for it (the erase at pty.cpp:432 does not ask
\* what the signal did) or its pid is a used one (the erase at 691 comes
\* after waitpid has freed it).
ListedWhileRunning ==
  ~torn => \A t \in Terminals :
    Undisturbed(t) /\ Running(t) => pid[t] \in processes

\* An entry belongs to a terminal whose waiter has still to erase it, or
\* to one whose program died before the insert at pty.cpp:381: nothing else
\* leaves a dead pid behind for the destructor to signal.
EntriesAccounted ==
  ~torn => \A p \in processes : \E t \in Terminals :
    /\ pid[t] = p /\ spawner[t] = "done"
    /\ waiter[t] # "done" \/ t \in late

\* A SIGTERM of the destructor (pty.cpp:133) reaches every program that
\* runs, was never sent a signal and has a pid of its own.
UnloadReachesAll ==
  unload = "done" /\ ~torn => \A t \in Terminals :
    Undisturbed(t) /\ Running(t) => t \in termed

\* A signal of ExPTY.kill (pty.cpp:431) or of the reader (593) can hit
\* another process than the terminal's program only after the terminal's
\* waiter has come back from waitpid, or if the pid is one whose program
\* died unnoticed because the host ignored SIGCHLD and no waiter had yet
\* reached pty.cpp:665.
AstrayOnlyAfterReap == \A t \in astray :
  \/ waiter[t] \in {"erase", "done"}
  \/ HostIgnoresSigchld /\ \E u \in vanished : pid[u] = pid[t]
=============================================================================
