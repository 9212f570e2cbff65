------------------------------- MODULE ConPty -------------------------------
(***************************************************************************)
(* One terminal on Windows (conpty.cc): expty_spawn and expty_pty_connect, *)
(* the two threads that open the client ends of the console's pipes,       *)
(* writes under the baton's mutex on whatever scheduler thread runs the    *)
(* NIF, and the event that the program has exited.                         *)
(*                                                                         *)
(* Connect, write and resize look for the baton in the vector ptyHandles,  *)
(* which all terminals share.  A search finds it or not, as it likes: when *)
(* it may fail, or end the Erlang VM, is the subject of PtyHandles.  The   *)
(* server runs one call at a time.                                         *)
(***************************************************************************)
EXTENDS CommandLine

CONSTANTS
  ArgLists,    \* arguments given to ExPTY.spawn
  Schedulers,  \* dirty I/O scheduler threads
  MaxWrites,   \* bound: calls of ExPTY.write/2
  MaxOut       \* bound: units of output

None == "none"
File == <<"letter">>

ASSUME ConPtyAssumption ==
  /\ ArgLists \subseteq Seq(Seq(Chars))
  /\ None \notin Schedulers
  /\ MaxWrites \in Nat /\ MaxOut \in Nat

VARIABLES
  given,        \* the arguments
  at,           \* do_spawn: "spawn", "find", "in", "out", "create",
                \* "arm", then "up" or "failed"
  writer,       \* create_write_pipe: "none", "opening", "open" or "ready"
  reader,       \* read_data: "none", "opening" or "reading"
  console,      \* the console host: is it there?
  program,      \* "none", "running" or "exited"
  argv,         \* the arguments it got
  wait,         \* the wait for its end: "none", "armed" or "posted"
  write,        \* ExPTY.write: "idle", "lock" or "file"
  scheduler,    \* the thread it runs on
  holder,       \* owner of the mutex, which may lock it again
  out, shown,   \* units written by the program, passed to the mailbox
  \* history
  writes,       \* calls of ExPTY.write
  failed        \* has a WriteFile failed?

spawnVars   == <<given, at>>
threadVars  == <<writer, reader, shown>>
programVars == <<console, program, argv, wait, out>>
writeVars   == <<write, scheduler, holder, writes, failed>>
vars == <<spawnVars, threadVars, programVars, writeVars>>

TypeOK ==
  /\ given \in ArgLists
  /\ at \in {"spawn", "find", "in", "out", "create", "arm", "up", "failed"}
  /\ {console, failed} \subseteq BOOLEAN
  /\ writer \in {"none", "opening", "open", "ready"}
  /\ reader \in {"none", "opening", "reading"}
  /\ program \in {"none", "running", "exited"}
  /\ argv \in Seq(Seq(Chars))
  /\ wait \in {"none", "armed", "posted"}
  /\ write \in {"idle", "lock", "file"}
  /\ {scheduler, holder} \subseteq Schedulers \cup {None}
  /\ shown \in 0..out /\ out \in 0..MaxOut
  /\ writes \in 0..MaxWrites

Init ==
  /\ given \in ArgLists
  /\ at = "spawn"
  /\ writer = "none" /\ reader = "none"
  /\ console = FALSE /\ program = "none" /\ argv = <<>>
  /\ wait = "none"
  /\ write = "idle" /\ scheduler = None /\ holder = None
  /\ out = 0 /\ shown = 0
  /\ writes = 0 /\ failed = FALSE

-----------------------------------------------------------------------------
(* expty_spawn and expty_pty_connect, called by do_spawn.                  *)

Goto(from, to) == at = from /\ at' = to

\* The pipes, the console and the baton in ptyHandles, or an error.
CreateConsole ==
  /\ \/ Goto("spawn", "failed") /\ UNCHANGED console
     \/ Goto("spawn", "find") /\ console' = TRUE
  /\ UNCHANGED <<given, threadVars, program, argv, wait, out, writeVars>>

\* connect: the baton is found and create_write_pipe begins, or the call
\* is told "Invalid pty handle".
Connect ==
  /\ \/ Goto("find", "in") /\ writer' = "opening"
     \/ Goto("find", "failed") /\ UNCHANGED writer
  /\ UNCHANGED <<given, reader, shown, programVars, writeVars>>

\* Slip: the reader thread is created after the wait for both pipes.
ReaderAfterInLate == reader

ReaderAfterIn == "opening"

\* ConnectNamedPipe(hIn) waits for the writer thread; then the reader
\* thread is created.
ConnectIn ==
  /\ Goto("in", "out")
  /\ writer \in {"open", "ready"}
  /\ reader' = ReaderAfterIn
  /\ UNCHANGED <<given, writer, shown, programVars, writeVars>>

\* ConnectNamedPipe(hOut), which waits for the reader thread.
ConnectOut ==
  /\ Goto("out", "create")
  /\ reader = "reading"
  /\ UNCHANGED <<given, threadVars, programVars, writeVars>>

\* CreateProcessW with the command line, or an error.
CreateProcess ==
  /\ \/ Goto("create", "failed") /\ UNCHANGED <<program, argv>>
     \/ /\ Goto("create", "arm")
        /\ program' = "running"
        /\ argv' = Tail(ArgvOf(ArgsToCommandLine(File, given)))
  /\ UNCHANGED <<given, threadVars, console, wait, out, writeVars>>

\* Slip: a program that has exited already is not waited for.
WaitIfRunning == IF program = "running" THEN "armed" ELSE "none"

Wait == "armed"

\* RegisterWaitForSingleObject, and the reply {:ok, pid}.
Arm ==
  /\ Goto("arm", "up")
  /\ wait' = Wait
  /\ UNCHANGED <<given, threadVars, console, program, argv, out,
                 writeVars>>

-----------------------------------------------------------------------------
(* The threads.                                                            *)

\* CreateFileW, in a loop until it gets the pipe; then write_ready.
WriterOpens ==
  /\ writer = "opening"
  /\ writer' = "open"
  /\ UNCHANGED <<spawnVars, reader, shown, programVars, writeVars>>

WriterReady ==
  /\ writer = "open"
  /\ writer' = "ready"
  /\ UNCHANGED <<spawnVars, reader, shown, programVars, writeVars>>

ReaderOpens ==
  /\ reader = "opening"
  /\ reader' = "reading"
  /\ UNCHANGED <<spawnVars, writer, shown, programVars, writeVars>>

\* Slip: the unit is sent again after the next read.
ForwardedTwice == shown + 2

Forwarded == shown + 1

ReadData ==
  /\ reader = "reading" /\ shown < out
  /\ shown' = Forwarded
  /\ UNCHANGED <<spawnVars, writer, reader, programVars, writeVars>>

-----------------------------------------------------------------------------
(* ExPTY.write.  (ExPTY.resize changes nothing that is modelled here.)     *)

\* A write that does not find the baton is told so; one that comes before
\* write_ready is answered {:partial, 0}.
Write(d) ==
  /\ at = "up" /\ write = "idle" /\ writes < MaxWrites
  /\ writes' = writes + 1
  /\ \/ UNCHANGED <<write, scheduler>>
     \/ /\ writer = "ready"
        /\ write' = "lock"
        /\ scheduler' = d
  /\ UNCHANGED <<spawnVars, threadVars, programVars, holder, failed>>

\* A critical section of Windows: its owner may enter it again.
Lock ==
  /\ write = "lock"
  /\ holder \in {None, scheduler}
  /\ holder' = scheduler
  /\ write' = "file"
  /\ UNCHANGED <<spawnVars, threadVars, programVars, scheduler, writes, failed>>

WriteReturns ==
  /\ write = "file"
  /\ write' = "idle"
  /\ scheduler' = None
  /\ UNCHANGED <<spawnVars, threadVars, programVars, writes>>

\* Slip: the mutex is not unlocked.
UnlockedNot == holder

\* After a failed WriteFile on this thread the count of the owner never
\* gets back to zero.
Unlocked == IF failed THEN holder ELSE None

\* The pipe has no buffer: WriteFile waits until the console reads.
WriteFile ==
  /\ console
  /\ WriteReturns
  /\ holder' = Unlocked
  /\ UNCHANGED failed

\* A failed WriteFile returns without the unlock.
WriteFileFails ==
  /\ WriteReturns
  /\ failed' = TRUE
  /\ UNCHANGED holder

-----------------------------------------------------------------------------
(* The program and its console (outside the repository).                   *)

ProgramWrites ==
  /\ program = "running" /\ out < MaxOut
  /\ out' = out + 1
  /\ UNCHANGED <<spawnVars, threadVars, console, program, argv, wait, writeVars>>

ProgramExits ==
  /\ program = "running"
  /\ program' = "exited"
  /\ UNCHANGED <<spawnVars, threadVars, console, argv, wait, out, writeVars>>

\* The console host may go with its last program.
ConsoleEnds ==
  /\ program = "exited" /\ console
  /\ console' = FALSE
  /\ UNCHANGED <<spawnVars, threadVars, program, argv, wait, out, writeVars>>

\* The wait ends at once when the program has exited before.  The callback
\* OnProcessExitWinEvent posts OnProcessExit to the default loop; nothing
\* runs that loop.
PostExit ==
  /\ wait = "armed" /\ program = "exited"
  /\ wait' = "posted"
  /\ UNCHANGED <<spawnVars, threadVars, console, program, argv, out, writeVars>>

-----------------------------------------------------------------------------
ServerStep ==
  \/ CreateConsole \/ Connect \/ ConnectIn \/ ConnectOut
  \/ CreateProcess \/ Arm
  \/ Lock \/ WriteFile \/ WriteFileFails

WriterStep == WriterOpens \/ WriterReady
ReaderStep == ReaderOpens \/ ReadData

Next ==
  \/ ServerStep \/ WriterStep \/ ReaderStep
  \/ \E d \in Schedulers : Write(d)
  \/ ProgramWrites \/ ProgramExits \/ ConsoleEnds
  \/ PostExit

Spec == Init /\ [][Next]_vars

\* The threads and the system's wait run; nothing is assumed of programs
\* and callers.
FairSpec ==
  /\ Spec
  /\ WF_vars(ServerStep) /\ WF_vars(WriterStep) /\ WF_vars(ReaderStep)
  /\ WF_vars(PostExit)

-----------------------------------------------------------------------------
(* Properties.                                                             *)

\* The program reads the arguments that ExPTY.spawn was given, if and only
\* if none of them contains a blank and has quotes at both ends: such a
\* word is taken for quoted while its quotes are written as characters
\* (expty.ex:722-728, 746-748).
ArgumentsArrive ==
  program # "none" => (argv = given <=> \A i \in DOMAIN given : ReadBack(given[i]))

\* connect returns: its two waits and the two threads that end them come
\* in an order that cannot block (conpty.cc:397-400).
ConnectReturns == at = "in" ~> at \in {"up", "failed"}

\* A write returns, also when calls run on changing scheduler threads,
\* unless a WriteFile has failed before, which leaves the mutex locked
\* (conpty.cc:77-79), or the console is gone, whose pipe stays open on our
\* side and is read by nobody.
WriteAnswered == write # "idle" ~> write = "idle" \/ failed \/ ~console

\* The exit of a program is posted, also when it came before the wait was
\* registered (conpty.cc:458); it is not reported, see OnProcessExit.
ExitPosted == program = "exited" ~> wait = "posted"
=============================================================================
