# ExPTY in TLA+

ExPTY gives an Elixir program a pseudoterminal: `ExPTY.spawn/3` starts a
program in one, `ExPTY.write/2` types into it, and the callbacks `on_data` and
`on_exit` tell what the program printed and how it ended. The work is done by
a GenServer (`lib/expty.ex`), a NIF in C++ (`c_src/unix/pty.cpp`,
`c_src/win/conpty.cc`) with two native threads per terminal, a helper process
(`c_src/unix/spawn-helper.cpp`), and the kernel's terminal between them. This
directory holds TLA+ models of that, checked with TLC, and proofs about them,
checked with TLAPS.

## 1. The system

| Component | State it keeps | Operations | Talks to |
|---|---|---|---|
| Terminal server (`ExPTY`, a GenServer) | handle of the terminal, callbacks, flow-control flag and strings, echo flag | `spawn`, `write`, `kill`, `resize`, `pause`, `resume`, `flow_control`, `set_echo`, `on_data`, `on_exit`; messages `{:data, _}`, `{:exit, _, _}` | callers (calls), native threads (messages), NIF (calls) |
| Unix spawn (`expty_spawn`) | descriptors of master, slave and comms pipe; signal mask of the scheduler thread | openpty, pipe, posix_spawn, wait for the helper's report, create the threads | helper, kernel |
| Helper (`spawn-helper`) | its process | new session, controlling terminal, chdir, setuid, setgid, close descriptors, exec, report an error | comms pipe |
| Reader thread (`pty_pipesocket_fn`) | the byte buffer in its hand | select, read, send, close at end of file, SIGHUP | terminal, mailbox, `baton->fd_closed` |
| Waiter thread (`pty_waitpid`) | exit code and signal | reset SIGCHLD, waitpid, send the exit message, free the pid, erase the table entry | kernel, mailbox, `processes` |
| Write loop (`pty_pipesocket::write`) | bytes written so far | rounds of write(2), stopped by `fd_closed` | terminal |
| Process table (`processes`) | live programs by pid | insert (spawn), erase (kill, waiter), SIGTERM to all at unload | three kinds of threads, no lock |
| Line settings | termios flags, window size | pause, resume, set_echo, resize | terminal |
| Windows pseudoconsole (`conpty.cc`) | `ptyHandles`, a baton per console with `write_ready` and a mutex | spawn, connect, write, resize, the pipe threads, the exit event | named pipes, server |
| Windows command line (`args_to_command_line`) | none | quote and join arguments | CreateProcess |
| Smart cell (`expty_smartcell.ex`, `main.js`) | current terminal, `started?` | start, stop, keys, resize, exit event | terminal server, browser |

What is hard here is never one function: it is the order in which two native
threads, a GenServer with a mailbox, a kernel buffer and a dying program meet.
More than half of the hazards listed in `PROJECT.json` are of that kind: a freed pid
that another thread still uses, a descriptor closed between a check and a
write, a write that waits for a program that waits for it, output left in the
kernel when the program is reaped, a report made twice or untrue, table
entries inserted after they were erased, a pipe inherited by the wrong child,
events of a stopped terminal that reach its successor. The rest are failures
in the middle of a sequence (spawn, write) and edges (an empty binary).

What makes the components correct:

- **Session** (threads, write loop, server): `on_data` sees all output once and
  in order; `on_exit` is called once with the truth; the number returned by a
  write is the number of bytes that left; closing the terminal loses nothing;
  the death of the program ends what waits for it.
- **Spawn**: `{:ok, pid}` only if the program runs, an error only if it does
  not; nothing of a failed spawn remains; the signal mask is restored; two
  spawns do not wait for each other's programs.
- **Process table**: the entries are the living programs; a signal goes to the
  program it was meant for; none survives the unload.
- **Terminal server, line settings**: what is accepted is written, once and in
  order; flow control stops and starts the program's output and leaves no
  trace; a callback sees everything from its registration on.
- **Windows**: a write always returns; a terminal that was spawned is found; a
  quoted command line is read back as the arguments it was made of; the exit is
  posted to a libuv loop. (Nothing runs that loop, so the exit is not reported
  on Windows: the code, and with it the model, ends there.)
- **Smart cell**: the terminal shown is the one started last, and none is
  orphaned.

## 2. Plan

Modules, in order; a star marks what exists.

1. `PtyContract`\* - what the user of a terminal is promised (abstract).
2. `PtySession`\* - both threads, the shared baton, the write loop, the server's
   mailbox and the kernel's buffers; implements `PtyContract`.
3. `PtySessionProofs`\* - its invariants for every value of the constants, and
   `PtyContractProofs`\* - the account of the writes and the refinement.
4. `SpawnUnix`\* with `SpawnUnixProofs`\* - concurrent spawns, the comms pipe and
   who inherits it, the helper's steps and errors, the signal mask.
5. `ProcessTable`\* with `ProcessTableProofs`\* - several terminals, insert and
   erase in every order, pid reuse, the destructor. Composes the waiter's life
   cycle of `PtySession`.
6. `TerminalServer`\* with `TerminalServerProofs`\* - callbacks set at run time,
   automatic flow control, pause and resume as the line discipline sees them,
   callers that time out. (The line discipline is small enough to be a section
   of this module.)
7. `CommandLine`\* - a pure algorithm against a reference parser, bounded words;
   its proofs, for words of any length, open `ConPtyProofs`.
8. `ConPty`\* with `ConPtyProofs`\* - the Windows threads, the write mutex, the
   exit event; extends `CommandLine`. `PtyHandles`\* with `PtyHandlesProofs`\* -
   the vector of all consoles and the threads that use it without a lock.
9. `SmartCell`\* with `SmartCellProofs`\* - several terminals in sequence, stale
   events, delayed resizes.
10. `AsyncLoop` - the initialisation of libuv's default loop by several calls of
   spawn at once (`uv_async_init`, pty.cpp:376), down to the loop's lists.

Abstract specifications worth stating besides `PtyContract`: a spawn as one
atomic step that yields a running program or an error (for `SpawnUnix`, whose
invariants say the same piecewise so far), and a cell with at most one live
terminal (for `SmartCell`; it would hold only without stale exit notices, which
is what `LetsGoOnlyForStaleExit` says instead).

Every invariant and every action property that a run checks is proved, and
so is the refinement; where one needs an assumption on the host, section 6
names it. A proof worth doing next: what of `KeepsContract` is left
when the host ignores SIGCHLD.

## 3. Modules

### PtyContract

The promise, with everything internal hidden: a counter of output, the chunks
seen, the reports made and the answers given to writes. A chunk may be skipped,
and a write cut short, only when the program is dead; a report comes at most
once, after the death, with the code and signal that `Encode` makes of it.

### PtySession

One terminal from the moment the helper has exec'd the program.

| Code | Model |
|---|---|
| `pty_baton.fd_closed`, `exit_code`, `signal_code` | `fd_closed`, `report` |
| the `ErlNifPid` shared by `pty_baton` and `pty_pipesocket` | `process` (alive, freed) |
| `processes[pid]` of this terminal | `registered` |
| program counters of the two threads | `reader`, `waiter` |
| the GenServer: idle, or inside the NIF's write | `server`, `job`, `bytes_written` |
| its message queue | `mailbox` |
| the pty's queues | `wrote`/`nread` (output), `accepted`/`consumed` (input) |
| calls of the callbacks, values returned by write | `seen`, `exits`, `replies` |
| output that went through the freed pid, input that went to another file | `lost`, `stray` |

Each action is one step another thread can come between: `ReaderRead`, then
`ReaderSend`; `WaiterReap`, `WaiterSend`, `WaiterFree`, `WaiterErase`;
`ReaderEof` (the flag), then `ReaderClose` (the descriptor); in a write the
look at `fd_closed` before the mutex (`HandleWrite`), the look in every round
(`WriteLoop`) and the write(2) (`WriteTaken`, `WriteStray`, `WriteRefused`).
A unit of data is a number, so a sequence shows order, gaps and repetition.
Buffers and binaries are counted in units; `BufferSize` stands for the 1024
bytes of the loop. One unit per read stands for the chunk of up to 1024 bytes.
The mutex of the write is left out, as only the one server takes it.

Outside the repository, and modelled from how the code uses it: the program,
which may write, read and exit at any time or answer every unit it reads
(`Echo`), the pty, signals and the wait status. Two facts about kernels are
constants. `RevokesOnExit`: macOS and the BSDs revoke a terminal when its
session leader dies, so that the master reads end-of-file after the last
output; Linux does not, and because `expty_spawn` never closes its own copy of
the slave the master never ends there. `HostIgnoresSigchld`: whether SIGCHLD
was ignored before the waiter resets it, so that there is no zombie to wait
for. `HostReopens` lets the BEAM open a file under the number of the closed
master at once.

Undefined behaviour is a choice: a send through the freed pid still works or
reaches nobody, and the `stat_loc` of a failed waitpid is any status.

A read(2) of the reader thread that fails, which takes a signal that wakes its
select, returns -1 and is taken for the length of a binary (pty.cpp:581-601).
Either no such binary is made and the loop goes round, which changes nothing, or
the failed allocation ends the BEAM; the model has no step for either.

Not in this module: descendants of the program that keep the terminal, a server
that dies (its callback raises), and reuse of the pid.

### SpawnUnix

Calls of `expty_spawn` that run at the same time, up to where `PtySession`
begins. `pc[s]` is a call's place in the function, `helper[s]` that of the
process it started, which turns into the program.

| Code | Model |
|---|---|
| `erl_ret`, and the answer of `ExPTY.spawn` | `result`, `caller` |
| `master`, `slave`, `comms_pipe` in the BEAM | `fds` |
| write ends open in a helper or program | `inherited` (a set of calls) |
| contents of the comms pipe | `report` |
| `oldmask`; the mask of a dirty scheduler thread | `oldmask`, `mask` |
| the thread a call runs on | `thread` |
| `goto done` from step x | `Fail(s, x)`, `Return` |

Steps are as coarse as other processes can see: opening the terminal, making
the pipe (from then on every fork inherits its write end), posix_spawn, closing
the write end together with the thread's own mask, the read, and the rest. The
helper's steps are single, because it runs beside the call and beside other
helpers. `Faults` says which steps may fail; the name of the step is the error.
On macOS (`CloexecDefault`) the kernel closes what a process with `closeFDs`
should not have, elsewhere the helper's loop does. After a failure before the
file actions are initialised, `done:` destroys what the stack held; the model
lets this pass or bring the BEAM down (`vm`). A read that a signal interrupts
is not modelled: the handlers of the BEAM restart system calls.

### ProcessTable

All terminals of one BEAM, reduced to what touches the map `processes`.

| Code | Model |
|---|---|
| `processes` (pty.cpp:129) | `processes`, the set of its keys |
| a thread between entering and leaving `std::map` | a member of `inside`; `Begin`, `End` |
| `expty_spawn` from posix_spawn on | `spawner`; `Spawn`, `InsertBegin`, `InsertEnd` |
| `expty_kill` (kill, then erase) | `server`; `Kill`, `KillBegin`, `KillEnd` |
| `pty_waitpid` (waitpid, later erase) | `waiter`; `Reap`, `EraseBegin`, `EraseEnd` |
| SIGHUP of the reader | `Hangup` |
| the destructor at unload | `unload`; `UnloadBegin`, `UnloadEnd` |
| pids of the kernel, other processes | `pid`, `program`, `strangers` |
| `signal(SIGCHLD, SIG_DFL)` in the waiter | `sigchldIgnored`; `WaiterStart` |

A pid is taken while its process runs or is a zombie, so a reaped pid can be
given to a stranger or to the next terminal at any moment, also between the
waitpid and the erase. `HostIgnoresSigchld` says whether the host ignored
SIGCHLD when the library was loaded. Until the first waiter thread resets it,
for the whole process, a program that dies leaves no zombie and gives its pid
away at once (`vanished`); the waitpid of its waiter then fails, or, if the pid
is by now that of another terminal's program, waits for that one and reaps it
(`Reap`, `WaitedFor`). The map has no lock: once two threads have been inside
at the same time (`torn`) every later operation may leave anything in it. The
properties that speak of the contents say so in their premise. What is proved
about them is therefore a statement about executions without that race, and
the race itself is a hazard of the code, recorded as such.

### TerminalServer

The server of one terminal between spawn and the end, seen from its clients.

| Code | Model |
|---|---|
| message queue of the GenServer | `mailbox`, calls and events in one order |
| `handle_flow_control`, `on_data`, `on_exit` in the state | `flow`, `callback` |
| `handle_call({:write, _})` | `HandleWriteFlow`, `HandleWrite` |
| `{:flow_control, _}`, `{:on_data, _}`, `{:on_exit, _}` | `HandleFlow`, `HandleCallback` |
| `{:data, _}`, `{:exit, _, _}` | `HandleEvent` |
| `expty_pause`, `expty_resume`, `expty_set_echo`: tcgetattr; tcsetattr; XOFF or XON | `job`, `at`, `settings`; `Get`, `Set`, `SendControl`, `Fail`, `GetElsewhere`, `SetElsewhere` |
| GenServer.call's five seconds | `waiting`; `GiveUp` |
| settings of the line, output stopped by ^S | `ixon`, `echo`, `stopped` |
| the input queue, and the line discipline that takes from it | `typed`; `TakeChar` |

A settings call is three steps because the program can change the same
settings between any two of them (`Touch`); the server itself is busy all the
while. Turning flow control off runs a resume first. `init` accepts a module
as `on_exit` only if it exports a function of the wrong arity (`Accepted`).

XOFF and XON are characters in the input queue like any other, behind what was
written before, and work only when the line discipline takes them, which may
be late or never if the program does not read. Each is one write(2) on a
non-blocking descriptor, whose result the code ignores: a queue that is full
(`QueueCap`) refuses it and the call is answered `:ok` all the same
(`SendControl`). After the reader has closed the master the calls fail, or,
with `HostReopens`, act on whatever file has its number now.

The variables called history in the module record what the properties compare
with: what was asked last and not interfered with since (`asked`, `lastEcho`),
when a callback was asked for (`since`), what met none (`missed`), which calls
the program was given (`input`) and which were answered `:ok` (`oked`). A write
of text is one character here, and waits for room; its rounds are in
`PtySession`.

### CommandLine

`args_to_command_line` as functions defined by recursion: `Writing` is what
was written of a word after each of its characters, with the backslashes held
back in a counter as in the code's `Enum.reduce`, `Written` adds the closing
quote, and `Lines` joins the words. `ArgvOf`
is the reference, the published rules of `CommandLineToArgvW`. Four classes of
characters are all either side distinguishes.

### ConPty

One terminal on Windows.

| Code | Model |
|---|---|
| `get_pty_baton` in connect and write: found or not | the two cases of `Connect`, `Write` |
| `expty_spawn`, `expty_pty_connect` in `do_spawn` | `at`; `CreateConsole` ... `Arm` |
| `create_write_pipe`, `write_ready` | `writer` |
| `read_data` | `reader` |
| `pty_baton::write` with its mutex, a critical section | `write`, `scheduler`, `holder` |
| RegisterWaitForSingleObject, OnProcessExitWinEvent | `wait`; `Arm`, `PostExit` |

The two `ConnectNamedPipe` wait for threads of which the second is created
after the first wait, so the order matters. A failed `WriteFile` returns before
the unlock; the critical section is recursive for its owner, so whether the
next write blocks depends on the scheduler thread it runs on. Windows' console
and pipes are external. Here a search of `ptyHandles` may fail at any time;
when it really can is what `PtyHandles` is about. `expty_resize` changes
nothing that the module has.

### PtyHandles

The vector of all consoles (conpty.cc:163-175, 325) and the scheduler threads
that insert into it and search it, without a lock.

| Code | Model |
|---|---|
| `std::vector<pty_baton*> ptyHandles` | three pointers `first`, `last`, `end` and the blocks `slots`, `freed` |
| `ptyHandles.insert(ptyHandles.end(), ...)` with room | `Insert`, `Store`, `Bump` |
| the same when the vector is full | `Insert`, `Grow`, `Free`, `SetFirst`, `SetLast` |
| `get_pty_baton`, called by connect, write and resize | `Begin`, `Test`, `Get`, `Miss`; `index` |
| scheduler threads, one per terminal at a time | `at` |

An insertion is split at every store another thread may see. How the library
orders the two stores of an insertion with room, and how the processor shows
them to others, is open: with `inOrder` false they may be seen the other way
round. A block grows to anything between one more slot and twice as many. What
is read from freed or unwritten memory is nothing, after which the reader
crashes the VM, goes on, or misses its terminal. `overlapped` is history: have
two insertions met, or has one that moves the vector met a search (or any
insertion, if stores may change places)? Nothing ever removes a baton.

### SmartCell

The Livebook cell and the page of one browser.

| Code | Model |
|---|---|
| `ctx.assigns.pty`, `started?` | `pty`, `started` |
| `start_executable`, with the spawn and then the two callbacks | `HandleStart`, `FinishStart` |
| `stop_executable`, key, resize, delayed resize, exit event, `terminate` | `HandleStop`, `HandleKey`, `HandleResize`, `HandleDelayed`, `HandleExited`, `Terminate` |
| `Process.send_after` | `timers`; `TimerFires` |
| button, terminal size and observer in `main.js` | `button`, `pageSize`, `observing`, `leftOver`; `PressStart`, `PressStop`, `ResizePage`, `ExitShown` |
| terminals started one after the other | `term`, `onExit`, `size` |

An exit notice does not name its terminal in the code. The model's message
carries the number for the properties to look at; no action reads it. A start
makes a new observer and a stop lets the last one go; one that an exit left
behind before the next start observes on (`leftOver`). Full screen only
changes the size, which `ResizePage` may do at any time; opening the page's
terminal at the first start is part of `PressStart`.

### MCPtySession, MCSpawnUnix, MCProcessTable, MCTerminalServer, MCConPty, MCPtyHandles, MCSmartCell

Give the constants their small values and the symmetries.

### PtySessionProofs, PtyContractProofs, SpawnUnixProofs, ProcessTableProofs, TerminalServerProofs, ConPtyProofs, PtyHandlesProofs, SmartCellProofs

See section 6.

## 4. Runs

| Run | Question | Result |
|---|---|---|
| `session_linux` | Does the session keep its contract on Linux, with two writes, a kill and an exit at any moment? | `TypeOK`, `StreamIntact`, `LossOnlyAfterExit`, `ExitTrue` and the refinement `KeepsContract` hold |
| `session_bsd` | Is closing the master safe while a write is going on, and does death end everything? | `CloseLosesNothing`, `WriteHonest`, `StrayBounded`, `KeepsContract` and, under fairness, `DeathEndsWrite`, `ExitReported`, `OutputDrained` hold |
| `session_echo` | Can the server and an answering program wait for each other, with room for one unit? | `WriteReturns` and `OutputShown` hold: the reader thread needs neither |
| `session_exit_linux` | Is `on_exit` always called (lib/expty.ex:157)? | not on Linux: a write that fills the queue of a dead program never ends |
| `session_empty_write` | Does every write return (lib/expty.ex:241)? | no: the empty binary is retried for ever |
| `spawn_two` | Are the answers of two spawns that run together true, whatever fails, and can one hold up the other? | `SuccessIsReal`, `ErrorMeansNoProgram`, `MaskRestored`, `ClosedForProgram` hold; under fairness `WaitsOnlyForInheritors`: only a program started without `closeFDs` while the pipe was open can |
| `process_table` | What can be relied on in a map that three kinds of threads change without a lock? | `ListedWhileRunning`, `EntriesAccounted`, `UnloadReachesAll`: a program nobody touched is listed and gets the SIGTERM at unload, and a dead pid stays only if the program died before its insert; `AstrayOnlyAfterReap`: a signal hits another process only after the terminal's waitpid has returned, or if its pid is one whose program died without a zombie |
| `terminal` | Do two clients with timeouts, a program that changes the line and flow control get in each other's way? | `FlowObeyed`, `LastEchoWins`, `MissedOnlyEarlier`, `InputInOrder` hold; the exceptions they name are real |
| `terminal_pause` | Does a pause that was answered `:ok` stop the output (lib/expty.ex:312)? | no: a full input queue refuses the XOFF |
| `conpty` | Which arguments arrive, which calls return and is the exit noticed on Windows? | `ArgumentsArrive`: all lists but those with a word that has blanks and quotes at both ends; under fairness `ConnectReturns`, `WriteAnswered` (unless a WriteFile failed before or the console is gone) and `ExitPosted` |
| `pty_handles` | What do threads that share a vector without a lock still get from it? | `SafeUnlessMoved`: a search finds its terminal and touches only live memory, also beside an insertion that has room, unless two insertions met or one moved the vector during a search |
| `cell` | Does a cell lose a running program, keep a dead one, or show the wrong size? | `LetsGoOnlyForStaleExit`: a running program is let go only for the notice of an earlier one; `ExitReleases` under fairness; `SizeAgrees` with two exceptions, a size the page never sent and a delayed one applied late |

What `terminal_pause` finds is the exception of `FlowObeyed`
(`asked = "refused"`). In the same way the exceptions of
`LastEchoWins`, `MissedOnlyEarlier`, `SizeAgrees`, `LetsGoOnlyForStaleExit`,
`ExitReleases` and `WriteAnswered`, and what the premises of the three
properties of the process table leave out, are hazards of the code that are
recorded rather than caught; `PROJECT.json` says so of each.

Two properties say exactly how far a promise reaches: `LossOnlyAfterExit`, that
output is lost only once the exit message is in the mailbox (README.md:41
promises all of it), and `MaskRestored`, that the signal mask is lost only by a
call that fails before posix_spawn (pty.cpp:259 means to block signals for a
moment).

`CHECK_DEADLOCK FALSE` in all of them: a session in which the program is dead,
the threads have ended and the callers are done has nothing left to do, and
neither has a set of calls that have all returned, a BEAM that went down, a
library that was unloaded, or a page nobody touches.

The definitions marked "Slip" in the modules are small errors such as a later
change could make; each property of a passing run is known to fail with one of
them put in place of the definition that follows it.

### Further counterexamples

Beside the runs of `PROJECT.json` stand five configurations in which TLC finds
the property violated, each in a few steps, by what the code does. They show
that exceptions the runs above allow for are real (a `stat_loc` of a failed
waitpid, two insertions at once), or calls that never do what is said of them:

| Configuration | Property and question | Answer |
|---|---|---|
| `session_exit_code.cfg` of `MCPtySession` | `ExitTrue`: Is the exit code that of the program (lib/expty.ex:165)? | not in a host that ignores SIGCHLD: waitpid may fail, and `stat_loc` is decoded all the same |
| `spawn_answers.cfg` of `MCSpawnUnix` | `SpawnAnswers`: Does spawn return the error (lib/expty.ex:221)? | no: the server crashes on it and the caller's call exits |
| `terminal_flow.cfg` of `MCTerminalServer` | `OkMeansWritten`: Is a text written when its write was answered `:ok` (lib/expty.ex:239)? | no: with flow control it is dropped |
| `terminal_module.cfg` of `MCTerminalServer` | `OptionsHonoured`: Is the `on_exit` of README.md:49-66 called? | no: spawn looks for an exported `on_exit` of three arguments, and the one that would be called has four |
| `pty_handles_race.cfg` of `MCPtyHandles` | `HandleFetched`: Is a terminal that was spawned always found (conpty.cc:364)? | no: two insertions at once may lose one, and one that moves the vector hides it from a search |

### Bounds

- `MaxOut = 2` (4 with an echo): one unit in the reader's hand or lost while
  another waits in the terminal, which is what loss and order need.
- `OutCap`, `InCap` of 1 or 2, binaries of 1 and 3 units and a buffer of 2: a
  binary that fits, one that needs two rounds and does not fit the queue.
- One or two writes and one kill: a second write meets every state the first
  leaves. More calls repeat these states; the proofs do without the bounds.
- Codes 0 and 1, SIGKILL, and SIGTERM as a signal the program survives.
- Two calls of spawn on two threads: each can inherit the other's pipe, also
  both at once, or follow the other on its thread and find the mask it left. A
  third call adds no new relation between two; the proofs cover any number.
  Every step may fail in `spawn_two`; `spawn_answers` allows the one failure it
  is about.
- `process_table`: two terminals and two pids, so that a pid is used by both,
  by one and a stranger, or each has its own; one kill each, before or after
  the program's death, fatal or not; a kernel that revokes (the only one where
  a reader sends SIGHUP); a host that ignored SIGCHLD, so that both kinds of
  death occur, before and after the first waiter. The proofs do without these
  bounds.
- `terminal`: two clients, three calls (a pause, a change by another client and
  a write or callback is the longest interference the properties name) out of
  writes of text, ^S and ^Q, flow control on and off, pause, echo off and the
  callback for data; resume runs through flow control, echo on and the exit
  callback are left to the proofs; an input queue of two characters, which two
  writes fill before the XOFF; two
  events, one change of the settings by the program, no callback at first so
  that both can be set late. Proved without the bounds.
- `conpty`: all 85 single arguments of up to three characters (a quote, a blank
  and a quote is the shortest exception) and all 25 pairs of up to one; two
  scheduler threads and two writes, since a lock left behind needs both; one
  unit of output.
- `pty_handles`: three terminals. The first insertions grow the vector to one,
  two and three or more slots, the third with or without a move, while the
  others insert or search.
- `cell`: six user events (start, stop, start, resize, stop, start with a
  different size fit) and three terminals, so that a stale notice can meet the
  second and the third; two sizes; on Unix, where a kill works.

## 5. Fairness

`FairSpec` assumes weak fairness of the reader thread, of the waiter thread and
of the server: the operating system schedules native threads and the BEAM a
process that has messages or is inside a NIF on a dirty scheduler. Nothing is
assumed of the program or the callers. `CooperativeSpec` adds that the program
keeps reading and answering, for the two properties that are about such a
program. The write loop takes steps while it spins, so fairness of the server
does not hide that it never returns. In `SpawnUnix` the calls under way and the
helpers are scheduled fairly; nothing is assumed of programs, which may run
for ever, nor of callers. `ConPty` assumes that the server, the writer thread,
the reader thread and the system's wait for a handle go on; WriteFile on a
console that is there completes, as the console host reads its pipe.
`SmartCell` assumes that the cell's process and the servers of terminals handle
their messages and that timers go off; nothing of the user or the programs.
`ProcessTable`, `TerminalServer` and `PtyHandles` state safety only and no
fairness.

## 6. Proofs

`PtySessionProofs`, for all values of the constants that satisfy
`BoundsAssumption` and `DataAssumption`:

- `TypeCorrect`: `Spec => []TypeOK`, one lemma per thread.
- `LossOnlyAfterExitTheorem`. The property speaks of `lost` and the mailbox; it
  is inductive with the life cycle that links them (`LossInv`): output is lost
  only if the pid is freed, the pid is freed only when the waiter is past
  `free`, and then the exit message has been announced. An announcement is
  kept by every send and receive, which the lemmas on the mailbox
  (`QueuedAfterSend`, `QueuedAfterReceive`) give.
- `CloseLosesNothingTheorem`, from `CloseInv`: once the flag is up the reader
  reads no more and the program, being dead (`DeathIsFinal`), writes no more.
- `ExitTrueTheorem`, for a host that does not ignore SIGCHLD, from `ExitInv`: a
  program is reaped exactly when the waiter is past waitpid, the report in the
  waiter's hand is that of the status, which no step changes once the program
  is dead (`StatusStep`), and no other message is an exit (`ReportsKept`).

- `StreamIntactTheorem`. The property says where each unit that was read is,
  and is inductive with `CloseInv`, by which the reader thread has nothing in
  its hand when it is created. Steps that leave the data messages alone keep it
  (`OutputKept`); a read, a send and `on_data` move one unit each.

`PtyContractProofs` extends it, from the same assumptions:

- `WriteHonestTheorem`. What a write has sent is the prefix it counts only if
  nothing has left for a write that still waits; so `WriteInv` says that no unit
  and no answer belongs to a later write than the one in hand, and `QueueInv`
  that the writes in the mailbox are numbered in the order they are served.
- `StrayBoundedTheorem`, from `StrayInv`: the descriptor closes after the flag
  is up, and a write that lost its file does not come back for another round.
- `KeepsContractTheorem`: the refinement. It assumes `HostIgnoresSigchld =
  FALSE`, since with SIGCHLD ignored the report is made of an unset status and
  the contract's true report cannot be promised. There is one lemma for each
  kind of step that the contract sees (`DataSeen`, `ExitSeen`, `DeathSeen`,
  `AnswerSeen`, `SignalSeen`, ...), `ContractStep` puts them together, and
  `SessionInv` joins the invariants that make a step land where the contract
  wants it: a chunk is skipped only after the death, and a write is short only then.

`SpawnUnixProofs`, for any number of calls and threads, every set of faults and
both kinds of kernel, from `SpawnAssumption`:

- `TypeCorrect`.
- `SuccessIsRealTheorem`, `ErrorMeansNoProgramTheorem` and
  `ClosedForProgramTheorem`, all from `LifeInv`. None of the three is inductive:
  what a call may conclude from an empty pipe needs that a helper holds its
  write end until it execs or dies, and that exactly those that fail have
  written (`HelperLife`); what its result says must survive the helper's later
  steps (`Verdict`); and what closes the descriptors happens before the exec
  (`Closing`). `LifeInv` speaks of each call by itself, since a step of one
  leaves the rest alone (`LifeOfOthers`), so the induction is per call.
- `MaskRestoredTheorem`, from `ThreadInv` (a thread serves one call at a time)
  and `MaskInv`: a mask that blocks everything, current or saved, has a call to
  blame, which `ExcusesStay` keeps, or a call that is just blocking it.

`ProcessTableProofs`, for any number of terminals, pids and kills and both
kinds of kernel, from `TableAssumption`. `Base`, which is inductive, is
`TypeOK` with the life of each terminal (`LifeInv`: what its spawner, server
and waiter have done agrees with what its program is), who is inside the map
(`InsideInv`: a thread only at the step that uses it), the owner of a pid
(`OwnerInv`: terminals whose programs are neither reaped nor vanished have
different pids, none a stranger's) and how programs went (`DeathInv`: one that
is gone has been waited for, or its pid is that of one that vanished, which
only a host that ignored SIGCHLD lets happen).

- `AstrayOnlyAfterReapTheorem` follows a signal to its victim: as long as the
  own program is there `OwnerInv` leaves no other, and when it is gone
  `DeathInv` says how.
- `EntriesAccountedTheorem` and `ListedWhileRunningTheorem` are inductive with
  `Base`: what an End step writes to the map is known because nobody else was
  inside, and an erase of another terminal names another pid.
- `UnloadReachesAllTheorem` from the second of these.

`TerminalServerProofs`, for any clients, calls, messages, options, queue and
changes by the program, from `ServerAssumption`. `Inductive` has six parts, each
kept by every step with the types alone or with one other part:

- `FlowInv`: nothing is stopped without IXON, the copy of the settings in
  the hand of a call that no change made stale is that of the line, and the
  XOFF of a pause is the last character in the queue until it is taken.
  `FlowObeyed` is not inductive without it, because pause writes a copy that
  may be old and its XOFF works late. `LastEchoWins` uses the same fact.
- `OrderInv`: a waiting event that is younger than the request for its callback
  has the request before it in the mailbox; with `MissedInv` it gives
  `MissedOnlyEarlier`. `TailOrder` and `AppendOrder` say that taking and adding
  a message keep it.
- `QueueInv`: the calls in the mailbox, in the input queue and in what the
  program was given are in order within each and from each to the next, and
  none is later than the last call made. It gives `InputInOrder`, which speaks
  of the last two only and would not survive the next write without the first.

The first part of `ConPtyProofs` is about the operators of `CommandLine`, for
words of any length. Induction over the characters is stated about a set of numbers
(`NatSetInduction`, which follows from the well-foundedness of `<` on the
naturals), because a theorem that takes a predicate cannot be used here.

- `RunExists` and `RunUnique`: a recursion over 1..n has one solution, which is
  what makes the CHOOSE in the recursive functions `Writing`, `Reading` and
  `Lines` what they look like (`WritingRuns`, `ReadingRuns`, `LinesRun`).
- `ReadSlashes`, `ReadEscaped`, `ReadPlain`: what the reader makes of a run of
  backslashes and the character after it; `ReadWritten` applies them to what
  `WriteChar` writes.
- `WordSoFar`: while a word that is read back is written, what the reader has
  and what the writer holds back are the word up to here. `WordTorn`: of a word
  taken for a quoted one, the reader has begun another word after its first
  blank, however the word goes on.
- `RoundTrip`: with the two, argument by argument (`GotGrows`), the arguments
  read are those given if and only if each word is read back; otherwise there
  are too many of them.

The second part of `ConPtyProofs` is for any lists of arguments, threads and
bounds, from `ConPtyAssumption`. `ConInv` has three parts:

- `TypeOK` (`ConTypeCorrect`), where `argv` stays a list of words because
  `RoundTrip` says so of what the reader makes.
- `ArgInv`: a program has what `CreateProcess` passed, and the list given does
  not change; with `RoundTrip` it gives `ArgumentsArriveTheorem`.
- `MutexInv`: until a `WriteFile` fails, the mutex is held exactly while a write
  is in `WriteFile`, by its thread. It gives `LockFreeTheorem`: a write waits
  at the mutex only after a failure. No run names `LockFree` as a property; it
  is the safe part of `WriteAnswered`, which TLC checks under fairness.

`PtyHandlesProofs`, for any number of terminals, either order of the stores and
every growth of the vector, from `HandlesAssumption`. `SafeUnlessMoved` is not
inductive: what a search finds depends on what every earlier insertion left in
memory. `HandlesInv` is `TypeOK` and, until an overlap, `Sound`:

- `Whole`: the three pointers are of one live block, which holds every terminal
  that was inserted, and nothing but terminals up to `last` apart from a place
  that is counted before it is filled (`Late`).
- `Owners` and `CopyMade`: a block in use is its maker's, and a new block holds
  all terminals before the pointers go to it. `Placed`: a new baton goes behind
  the last one. `Ahead`: a search has its baton before it.

There is one lemma for each step of an insertion (`InsertSafe` ... `SetLastSafe`)
and one for a search (`SearchSafe`); `Alone` and `OnlyOne` turn the absence of
an overlap into what the other threads cannot be doing.

`SmartCellProofs`, for any number of terminals, events and sizes, from
`CellAssumption`. `CellInv` is `TypeOK` with

- `NoticeInv`: the mailbox has one exit notice at most of each terminal, only
  of those that have told, and with those on their way to the page they are no
  more than have told. The bound on `toPage` in `TypeOK` needs it
  (`CellTypeCorrect`).
- `OrderInv`: the terminal held, or being set up, is the last one started. With
  `NoticeInv` it gives `LetsGoTheorem`: a notice is of a terminal that has
  told, so of an earlier one when the terminal held still runs. That theorem assumes
  `KillWorks = TRUE`, as the run does: on Windows ExPTY.kill does nothing, and
  a stop lets the program go.
- `SpawnSized` and `PageSized`: a terminal has its first size until a message
  sets another, and the last resize in the mailbox has the size of the page.
  They give `SizeAgreesTheorem`.

Model-checked only: the temporal properties `DeathEndsWrite`, `ExitReported`,
`OutputDrained`, `WriteReturns`, `OutputShown`, `WaitsOnlyForInheritors`,
`ConnectReturns`, `WriteAnswered`, `ExitPosted` and `ExitReleases`, since
liveness under fairness is outside the prover.

## 7. Not modelled

Whole components: conversion of NIF arguments (stateless), the search of PATH
(file system), the supervisor (empty), libuv (vendored and by far the largest
part of the repository's C; no code here runs its loop), build files and web
assets.

Parts of the modelled components:

- `expty_resize`, whose value nobody reads back, apart from the size in
  `SmartCell`; IXOFF, which does nothing on a pseudoterminal.
- Windows: the values of pipe names and environment, answers to badly typed
  arguments, and the empty binary, which `WriteFile` accepts. That the
  function table of the Windows NIF names `spawn_unix` with 13 arguments while
  the Elixir module declares 14 would keep it from loading; the model takes
  the table as meant, and a hazard names the line.
- Unix: the result that `expty_write` leaves unset for badly typed arguments
  (pty.cpp:401); the race of several spawns in `uv_default_loop` and
  `uv_async_init`, planned as `AsyncLoop`; descendants of a program.
- Smart cell: a second browser and a reload of the page (`handle_connect`).

The callbacks of the
uv_async handles in `pty.cpp` (`pty_after_waitpid`, `pty_after_pipesocket` and
what they close) never run, because nothing runs the loop they wait in.
