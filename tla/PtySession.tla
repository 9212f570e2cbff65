----------------------------- MODULE PtySession -----------------------------
(***************************************************************************)
(* One terminal on Unix, from the moment the helper has exec'd the         *)
(* program: the last lines of expty_spawn that start the two threads, the  *)
(* reader thread (pty_pipesocket_fn), the waiter thread (pty_waitpid), the *)
(* GenServer that owns the terminal with its mailbox and its write loop    *)
(* (pty_pipesocket::write), and, outside the repository, the program and   *)
(* the kernel's pseudoterminal between them.                               *)
(*                                                                         *)
(* Both threads use one ErlNifPid (`process'): the waiter frees it after   *)
(* it has sent the exit message, while the reader may still hold output    *)
(* to send.  A send through the freed pointer either still works or goes   *)
(* nowhere; the model takes both.                                          *)
(*                                                                         *)
(* Data is counted in units: the n-th unit the program writes is the       *)
(* number n, so that a sequence of numbers tells which output arrived      *)
(* and in what order.                                                      *)
(***************************************************************************)
EXTENDS Integers, Sequences, Functions

CONSTANTS
  MaxOut,          \* bound: units of output the program writes
  OutCap,          \* room in the pty, program to BEAM
  InCap,           \* room in the pty, BEAM to program
  BufferSize,      \* buffer_size, the most one write(2) is given
  WriteSizes,      \* sizes of the binaries given to ExPTY.write/2
  MaxWrites,       \* bound: calls to ExPTY.write/2
  MaxKills,        \* bound: calls to ExPTY.kill/2
  ExitCodes,       \* exit codes of the program
  Signals,         \* signals given to ExPTY.kill/2
  FatalSignals,    \* the ones the program does not survive
  SIGHUP,          \* sent by the reader when the terminal is gone
  RevokesOnExit,   \* does the kernel revoke the tty when its session leader
                   \* dies (BSD, macOS), or not (Linux)
  HostIgnoresSigchld, \* was SIGCHLD ignored before the waiter started
  HostReopens,     \* may the BEAM open a file under the number of a closed
                   \* master descriptor
  Echo             \* does the program answer each unit it reads

ASSUME BoundsAssumption ==
  /\ MaxOut \in Nat
  /\ OutCap \in Nat \ {0}
  /\ InCap \in Nat \ {0}
  /\ BufferSize \in Nat \ {0}
  /\ MaxWrites \in Nat
  /\ MaxKills \in Nat

ASSUME DataAssumption ==
  /\ WriteSizes \subseteq Nat
  /\ ExitCodes \subseteq Nat
  /\ 0 \in ExitCodes
  /\ Signals \subseteq Nat \ {0}
  /\ FatalSignals \subseteq Nat \ {0}
  /\ SIGHUP \in Nat \ {0}
  /\ RevokesOnExit \in BOOLEAN
  /\ HostIgnoresSigchld \in BOOLEAN
  /\ HostReopens \in BOOLEAN
  /\ Echo \in BOOLEAN

VARIABLES
  \* the program and the kernel
  child,           \* "running", "zombie" or "reaped"
  status,          \* how the program died
  sigchldIgnored,  \* disposition of SIGCHLD in the BEAM
  wrote,           \* units of output written by the program
  nread,           \* units of output read from the master
  accepted,        \* units of input taken by the master, <<write, offset>>
  consumed,        \* how many of them the program has read
  owed,            \* an echo program owes an answer to what it read
  fdOpen,          \* the master descriptor
  \* the native threads
  reader,          \* where pty_pipesocket_fn is
  waiter,          \* where pty_waitpid is
  fd_closed,       \* baton->fd_closed
  process,         \* the shared ErlNifPid: "alive" or "freed"
  report,          \* exit_code and signal_code of the baton
  registered,      \* is the pid a key of `processes'
  \* the GenServer
  server,          \* where the GenServer is
  mailbox,         \* its messages, oldest first
  job,             \* the write in progress
  bytes_written,   \* units of it written so far
  stray,           \* units written to a file that is not the terminal
  writes, kills,   \* calls made so far
  \* what the user of the terminal has seen
  seen,            \* units handed to on_data
  lost,            \* units read from the master and sent nowhere
  exits,           \* reports handed to on_exit
  replies          \* one [id, size, written] per write that returned

kernelVars == <<child, status, sigchldIgnored, wrote, nread, accepted,
                consumed, owed, fdOpen>>
threadVars == <<reader, waiter, fd_closed, process, report, registered>>
serverVars == <<server, mailbox, job, bytes_written, stray, writes, kills>>
userVars   == <<seen, lost, exits, replies>>
vars == <<kernelVars, threadVars, serverVars, userVars>>

-----------------------------------------------------------------------------
(* Messages and statuses.  An Erlang message {tag, a, b} is a record.      *)

Msg(tag, a, b) == [tag |-> tag, a |-> a, b |-> b]
Messages == [tag : {"data", "exit", "write", "kill"}, a : Nat, b : Nat]

\* Slip: the newest message is served first.
DeliverFirst(m) == mailbox' = <<m>> \o mailbox

Deliver(m) == mailbox' = Append(mailbox, m)

\* A program exits with a code or is killed by a signal.
Exited(c)   == [how |-> "exited", n |-> c]
Signaled(s) == [how |-> "signaled", n |-> s]
Deaths == {Exited(c) : c \in ExitCodes} \cup
          {Signaled(s) : s \in FatalSignals}

\* Slip: a signal reported as a negative exit code.
EncodeNegative(st) == IF st.how = "exited" THEN <<st.n, 0>> ELSE <<-st.n, 0>>

\* What WIFEXITED and WIFSIGNALED make of a status; the baton's fields
\* start at zero.
Encode(st) == IF st.how = "exited" THEN <<st.n, 0>> ELSE <<0, st.n>>

\* When waitpid fails stat_loc keeps what the stack held.
Garbage == {<<c, 0>> : c \in ExitCodes} \cup {<<0, s>> : s \in FatalSignals}

-----------------------------------------------------------------------------
(* The program and the pseudoterminal (outside the repository).            *)

\* The BEAM keeps its own copy of the slave open, so the master never
\* reports the end of the output unless the kernel revokes the terminal.
Hungup == RevokesOnExit /\ child # "running"

OutRoom == wrote - nread < OutCap
InRoom  == InCap - (Len(accepted) - consumed)

\* The death of the program: a zombie, unless SIGCHLD is ignored.
Dies(st) ==
  /\ child' = IF sigchldIgnored THEN "reaped" ELSE "zombie"
  /\ status' = st

\* kill(2): a fatal signal ends a running program, anything else does
\* nothing that this module can tell.
SignalChild(sig) ==
  IF child = "running" /\ sig \in FatalSignals
  THEN Dies(Signaled(sig))
  ELSE UNCHANGED <<child, status>>

ChildWrite ==
  /\ child = "running"
  /\ wrote < MaxOut
  /\ OutRoom
  /\ Echo => owed
  /\ wrote' = wrote + 1
  /\ owed' = FALSE
  /\ UNCHANGED <<child, status, sigchldIgnored, nread, accepted, consumed,
                 fdOpen, threadVars, serverVars, userVars>>

ChildRead ==
  /\ child = "running"
  /\ ~owed
  /\ consumed < Len(accepted)
  /\ consumed' = consumed + 1
  /\ owed' = Echo
  /\ UNCHANGED <<child, status, sigchldIgnored, wrote, nread, accepted,
                 fdOpen, threadVars, serverVars, userVars>>

ChildExit ==
  /\ child = "running"
  /\ \E c \in ExitCodes : Dies(Exited(c))
  /\ UNCHANGED <<sigchldIgnored, wrote, nread, accepted, consumed, owed,
                 fdOpen, threadVars, serverVars, userVars>>

-----------------------------------------------------------------------------
(* The end of expty_spawn, inside handle_call(:do_spawn).                  *)

SpawnWaiter ==
  /\ server = "spawnWaiter"
  /\ waiter' = "start"
  /\ server' = "spawnReader"
  /\ UNCHANGED <<kernelVars, reader, fd_closed, process, report, registered,
                 mailbox, job, bytes_written, stray, writes, kills, userVars>>

SpawnReader ==
  /\ server = "spawnReader"
  /\ reader' = "select"
  /\ server' = "spawnInsert"
  /\ UNCHANGED <<kernelVars, waiter, fd_closed, process, report, registered,
                 mailbox, job, bytes_written, stray, writes, kills, userVars>>

SpawnInsert ==
  /\ server = "spawnInsert"
  /\ registered' = TRUE
  /\ server' = "idle"
  /\ UNCHANGED <<kernelVars, reader, waiter, fd_closed, process, report,
                 mailbox, job, bytes_written, stray, writes, kills, userVars>>

-----------------------------------------------------------------------------
(* The reader thread.                                                      *)

Output == nread + 1 .. wrote

\* Slip: one lock for both directions, so that no output is read while a
\* write is going on.
ReadReadyLocked ==
  Output # {} /\ server \notin {"writeLoop", "writeSyscall"}

ReadReady == Output # {}

\* A read(2) that fails (after a signal woke select) returns -1, which is
\* taken for the length of a binary: no such binary is made and the loop
\* goes round, or the allocation ends the BEAM.  Neither is a step here.
ReaderRead ==
  /\ reader = "select"
  /\ ReadReady
  /\ nread' = nread + 1
  /\ reader' = "send"
  /\ UNCHANGED <<child, status, sigchldIgnored, wrote, accepted, consumed,
                 owed, fdOpen, waiter, fd_closed, process, report,
                 registered, serverVars, userVars>>

\* A send through the freed ErlNifPid may find its bytes unchanged.
ReaderSend ==
  /\ reader = "send"
  /\ reader' = "select"
  /\ \/ /\ Deliver(Msg("data", nread, 0))
        /\ lost' = lost
     \/ /\ process = "freed"
        /\ lost' = lost \cup {nread}
        /\ mailbox' = mailbox
  /\ UNCHANGED <<kernelVars, waiter, fd_closed, process, report, registered,
                 server, job, bytes_written, stray, writes, kills, seen, exits,
                 replies>>

\* Slip: a dead program is taken for the end of its output.
EofSeenEarly == Hungup

\* read(2) returns 0: there is no output left and the terminal is gone.
EofSeen == Output = {} /\ Hungup

\* The flag goes up first, then the descriptor closes.
ReaderEof ==
  /\ reader = "select"
  /\ EofSeen
  /\ fd_closed' = TRUE
  /\ reader' = "close"
  /\ UNCHANGED <<kernelVars, waiter, process, report, registered,
                 serverVars, userVars>>

ReaderClose ==
  /\ reader = "close"
  /\ fdOpen' = FALSE
  /\ reader' = "hangup"
  /\ UNCHANGED <<child, status, sigchldIgnored, wrote, nread, accepted,
                 consumed, owed, waiter, fd_closed, process, report,
                 registered, serverVars, userVars>>

ReaderHangup ==
  /\ reader = "hangup"
  /\ SignalChild(SIGHUP)
  /\ reader' = "done"
  /\ UNCHANGED <<sigchldIgnored, wrote, nread, accepted, consumed, owed,
                 fdOpen, waiter, fd_closed, process, report, registered,
                 serverVars, userVars>>

Reader == ReaderRead \/ ReaderSend \/ ReaderEof \/ ReaderClose \/ ReaderHangup

-----------------------------------------------------------------------------
(* The waiter thread.                                                      *)

WaiterStart ==
  /\ waiter = "start"
  /\ sigchldIgnored' = FALSE
  /\ waiter' = "wait"
  /\ UNCHANGED <<child, status, wrote, nread, accepted, consumed, owed,
                 fdOpen, reader, fd_closed, process, report, registered,
                 serverVars, userVars>>

\* waitpid(2) collects the zombie, or fails because there is none left.
WaiterReap ==
  /\ waiter = "wait"
  /\ \/ /\ child = "zombie"
        /\ report' = Encode(status)
     \/ /\ child = "reaped"
        /\ report' \in Garbage \cup {<<0, 0>>}
  /\ child' = "reaped"
  /\ waiter' = "send"
  /\ UNCHANGED <<status, sigchldIgnored, wrote, nread, accepted, consumed,
                 owed, fdOpen, reader, fd_closed, process, registered,
                 serverVars, userVars>>

\* Slips: the code and the signal change places; only a normal exit is
\* reported.
ExitReportSwapped == <<Msg("exit", report[2], report[1])>>
ExitReportNormal ==
  IF report[2] = 0 THEN <<Msg("exit", report[1], 0)>> ELSE <<>>

ExitReport == <<Msg("exit", report[1], report[2])>>

WaiterSend ==
  /\ waiter = "send"
  /\ mailbox' = mailbox \o ExitReport
  /\ waiter' = "free"
  /\ UNCHANGED <<kernelVars, reader, fd_closed, process, report, registered,
                 server, job, bytes_written, stray, writes, kills, userVars>>

WaiterFree ==
  /\ waiter = "free"
  /\ process' = "freed"
  /\ waiter' = "erase"
  /\ UNCHANGED <<kernelVars, reader, fd_closed, report, registered,
                 serverVars, userVars>>

WaiterErase ==
  /\ waiter = "erase"
  /\ registered' = FALSE
  /\ waiter' = "done"
  /\ UNCHANGED <<kernelVars, reader, fd_closed, process, report,
                 serverVars, userVars>>

Waiter ==
  WaiterStart \/ WaiterReap \/ WaiterSend \/ WaiterFree \/ WaiterErase

-----------------------------------------------------------------------------
(* Calls made by the users of the terminal: they wait in the mailbox.      *)

Spawned == server \notin {"spawnWaiter", "spawnReader", "spawnInsert"}

CallWrite ==
  /\ Spawned
  /\ writes < MaxWrites
  /\ \E size \in WriteSizes :
       Deliver(Msg("write", writes + 1, size))
  /\ writes' = writes + 1
  /\ UNCHANGED <<kernelVars, threadVars, server, job, bytes_written, stray,
                 kills,
                 userVars>>

CallKill ==
  /\ Spawned
  /\ kills < MaxKills
  /\ \E sig \in Signals : Deliver(Msg("kill", sig, 0))
  /\ kills' = kills + 1
  /\ UNCHANGED <<kernelVars, threadVars, server, job, bytes_written, stray,
                 writes,
                 userVars>>

-----------------------------------------------------------------------------
(* The GenServer: one message at a time.                                   *)

Receives(tag) ==
  /\ server = "idle"
  /\ mailbox # <<>>
  /\ Head(mailbox).tag = tag
  /\ mailbox' = Tail(mailbox)

HandleData ==
  /\ Receives("data")
  /\ seen' = Append(seen, Head(mailbox).a)
  /\ UNCHANGED <<kernelVars, threadVars, server, job, bytes_written, stray,
                 writes,
                 kills, lost, exits, replies>>

HandleExit ==
  /\ Receives("exit")
  /\ exits' = Append(exits, <<Head(mailbox).a, Head(mailbox).b>>)
  /\ UNCHANGED <<kernelVars, threadVars, server, job, bytes_written, stray,
                 writes,
                 kills, seen, lost, replies>>

HandleKill ==
  /\ Receives("kill")
  /\ SignalChild(Head(mailbox).a)
  /\ registered' = FALSE
  /\ UNCHANGED <<sigchldIgnored, wrote, nread, accepted, consumed, owed,
                 fdOpen, reader, waiter, fd_closed, process, report, server,
                 job, bytes_written, stray, writes, kills, userVars>>

Reply(w, n) == replies' = Append(replies, [id |-> w.id, size |-> w.size,
                                           written |-> n])

\* The first look at fd_closed, before the mutex.
HandleWrite ==
  /\ Receives("write")
  /\ job' = [id |-> Head(mailbox).a, size |-> Head(mailbox).b]
  /\ bytes_written' = 0
  /\ IF fd_closed
     THEN Reply([id |-> Head(mailbox).a, size |-> Head(mailbox).b], 0)
          /\ server' = server
     ELSE server' = "writeLoop" /\ UNCHANGED replies
  /\ UNCHANGED <<kernelVars, threadVars, stray, writes, kills, seen, lost,
                 exits>>

\* Slip: the loop trusts the look before the mutex.
GiveUpNever == FALSE

GiveUp == fd_closed

\* The look at fd_closed at the top of every round of the loop.
WriteLoop ==
  /\ server = "writeLoop"
  /\ IF GiveUp
     THEN Reply(job, bytes_written) /\ server' = "idle"
     ELSE server' = "writeSyscall" /\ UNCHANGED replies
  /\ UNCHANGED <<kernelVars, threadVars, mailbox, job, bytes_written, stray,
                 writes,
                 kills, seen, lost, exits>>

\* Slip: the round is sized by the whole binary, not by what is left of it.
nbytesWhole == IF BufferSize > job.size THEN job.size ELSE BufferSize

nbytes ==
  LET bytes_to_write == job.size - bytes_written
  IN  IF BufferSize > bytes_to_write THEN bytes_to_write ELSE BufferSize

\* Slip: a short write is taken for the whole one.
AdvanceOnce(k) ==
  /\ bytes_written' = bytes_written + k
  /\ Reply(job, bytes_written + k)
  /\ server' = "idle"

\* The end of a round that moved k units.
Advance(k) ==
  /\ bytes_written' = bytes_written + k
  /\ IF bytes_written + k = job.size
     THEN Reply(job, job.size) /\ server' = "idle"
     ELSE server' = "writeLoop" /\ UNCHANGED replies

Offsets(k) == {<<job.id, bytes_written + i>> : i \in 1 .. k}

\* write(2) takes k units, fewer than it is given when room is short.
WriteTaken ==
  /\ server = "writeSyscall"
  /\ fdOpen
  /\ ~Hungup
  /\ \E k \in 1 .. nbytes :
       /\ k <= InRoom
       /\ accepted' = accepted \o
            [i \in 1 .. k |-> <<job.id, bytes_written + i>>]
       /\ Advance(k)
  /\ UNCHANGED <<child, status, sigchldIgnored, wrote, nread, consumed, owed,
                 fdOpen, threadVars, mailbox, job, writes, kills, stray, seen,
                 lost, exits>>

\* Between the look at fd_closed and the write(2) the reader has closed the
\* descriptor, and the BEAM has opened another file under its number: the
\* units go there.
WriteStray ==
  /\ server = "writeSyscall"
  /\ ~fdOpen
  /\ HostReopens
  /\ \E k \in 1 .. nbytes :
       /\ stray' = stray \cup Offsets(k)
       /\ Advance(k)
  /\ UNCHANGED <<kernelVars, threadVars, mailbox, job, writes, kills, seen,
                 lost, exits>>

\* write(2) returns 0 or -1: the loop tries again, for ever if need be
\* (the counter `retry' decides only whether to sleep, and wraps).
WriteRefused ==
  /\ server = "writeSyscall"
  /\ ~fdOpen \/ Hungup \/ InRoom <= 0 \/ nbytes = 0
  /\ server' = "writeLoop"
  /\ UNCHANGED <<kernelVars, threadVars, mailbox, job, bytes_written, stray,
                 writes,
                 kills, userVars>>

Server ==
  \/ SpawnWaiter \/ SpawnReader \/ SpawnInsert
  \/ HandleData \/ HandleExit \/ HandleKill \/ HandleWrite
  \/ WriteLoop \/ WriteTaken \/ WriteStray \/ WriteRefused

-----------------------------------------------------------------------------
Init ==
  /\ child = "running"
  /\ status = Exited(0)
  /\ sigchldIgnored = HostIgnoresSigchld
  /\ wrote = 0
  /\ nread = 0
  /\ accepted = <<>>
  /\ consumed = 0
  /\ owed = FALSE
  /\ fdOpen = TRUE
  /\ reader = "none"
  /\ waiter = "none"
  /\ fd_closed = FALSE
  /\ process = "alive"
  /\ report = <<0, 0>>
  /\ registered = FALSE
  /\ server = "spawnWaiter"
  /\ mailbox = <<>>
  /\ job = [id |-> 0, size |-> 0]
  /\ bytes_written = 0
  /\ stray = {}
  /\ writes = 0
  /\ kills = 0
  /\ seen = <<>>
  /\ lost = {}
  /\ exits = <<>>
  /\ replies = <<>>

Environment == ChildWrite \/ ChildRead \/ ChildExit \/ CallWrite \/ CallKill

Next == Environment \/ Reader \/ Waiter \/ Server

Spec == Init /\ [][Next]_vars

\* The operating system runs the two threads, and the BEAM runs a GenServer
\* that has something to do.  Nothing is assumed of the program.
FairSpec == Spec /\ WF_vars(Reader) /\ WF_vars(Waiter) /\ WF_vars(Server)

\* The same with a program that keeps reading and answering.
CooperativeSpec == FairSpec /\ WF_vars(ChildRead) /\ WF_vars(ChildWrite)
-----------------------------------------------------------------------------
(* Correctness.                                                            *)

\* The state of the session is well formed.
TypeOK ==
  /\ child \in {"running", "zombie", "reaped"}
  /\ status \in Deaths
  /\ sigchldIgnored \in BOOLEAN
  /\ wrote \in Nat
  /\ nread \in Nat
  /\ accepted \in Seq(Nat \X Nat)
  /\ consumed \in Nat
  /\ owed \in BOOLEAN
  /\ fdOpen \in BOOLEAN
  /\ reader \in {"none", "select", "send", "close", "hangup", "done"}
  /\ waiter \in {"none", "start", "wait", "send", "free", "erase", "done"}
  /\ fd_closed \in BOOLEAN
  /\ process \in {"alive", "freed"}
  /\ report \in Nat \X Nat
  /\ registered \in BOOLEAN
  /\ server \in {"spawnWaiter", "spawnReader", "spawnInsert", "idle",
                 "writeLoop", "writeSyscall"}
  /\ mailbox \in Seq(Messages)
  /\ job \in [id : Nat, size : Nat]
  /\ bytes_written \in Nat
  /\ stray \subseteq Nat \X Nat
  /\ writes \in Nat
  /\ kills \in Nat
  /\ seen \in Seq(Nat)
  /\ lost \subseteq Nat
  /\ exits \in Seq(Nat \X Nat)
  /\ replies \in Seq([id : Nat, size : Nat, written : Nat])

Queued(tag) == {i \in DOMAIN mailbox : mailbox[i].tag = tag}
InMailbox   == {mailbox[i].a : i \in Queued("data")}
InHand      == IF reader = "send" THEN {nread} ELSE {}

\* Between read(2) in the reader thread and the on_data callback no output
\* is duplicated, reordered or forgotten: what was read has been shown, waits
\* in the mailbox, is in the reader's buffer, or went through the freed pid.
StreamIntact ==
  /\ Range(seen) \cup InMailbox \cup lost \cup InHand = 1 .. nread
  /\ (Range(seen) \cup InMailbox) \cap lost = {}
  /\ \A i, j \in DOMAIN seen : i < j => seen[i] < seen[j]
  /\ \A i, j \in Queued("data") : i < j => mailbox[i].a < mailbox[j].a
  /\ \A n \in Range(seen) : \A m \in InMailbox : n < m
  /\ InHand \cap (Range(seen) \cup InMailbox \cup lost) = {}

\* The waiter thread frees the pid both threads send to, but only after the
\* exit message: output of a program whose end was not announced is not lost.
LossOnlyAfterExit ==
  lost # {} => exits # <<>> \/ Queued("exit") # {}

\* on_exit is called at most once, never before the program has died and
\* been reaped, and with the code and signal it died of.
ExitTrue ==
  /\ \A i \in Queued("exit") :
       /\ <<mailbox[i].a, mailbox[i].b>> = Encode(status)
       /\ exits = <<>>
       /\ \A j \in Queued("exit") : i = j
  /\ exits \in {<<>>, <<Encode(status)>>}
  /\ Queued("exit") # {} \/ exits # <<>> => child = "reaped"

\* The reader closes the master (and tells the write loop to give up) only
\* when the program is dead and all its output has been read.
CloseLosesNothing ==
  fd_closed => child # "running" /\ nread = wrote

Earlier(u, v) == u[1] < v[1] \/ (u[1] = v[1] /\ u[2] < v[2])
Delivered(id) == {u \in Range(accepted) \cup stray : u[1] = id}
Prefix(id, n) == {id} \X (1 .. n)

\* The number a write returns is true: exactly that long a prefix of the
\* binary has left, in order and without repetition, whatever number of
\* rounds, short writes and failed writes it took.
WriteHonest ==
  /\ \A i, j \in DOMAIN accepted : i < j => Earlier(accepted[i], accepted[j])
  /\ Range(accepted) \cap stray = {}
  /\ \A r \in Range(replies) :
       /\ r.written <= r.size
       /\ Delivered(r.id) = Prefix(r.id, r.written)
  /\ server \in {"writeLoop", "writeSyscall"} =>
       /\ bytes_written <= job.size
       /\ Delivered(job.id) = Prefix(job.id, bytes_written)

\* The flag goes up before the descriptor is closed and the loop reads it in
\* every round: at most one buffer of a write reaches a file opened under
\* the number of the closed master.
StrayBounded ==
  /\ \A u, v \in stray : u[1] = v[1] /\ u[2] - v[2] < BufferSize
  /\ stray # {} => fd_closed

-----------------------------------------------------------------------------
(* What the user of the terminal is promised.                              *)

\* How the session looks to its user.
Contract == INSTANCE PtyContract WITH
  Statuses <- Deaths,
  Sizes    <- WriteSizes,
  output   <- wrote,
  died     <- IF child = "running" THEN <<>> ELSE <<status>>,
  reported <- exits,
  answers  <- [i \in DOMAIN replies |->
                 [size |-> replies[i].size, written |-> replies[i].written]]

\* Threads, buffers and the mailbox together keep the contract: on_data in
\* order and without gaps while the program lives, on_exit once and true,
\* short writes only to a dead program.
KeepsContract == Contract!Spec

Writing == server \in {"writeLoop", "writeSyscall"}

\* Where the kernel revokes the terminal, the death of the program always
\* ends a write that is waiting for room.
DeathEndsWrite == (Writing /\ child # "running") ~> ~Writing

\* The end of the program is reported to on_exit.
ExitReported == (child # "running") ~> (exits # <<>>)

\* All the output of the program is read, even if it dies first.
OutputDrained == \A n \in 1 .. MaxOut : (wrote = n) ~> (nread >= n)

\* A write to a program that reads and answers ends, however small the
\* buffers: the reader thread empties the terminal while the server waits.
WriteReturns == Writing ~> (~Writing \/ child # "running")

\* Every unit a living program writes reaches on_data.
OutputShown ==
  \A n \in 1 .. MaxOut :
    (wrote = n) ~> (n \in Range(seen) \/ child # "running")
=============================================================================
