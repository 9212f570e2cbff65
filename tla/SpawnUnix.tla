------------------------------ MODULE SpawnUnix ------------------------------
(***************************************************************************)
(* ExPTY.spawn on Unix: calls of expty_spawn that run at the same time on  *)
(* dirty scheduler threads of one BEAM, the helper process each of them    *)
(* starts, and the comms pipe on which the helper reports what it could    *)
(* not do.  A call waits on its pipe until a report comes or no process    *)
(* holds a write end any more; the pipes are not close-on-exec, so a       *)
(* helper started by another call may hold one too.                        *)
(*                                                                         *)
(* A call ends where PtySession begins: the program runs, the threads of   *)
(* the terminal are created.  The name of a step that may fail is also     *)
(* the error it leads to.                                                  *)
(***************************************************************************)
EXTENDS FiniteSets

CONSTANTS
  Spawners,       \* calls of ExPTY.spawn, one terminal each
  Threads,        \* dirty I/O schedulers
  Faults,         \* steps that may fail
  CloexecDefault  \* HAVE_POSIX_SPAWN_CLOEXEC_DEFAULT (macOS)

\* Steps of expty_spawn, and those the helper reports.
EarlySteps  == {"openpty", "pipe", "alloc"}
LateSteps   == {"ptsname", "nonblock"}
HelperSteps == {"chdir", "setuid", "setgid", "exec"}
Steps == {"args"} \cup EarlySteps \cup {"posix_spawn"} \cup LateSteps
           \cup {"ctty"} \cup HelperSteps

ASSUME SpawnAssumption ==
  /\ "none" \notin Threads
  /\ Faults \subseteq Steps
  /\ CloexecDefault \in BOOLEAN

VARIABLES
  vm,         \* the BEAM: "up", or "down" after a crash
  closeFDs,   \* the option of each call
  pc,         \* where each call is
  thread,     \* the scheduler thread it runs or ran on
  mask,       \* what each thread blocks: "usual" or "all" signals
  oldmask,    \* the mask a call found
  fds,        \* the descriptors a call opened and has not closed
  result,     \* its erl_ret
  caller,     \* what the caller of ExPTY.spawn sees
  helper,     \* where the helper, later the program, is
  report,     \* what is in the comms pipe
  inherited   \* the calls whose write end this process holds

callVars   == <<vm, closeFDs, pc, thread, mask, oldmask, fds, result, caller>>
helperVars == <<helper, report, inherited>>
vars == <<callVars, helperVars>>

Descriptors == {"master", "slave", "read", "write"}
Ended  == {"failed", "mute", "exited", "killed"}
Alive  == {"start", "close"} \cup HelperSteps \cup {"program"}

TypeOK ==
  /\ vm \in {"up", "down"}
  /\ closeFDs \in [Spawners -> BOOLEAN]
  /\ pc \in [Spawners -> {"idle", "openpty", "pipe", "spawn", "close",
                          "read", "finish", "return", "done"}]
  /\ thread \in [Spawners -> Threads \cup {"none"}]
  /\ mask \in [Threads -> {"usual", "all"}]
  /\ oldmask \in [Spawners -> {"usual", "all"}]
  /\ fds \in [Spawners -> SUBSET Descriptors]
  /\ result \in [Spawners -> Steps \cup {"none", "ok"}]
  /\ caller \in [Spawners -> {"waiting", "ok", "exited"}]
  /\ helper \in [Spawners -> {"none", "bailing"} \cup Alive \cup Ended]
  /\ report \in [Spawners -> HelperSteps \cup {"none"}]
  /\ inherited \in [Spawners -> SUBSET Spawners]

Init ==
  /\ vm = "up"
  /\ closeFDs \in [Spawners -> BOOLEAN]
  /\ pc = [s \in Spawners |-> "idle"]
  /\ thread = [s \in Spawners |-> "none"]
  /\ mask = [t \in Threads |-> "usual"]
  /\ oldmask = [s \in Spawners |-> "usual"]
  /\ fds = [s \in Spawners |-> {}]
  /\ result = [s \in Spawners |-> "none"]
  /\ caller = [s \in Spawners |-> "waiting"]
  /\ helper = [s \in Spawners |-> "none"]
  /\ report = [s \in Spawners |-> "none"]
  /\ inherited = [s \in Spawners |-> {}]

-----------------------------------------------------------------------------
(* The call (expty_spawn, on its scheduler thread).                        *)

At(s, where) == vm = "up" /\ pc[s] = where
Goto(s, where) == pc' = [pc EXCEPT ![s] = where]

MayFail(step) == step \in Faults

\* goto done with an error.
Fail(s, step) ==
  /\ MayFail(step)
  /\ result' = [result EXCEPT ![s] = step]
  /\ Goto(s, "return")

Idle(t) == \A s \in Spawners : thread[s] = t => pc[s] = "done"

\* A thread takes the call, and blocks all signals.
Call(s, t) ==
  /\ At(s, "idle")
  /\ Idle(t)
  /\ thread' = [thread EXCEPT ![s] = t]
  /\ oldmask' = [oldmask EXCEPT ![s] = mask[t]]
  /\ mask' = [mask EXCEPT ![t] = "all"]
  /\ Goto(s, "openpty")
  /\ UNCHANGED <<vm, closeFDs, fds, result, caller, helperVars>>

\* An argument of the wrong type or range: nothing is touched.
Reject(s, t) ==
  /\ At(s, "idle")
  /\ Idle(t)
  /\ Fail(s, "args")
  /\ thread' = [thread EXCEPT ![s] = t]
  /\ UNCHANGED <<vm, closeFDs, mask, oldmask, fds, caller, helperVars>>

OpenTerminal(s) ==
  /\ At(s, "openpty")
  /\ \/ Fail(s, "openpty") /\ UNCHANGED fds
     \/ /\ fds' = [fds EXCEPT ![s] = {"master", "slave"}]
        /\ Goto(s, "pipe")
        /\ UNCHANGED result
  /\ UNCHANGED <<vm, closeFDs, thread, mask, oldmask, caller, helperVars>>

MakePipe(s) ==
  /\ At(s, "pipe")
  /\ \/ Fail(s, "pipe") /\ UNCHANGED fds
     \/ /\ fds' = [fds EXCEPT ![s] = @ \cup {"read", "write"}]
        /\ Goto(s, "spawn")
        /\ UNCHANGED result
  /\ UNCHANGED <<vm, closeFDs, thread, mask, oldmask, caller, helperVars>>

\* The write ends a new process starts with: the one it is given, and
\* those open in the BEAM that moment.
InheritedAtFork(s) ==
  {s} \cup IF closeFDs[s] /\ CloexecDefault
           THEN {} ELSE {p \in Spawners : "write" \in fds[p]}

\* The resource and the pid are allocated, posix_spawn runs the helper.
SpawnHelper(s) ==
  /\ At(s, "spawn")
  /\ \/ Fail(s, "alloc") /\ UNCHANGED <<helper, inherited>>
     \/ /\ MayFail("posix_spawn")
        /\ result' = [result EXCEPT ![s] = "posix_spawn"]
        /\ Goto(s, "close")
        /\ UNCHANGED <<helper, inherited>>
     \/ /\ helper' = [helper EXCEPT ![s] = "start"]
        /\ inherited' = [inherited EXCEPT ![s] = InheritedAtFork(s)]
        /\ Goto(s, "close")
        /\ UNCHANGED result
  /\ UNCHANGED <<vm, closeFDs, thread, mask, oldmask, fds, caller, report>>

\* Slip: the error of posix_spawn is looked at first.
AfterSpawnHasty(s) ==
  /\ At(s, "close")
  /\ \/ /\ result[s] # "none"
        /\ Goto(s, "return")
        /\ UNCHANGED <<fds, mask>>
     \/ /\ result[s] = "none"
        /\ fds' = [fds EXCEPT ![s] = @ \ {"write"}]
        /\ mask' = [mask EXCEPT ![thread[s]] = oldmask[s]]
        /\ Goto(s, "read")
  /\ UNCHANGED <<vm, closeFDs, thread, oldmask, result, caller, helperVars>>

\* The BEAM's write end is closed and the signals are let through again,
\* whatever posix_spawn returned.
AfterSpawn(s) ==
  /\ At(s, "close")
  /\ fds' = [fds EXCEPT ![s] = @ \ {"write"}]
  /\ mask' = [mask EXCEPT ![thread[s]] = oldmask[s]]
  /\ Goto(s, IF result[s] = "none" THEN "read" ELSE "return")
  /\ UNCHANGED <<vm, closeFDs, thread, oldmask, result, caller, helperVars>>

\* read(2) returns with a report, or with the end of the pipe.
Holders(s) == {p \in Spawners : s \in inherited[p]}
Readable(s) ==
  report[s] # "none" \/ ("write" \notin fds[s] /\ Holders(s) = {})

\* A report is the error; without one all is taken to be well.
ReadReport(s) ==
  /\ At(s, "read")
  /\ Readable(s)
  /\ fds' = [fds EXCEPT ![s] = @ \ {"read"}]
  /\ result' = [result EXCEPT ![s] = report[s]]
  /\ Goto(s, IF report[s] = "none" THEN "finish" ELSE "return")
  /\ UNCHANGED <<vm, closeFDs, thread, mask, oldmask, caller, helperVars>>

\* kill(pid, SIGKILL) of what the call started.
KillHelper(s) ==
  IF helper[s] \in Ended
  THEN UNCHANGED <<helper, inherited>>
  ELSE /\ helper' = [helper EXCEPT ![s] = "killed"]
       /\ inherited' = [inherited EXCEPT ![s] = {}]

\* Slip: the program is not killed when the terminal cannot be used.
FinishLeaving(s) ==
  /\ At(s, "finish")
  /\ \/ \E step \in LateSteps : Fail(s, step)
     \/ /\ result' = [result EXCEPT ![s] = "ok"]
        /\ Goto(s, "return")
  /\ UNCHANGED <<vm, closeFDs, thread, mask, oldmask, fds, caller,
                 helperVars>>

\* The name of the terminal, the non-blocking master, and the threads,
\* where PtySession begins.
Finish(s) ==
  /\ At(s, "finish")
  /\ \/ \E step \in LateSteps : Fail(s, step) /\ KillHelper(s)
     \/ /\ result' = [result EXCEPT ![s] = "ok"]
        /\ Goto(s, "return")
        /\ UNCHANGED <<helper, inherited>>
  /\ UNCHANGED <<vm, closeFDs, thread, mask, oldmask, fds, caller, report>>

\* Slip: what the NIF returned is handed on as it is.
ReplyRaw(s) == caller' = [caller EXCEPT ![s] = result[s]]

\* do_spawn has a clause for {pipesocket, pid, pty} only: with anything
\* else the server crashes, and the call of its caller exits.
Reply(s) ==
  caller' = [caller EXCEPT ![s] = IF result[s] = "ok" THEN "ok" ELSE "exited"]

Return(s) ==
  /\ At(s, "return")
  /\ Reply(s)
  /\ Goto(s, "done")
  /\ UNCHANGED <<vm, closeFDs, thread, mask, oldmask, fds, result,
                 helperVars>>

\* After an early failure posix_spawn_file_actions_destroy is given what
\* the stack held: nothing happens, or the BEAM goes down.
CrashOnReturn(s) ==
  /\ At(s, "return")
  /\ result[s] \in {"openpty", "pipe"}
  /\ vm' = "down"
  /\ fds' = [p \in Spawners |-> {}]
  /\ UNCHANGED <<closeFDs, pc, thread, mask, oldmask, result, caller,
                 helperVars>>

-----------------------------------------------------------------------------
(* The helper (spawn-helper.cpp) and the program it turns into.            *)

HelperAt(s, where) == helper[s] = where
HelperGoto(s, where) == helper' = [helper EXCEPT ![s] = where]

\* Every way a process ends closes what it holds.
HelperEnds(s, how) ==
  /\ HelperGoto(s, how)
  /\ inherited' = [inherited EXCEPT ![s] = {}]

\* A new session and its controlling terminal; a failure is not reported.
HelperSession(s) ==
  /\ HelperAt(s, "start")
  /\ \/ MayFail("ctty") /\ HelperEnds(s, "mute")
     \/ HelperGoto(s, "chdir") /\ UNCHANGED inherited
  /\ UNCHANGED <<callVars, report>>

\* bail, first half: the report goes into the pipe, if it is still open.
Bail(s, step) ==
  /\ MayFail(step)
  /\ report' = [report EXCEPT ![s] = IF s \in inherited[s] THEN step ELSE @]
  /\ HelperGoto(s, "bailing")

HelperStep(s, step, next) ==
  /\ HelperAt(s, step)
  /\ \/ Bail(s, step)
     \/ HelperGoto(s, next) /\ UNCHANGED report
  /\ UNCHANGED <<callVars, inherited>>

\* bail, second half.
HelperExit(s) ==
  /\ HelperAt(s, "bailing")
  /\ HelperEnds(s, "failed")
  /\ UNCHANGED <<callVars, report>>

\* Slip: the loop closes the comms pipe too.
KeptOnCloseNone(s) == {}

\* What the loop over the descriptors leaves open.
KeptOnClose(s) == {s}

\* Slip: closed where the kernel has done it already, and only there.
ExplicitlyCloseSwapped(s) == closeFDs[s] /\ CloexecDefault

ExplicitlyClose(s) == closeFDs[s] /\ ~CloexecDefault

HelperClose(s) ==
  /\ HelperAt(s, "close")
  /\ inherited' = [inherited EXCEPT ![s] =
                     IF ExplicitlyClose(s) THEN @ \cap KeptOnClose(s) ELSE @]
  /\ HelperGoto(s, "exec")
  /\ UNCHANGED <<callVars, report>>

\* Slip: COMM_PIPE_FD is not close-on-exec.
KeptOnExecAll(s) == inherited[s]

\* COMM_PIPE_FD was made close-on-exec before chdir.
KeptOnExec(s) == inherited[s] \ {s}

HelperExec(s) ==
  /\ HelperAt(s, "exec")
  /\ \/ Bail(s, "exec") /\ UNCHANGED inherited
     \/ /\ HelperGoto(s, "program")
        /\ inherited' = [inherited EXCEPT ![s] = KeptOnExec(s)]
        /\ UNCHANGED report
  /\ UNCHANGED callVars

ProgramExits(s) ==
  /\ HelperAt(s, "program")
  /\ HelperEnds(s, "exited")
  /\ UNCHANGED <<callVars, report>>

-----------------------------------------------------------------------------
CallProgress(s) ==
  \/ OpenTerminal(s)
  \/ MakePipe(s)
  \/ SpawnHelper(s)
  \/ AfterSpawn(s)
  \/ ReadReport(s)
  \/ Finish(s)
  \/ Return(s)
  \/ CrashOnReturn(s)

HelperProgress(s) ==
  \/ HelperSession(s)
  \/ HelperStep(s, "chdir", "setuid")
  \/ HelperStep(s, "setuid", "setgid")
  \/ HelperStep(s, "setgid", "close")
  \/ HelperExit(s)
  \/ HelperClose(s)
  \/ HelperExec(s)

Next ==
  \E s \in Spawners :
    \/ \E t \in Threads : Call(s, t) \/ Reject(s, t)
    \/ CallProgress(s)
    \/ HelperProgress(s)
    \/ ProgramExits(s)

Spec == Init /\ [][Next]_vars

\* Scheduler threads and helpers are run; nothing is assumed of programs.
FairSpec ==
  /\ Spec
  /\ \A s \in Spawners : WF_vars(CallProgress(s)) /\ WF_vars(HelperProgress(s))

-----------------------------------------------------------------------------
(* Properties.                                                             *)

\* {:ok, pid} is only answered for a program that was exec'd, or for a
\* helper that could not get its terminal and died without a word: what
\* the call concludes from an empty pipe (pty.cpp:322-336) is true, however
\* the steps of the helpers and of the calls interleave.
SuccessIsReal ==
  \A s \in Spawners :
    result[s] = "ok" => helper[s] \in {"program", "exited", "mute"}

\* A call that ended with an error leaves no program running, nor a helper
\* that will become one (every goto done of pty.cpp:265-361).
ErrorMeansNoProgram ==
  \A s \in Spawners :
    pc[s] = "done" /\ result[s] # "ok" => helper[s] \notin Alive

\* A scheduler thread that runs no call blocks all signals only if a call
\* on it failed before posix_spawn (pty.cpp:263-314): the mask comes back
\* on every other path, also when calls follow each other on the thread.
MaskRestored ==
  \A t \in Threads :
    Idle(t) /\ mask[t] = "all" =>
      \E s \in Spawners : thread[s] = t /\ result[s] \in EarlySteps

\* A program started with closeFDs holds no comms pipe, its own or another
\* call's, by the kernel's default or by the helper's loop
\* (pty.cpp:289, spawn-helper.cpp:57-65).
ClosedForProgram ==
  \A s \in Spawners :
    helper[s] = "program" /\ closeFDs[s] => inherited[s] = {}

\* A call that waits for its helper's answer (pty.cpp:322) gets it, unless
\* the program of another call, one started without closeFDs, holds the
\* pipe: helpers never keep calls waiting, in whatever order they fork.
WaitsOnlyForInheritors ==
  \A s \in Spawners :
    pc[s] = "read" ~>
      \/ pc[s] # "read" \/ vm = "down"
      \/ \E p \in Holders(s) :
           p # s /\ helper[p] = "program" /\ ~closeFDs[p]

\* ExPTY.spawn answers {:ok, pid} or {:error, reason} (lib/expty.ex:221);
\* the call of its caller does not exit.
SpawnAnswers == \A s \in Spawners : caller[s] # "exited"
=============================================================================
