--------------------------- MODULE SpawnUnixProofs ---------------------------
(***************************************************************************)
(* What TLC checks for two calls on two threads, proved for any number of  *)
(* calls and threads, any set of faults, and both kinds of kernel          *)
(* (CloexecDefault).                                                       *)
(***************************************************************************)
EXTENDS SpawnUnix, TLAPS

-----------------------------------------------------------------------------
(* Types.                                                                  *)

LEMMA CallTypes ==
  ASSUME TypeOK, NEW s \in Spawners,
         (\E t \in Threads : Call(s, t) \/ Reject(s, t)) \/ CallProgress(s)
  PROVE  TypeOK'
<1> USE SpawnAssumption
    DEF TypeOK, At, Goto, Fail, helperVars, Steps, EarlySteps, LateSteps,
        HelperSteps, Descriptors, Alive, Ended
<1>1. CASE \E t \in Threads : Call(s, t) \/ Reject(s, t)
  BY <1>1 DEF Call, Reject
<1>2. CASE OpenTerminal(s)
  BY <1>2 DEF OpenTerminal
<1>3. CASE MakePipe(s)
  BY <1>3 DEF MakePipe
<1>4. CASE SpawnHelper(s)
  <2>1. InheritedAtFork(s) \in SUBSET Spawners
    BY DEF InheritedAtFork
  <2>2. QED
    BY <1>4, <2>1 DEF SpawnHelper
<1>5. CASE AfterSpawn(s)
  BY <1>5 DEF AfterSpawn
<1>6. CASE ReadReport(s)
  BY <1>6 DEF ReadReport
<1>7. CASE Finish(s)
  BY <1>7 DEF Finish, KillHelper
<1>8. CASE Return(s)
  BY <1>8 DEF Return, Reply
<1>9. CASE CrashOnReturn(s)
  BY <1>9 DEF CrashOnReturn
<1>10. QED
  BY <1>1, <1>2, <1>3, <1>4, <1>5, <1>6, <1>7, <1>8, <1>9 DEF CallProgress

LEMMA HelperTypes ==
  ASSUME TypeOK, NEW s \in Spawners, HelperProgress(s) \/ ProgramExits(s)
  PROVE  TypeOK'
<1> USE DEF TypeOK, callVars, HelperAt, HelperGoto, HelperEnds, Bail,
            HelperSteps, Alive, Ended
<1>1. CASE HelperSession(s)
  BY <1>1 DEF HelperSession
<1>2. CASE \/ HelperStep(s, "chdir", "setuid")
           \/ HelperStep(s, "setuid", "setgid")
           \/ HelperStep(s, "setgid", "close")
  BY <1>2 DEF HelperStep
<1>3. CASE HelperExit(s)
  BY <1>3 DEF HelperExit
<1>4. CASE HelperClose(s)
  BY <1>4 DEF HelperClose, KeptOnClose
<1>5. CASE HelperExec(s)
  BY <1>5 DEF HelperExec, KeptOnExec
<1>6. CASE ProgramExits(s)
  BY <1>6 DEF ProgramExits
<1>7. QED
  BY <1>1, <1>2, <1>3, <1>4, <1>5, <1>6 DEF HelperProgress

\* Every variable of the calls, the helpers and the threads keeps its type,
\* for every number of calls (all of pty.cpp:264-384).
THEOREM TypeCorrect == Spec => []TypeOK
<1>1. Init => TypeOK
  BY SpawnAssumption DEF Init, TypeOK
<1>2. TypeOK /\ [Next]_vars => TypeOK'
  <2> SUFFICES ASSUME TypeOK, [Next]_vars
               PROVE  TypeOK'
    OBVIOUS
  <2>1. CASE Next
    BY <2>1, CallTypes, HelperTypes DEF Next
  <2>2. CASE UNCHANGED vars
    BY <2>2 DEF TypeOK, vars, callVars, helperVars
  <2>3. QED
    BY <2>1, <2>2
<1>3. QED
  BY <1>1, <1>2, PTL DEF Spec

-----------------------------------------------------------------------------
(* The life of one call and its helper.                                    *)

\* Helpers that still hold the write end they were given.
Holding == {"start", "close", "bailing"} \cup HelperSteps
Gone    == {"program", "exited", "mute"}

\* What the call has found out so far.
CallLife(s) ==
  /\ pc[s] \in {"idle", "openpty", "pipe", "spawn"} =>
       result[s] = "none" /\ helper[s] = "none"
  /\ pc[s] = "close" =>
       \/ result[s] = "posix_spawn" /\ helper[s] = "none"
       \/ result[s] = "none" /\ helper[s] # "none"
  /\ pc[s] = "read" => result[s] = "none" /\ helper[s] # "none"
  /\ pc[s] = "finish" => result[s] = "none" /\ helper[s] \in Gone
  /\ pc[s] \in {"return", "done"} => result[s] # "none"

\* What its result says of the helper.
Verdict(s) ==
  /\ result[s] \in {"args", "posix_spawn"} \cup EarlySteps => helper[s] = "none"
  /\ result[s] \in HelperSteps => helper[s] \in {"bailing", "failed"}
  /\ result[s] \in LateSteps => helper[s] \in Ended
  /\ result[s] = "ok" => helper[s] \in Gone
  /\ result[s] # "ctty"

\* The pipe: held until exec or death, written to by those that fail.
HelperLife(s) ==
  /\ helper[s] \in Holding => s \in inherited[s]
  /\ helper[s] \in {"bailing", "failed"} <=> report[s] # "none"
  /\ helper[s] = "killed" => result[s] \in LateSteps

\* What closeFDs leaves in the process.
Closing(s) ==
  closeFDs[s] =>
    /\ CloexecDefault \/ helper[s] = "exec" => inherited[s] \subseteq {s}
    /\ helper[s] = "program" => inherited[s] = {}

Life(s) == CallLife(s) /\ Verdict(s) /\ HelperLife(s) /\ Closing(s)

LifeInv == \A s \in Spawners : Life(s)

\* One process at a time: a step of s touches nothing of the others.
LifeOf(s) == <<pc[s], result[s], helper[s], report[s], inherited[s],
               closeFDs[s]>>

LEMMA LifeOfOthers ==
  ASSUME TypeOK, NEW s \in Spawners,
         \/ \E t \in Threads : Call(s, t) \/ Reject(s, t)
         \/ CallProgress(s) \/ HelperProgress(s) \/ ProgramExits(s),
         NEW p \in Spawners \ {s}
  PROVE  LifeOf(p)' = LifeOf(p)
<1> USE DEF TypeOK, LifeOf, callVars, helperVars, Goto, Fail, HelperGoto,
            HelperEnds, Bail
<1>1. CASE \E t \in Threads : Call(s, t) \/ Reject(s, t)
  BY <1>1 DEF Call, Reject
<1>2. CASE CallProgress(s)
  BY <1>2 DEF CallProgress, OpenTerminal, MakePipe, SpawnHelper, AfterSpawn,
              ReadReport, Finish, KillHelper, Return, CrashOnReturn
<1>3. CASE HelperProgress(s)
  BY <1>3 DEF HelperProgress, HelperSession, HelperStep, HelperExit,
              HelperClose, HelperExec
<1>4. CASE ProgramExits(s)
  BY <1>4 DEF ProgramExits
<1>5. QED
  BY <1>1, <1>2, <1>3, <1>4

LEMMA LifeOfCall ==
  ASSUME TypeOK, NEW s \in Spawners, Life(s),
         (\E t \in Threads : Call(s, t) \/ Reject(s, t)) \/ CallProgress(s)
  PROVE  Life(s)'
<1> USE DEF TypeOK, Life, CallLife, Verdict, HelperLife, Closing, At, Goto,
            Fail, helperVars, Steps, EarlySteps, LateSteps, HelperSteps,
            Holding, Gone, Ended
<1>1. CASE \E t \in Threads : Call(s, t) \/ Reject(s, t)
  BY <1>1 DEF Call, Reject
<1>2. CASE OpenTerminal(s)
  BY <1>2 DEF OpenTerminal
<1>3. CASE MakePipe(s)
  BY <1>3 DEF MakePipe
<1>4. CASE SpawnHelper(s)
  BY <1>4 DEF SpawnHelper, InheritedAtFork
<1>5. CASE AfterSpawn(s)
  BY <1>5 DEF AfterSpawn
<1>6. CASE ReadReport(s)
  <2>1. report[s] = "none" => helper[s] \in Gone
    BY <1>6 DEF ReadReport, Readable, Holders, Alive
  <2>2. QED
    BY <1>6, <2>1 DEF ReadReport
<1>7. CASE Finish(s)
  BY <1>7 DEF Finish, KillHelper
<1>8. CASE Return(s)
  BY <1>8 DEF Return
<1>9. CASE CrashOnReturn(s)
  BY <1>9 DEF CrashOnReturn
<1>10. QED
  BY <1>1, <1>2, <1>3, <1>4, <1>5, <1>6, <1>7, <1>8, <1>9 DEF CallProgress

LEMMA LifeOfHelper ==
  ASSUME TypeOK, NEW s \in Spawners, Life(s),
         HelperProgress(s) \/ ProgramExits(s)
  PROVE  Life(s)'
<1> USE DEF TypeOK, Life, CallLife, Verdict, HelperLife, Closing, callVars,
            HelperAt, HelperGoto, HelperEnds, Bail, Steps, EarlySteps,
            LateSteps, HelperSteps, Holding, Gone, Ended
<1>1. CASE HelperSession(s)
  BY <1>1 DEF HelperSession
<1>2. CASE \/ HelperStep(s, "chdir", "setuid")
           \/ HelperStep(s, "setuid", "setgid")
           \/ HelperStep(s, "setgid", "close")
  BY <1>2 DEF HelperStep
<1>3. CASE HelperExit(s)
  BY <1>3 DEF HelperExit
<1>4. CASE HelperClose(s)
  BY <1>4 DEF HelperClose, KeptOnClose, ExplicitlyClose
<1>5. CASE HelperExec(s)
  BY <1>5 DEF HelperExec, KeptOnExec
<1>6. CASE ProgramExits(s)
  BY <1>6 DEF ProgramExits
<1>7. QED
  BY <1>1, <1>2, <1>3, <1>4, <1>5, <1>6 DEF HelperProgress

LEMMA LifeInvariant == Spec => []LifeInv
<1>1. Init => LifeInv
  BY DEF Init, LifeInv, Life, CallLife, Verdict, HelperLife, Closing, Steps,
         EarlySteps, LateSteps, HelperSteps, Holding, Gone, Ended
<1>2. TypeOK /\ LifeInv /\ [Next]_vars => LifeInv'
  <2> SUFFICES ASSUME TypeOK, LifeInv, [Next]_vars
               PROVE  LifeInv'
    OBVIOUS
  <2>1. CASE UNCHANGED vars
    BY <2>1 DEF LifeInv, Life, CallLife, Verdict, HelperLife, Closing, vars,
                callVars, helperVars
  <2>2. CASE Next
    <3>1. PICK s \in Spawners :
            \/ \E t \in Threads : Call(s, t) \/ Reject(s, t)
            \/ CallProgress(s) \/ HelperProgress(s) \/ ProgramExits(s)
      BY <2>2 DEF Next
    <3>2. Life(s)'
      BY <3>1, LifeOfCall, LifeOfHelper DEF LifeInv
    <3>3. ASSUME NEW p \in Spawners \ {s}
          PROVE  Life(p)'
      <4>1. LifeOf(p)' = LifeOf(p)
        BY <3>1, LifeOfOthers
      <4>2. Life(p)
        BY DEF LifeInv
      <4>3. QED
        BY <4>1, <4>2 DEF LifeOf, Life, CallLife, Verdict, HelperLife, Closing
    <3>4. QED
      BY <3>2, <3>3 DEF LifeInv
  <2>3. QED
    BY <2>1, <2>2
<1>3. QED
  BY <1>1, <1>2, TypeCorrect, PTL DEF Spec

\* {:ok, pid} stands for an exec'd program, or for a helper without its
\* terminal, in every interleaving of any number of calls
\* (pty.cpp:322-336): an empty pipe means that the helper let go of it.
THEOREM SuccessIsRealTheorem == Spec => []SuccessIsReal
<1>1. LifeInv => SuccessIsReal
  BY DEF LifeInv, Life, Verdict, SuccessIsReal, Gone
<1>2. QED
  BY <1>1, LifeInvariant, PTL

\* No error leaves a program behind, whichever step failed
\* (every goto done of pty.cpp:265-361).
THEOREM ErrorMeansNoProgramTheorem == Spec => []ErrorMeansNoProgram
<1>1. TypeOK /\ LifeInv => ErrorMeansNoProgram
  BY DEF TypeOK, LifeInv, Life, CallLife, Verdict, ErrorMeansNoProgram, Steps,
         EarlySteps, LateSteps, HelperSteps, Alive, Ended
<1>2. QED
  BY <1>1, TypeCorrect, LifeInvariant, PTL

\* closeFDs leaves no comms pipe in a program, on both kinds of kernel
\* (pty.cpp:227,289, spawn-helper.cpp:57-65).
THEOREM ClosedForProgramTheorem == Spec => []ClosedForProgram
<1>1. LifeInv => ClosedForProgram
  BY DEF LifeInv, Life, Closing, ClosedForProgram
<1>2. QED
  BY <1>1, LifeInvariant, PTL

-----------------------------------------------------------------------------
(* The signal mask.                                                        *)

Busy(s) == pc[s] \notin {"idle", "done"}
Blocking(s) == pc[s] \in {"openpty", "pipe", "spawn", "close"}

\* A call on t failed early and left its signals blocked.
Excused(t) == \E s \in Spawners : thread[s] = t /\ result[s] \in EarlySteps

\* A call has its thread to itself.
ThreadInv ==
  /\ \A s \in Spawners : Busy(s) => thread[s] \in Threads
  /\ \A s \in Spawners : pc[s] = "idle" => thread[s] = "none"
  /\ \A s, p \in Spawners :
       Busy(s) /\ Busy(p) /\ thread[s] = thread[p] => s = p

\* All signals blocked, now or in the mask to return to, has an excuse;
\* a thread is not looked at while its call blocks them.
MaskInv ==
  /\ \A s \in Spawners :
       Blocking(s) /\ oldmask[s] = "all" => Excused(thread[s])
  /\ \A t \in Threads :
       mask[t] = "all" =>
         \/ Excused(t)
         \/ \E s \in Spawners : thread[s] = t /\ Blocking(s)

LEMMA ThreadInvariant == Spec => []ThreadInv
<1>1. Init => ThreadInv
  BY DEF Init, ThreadInv, Busy
<1>2. TypeOK /\ ThreadInv /\ [Next]_vars => ThreadInv'
  <2> SUFFICES ASSUME TypeOK, ThreadInv, [Next]_vars
               PROVE  ThreadInv'
    OBVIOUS
  <2> USE SpawnAssumption DEF TypeOK, ThreadInv, Busy, At, Goto, Fail
  <2>1. ASSUME NEW s \in Spawners, NEW t \in Threads,
               Call(s, t) \/ Reject(s, t)
        PROVE  ThreadInv'
    BY <2>1 DEF Call, Reject, Idle
  <2>2. ASSUME NEW s \in Spawners, CallProgress(s)
        PROVE  ThreadInv'
    BY <2>2 DEF CallProgress, OpenTerminal, MakePipe, SpawnHelper, AfterSpawn,
                ReadReport, Finish, Return, CrashOnReturn
  <2>3. ASSUME NEW s \in Spawners, HelperProgress(s) \/ ProgramExits(s)
        PROVE  UNCHANGED callVars
    BY <2>3 DEF HelperProgress, HelperSession, HelperStep, HelperExit,
                HelperClose, HelperExec, ProgramExits
  <2>4. UNCHANGED callVars => ThreadInv'
    BY DEF callVars
  <2>5. QED
    BY <2>1, <2>2, <2>3, <2>4 DEF Next, vars
<1>3. QED
  BY <1>1, <1>2, TypeCorrect, PTL DEF Spec

\* An early failure is the end of a call, so an excuse stays one.
LEMMA ExcusesStay ==
  ASSUME TypeOK, LifeInv, NEW s \in Spawners,
         (\E t \in Threads : Call(s, t) \/ Reject(s, t)) \/ CallProgress(s)
  PROVE  \A t \in Threads : Excused(t) => Excused(t)'
<1>1. ASSUME NEW p \in Spawners, result[p] \in EarlySteps
      PROVE  thread'[p] = thread[p] /\ result'[p] = result[p]
  <2>1. pc[p] \in {"return", "done"}
    BY <1>1 DEF TypeOK, LifeInv, Life, CallLife, EarlySteps
  <2>2. QED
    BY <1>1, <2>1 DEF TypeOK, At, Goto, Fail, Call, Reject, CallProgress,
      OpenTerminal, MakePipe, SpawnHelper, AfterSpawn, ReadReport, Finish,
      Return, CrashOnReturn
<1>2. QED
  BY <1>1 DEF Excused

LEMMA MaskStep ==
  ASSUME TypeOK, LifeInv, ThreadInv, MaskInv, NEW s \in Spawners,
         (\E t \in Threads : Call(s, t) \/ Reject(s, t)) \/ CallProgress(s)
  PROVE  MaskInv'
<1> USE DEF TypeOK, ThreadInv, MaskInv, Busy, Blocking, At, Goto, Fail
<1>1. \A t \in Threads : Excused(t) => Excused(t)'
  BY ExcusesStay
<1>2. ASSUME NEW t \in Threads, Call(s, t) \/ Reject(s, t)
      PROVE  MaskInv'
  <2>1. CASE Call(s, t)
    <3>1. oldmask'[s] = "all" => Excused(t)'
      BY <1>1, <2>1 DEF Call, Idle
    <3>2. QED
      BY <1>1, <2>1, <3>1 DEF Call
  <2>2. CASE Reject(s, t)
    BY <1>1, <2>2 DEF Reject
  <2>3. QED
    BY <1>2, <2>1, <2>2
<1>3. ASSUME OpenTerminal(s) \/ MakePipe(s) \/ SpawnHelper(s)
      PROVE  MaskInv'
  <2>1. pc'[s] = "return" => Excused(thread[s])'
    BY <1>3 DEF OpenTerminal, MakePipe, SpawnHelper, Excused, EarlySteps
  <2>2. QED
    BY <1>1, <1>3, <2>1 DEF OpenTerminal, MakePipe, SpawnHelper
<1>4. CASE AfterSpawn(s)
  BY <1>1, <1>4 DEF AfterSpawn
<1>5. CASE ReadReport(s) \/ Finish(s) \/ Return(s) \/ CrashOnReturn(s)
  BY <1>1, <1>5 DEF ReadReport, Finish, Return, CrashOnReturn
<1>6. QED
  BY <1>2, <1>3, <1>4, <1>5 DEF CallProgress

\* A thread without a call blocks all signals only where a call on it failed
\* before posix_spawn, for any number of calls one after the other on any
\* number of threads (pty.cpp:263-314).
THEOREM MaskRestoredTheorem == Spec => []MaskRestored
<1>1. Init => MaskInv
  BY DEF Init, MaskInv, Blocking
<1>2. /\ TypeOK /\ LifeInv /\ ThreadInv /\ MaskInv
      /\ [Next]_vars
      => MaskInv'
  <2> SUFFICES ASSUME TypeOK, LifeInv, ThreadInv, MaskInv, [Next]_vars
               PROVE  MaskInv'
    OBVIOUS
  <2>1. ASSUME NEW s \in Spawners, HelperProgress(s) \/ ProgramExits(s)
        PROVE  UNCHANGED callVars
    BY <2>1 DEF HelperProgress, HelperSession, HelperStep, HelperExit,
                HelperClose, HelperExec, ProgramExits
  <2>2. UNCHANGED callVars => MaskInv'
    BY DEF callVars, MaskInv, Blocking, Excused
  <2>3. QED
    BY <2>1, <2>2, MaskStep DEF Next, vars
<1>3. MaskInv => MaskRestored
  BY DEF MaskInv, MaskRestored, Blocking, Excused, Idle
<1>4. QED
  BY <1>1, <1>2, <1>3, TypeCorrect, LifeInvariant, ThreadInvariant, PTL
     DEF Spec
=============================================================================
