-------------------------- MODULE ProcessTableProofs --------------------------
(***************************************************************************)
(* What TLC checks for two terminals and two pids, proved for any number   *)
(* of terminals, pids and kills, on kernels that revoke a dead program's   *)
(* terminal and on those that do not, and whether or not the host ignored  *)
(* SIGCHLD when the library was loaded.                                    *)
(***************************************************************************)
EXTENDS ProcessTable, TLAPS

-----------------------------------------------------------------------------
(* The strengthening: types, the life of one terminal, and who has a pid.  *)

Owning == {"running", "zombie"}

Lives(t) ==
  /\ spawner[t] = "idle" <=> program[t] = "none"
  /\ waiter[t] = "none" <=> program[t] = "none"
  /\ waiter[t] \in {"erase", "done"} => program[t] = "gone"
  /\ program[t] = "none" => pid[t] = 0
  /\ program[t] # "none" => pid[t] \in Pids
  /\ server[t] = "erase" => kills[t] # 0

\* A thread is inside the map only at the step that uses it.
InPlace(t) ==
  /\ <<"spawner", t>> \in inside => spawner[t] = "insert"
  /\ <<"server", t>> \in inside => server[t] = "erase"
  /\ <<"waiter", t>> \in inside => waiter[t] = "erase"

\* The kernel gives a pid to one process at a time.
OwnsPid(t) ==
  program[t] \in Owning =>
    /\ pid[t] \notin strangers
    /\ \A u \in Terminals \ {t} : program[u] \in Owning => pid[u] # pid[t]

\* A dead program has lost its pid to the terminal's own waiter, or its pid
\* is one whose program vanished unnoticed.
Noticed(t) ==
  program[t] = "gone" =>
    \/ waiter[t] \in {"erase", "done"}
    \/ \E u \in vanished : pid[u] = pid[t]

LifeInv == \A t \in Terminals : Lives(t)
InsideInv == \A t \in Terminals : InPlace(t)
OwnerInv == \A t \in Terminals : OwnsPid(t)
DeathInv ==
  /\ sigchldIgnored => HostIgnoresSigchld
  /\ \A u \in vanished : program[u] = "gone" /\ HostIgnoresSigchld
  /\ \A t \in Terminals : Noticed(t)

Base == TypeOK /\ LifeInv /\ InsideInv /\ OwnerInv /\ DeathInv

\* The steps of Next, by what they leave alone.
KernelStep == \/ \E t \in Terminals : ProgramEnds(t)
              \/ \E p \in Pids : StrangerStarts(p) \/ StrangerEnds(p)
SignalStep == \E t \in Terminals : Hangup(t) \/ \E fatal \in BOOLEAN : Kill(t, fatal)
BeginStep  == \/ \E t \in Terminals : InsertBegin(t) \/ KillBegin(t) \/ EraseBegin(t)
              \/ UnloadBegin
EndStep    == \/ \E t \in Terminals : InsertEnd(t) \/ KillEnd(t) \/ EraseEnd(t)
              \/ UnloadEnd
BirthStep  == \E t \in Terminals, p \in Pids : Spawn(t, p)
ReapStep   == \E t \in Terminals : WaiterStart(t) \/ Reap(t)

LEMMA Steps ==
  ASSUME Next
  PROVE  KernelStep \/ SignalStep \/ BeginStep \/ EndStep \/ BirthStep \/ ReapStep
BY DEF Next, TerminalStep, KernelStep, SignalStep, BeginStep, EndStep, BirthStep,
       ReapStep

-----------------------------------------------------------------------------
(* Signals.                                                                *)

\* What a death does to a program: it is a zombie, or gone and known to
\* have vanished.
DeathOf(u) ==
  \/ program'[u] = program[u]
  \/ program[u] = "running" /\ program'[u] = "zombie"
  \/ /\ program[u] = "running" /\ program'[u] = "gone"
     /\ u \in vanished' /\ sigchldIgnored

Deaths ==
  /\ program' \in [Terminals -> {"none", "running", "zombie", "gone"}]
  /\ \A u \in Terminals : DeathOf(u)
  /\ vanished \subseteq vanished' /\ vanished' \subseteq Terminals
  /\ \A u \in vanished' \ vanished : program'[u] = "gone" /\ sigchldIgnored

LEMMA DieEffect ==
  ASSUME TypeOK, NEW dead \in SUBSET Terminals, \A u \in dead : Running(u),
         Die(dead)
  PROVE  Deaths
BY DEF TypeOK, Die, Running, Deaths, DeathOf

\* A signal lets running programs die and does nothing else.
LEMMA SignalEffect ==
  ASSUME TypeOK, NEW t \in Terminals, NEW fatal \in BOOLEAN, Signal(t, fatal)
  PROVE  Deaths /\ astray' \in {astray, astray \cup {t}}
<1> DEFINE victims == {u \in Terminals : pid[u] = pid[t] /\ Running(u)}
           dead == IF fatal THEN victims ELSE {}
<1>1. Die(dead) /\ astray' \in {astray, astray \cup {t}}
  BY DEF Signal
<1>2. dead \in SUBSET Terminals /\ \A u \in dead : Running(u)
  OBVIOUS
<1>3. QED
  BY <1>1, <1>2, DieEffect

\* It hits another process only if its program is reaped: till then the
\* pid is the program's own.
LEMMA SignalAim ==
  ASSUME Base, NEW t \in Terminals, NEW fatal \in BOOLEAN, Signal(t, fatal),
         program[t] \in Owning
  PROVE  astray' = astray
<1>1. pid[t] \notin strangers
  BY DEF Base, OwnerInv, OwnsPid
<1>2. \A u \in Terminals : pid[u] = pid[t] /\ Running(u) => u = t
  BY DEF Base, OwnerInv, OwnsPid, Running, Owning
<1>3. QED
  BY <1>1, <1>2 DEF Signal

LEMMA ProgramEndsEffect ==
  ASSUME TypeOK, NEW t \in Terminals, ProgramEnds(t)
  PROVE  /\ Deaths
         /\ UNCHANGED <<pid, strangers, sigchldIgnored, spawner, server, waiter,
                        hangup, processes, inside, torn, unload, kills, late,
                        astray, termed>>
<1>1. Die({t}) /\ Running(t)
  BY DEF ProgramEnds
<1>2. Deaths
  <2>1. {t} \in SUBSET Terminals /\ \A u \in {t} : Running(u)
    BY <1>1
  <2>2. QED
    BY <1>1, <2>1, DieEffect
<1>3. QED
  BY <1>2 DEF ProgramEnds, mapVars

\* Whatever waitpid returns with, the waiter's own program is dead: what
\* has its pid now came after it.
LEMMA ReapEffect ==
  ASSUME Base, NEW t \in Terminals, Reap(t)
  PROVE  program'[t] = "gone"
<1>0. TypeOK /\ Lives(t)
  BY DEF Base, LifeInv
<1>1. program[t] # "none"
  BY <1>0 DEF Reap, Lives
<1>2. CASE WaitedFor(t) = {}
  <2>1. program[t] \notin {"running", "zombie"}
    BY <1>2 DEF WaitedFor
  <2>2. program' = program
    BY <1>2 DEF Reap
  <2>3. QED
    BY <1>0, <1>1, <2>1, <2>2 DEF TypeOK
<1>3. CASE WaitedFor(t) # {}
  <2> PICK u \in WaitedFor(t) : /\ program[u] = "zombie"
                                /\ program' = [program EXCEPT ![u] = "gone"]
    BY <1>3 DEF Reap
  <2>1. CASE u = t
    BY <1>0, <2>1 DEF TypeOK
  <2>2. CASE u # t
    <3>1. program[t] \notin Owning
      BY <2>2 DEF WaitedFor, Base, OwnerInv, OwnsPid, Owning
    <3>2. program'[t] = program[t]
      BY <1>0, <2>2 DEF TypeOK
    <3>3. QED
      BY <1>0, <1>1, <3>1, <3>2 DEF TypeOK, Owning
  <2>3. QED
    BY <2>1, <2>2
<1>4. QED
  BY <1>2, <1>3

-----------------------------------------------------------------------------
(* Types and lives.                                                        *)

LEMMA TypesKept ==
  ASSUME Base, Next
  PROVE  TypeOK'
<1> USE TableAssumption DEF kernelVars, mapVars, history
<1>0. TypeOK /\ LifeInv /\ InsideInv
  BY DEF Base
<1>1. CASE KernelStep
  <2>1. CASE \E t \in Terminals : ProgramEnds(t)
    BY <1>0, <2>1, ProgramEndsEffect DEF TypeOK, Deaths
  <2>2. CASE \E p \in Pids : StrangerStarts(p) \/ StrangerEnds(p)
    BY <1>0, <2>2 DEF TypeOK, StrangerStarts, StrangerEnds
  <2>3. QED
    BY <1>1, <2>1, <2>2 DEF KernelStep
<1>2. CASE SignalStep
  <2>1. CASE \E t \in Terminals : Hangup(t)
    <3> PICK t \in Terminals : Hangup(t)
      BY <2>1
    <3>1. Signal(t, TRUE)
      BY DEF Hangup
    <3>2. QED
      BY <1>0, <3>1, SignalEffect DEF Hangup, TypeOK, Deaths
  <2>2. CASE \E t \in Terminals, fatal \in BOOLEAN : Kill(t, fatal)
    <3> PICK t \in Terminals, fatal \in BOOLEAN : Kill(t, fatal)
      BY <2>2
    <3>1. Signal(t, fatal)
      BY DEF Kill
    <3>2. QED
      BY <1>0, <3>1, SignalEffect DEF Kill, TypeOK, Deaths
  <2>3. QED
    BY <1>2, <2>1, <2>2 DEF SignalStep
<1>3. CASE BeginStep
  <2>1. \A t \in Terminals : {<<"spawner", t>>, <<"server", t>>, <<"waiter", t>>}
                                \subseteq Threads
    BY DEF Threads
  <2>2. <<"unload">> \in Threads
    BY DEF Threads
  <2>3. QED
    BY <1>0, <1>3, <2>1, <2>2 DEF TypeOK, BeginStep, InsertBegin, KillBegin,
                                  EraseBegin, UnloadBegin, Begin
<1>4. CASE EndStep
  <2>1. CASE \E t \in Terminals : InsertEnd(t)
    <3> PICK t \in Terminals : InsertEnd(t)
      BY <2>1
    <3>1. pid[t] \in Pids
      BY <1>0 DEF InsertEnd, End, InsideInv, InPlace, LifeInv, Lives
    <3>2. QED
      BY <1>0, <3>1 DEF InsertEnd, End, Inserted, TypeOK
  <2>2. CASE \E t \in Terminals : KillEnd(t) \/ EraseEnd(t)
    BY <1>0, <2>2 DEF KillEnd, EraseEnd, Erased, End, TypeOK
  <2>3. CASE UnloadEnd
    BY <1>0, <2>3 DEF UnloadEnd, End, TypeOK
  <2>4. QED
    BY <1>4, <2>1, <2>2, <2>3 DEF EndStep
<1>5. CASE BirthStep
  BY <1>0, <1>5 DEF TypeOK, BirthStep, Spawn
<1>6. CASE ReapStep
  BY <1>0, <1>6 DEF TypeOK, ReapStep, WaiterStart, Reap
<1>7. QED
  BY <1>1, <1>2, <1>3, <1>4, <1>5, <1>6, Steps

LEMMA LivesKept ==
  ASSUME Base, Next
  PROVE  LifeInv'
<1> SUFFICES ASSUME NEW u \in Terminals
             PROVE  Lives(u)'
  BY DEF LifeInv
<1> USE TableAssumption DEF kernelVars, mapVars, history
<1>0. TypeOK /\ Lives(u) /\ InPlace(u)
  BY DEF Base, LifeInv, InsideInv
<1>1. CASE KernelStep
  <2>1. CASE \E t \in Terminals : ProgramEnds(t)
    BY <1>0, <2>1, ProgramEndsEffect DEF TypeOK, Lives, Deaths, DeathOf
  <2>2. CASE \E p \in Pids : StrangerStarts(p) \/ StrangerEnds(p)
    BY <1>0, <2>2 DEF Lives, StrangerStarts, StrangerEnds
  <2>3. QED
    BY <1>1, <2>1, <2>2 DEF KernelStep
<1>2. CASE SignalStep
  <2>1. CASE \E t \in Terminals : Hangup(t)
    <3> PICK t \in Terminals : Hangup(t)
      BY <2>1
    <3>1. Signal(t, TRUE)
      BY DEF Hangup
    <3>2. QED
      BY <1>0, <3>1, SignalEffect DEF Hangup, TypeOK, Lives, Deaths, DeathOf
  <2>2. CASE \E t \in Terminals, fatal \in BOOLEAN : Kill(t, fatal)
    <3> PICK t \in Terminals, fatal \in BOOLEAN : Kill(t, fatal)
      BY <2>2
    <3>1. Signal(t, fatal)
      BY DEF Kill
    <3>2. QED
      BY <1>0, <3>1, SignalEffect DEF Kill, TypeOK, Lives, Deaths, DeathOf
  <2>3. QED
    BY <1>2, <2>1, <2>2 DEF SignalStep
<1>3. CASE BeginStep
  BY <1>0, <1>3 DEF Lives, BeginStep, InsertBegin, KillBegin, EraseBegin,
                    UnloadBegin
<1>4. CASE EndStep
  <2>1. CASE \E t \in Terminals : InsertEnd(t)
    <3> PICK t \in Terminals : InsertEnd(t)
      BY <2>1
    <3>1. spawner[t] = "insert"
      BY DEF Base, InsideInv, InPlace, InsertEnd, End
    <3>2. QED
      BY <1>0, <3>1 DEF InsertEnd, TypeOK, Lives
  <2>2. CASE \E t \in Terminals : KillEnd(t)
    BY <1>0, <2>2 DEF KillEnd, TypeOK, Lives
  <2>3. CASE \E t \in Terminals : EraseEnd(t)
    <3> PICK t \in Terminals : EraseEnd(t)
      BY <2>3
    <3>1. waiter[t] = "erase"
      BY DEF Base, InsideInv, InPlace, EraseEnd, End
    <3>2. QED
      BY <1>0, <3>1 DEF EraseEnd, TypeOK, Lives
  <2>4. CASE UnloadEnd
    BY <1>0, <2>4 DEF UnloadEnd, Lives
  <2>5. QED
    BY <1>4, <2>1, <2>2, <2>3, <2>4 DEF EndStep
<1>5. CASE BirthStep
  BY <1>0, <1>5 DEF TypeOK, Lives, BirthStep, Spawn
<1>6. CASE ReapStep
  <2>1. CASE \E t \in Terminals : WaiterStart(t)
    BY <1>0, <2>1 DEF TypeOK, Lives, WaiterStart
  <2>2. CASE \E t \in Terminals : Reap(t)
    <3> PICK t \in Terminals : Reap(t)
      BY <2>2
    <3>1. /\ program'[u] \in {program[u], "gone"}
          /\ program[u] = "none" => program'[u] = "none"
      BY <1>0 DEF Reap, WaitedFor, TypeOK
    <3>2. u = t => program'[u] = "gone"
      BY ReapEffect
    <3>3. UNCHANGED <<pid, spawner, server, kills>>
      BY DEF Reap
    <3>4. waiter'[u] = IF u = t THEN "erase" ELSE waiter[u]
      BY <1>0 DEF Reap, TypeOK
    <3>5. waiter[t] = "waitpid"
      BY DEF Reap
    <3>6. QED
      BY <1>0, <3>1, <3>2, <3>3, <3>4, <3>5 DEF Lives
  <2>3. QED
    BY <1>6, <2>1, <2>2 DEF ReapStep
<1>7. QED
  BY <1>1, <1>2, <1>3, <1>4, <1>5, <1>6, Steps

LEMMA PlacesKept ==
  ASSUME Base, Next
  PROVE  InsideInv'
<1> SUFFICES ASSUME NEW u \in Terminals
             PROVE  InPlace(u)'
  BY DEF InsideInv
<1> USE DEF kernelVars, mapVars, history
<1>0. TypeOK /\ Lives(u) /\ InPlace(u)
  BY DEF Base, LifeInv, InsideInv
<1>1. CASE KernelStep
  BY <1>0, <1>1, ProgramEndsEffect DEF InPlace, KernelStep, StrangerStarts,
                                       StrangerEnds
<1>2. CASE SignalStep
  BY <1>0, <1>2 DEF TypeOK, InPlace, SignalStep, Hangup, Kill
<1>3. CASE BeginStep
  BY <1>0, <1>3 DEF InPlace, BeginStep, InsertBegin, KillBegin, EraseBegin,
                    UnloadBegin, Begin
<1>4. CASE EndStep
  BY <1>0, <1>4 DEF TypeOK, InPlace, EndStep, InsertEnd, KillEnd, EraseEnd,
                    UnloadEnd, End
<1>5. CASE BirthStep
  BY <1>0, <1>5 DEF TypeOK, InPlace, BirthStep, Spawn, Lives
<1>6. CASE ReapStep
  BY <1>0, <1>6 DEF TypeOK, InPlace, ReapStep, WaiterStart, Reap
<1>7. QED
  BY <1>1, <1>2, <1>3, <1>4, <1>5, <1>6, Steps

LEMMA OwnersKept ==
  ASSUME Base, Next
  PROVE  OwnerInv'
<1> SUFFICES ASSUME NEW u \in Terminals
             PROVE  OwnsPid(u)'
  BY DEF OwnerInv
<1> USE DEF kernelVars, mapVars, history
<1>0. TypeOK /\ OwnerInv
  BY DEF Base
<1>1. CASE KernelStep
  <2>1. CASE \E t \in Terminals : ProgramEnds(t)
    <3>1. /\ \A w \in Terminals : program'[w] \in Owning => program[w] \in Owning
          /\ UNCHANGED <<pid, strangers>>
      BY <1>0, <2>1, ProgramEndsEffect DEF Owning, Deaths, DeathOf
    <3>2. QED
      BY <1>0, <3>1 DEF OwnerInv, OwnsPid
  <2>2. CASE \E p \in Pids : StrangerStarts(p) \/ StrangerEnds(p)
    BY <1>0, <2>2 DEF TypeOK, OwnerInv, OwnsPid, Owning, StrangerStarts,
                      StrangerEnds, Taken
  <2>3. QED
    BY <1>1, <2>1, <2>2 DEF KernelStep
<1>2. CASE SignalStep
  <2>1. /\ \A w \in Terminals : program'[w] \in Owning => program[w] \in Owning
        /\ UNCHANGED <<pid, strangers>>
    BY <1>0, <1>2, SignalEffect DEF SignalStep, Hangup, Kill, Owning, Deaths, DeathOf
  <2>2. QED
    BY <1>0, <2>1 DEF OwnerInv, OwnsPid
<1>3. CASE BeginStep
  BY <1>0, <1>3 DEF OwnerInv, OwnsPid, BeginStep, InsertBegin, KillBegin,
                    EraseBegin, UnloadBegin
<1>4. CASE EndStep
  BY <1>0, <1>4 DEF OwnerInv, OwnsPid, EndStep, InsertEnd, KillEnd, EraseEnd,
                    UnloadEnd
<1>5. CASE BirthStep
  <2> PICK t \in Terminals, p \in Pids : Spawn(t, p)
    BY <1>5 DEF BirthStep
  <2>1. /\ p \notin strangers
        /\ \A w \in Terminals : program[w] \in Owning => pid[w] # p
    BY DEF Spawn, Taken, Owning
  <2>2. \A w \in Terminals \ {t} : pid'[w] = pid[w] /\ program'[w] = program[w]
    BY <1>0 DEF Spawn, TypeOK
  <2>3. pid'[t] = p /\ strangers' = strangers
    BY <1>0 DEF Spawn, TypeOK
  <2>4. QED
    BY <1>0, <2>1, <2>2, <2>3 DEF OwnerInv, OwnsPid
<1>6. CASE ReapStep
  <2>1. /\ \A w \in Terminals : program'[w] \in Owning => program[w] \in Owning
        /\ UNCHANGED <<pid, strangers>>
    BY <1>0, <1>6 DEF TypeOK, Owning, ReapStep, WaiterStart, Reap
  <2>2. QED
    BY <1>0, <2>1 DEF OwnerInv, OwnsPid
<1>7. QED
  BY <1>1, <1>2, <1>3, <1>4, <1>5, <1>6, Steps

\* Nothing that has happened to a waiter, a pid or a vanished program is
\* undone.
LEMMA History ==
  ASSUME Base, Next
  PROVE  /\ vanished \subseteq vanished'
         /\ \A w \in Terminals : program[w] # "none" => pid'[w] = pid[w]
         /\ \A w \in Terminals : waiter[w] \in {"erase", "done"} =>
                                    waiter'[w] \in {"erase", "done"}
         /\ \A w \in Terminals : program[w] = "gone" => program'[w] = "gone"
<1> USE DEF kernelVars, mapVars, history
<1>0. TypeOK /\ LifeInv
  BY DEF Base
<1>1. CASE KernelStep
  BY <1>0, <1>1, ProgramEndsEffect DEF KernelStep, StrangerStarts, StrangerEnds,
                                       Deaths, DeathOf
<1>2. CASE SignalStep
  <2>1. CASE \E t \in Terminals : Hangup(t)
    BY <1>0, <2>1, SignalEffect DEF Hangup, Deaths, DeathOf
  <2>2. CASE \E t \in Terminals, fatal \in BOOLEAN : Kill(t, fatal)
    BY <1>0, <2>2, SignalEffect DEF Kill, Deaths, DeathOf
  <2>3. QED
    BY <1>2, <2>1, <2>2 DEF SignalStep
<1>3. CASE BeginStep
  BY <1>3 DEF BeginStep, InsertBegin, KillBegin, EraseBegin, UnloadBegin
<1>4. CASE EndStep
  BY <1>0, <1>4 DEF TypeOK, EndStep, InsertEnd, KillEnd, EraseEnd, UnloadEnd
<1>5. CASE BirthStep
  BY <1>0, <1>5 DEF TypeOK, LifeInv, Lives, BirthStep, Spawn
<1>6. CASE ReapStep
  BY <1>0, <1>6 DEF TypeOK, ReapStep, WaiterStart, Reap
<1>7. QED
  BY <1>1, <1>2, <1>3, <1>4, <1>5, <1>6, Steps

\* The waiter of t takes the zombie of u.
TakenBy(t, u) ==
  /\ waiter[t] = "waitpid" /\ waiter'[t] = "erase"
  /\ pid[t] = pid[u] /\ program[u] = "zombie"

\* What has vanished has, and what is gone was gone before, has just
\* vanished or is taken by a waiter.
LEMMA NewlyGone ==
  ASSUME Base, Next
  PROVE  /\ sigchldIgnored' => sigchldIgnored
         /\ \A u \in vanished' \ vanished : program'[u] = "gone" /\ sigchldIgnored
         /\ \A u \in Terminals : program'[u] = "gone" =>
              \/ program[u] = "gone"
              \/ u \in vanished'
              \/ \E t \in Terminals : TakenBy(t, u)
<1> USE DEF kernelVars, mapVars, history
<1>0. TypeOK
  BY DEF Base
<1>1. CASE KernelStep
  BY <1>0, <1>1, ProgramEndsEffect DEF KernelStep, StrangerStarts, StrangerEnds,
                                       Deaths, DeathOf
<1>2. CASE SignalStep
  <2>1. CASE \E t \in Terminals : Hangup(t)
    <3>1. Deaths /\ UNCHANGED sigchldIgnored
      BY <1>0, <2>1, SignalEffect DEF Hangup
    <3>2. QED
      BY <3>1 DEF Deaths, DeathOf
  <2>2. CASE \E t \in Terminals, fatal \in BOOLEAN : Kill(t, fatal)
    <3>1. Deaths /\ UNCHANGED sigchldIgnored
      BY <1>0, <2>2, SignalEffect DEF Kill
    <3>2. QED
      BY <3>1 DEF Deaths, DeathOf
  <2>3. QED
    BY <1>2, <2>1, <2>2 DEF SignalStep
<1>3. CASE BeginStep
  <2>1. UNCHANGED <<program, sigchldIgnored, vanished>>
    BY <1>3 DEF BeginStep, InsertBegin, KillBegin, EraseBegin, UnloadBegin
  <2>2. QED
    BY <2>1
<1>4. CASE EndStep
  <2>1. UNCHANGED <<program, sigchldIgnored, vanished>>
    BY <1>4 DEF EndStep, InsertEnd, KillEnd, EraseEnd, UnloadEnd
  <2>2. QED
    BY <2>1
<1>5. CASE BirthStep
  BY <1>0, <1>5 DEF TypeOK, BirthStep, Spawn
<1>6. CASE ReapStep
  <2>1. CASE \E t \in Terminals : WaiterStart(t)
    BY <2>1 DEF WaiterStart
  <2>2. CASE \E t \in Terminals : Reap(t)
    <3> PICK t \in Terminals : Reap(t)
      BY <2>2
    <3>1. UNCHANGED <<sigchldIgnored, vanished>>
      BY DEF Reap
    <3>2. ASSUME NEW u \in Terminals, program'[u] = "gone", program[u] # "gone"
          PROVE  TakenBy(t, u)
      BY <1>0, <3>2 DEF Reap, WaitedFor, TypeOK, TakenBy
    <3>3. QED
      BY <3>1, <3>2
  <2>3. QED
    BY <1>6, <2>1, <2>2 DEF ReapStep
<1>7. QED
  BY <1>1, <1>2, <1>3, <1>4, <1>5, <1>6, Steps

LEMMA DeathsKept ==
  ASSUME Base, Next
  PROVE  DeathInv'
<1>0. TypeOK /\ LifeInv /\ DeathInv
  BY DEF Base
<1>1. (sigchldIgnored => HostIgnoresSigchld)'
  BY <1>0, NewlyGone DEF DeathInv
<1>2. \A u \in vanished' : program'[u] = "gone" /\ HostIgnoresSigchld
  BY <1>0, NewlyGone, History DEF DeathInv, TypeOK
<1>3. ASSUME NEW t \in Terminals, program'[t] = "gone"
      PROVE  \/ waiter'[t] \in {"erase", "done"}
             \/ \E u \in vanished' : pid'[u] = pid'[t]
  <2>1. CASE program[t] = "gone"
    <3>1. pid'[t] = pid[t]
      BY <2>1, History
    <3>2. CASE waiter[t] \in {"erase", "done"}
      BY <3>2, History
    <3>3. CASE \E u \in vanished : pid[u] = pid[t]
      <4> PICK u \in vanished : pid[u] = pid[t]
        BY <3>3
      <4>1. u \in Terminals /\ program[u] = "gone"
        BY <1>0 DEF TypeOK, DeathInv
      <4>2. QED
        BY <3>1, <4>1, History
    <3>4. QED
      BY <1>0, <2>1, <3>2, <3>3 DEF DeathInv, Noticed
  <2>2. CASE t \in vanished'
    BY <2>2
  <2>3. CASE \E w \in Terminals : TakenBy(w, t)
    <3> PICK w \in Terminals : TakenBy(w, t)
      BY <2>3
    <3>1. waiter'[w] = "erase"
      BY DEF TakenBy
    <3>2. CASE w = t
      BY <3>1, <3>2
    <3>3. CASE w # t
      <4>1. waiter[w] = "waitpid" /\ program[t] = "zombie" /\ pid[w] = pid[t]
        BY DEF TakenBy
      <4>2. program[w] = "gone"
        <5>1. program[w] \notin Owning
          BY <3>3, <4>1 DEF Base, OwnerInv, OwnsPid, Owning
        <5>2. program[w] # "none"
          BY <1>0, <4>1 DEF LifeInv, Lives
        <5>3. QED
          BY <1>0, <5>1, <5>2 DEF TypeOK, Owning
      <4>3. PICK u \in vanished : pid[u] = pid[w]
        BY <1>0, <4>1, <4>2 DEF DeathInv, Noticed
      <4>4. u \in Terminals /\ program[u] = "gone"
        BY <1>0 DEF TypeOK, DeathInv
      <4>5. pid'[u] = pid[u] /\ pid'[t] = pid[t] /\ u \in vanished'
        BY <4>1, <4>4, History
      <4>6. QED
        BY <4>1, <4>3, <4>5
    <3>4. QED
      BY <3>2, <3>3
  <2>4. QED
    BY <1>3, <2>1, <2>2, <2>3, NewlyGone
<1>4. QED
  BY <1>1, <1>2, <1>3 DEF DeathInv, Noticed

THEOREM BaseInvariant == Spec => []Base
<1>1. Init => Base
  <2> SUFFICES ASSUME Init
               PROVE  Base
    OBVIOUS
  <2>1. TypeOK
    <3>1. pid \in [Terminals -> Pids \cup {0}] /\ kills \in [Terminals -> 0..MaxKills]
      BY TableAssumption DEF Init
    <3>2. inside \subseteq Threads /\ torn \in BOOLEAN /\ sigchldIgnored \in BOOLEAN
      BY TableAssumption DEF Init
    <3>3. QED
      BY <3>1, <3>2 DEF Init, TypeOK
  <2>2. LifeInv
    BY DEF Init, LifeInv, Lives
  <2>3. InsideInv
    BY DEF Init, InsideInv, InPlace
  <2>4. OwnerInv
    BY DEF Init, OwnerInv, OwnsPid, Owning
  <2>5. DeathInv
    BY DEF Init, DeathInv, Noticed
  <2>6. QED
    BY <2>1, <2>2, <2>3, <2>4, <2>5 DEF Base
<1>2. Base /\ [Next]_vars => Base'
  <2> SUFFICES ASSUME Base, [Next]_vars
               PROVE  Base'
    OBVIOUS
  <2>1. CASE Next
    BY <2>1, TypesKept, LivesKept, PlacesKept, OwnersKept, DeathsKept DEF Base
  <2>2. CASE UNCHANGED vars
    BY <2>2 DEF vars, kernelVars, mapVars, history, Base, TypeOK, LifeInv, Lives,
                InsideInv, InPlace, OwnerInv, OwnsPid, DeathInv, Noticed
  <2>3. QED
    BY <2>1, <2>2
<1>3. QED
  BY <1>1, <1>2, PTL DEF Spec

\* Every variable keeps its type; the map holds pids only, whatever a race
\* has made of it (pty.cpp:129, 381, 432, 691).
THEOREM TypeCorrect == Spec => []TypeOK
BY BaseInvariant, PTL DEF Base

-----------------------------------------------------------------------------
(* Where signals go.                                                       *)

\* What the property says of one terminal.
Excused(t) ==
  \/ waiter[t] \in {"erase", "done"}
  \/ HostIgnoresSigchld /\ \E u \in vanished : pid[u] = pid[t]

LEMMA ExcusedKept ==
  ASSUME Base, Next, NEW t \in Terminals, Excused(t)
  PROVE  Excused(t)'
<1>0. TypeOK /\ LifeInv /\ DeathInv
  BY DEF Base
<1>1. CASE waiter[t] \in {"erase", "done"}
  BY <1>1, History DEF Excused
<1>2. CASE HostIgnoresSigchld /\ \E u \in vanished : pid[u] = pid[t]
  <2> PICK u \in vanished : pid[u] = pid[t]
    BY <1>2
  <2>1. u \in Terminals /\ program[u] = "gone"
    BY <1>0 DEF TypeOK, DeathInv
  <2>2. program[t] # "none"
    <3>1. pid[u] \in Pids
      BY <1>0, <2>1 DEF LifeInv, Lives
    <3>2. QED
      BY <1>0, <3>1, TableAssumption DEF LifeInv, Lives
  <2>3. QED
    BY <1>2, <2>1, <2>2, History DEF Excused
<1>3. QED
  BY <1>1, <1>2 DEF Excused

LEMMA AstrayKept ==
  ASSUME Base, AstrayOnlyAfterReap, Next
  PROVE  AstrayOnlyAfterReap'
<1> USE DEF kernelVars, mapVars, history
<1>0. TypeOK /\ LifeInv /\ DeathInv
  BY DEF Base
<1>1. \A t \in astray : t \in Terminals /\ Excused(t)
  BY <1>0 DEF AstrayOnlyAfterReap, Excused, TypeOK
<1>2. CASE astray' \subseteq astray
  BY <1>1, <1>2, ExcusedKept DEF AstrayOnlyAfterReap, Excused
<1>3. CASE SignalStep /\ ~(astray' \subseteq astray)
  <2> PICK t \in Terminals, fatal \in BOOLEAN :
             (Hangup(t) /\ fatal) \/ Kill(t, fatal)
    BY <1>3 DEF SignalStep
  <2>1. Signal(t, fatal)
    BY DEF Hangup, Kill
  <2>2. program[t] # "none"
    BY <1>0 DEF Hangup, Kill, LifeInv, Lives
  <2>3. program[t] \notin Owning /\ astray' = astray \cup {t}
    BY <1>0, <1>3, <2>1, SignalAim, SignalEffect
  <2>4. Excused(t)
    BY <1>0, <2>2, <2>3 DEF TypeOK, Owning, DeathInv, Noticed, Excused
  <2>5. QED
    BY <1>1, <2>3, <2>4, ExcusedKept DEF AstrayOnlyAfterReap, Excused
<1>4. CASE ~SignalStep
  <2>1. astray' = astray
    BY <1>0, <1>4, Steps, ProgramEndsEffect DEF KernelStep, StrangerStarts, StrangerEnds,
       BeginStep, InsertBegin, KillBegin, EraseBegin, UnloadBegin,
       EndStep, InsertEnd, KillEnd, EraseEnd, UnloadEnd,
       BirthStep, Spawn, ReapStep, WaiterStart, Reap
  <2>2. QED
    BY <1>2, <2>1
<1>5. QED
  BY <1>2, <1>3, <1>4

\* Until the waiter's waitpid has returned, every signal sent for a terminal
\* (pty.cpp:431, 593) hits its own program, but for a pid whose program died
\* while the host still ignored SIGCHLD (665).
THEOREM AstrayOnlyAfterReapTheorem == Spec => []AstrayOnlyAfterReap
<1>1. Init => AstrayOnlyAfterReap
  BY DEF Init, AstrayOnlyAfterReap
<1>2. Base /\ AstrayOnlyAfterReap /\ [Next]_vars => AstrayOnlyAfterReap'
  <2>1. Base /\ AstrayOnlyAfterReap /\ Next => AstrayOnlyAfterReap'
    BY AstrayKept
  <2>2. AstrayOnlyAfterReap /\ UNCHANGED vars => AstrayOnlyAfterReap'
    BY DEF vars, kernelVars, history, AstrayOnlyAfterReap
  <2>3. QED
    BY <2>1, <2>2
<1>3. QED
  BY <1>1, <1>2, BaseInvariant, PTL DEF Spec

-----------------------------------------------------------------------------
(* What is in the map.                                                     *)

\* Steps outside the map leave it alone, and tell of no terminal that its
\* spawn or its waiter is done with the map.
LEMMA OutsideSteps ==
  ASSUME Base, KernelStep \/ SignalStep \/ BeginStep \/ BirthStep \/ ReapStep
  PROVE  /\ UNCHANGED <<processes, late>>
         /\ torn => torn'
         /\ \A t \in Terminals :
              /\ spawner[t] = "done" => spawner'[t] = "done" /\ pid'[t] = pid[t]
              /\ spawner[t] # "done" => spawner'[t] # "done"
              /\ waiter[t] # "done" => waiter'[t] # "done"
<1> USE DEF kernelVars, mapVars, history
<1>0. TypeOK /\ LifeInv
  BY DEF Base
<1>1. CASE KernelStep
  BY <1>0, <1>1, ProgramEndsEffect DEF KernelStep, StrangerStarts, StrangerEnds
<1>2. CASE SignalStep
  <2>1. CASE \E t \in Terminals : Hangup(t)
    BY <2>1 DEF Hangup
  <2>2. CASE \E t \in Terminals, fatal \in BOOLEAN : Kill(t, fatal)
    BY <2>2 DEF Kill
  <2>3. QED
    BY <1>2, <2>1, <2>2 DEF SignalStep
<1>3. CASE BeginStep
  BY <1>3 DEF BeginStep, InsertBegin, KillBegin, EraseBegin, UnloadBegin, Begin
<1>4. CASE BirthStep
  BY <1>0, <1>4 DEF TypeOK, BirthStep, Spawn
<1>5. CASE ReapStep
  BY <1>0, <1>5 DEF TypeOK, ReapStep, WaiterStart, Reap
<1>6. QED
  BY <1>1, <1>2, <1>3, <1>4, <1>5

LEMMA EntriesKept ==
  ASSUME Base, EntriesAccounted, Next
  PROVE  EntriesAccounted'
<1> SUFFICES ASSUME ~torn', NEW p \in processes'
             PROVE  \E t \in Terminals :
                      /\ pid'[t] = p /\ spawner'[t] = "done"
                      /\ waiter'[t] # "done" \/ t \in late'
  BY DEF EntriesAccounted
<1> USE DEF kernelVars, mapVars, history
<1>0. TypeOK
  BY DEF Base
<1>1. CASE KernelStep \/ SignalStep \/ BeginStep \/ BirthStep \/ ReapStep
  <2>1. PICK t \in Terminals : /\ pid[t] = p /\ spawner[t] = "done"
                               /\ waiter[t] # "done" \/ t \in late
    BY <1>1, OutsideSteps DEF EntriesAccounted
  <2>2. QED
    BY <1>1, <2>1, OutsideSteps
<1>2. CASE \E u \in Terminals : InsertEnd(u)
  <2> PICK u \in Terminals : InsertEnd(u)
    BY <1>2
  <2>1. processes' = processes \cup {pid[u]} /\ ~torn
    BY DEF InsertEnd, End, Inserted
  <2>2. /\ spawner'[u] = "done" /\ UNCHANGED <<pid, waiter>>
        /\ \A t \in Terminals : spawner[t] = "done" => spawner'[t] = "done"
        /\ waiter[u] = "done" => u \in late'
        /\ late \subseteq late'
    BY <1>0 DEF InsertEnd, TypeOK
  <2>3. CASE p = pid[u]
    BY <2>2, <2>3
  <2>4. CASE p \in processes
    BY <2>1, <2>2, <2>4 DEF EntriesAccounted
  <2>5. QED
    BY <2>1, <2>3, <2>4
<1>3. CASE \E u \in Terminals : KillEnd(u)
  <2> PICK u \in Terminals : KillEnd(u)
    BY <1>3
  <2>1. processes' = processes \ {pid[u]} /\ ~torn
    BY DEF KillEnd, End
  <2>2. QED
    BY <2>1 DEF KillEnd, EntriesAccounted
<1>4. CASE \E u \in Terminals : EraseEnd(u)
  <2> PICK u \in Terminals : EraseEnd(u)
    BY <1>4
  <2>1. processes' = processes \ {pid[u]} /\ ~torn
    BY DEF EraseEnd, End, Erased
  <2>2. UNCHANGED <<pid, spawner, late>>
    BY DEF EraseEnd
  <2>3. \A t \in Terminals \ {u} : waiter'[t] = waiter[t]
    BY <1>0 DEF EraseEnd, TypeOK
  <2>4. QED
    BY <2>1, <2>2, <2>3 DEF EntriesAccounted
<1>5. CASE UnloadEnd
  BY <1>5 DEF UnloadEnd, End, EntriesAccounted
<1>6. QED
  BY <1>1, <1>2, <1>3, <1>4, <1>5, Steps DEF EndStep

\* As long as no two threads were inside the map at once, a dead pid stays
\* in it only by the order of pty.cpp:379 and 381.
THEOREM EntriesAccountedTheorem == Spec => []EntriesAccounted
<1>1. Init => EntriesAccounted
  BY DEF Init, EntriesAccounted
<1>2. Base /\ EntriesAccounted /\ [Next]_vars => EntriesAccounted'
  <2>1. Base /\ EntriesAccounted /\ Next => EntriesAccounted'
    BY EntriesKept
  <2>2. EntriesAccounted /\ UNCHANGED vars => EntriesAccounted'
    BY DEF vars, kernelVars, mapVars, history, EntriesAccounted
  <2>3. QED
    BY <2>1, <2>2
<1>3. QED
  BY <1>1, <1>2, BaseInvariant, PTL DEF Spec

-----------------------------------------------------------------------------
(* What is missing from the map.                                           *)

\* Whoever is undisturbed was so before, unless its spawn has just ended.
LEMMA UndisturbedBefore ==
  ASSUME Base, Next, NEW t \in Terminals, Undisturbed(t)'
  PROVE  kills[t] = 0 /\ ~Reused(t) /\ spawner[t] \in {"insert", "done"}
<1> USE TableAssumption DEF kernelVars, mapVars, history
<1>0. TypeOK /\ LifeInv
  BY DEF Base
<1>1. \A w \in Terminals : spawner[w] # "idle" => pid'[w] = pid[w] /\ pid[w] \in Pids
  <2>1. \A w \in Terminals : spawner[w] # "idle" => pid[w] \in Pids
    BY <1>0 DEF LifeInv, Lives
  <2>2. \A w \in Terminals : spawner[w] # "idle" => pid'[w] = pid[w]
    <3>1. CASE KernelStep
      BY <1>0, <3>1, ProgramEndsEffect DEF KernelStep, StrangerStarts, StrangerEnds
    <3>2. CASE SignalStep
      BY <3>2 DEF SignalStep, Hangup, Kill
    <3>3. CASE BeginStep
      BY <3>3 DEF BeginStep, InsertBegin, KillBegin, EraseBegin, UnloadBegin
    <3>4. CASE EndStep
      BY <3>4 DEF EndStep, InsertEnd, KillEnd, EraseEnd, UnloadEnd
    <3>5. CASE BirthStep
      BY <1>0, <3>5 DEF TypeOK, BirthStep, Spawn
    <3>6. CASE ReapStep
      BY <3>6 DEF ReapStep, WaiterStart, Reap
    <3>7. QED
      BY <3>1, <3>2, <3>3, <3>4, <3>5, <3>6, Steps
  <2>3. QED
    BY <2>1, <2>2
<1>2. spawner[t] \in {"insert", "done"}
  <2>1. CASE EndStep
    <3>1. CASE \E u \in Terminals : InsertEnd(u)
      <4> PICK u \in Terminals : InsertEnd(u)
        BY <3>1
      <4>1. spawner[u] = "insert"
        BY DEF Base, InsideInv, InPlace, InsertEnd, End
      <4>2. QED
        BY <1>0, <4>1 DEF InsertEnd, TypeOK, Undisturbed
    <3>2. CASE \E u \in Terminals : KillEnd(u) \/ EraseEnd(u)
      BY <1>0, <3>2 DEF KillEnd, EraseEnd, TypeOK, Undisturbed
    <3>3. CASE UnloadEnd
      BY <3>3 DEF UnloadEnd, Undisturbed
    <3>4. QED
      BY <2>1, <3>1, <3>2, <3>3 DEF EndStep
  <2>2. CASE KernelStep \/ SignalStep \/ BeginStep \/ BirthStep \/ ReapStep
    BY <2>2, OutsideSteps DEF Undisturbed
  <2>3. QED
    BY <2>1, <2>2, Steps
<1>3. ~Reused(t)
  <2> SUFFICES ASSUME Reused(t)
               PROVE  FALSE
    OBVIOUS
  <2> PICK u \in Terminals \ {t} : pid[u] = pid[t]
    BY DEF Reused
  <2>1. pid[t] \in Pids /\ pid'[t] = pid[t]
    BY <1>1, <1>2
  <2>2. spawner[u] # "idle"
    BY <1>0, <2>1 DEF LifeInv, Lives
  <2>3. QED
    BY <1>1, <2>1, <2>2 DEF Undisturbed, Reused
<1>4. kills[t] = 0
  <2>1. CASE \E u \in Terminals, fatal \in BOOLEAN : Kill(u, fatal)
    BY <1>0, <2>1 DEF Kill, TypeOK, Undisturbed
  <2>2. CASE \E u \in Terminals : Hangup(u)
    BY <2>2 DEF Hangup, Undisturbed
  <2>3. CASE KernelStep
    BY <1>0, <2>3, ProgramEndsEffect DEF KernelStep, StrangerStarts, StrangerEnds,
                                         Undisturbed
  <2>4. CASE BeginStep
    BY <2>4 DEF BeginStep, InsertBegin, KillBegin, EraseBegin, UnloadBegin,
                Undisturbed
  <2>5. CASE EndStep
    BY <2>5 DEF EndStep, InsertEnd, KillEnd, EraseEnd, UnloadEnd, Undisturbed
  <2>6. CASE BirthStep \/ ReapStep
    BY <2>6 DEF BirthStep, ReapStep, Spawn, WaiterStart, Reap, Undisturbed
  <2>7. QED
    BY <2>1, <2>2, <2>3, <2>4, <2>5, <2>6, Steps DEF SignalStep
<1>5. QED
  BY <1>2, <1>3, <1>4

\* No step lets a program run that has stopped; only Spawn starts one.
LEMMA RunningBefore ==
  ASSUME Base, Next, NEW t \in Terminals, Running(t)', spawner[t] # "idle"
  PROVE  Running(t)
<1> USE DEF kernelVars, mapVars, history
<1>0. TypeOK
  BY DEF Base
<1>1. CASE KernelStep
  BY <1>0, <1>1, ProgramEndsEffect DEF Running, KernelStep, StrangerStarts,
                    StrangerEnds, Deaths, DeathOf
<1>2. CASE SignalStep
  BY <1>0, <1>2, SignalEffect DEF Running, SignalStep, Hangup, Kill,
                                  Deaths, DeathOf
<1>3. CASE BeginStep
  BY <1>3 DEF Running, BeginStep, InsertBegin, KillBegin, EraseBegin, UnloadBegin
<1>4. CASE EndStep
  BY <1>4 DEF Running, EndStep, InsertEnd, KillEnd, EraseEnd, UnloadEnd
<1>5. CASE BirthStep
  BY <1>0, <1>5 DEF TypeOK, Running, BirthStep, Spawn
<1>6. CASE ReapStep
  BY <1>0, <1>6 DEF TypeOK, Running, ReapStep, WaiterStart, Reap
<1>7. QED
  BY <1>1, <1>2, <1>3, <1>4, <1>5, <1>6, Steps

LEMMA ListedKept ==
  ASSUME Base, ListedWhileRunning, Next
  PROVE  ListedWhileRunning'
<1> SUFFICES ASSUME ~torn', NEW t \in Terminals, Undisturbed(t)', Running(t)'
             PROVE  pid'[t] \in processes'
  BY DEF ListedWhileRunning
<1> USE DEF kernelVars, mapVars, history
<1>0. TypeOK /\ LifeInv /\ InsideInv
  BY DEF Base
<1>1. kills[t] = 0 /\ ~Reused(t) /\ spawner[t] \in {"insert", "done"} /\ Running(t)
  BY UndisturbedBefore, RunningBefore
<1>2. CASE KernelStep \/ SignalStep \/ BeginStep \/ BirthStep \/ ReapStep
  BY <1>1, <1>2, OutsideSteps DEF ListedWhileRunning, Undisturbed
<1>3. CASE \E u \in Terminals : InsertEnd(u)
  <2> PICK u \in Terminals : InsertEnd(u)
    BY <1>3
  <2>1. processes' = processes \cup {pid[u]} /\ ~torn /\ UNCHANGED pid
    BY DEF InsertEnd, End, Inserted
  <2>2. CASE t = u
    BY <2>1, <2>2
  <2>3. CASE t # u
    <3>1. spawner[t] = "done"
      BY <1>0, <2>3 DEF InsertEnd, TypeOK, Undisturbed
    <3>2. QED
      BY <1>1, <2>1, <3>1 DEF ListedWhileRunning, Undisturbed
  <2>4. QED
    BY <2>2, <2>3
<1>4. CASE \E u \in Terminals : KillEnd(u) \/ EraseEnd(u)
  <2> PICK u \in Terminals : KillEnd(u) \/ EraseEnd(u)
    BY <1>4
  <2>1. /\ processes' = processes \ {pid[u]} /\ ~torn
        /\ UNCHANGED <<pid, spawner>>
    BY DEF KillEnd, EraseEnd, Erased, End
  <2>2. u # t
    <3>1. CASE KillEnd(u)
      BY <1>0, <1>1, <3>1 DEF KillEnd, End, InsideInv, InPlace, LifeInv, Lives
    <3>2. CASE EraseEnd(u)
      BY <1>0, <1>1, <3>2 DEF EraseEnd, End, InsideInv, InPlace, LifeInv, Lives,
                              Running
    <3>3. QED
      BY <3>1, <3>2
  <2>3. pid[u] # pid[t]
    BY <1>1, <2>2 DEF Reused
  <2>4. pid[t] \in processes
    BY <1>1, <2>1 DEF ListedWhileRunning, Undisturbed
  <2>5. QED
    BY <2>1, <2>3, <2>4
<1>5. CASE UnloadEnd
  <2>1. processes' = processes /\ ~torn /\ UNCHANGED <<pid, spawner>>
    BY <1>5 DEF UnloadEnd, End
  <2>2. QED
    BY <1>1, <2>1 DEF ListedWhileRunning, Undisturbed
<1>6. QED
  BY <1>2, <1>3, <1>4, <1>5, Steps DEF EndStep

\* A program is listed while it runs, but for a kill, a pid used twice, and
\* a race in the map (pty.cpp:381, 432, 691).
THEOREM ListedWhileRunningTheorem == Spec => []ListedWhileRunning
<1>1. Init => ListedWhileRunning
  BY DEF Init, ListedWhileRunning, Undisturbed
<1>2. Base /\ ListedWhileRunning /\ [Next]_vars => ListedWhileRunning'
  <2>1. Base /\ ListedWhileRunning /\ Next => ListedWhileRunning'
    BY ListedKept
  <2>2. ListedWhileRunning /\ UNCHANGED vars => ListedWhileRunning'
    BY DEF vars, kernelVars, mapVars, history, ListedWhileRunning, Undisturbed,
           Reused, Running
  <2>3. QED
    BY <2>1, <2>2
<1>3. QED
  BY <1>1, <1>2, BaseInvariant, PTL DEF Spec

-----------------------------------------------------------------------------
(* The destructor.                                                         *)

\* It reaches whatever ListedWhileRunning says is listed, and then nothing
\* moves any more (pty.cpp:131-135).
THEOREM UnloadReachesAllTheorem == Spec => []UnloadReachesAll
<1>1. Init => UnloadReachesAll
  BY DEF Init, UnloadReachesAll
<1>2. ASSUME Base, ListedWhileRunning, UnloadReachesAll, Next
      PROVE  UnloadReachesAll'
  <2> USE DEF kernelVars, mapVars, history
  <2>0. unload # "done" /\ TypeOK
    BY <1>2 DEF Next, Base
  <2>1. CASE UnloadEnd
    <3> SUFFICES ASSUME ~torn', NEW t \in Terminals, Undisturbed(t)', Running(t)'
                 PROVE  t \in termed'
      BY DEF UnloadReachesAll
    <3>1. ~torn /\ UNCHANGED <<pid, program, spawner, kills>>
      BY <2>1 DEF UnloadEnd, End
    <3>2. termed' = {u \in Terminals : Running(u) /\ pid[u] \in processes}
      BY <2>1, <3>1 DEF UnloadEnd, SignalledAtUnload
    <3>3. Undisturbed(t) /\ Running(t)
      BY <3>1 DEF Undisturbed, Reused, Running
    <3>4. QED
      BY <1>2, <3>1, <3>2, <3>3 DEF ListedWhileRunning
  <2>2. CASE ~UnloadEnd
    <3>1. unload' # "done"
      <4>1. CASE KernelStep
        BY <2>0, <4>1, ProgramEndsEffect DEF KernelStep, StrangerStarts, StrangerEnds
      <4>2. CASE SignalStep
        BY <2>0, <4>2 DEF SignalStep, Hangup, Kill
      <4>3. CASE BeginStep
        BY <2>0, <4>3 DEF BeginStep, InsertBegin, KillBegin, EraseBegin,
                          UnloadBegin
      <4>4. CASE EndStep
        BY <2>0, <2>2, <4>4 DEF EndStep, InsertEnd, KillEnd, EraseEnd
      <4>5. CASE BirthStep \/ ReapStep
        BY <2>0, <4>5 DEF BirthStep, ReapStep, Spawn, WaiterStart, Reap
      <4>6. QED
        BY <1>2, <4>1, <4>2, <4>3, <4>4, <4>5, Steps
    <3>2. QED
      BY <3>1 DEF UnloadReachesAll
  <2>3. QED
    BY <2>1, <2>2
<1>3. UnloadReachesAll /\ UNCHANGED vars => UnloadReachesAll'
  BY DEF vars, kernelVars, mapVars, history, UnloadReachesAll, Undisturbed,
         Reused, Running
<1>4. Base /\ ListedWhileRunning /\ UnloadReachesAll /\ [Next]_vars
        => UnloadReachesAll'
  BY <1>2, <1>3
<1>5. QED
  BY <1>1, <1>4, BaseInvariant, ListedWhileRunningTheorem, PTL DEF Spec
=============================================================================
