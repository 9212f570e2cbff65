-------------------------- MODULE PtySessionProofs --------------------------
(***************************************************************************)
(* What TLC checks on small sessions, proved for buffers, binaries, codes  *)
(* and signals of every size and for every number of calls.                *)
(***************************************************************************)
EXTENDS PtySession, SequenceTheorems, TLAPS

-----------------------------------------------------------------------------
(* Types.                                                                  *)

LEMMA StatusTypes ==
  /\ Deaths \subseteq [how : {"exited", "signaled"}, n : Nat]
  /\ \A st \in Deaths : Encode(st) \in Nat \X Nat
  /\ \A c \in ExitCodes : Exited(c) \in Deaths
  /\ \A s \in FatalSignals : Signaled(s) \in Deaths
  /\ Garbage \subseteq Nat \X Nat
<1> USE DEF Exited, Signaled
<1>1. Deaths \subseteq [how : {"exited", "signaled"}, n : Nat]
  BY DataAssumption DEF Deaths
<1>2. \A st \in Deaths : Encode(st) \in Nat \X Nat
  BY <1>1 DEF Encode
<1>3. /\ \A c \in ExitCodes : Exited(c) \in Deaths
      /\ \A s \in FatalSignals : Signaled(s) \in Deaths
  BY DEF Deaths
<1>4. Garbage \subseteq Nat \X Nat
  BY DataAssumption DEF Garbage
<1>5. QED
  BY <1>1, <1>2, <1>3, <1>4

LEMMA MessageTypes ==
  ASSUME NEW tag \in {"data", "exit", "write", "kill"}, NEW a \in Nat,
         NEW b \in Nat
  PROVE  Msg(tag, a, b) \in Messages
BY DEF Msg, Messages

\* Taking the head off a mailbox leaves a mailbox.
LEMMA ReceiveTypes ==
  ASSUME NEW m \in Seq(Messages), m # <<>>
  PROVE  /\ Tail(m) \in Seq(Messages)
         /\ Head(m) \in Messages
         /\ Head(m).a \in Nat
         /\ Head(m).b \in Nat
<1>1. Tail(m) \in Seq(Messages) /\ Head(m) \in Messages
  BY HeadTailProperties
<1>2. QED
  BY <1>1 DEF Messages

\* SMT does not see that a variable set to FALSE is a truth value.
LEMMA FalseType == \A b : b = FALSE => b \in BOOLEAN
OBVIOUS

LEMMA InitTypes == Init => TypeOK
<1> SUFFICES ASSUME Init
             PROVE  TypeOK
  OBVIOUS
<1>1. status \in Deaths
  BY StatusTypes, DataAssumption DEF Init
<1>2. sigchldIgnored \in BOOLEAN /\ owed \in BOOLEAN /\ fd_closed \in BOOLEAN
      /\ registered \in BOOLEAN
  BY DataAssumption, FalseType DEF Init
<1>3. QED
  BY <1>1, <1>2 DEF Init, TypeOK

LEMMA SignalTypes ==
  ASSUME TypeOK, NEW sig, SignalChild(sig)
  PROVE  /\ child' \in {"running", "zombie", "reaped"}
         /\ status' \in Deaths
BY StatusTypes DEF SignalChild, Dies, TypeOK

LEMMA ChildTypes ==
  TypeOK /\ (ChildWrite \/ ChildRead \/ ChildExit) => TypeOK'
<1> SUFFICES ASSUME TypeOK, ChildWrite \/ ChildRead \/ ChildExit
             PROVE  TypeOK'
  OBVIOUS
<1> USE DEF TypeOK, threadVars, serverVars, userVars
<1>1. CASE ChildWrite
  <2>1. owed' \in BOOLEAN
    BY <1>1, FalseType DEF ChildWrite
  <2>2. QED
    BY <1>1, <2>1 DEF ChildWrite
<1>2. CASE ChildRead
  BY <1>2, DataAssumption DEF ChildRead
<1>3. CASE ChildExit
  BY <1>3, StatusTypes DEF ChildExit, Dies
<1>4. QED
  BY <1>1, <1>2, <1>3

LEMMA ReaderTypes == TypeOK /\ Reader => TypeOK'
<1> SUFFICES ASSUME TypeOK, Reader
             PROVE  TypeOK'
  OBVIOUS
<1> USE DEF kernelVars, threadVars, serverVars, userVars
<1>1. CASE ReaderRead
  BY <1>1 DEF ReaderRead, TypeOK
<1>2. CASE ReaderSend
  <2>1. mailbox' \in Seq(Messages)
    <3>1. mailbox \in Seq(Messages) /\ Msg("data", nread, 0) \in Messages
      BY MessageTypes DEF TypeOK
    <3>2. QED
      BY <1>2, <3>1 DEF ReaderSend, Deliver
  <2>2. lost' \subseteq Nat
    BY <1>2 DEF ReaderSend, TypeOK
  <2>3. QED
    BY <1>2, <2>1, <2>2 DEF ReaderSend, TypeOK
<1>3. CASE ReaderEof
  BY <1>3 DEF ReaderEof, TypeOK
<1>4. CASE ReaderClose
  <2>1. fdOpen' \in BOOLEAN
    BY <1>4, FalseType DEF ReaderClose
  <2>2. QED
    BY <1>4, <2>1 DEF ReaderClose, TypeOK
<1>5. CASE ReaderHangup
  BY <1>5, SignalTypes DEF ReaderHangup, TypeOK
<1>6. QED
  BY <1>1, <1>2, <1>3, <1>4, <1>5 DEF Reader

LEMMA WaiterTypes == TypeOK /\ Waiter => TypeOK'
<1> SUFFICES ASSUME TypeOK, Waiter
             PROVE  TypeOK'
  OBVIOUS
<1> USE DEF kernelVars, threadVars, serverVars, userVars
<1>1. CASE WaiterStart
  <2>1. sigchldIgnored' \in BOOLEAN
    BY <1>1, FalseType DEF WaiterStart
  <2>2. QED
    BY <1>1, <2>1 DEF WaiterStart, TypeOK
<1>2. CASE WaiterReap
  <2>1. report' \in Nat \X Nat
    BY <1>2, StatusTypes DEF WaiterReap, TypeOK
  <2>2. QED
    BY <1>2, <2>1 DEF WaiterReap, TypeOK
<1>3. CASE WaiterSend
  <2>1. ExitReport \in Seq(Messages)
    BY MessageTypes DEF ExitReport, TypeOK
  <2>2. mailbox' \in Seq(Messages)
    BY <1>3, <2>1 DEF WaiterSend, TypeOK
  <2>3. QED
    BY <1>3, <2>2 DEF WaiterSend, TypeOK
<1>4. CASE WaiterFree
  BY <1>4 DEF WaiterFree, TypeOK
<1>5. CASE WaiterErase
  <2>1. registered' \in BOOLEAN
    BY <1>5, FalseType DEF WaiterErase
  <2>2. QED
    BY <1>5, <2>1 DEF WaiterErase, TypeOK
<1>6. QED
  BY <1>1, <1>2, <1>3, <1>4, <1>5 DEF Waiter

LEMMA CallTypes == TypeOK /\ (CallWrite \/ CallKill) => TypeOK'
<1> SUFFICES ASSUME TypeOK, CallWrite \/ CallKill
             PROVE  TypeOK'
  OBVIOUS
<1> USE DEF kernelVars, threadVars, userVars
<1>1. CASE CallWrite
  <2>1. mailbox' \in Seq(Messages)
    BY <1>1, MessageTypes, DataAssumption DEF CallWrite, Deliver, TypeOK
  <2>2. QED
    BY <1>1, <2>1 DEF CallWrite, TypeOK
<1>2. CASE CallKill
  <2>1. mailbox' \in Seq(Messages)
    BY <1>2, MessageTypes, DataAssumption DEF CallKill, Deliver, TypeOK
  <2>2. QED
    BY <1>2, <2>1 DEF CallKill, TypeOK
<1>3. QED
  BY <1>1, <1>2

\* One round of the write loop moves at most what is left of the binary.
LEMMA RoundTypes ==
  ASSUME TypeOK, NEW k \in 1 .. nbytes
  PROVE  /\ k \in Nat
         /\ bytes_written + k \in Nat
         /\ k <= BufferSize
         /\ bytes_written + k <= job.size
BY BoundsAssumption DEF nbytes, TypeOK

LEMMA ReplyTypes ==
  ASSUME TypeOK, NEW w \in [id : Nat, size : Nat], NEW n \in Nat, Reply(w, n)
  PROVE  replies' \in Seq([id : Nat, size : Nat, written : Nat])
BY DEF Reply, TypeOK

LEMMA AdvanceTypes ==
  ASSUME TypeOK, NEW k \in 1 .. nbytes, Advance(k)
  PROVE  /\ bytes_written' \in Nat
         /\ server' \in {"idle", "writeLoop"}
         /\ replies' \in Seq([id : Nat, size : Nat, written : Nat])
<1>1. bytes_written' \in Nat
  BY RoundTypes DEF Advance
<1>2. job \in [id : Nat, size : Nat] /\ job.size \in Nat
  BY DEF TypeOK
<1>3. replies' \in Seq([id : Nat, size : Nat, written : Nat])
  BY <1>2, ReplyTypes DEF Advance, TypeOK
<1>4. QED
  BY <1>1, <1>3 DEF Advance

LEMMA ServerTypes == TypeOK /\ Server => TypeOK'
<1> SUFFICES ASSUME TypeOK, Server
             PROVE  TypeOK'
  OBVIOUS
<1> USE DEF kernelVars, threadVars, serverVars, userVars
<1>1. CASE SpawnWaiter \/ SpawnReader \/ SpawnInsert
  <2>1. CASE SpawnWaiter
    BY <2>1 DEF SpawnWaiter, TypeOK
  <2>2. CASE SpawnReader
    BY <2>2 DEF SpawnReader, TypeOK
  <2>3. CASE SpawnInsert
    BY <2>3 DEF SpawnInsert, TypeOK
  <2>4. QED
    BY <1>1, <2>1, <2>2, <2>3
<1>2. CASE HandleData
  <2>1. mailbox' \in Seq(Messages) /\ Head(mailbox).a \in Nat
    BY <1>2, ReceiveTypes DEF HandleData, Receives, TypeOK
  <2>2. QED
    BY <1>2, <2>1 DEF HandleData, TypeOK
<1>3. CASE HandleExit
  <2>1. mailbox' \in Seq(Messages)
        /\ Head(mailbox).a \in Nat /\ Head(mailbox).b \in Nat
    BY <1>3, ReceiveTypes DEF HandleExit, Receives, TypeOK
  <2>2. QED
    BY <1>3, <2>1 DEF HandleExit, TypeOK
<1>4. CASE HandleKill
  <2>1. mailbox' \in Seq(Messages)
    BY <1>4, ReceiveTypes DEF HandleKill, Receives, TypeOK
  <2>2. registered' \in BOOLEAN
    BY <1>4, FalseType DEF HandleKill
  <2>3. child' \in {"running", "zombie", "reaped"} /\ status' \in Deaths
    BY <1>4, SignalTypes DEF HandleKill
  <2>4. QED
    BY <1>4, <2>1, <2>2, <2>3 DEF HandleKill, TypeOK
<1>5. CASE HandleWrite
  <2>1. mailbox' \in Seq(Messages)
        /\ Head(mailbox).a \in Nat /\ Head(mailbox).b \in Nat
    BY <1>5, ReceiveTypes DEF HandleWrite, Receives, TypeOK
  <2>2. [id |-> Head(mailbox).a, size |-> Head(mailbox).b]
          \in [id : Nat, size : Nat]
    BY <2>1
  <2>3. replies' \in Seq([id : Nat, size : Nat, written : Nat])
    BY <1>5, <2>2, ReplyTypes DEF HandleWrite, TypeOK
  <2>4. job' \in [id : Nat, size : Nat] /\ bytes_written' \in Nat
    BY <1>5, <2>2 DEF HandleWrite
  <2>5. server' \in {"idle", "writeLoop"}
    BY <1>5 DEF HandleWrite, Receives
  <2>6. QED
    BY <1>5, <2>1, <2>3, <2>4, <2>5 DEF HandleWrite, TypeOK
<1>6. CASE WriteLoop
  <2>1. job \in [id : Nat, size : Nat] /\ bytes_written \in Nat
    BY DEF TypeOK
  <2>2. replies' \in Seq([id : Nat, size : Nat, written : Nat])
    BY <1>6, <2>1, ReplyTypes DEF WriteLoop, TypeOK
  <2>3. QED
    BY <1>6, <2>2 DEF WriteLoop, TypeOK
<1>7. CASE WriteTaken
  <2>1. PICK k \in 1 .. nbytes :
          /\ Advance(k)
          /\ accepted' = accepted \o
               [i \in 1 .. k |-> <<job.id, bytes_written + i>>]
    BY <1>7 DEF WriteTaken
  <2>2. [i \in 1 .. k |-> <<job.id, bytes_written + i>>] \in Seq(Nat \X Nat)
    BY RoundTypes DEF TypeOK
  <2>3. accepted' \in Seq(Nat \X Nat)
    BY <2>1, <2>2 DEF TypeOK
  <2>4. /\ bytes_written' \in Nat
        /\ server' \in {"idle", "writeLoop"}
        /\ replies' \in Seq([id : Nat, size : Nat, written : Nat])
    BY <2>1, AdvanceTypes
  <2>5. /\ UNCHANGED <<child, status, sigchldIgnored, wrote, nread, consumed>>
        /\ UNCHANGED <<owed, fdOpen, reader, waiter, fd_closed, process>>
        /\ UNCHANGED <<report, registered, mailbox, job, stray, writes>>
        /\ UNCHANGED <<kills, seen, lost, exits>>
    BY <1>7 DEF WriteTaken
  <2>6. QED
    BY <2>3, <2>4, <2>5 DEF TypeOK
<1>8. CASE WriteStray
  <2>1. PICK k \in 1 .. nbytes :
          /\ Advance(k)
          /\ stray' = stray \cup Offsets(k)
    BY <1>8 DEF WriteStray
  <2>2. ASSUME NEW i \in 1 .. k
        PROVE  job.id \in Nat /\ bytes_written + i \in Nat
    BY RoundTypes DEF TypeOK
  <2>3. Offsets(k) \subseteq Nat \X Nat
    BY <2>2 DEF Offsets
  <2>4. stray' \subseteq Nat \X Nat
    BY <2>1, <2>3 DEF TypeOK
  <2>5. /\ bytes_written' \in Nat
        /\ server' \in {"idle", "writeLoop"}
        /\ replies' \in Seq([id : Nat, size : Nat, written : Nat])
    BY <2>1, AdvanceTypes
  <2>6. QED
    BY <1>8, <2>4, <2>5 DEF WriteStray, TypeOK
<1>9. CASE WriteRefused
  BY <1>9 DEF WriteRefused, TypeOK
<1>10. QED
  BY <1>1, <1>2, <1>3, <1>4, <1>5, <1>6, <1>7, <1>8, <1>9 DEF Server

\* Whatever the program, the threads and the callers do, the state of the
\* session keeps its types: no counter runs below zero and no message is
\* malformed.
THEOREM TypeCorrect == Spec => []TypeOK
<1>1. Init => TypeOK
  BY InitTypes
<1>2. TypeOK /\ [Next]_vars => TypeOK'
  <2> SUFFICES ASSUME TypeOK, [Next]_vars
               PROVE  TypeOK'
    OBVIOUS
  <2>1. CASE UNCHANGED vars
    BY <2>1 DEF TypeOK, vars, kernelVars, threadVars, serverVars, userVars
  <2>2. QED
    BY <2>1, ChildTypes, ReaderTypes, WaiterTypes, CallTypes, ServerTypes
       DEF Next, Environment
<1>3. QED
  BY <1>1, <1>2, PTL DEF Spec

-----------------------------------------------------------------------------
(* The mailbox.                                                            *)

\* A message that is sent takes the last place.
LEMMA QueuedAfterSend ==
  ASSUME TypeOK, NEW m \in Messages, mailbox' = Append(mailbox, m)
  PROVE  /\ Len(mailbox) \in Nat
         /\ \A i \in DOMAIN mailbox :
              i \in DOMAIN mailbox' /\ mailbox'[i] = mailbox[i]
         /\ mailbox'[Len(mailbox) + 1] = m
         /\ \A tag : Queued(tag)' = Queued(tag) \cup
              (IF m.tag = tag THEN {Len(mailbox) + 1} ELSE {})
<1>1. /\ mailbox \in Seq(Messages)
      /\ DOMAIN mailbox = 1 .. Len(mailbox)
      /\ Len(mailbox) \in Nat
  BY DEF TypeOK
<1>2. /\ DOMAIN mailbox' = 1 .. Len(mailbox) + 1
      /\ \A i \in DOMAIN mailbox : mailbox'[i] = mailbox[i]
      /\ mailbox'[Len(mailbox) + 1] = m
  BY <1>1
<1>3. QED
  BY <1>1, <1>2 DEF Queued

\* A message that is received makes the others move up.
LEMMA QueuedAfterReceive ==
  ASSUME TypeOK, NEW t, Receives(t)
  PROVE  /\ 1 \in Queued(t)
         /\ Head(mailbox) = mailbox[1]
         /\ \A i \in DOMAIN mailbox' :
              i + 1 \in DOMAIN mailbox /\ mailbox'[i] = mailbox[i + 1]
         /\ \A tag : \A i : i \in Queued(tag)' <=>
              i \in DOMAIN mailbox' /\ i + 1 \in Queued(tag)
         /\ \A tag : \A i \in Queued(tag) :
              i # 1 => i - 1 \in Queued(tag)' /\ mailbox'[i - 1] = mailbox[i]
<1>1. /\ mailbox \in Seq(Messages)
      /\ mailbox # <<>>
      /\ mailbox' = Tail(mailbox)
      /\ Head(mailbox).tag = t
  BY DEF Receives, TypeOK
<1>2. /\ DOMAIN mailbox = 1 .. Len(mailbox)
      /\ Len(mailbox) \in Nat
      /\ Len(mailbox) >= 1
      /\ Head(mailbox) = mailbox[1]
  BY <1>1
<1>3. /\ DOMAIN mailbox' = 1 .. Len(mailbox) - 1
      /\ \A i \in 1 .. Len(mailbox) - 1 : mailbox'[i] = mailbox[i + 1]
  BY <1>1, <1>2
<1>4. QED
  BY <1>1, <1>2, <1>3 DEF Queued

-----------------------------------------------------------------------------
(* Output is lost only after the exit message.                             *)

Announced == exits # <<>> \/ Queued("exit") # {}

\* Output is lost only through the freed pid, which is freed only by a
\* waiter that has announced the end.
LossInv ==
  /\ lost # {} => process = "freed"
  /\ process = "freed" => waiter \in {"erase", "done"}
  /\ waiter \in {"free", "erase", "done"} => Announced
  /\ server = "spawnWaiter" => waiter = "none"

\* Sending and receiving never take an announcement back.
LEMMA AnnouncedAfterSend ==
  ASSUME TypeOK, NEW m \in Messages, mailbox' = Append(mailbox, m),
         exits' = exits, Announced
  PROVE  Announced'
BY QueuedAfterSend DEF Announced

LEMMA AnnouncedAfterReceive ==
  ASSUME TypeOK, NEW t, t # "exit", Receives(t), exits' = exits, Announced
  PROVE  Announced'
<1>1. ASSUME NEW i \in Queued("exit")
      PROVE  Queued("exit")' # {}
  <2>1. mailbox[1].tag = t
    BY QueuedAfterReceive DEF Queued
  <2>2. i # 1
    BY <2>1 DEF Queued
  <2>3. QED
    BY <2>2, QueuedAfterReceive
<1>2. QED
  BY <1>1 DEF Announced

\* A caller puts one message, a request, into the mailbox.
LEMMA CallSends ==
  ASSUME TypeOK, CallWrite \/ CallKill
  PROVE  \E m \in Messages :
           m.tag \in {"write", "kill"} /\ mailbox' = Append(mailbox, m)
<1>1. CASE CallWrite
  <2>1. PICK size \in WriteSizes :
          mailbox' = Append(mailbox, Msg("write", writes + 1, size))
    BY <1>1 DEF CallWrite, Deliver
  <2>2. Msg("write", writes + 1, size) \in Messages
    BY MessageTypes, DataAssumption DEF TypeOK
  <2>3. QED
    BY <2>1, <2>2 DEF Msg
<1>2. CASE CallKill
  <2>1. PICK sig \in Signals : mailbox' = Append(mailbox, Msg("kill", sig, 0))
    BY <1>2 DEF CallKill, Deliver
  <2>2. Msg("kill", sig, 0) \in Messages
    BY MessageTypes, DataAssumption
  <2>3. QED
    BY <2>1, <2>2 DEF Msg
<1>3. QED
  BY <1>1, <1>2

LEMMA LossStep ==
  TypeOK /\ LossInv /\ [Next]_vars => LossInv'
<1> SUFFICES ASSUME TypeOK, LossInv, [Next]_vars
             PROVE  LossInv'
  OBVIOUS
<1> USE DEF kernelVars, threadVars, serverVars, userVars
<1>1. ASSUME UNCHANGED <<lost, process, waiter, exits, mailbox>>,
             server' = "spawnWaiter" => server = "spawnWaiter"
      PROVE  LossInv'
  BY <1>1 DEF LossInv, Announced, Queued
<1>2. ASSUME UNCHANGED <<lost, process, waiter>>, Announced => Announced',
             server' = "spawnWaiter" => server = "spawnWaiter"
      PROVE  LossInv'
  BY <1>2 DEF LossInv
<1>3. CASE ChildWrite \/ ChildRead \/ ChildExit \/ UNCHANGED vars
  BY <1>1, <1>3 DEF ChildWrite, ChildRead, ChildExit, vars
<1>4. CASE ReaderRead \/ ReaderEof \/ ReaderClose \/ ReaderHangup
  BY <1>1, <1>4 DEF ReaderRead, ReaderEof, ReaderClose, ReaderHangup
<1>5. CASE ReaderSend
  <2>1. CASE Deliver(Msg("data", nread, 0)) /\ lost' = lost
    <3>1. Msg("data", nread, 0) \in Messages
      BY MessageTypes DEF TypeOK
    <3>2. Announced => Announced'
      BY <1>5, <2>1, <3>1, AnnouncedAfterSend DEF ReaderSend, Deliver
    <3>3. QED
      BY <1>2, <1>5, <2>1, <3>2 DEF ReaderSend
  <2>2. CASE process = "freed" /\ mailbox' = mailbox
    BY <1>5, <2>2 DEF ReaderSend, LossInv, Announced, Queued
  <2>3. QED
    BY <1>5, <2>1, <2>2 DEF ReaderSend
<1>6. CASE WaiterStart \/ WaiterReap
  BY <1>6 DEF WaiterStart, WaiterReap, LossInv, Announced, Queued
<1>7. CASE WaiterSend
  <2>1. Msg("exit", report[1], report[2]) \in Messages
    BY MessageTypes DEF TypeOK
  <2>2. mailbox' = Append(mailbox, Msg("exit", report[1], report[2]))
    BY <1>7, <2>1 DEF WaiterSend, ExitReport, TypeOK
  <2>3. Len(mailbox) + 1 \in Queued("exit")'
    BY <2>1, <2>2, QueuedAfterSend DEF Msg
  <2>4. QED
    BY <1>7, <2>3 DEF WaiterSend, LossInv, Announced
<1>8. CASE WaiterFree \/ WaiterErase
  BY <1>8 DEF WaiterFree, WaiterErase, LossInv, Announced, Queued
<1>9. CASE CallWrite \/ CallKill
  <2>1. PICK m \in Messages : mailbox' = Append(mailbox, m)
    BY <1>9, CallSends
  <2>2. UNCHANGED <<lost, process, waiter, exits, server>>
    BY <1>9 DEF CallWrite, CallKill
  <2>3. QED
    BY <1>2, <2>1, <2>2, AnnouncedAfterSend
<1>10. CASE SpawnWaiter
  BY <1>10 DEF SpawnWaiter, LossInv, Announced, Queued
<1>11. CASE SpawnReader \/ SpawnInsert \/ WriteLoop \/ WriteTaken
            \/ WriteStray \/ WriteRefused
  <2>1. UNCHANGED <<lost, process, waiter, exits, mailbox>>
    BY <1>11 DEF SpawnReader, SpawnInsert, WriteLoop, WriteTaken, WriteStray,
                 WriteRefused
  <2>2. server' # "spawnWaiter"
    BY <1>11 DEF SpawnReader, SpawnInsert, WriteLoop, WriteTaken, WriteStray,
                 WriteRefused, Advance
  <2>3. QED
    BY <1>1, <2>1, <2>2
<1>12. CASE HandleData \/ HandleKill \/ HandleWrite
  <2>1. PICK t \in {"data", "kill", "write"} : Receives(t)
    BY <1>12 DEF HandleData, HandleKill, HandleWrite
  <2>2. UNCHANGED <<lost, process, waiter, exits>>
        /\ server' # "spawnWaiter"
    BY <1>12 DEF HandleData, HandleKill, HandleWrite, Receives
  <2>3. QED
    BY <1>2, <2>1, <2>2, AnnouncedAfterReceive
<1>13. CASE HandleExit
  <2>1. exits' # <<>>
    <3>1. exits \in Seq(Nat \X Nat)
      BY DEF TypeOK
    <3>2. PICK r : exits' = Append(exits, r)
      BY <1>13 DEF HandleExit
    <3>3. QED
      BY <3>1, <3>2
  <2>2. UNCHANGED <<lost, process, waiter, server>>
    BY <1>13 DEF HandleExit
  <2>3. QED
    BY <1>2, <2>1, <2>2 DEF Announced
<1>14. QED
  BY <1>3, <1>4, <1>5, <1>6, <1>7, <1>8, <1>9, <1>10, <1>11, <1>12, <1>13
     DEF Next, Environment, Reader, Waiter, Server

\* The output of a program is complete in the mailbox at least until its
\* exit message is there: the waiter thread frees the pid that both threads
\* send to, but not before it has used it itself.
THEOREM LossOnlyAfterExitTheorem == Spec => []LossOnlyAfterExit
<1>1. Init => LossInv
  BY DEF Init, LossInv
<1>2. TypeOK /\ LossInv /\ [Next]_vars => LossInv'
  BY LossStep
<1>3. LossInv => LossOnlyAfterExit
  BY DEF LossInv, LossOnlyAfterExit, Announced
<1>4. QED
  BY <1>1, <1>2, <1>3, TypeCorrect, PTL DEF Spec

-----------------------------------------------------------------------------
(* The terminal is closed when there is nothing left to read.              *)

CloseInv ==
  /\ nread <= wrote
  /\ fd_closed => child # "running" /\ nread = wrote
  /\ fd_closed => reader \in {"close", "hangup", "done"}
  /\ fd_closed => server # "spawnReader"
  /\ server \in {"spawnWaiter", "spawnReader"} => reader = "none"

\* A program that is not running does not run again.
LEMMA DeathIsFinal ==
  [Next]_vars /\ child # "running" => child' # "running"
<1> SUFFICES ASSUME [Next]_vars, child # "running"
             PROVE  child' # "running"
  OBVIOUS
<1> USE DEF kernelVars, threadVars, serverVars, userVars
<1>1. CASE Environment \/ UNCHANGED vars
  BY <1>1 DEF Environment, ChildWrite, ChildRead, ChildExit, CallWrite,
              CallKill, vars
<1>2. CASE Reader
  BY <1>2 DEF Reader, ReaderRead, ReaderSend, ReaderEof, ReaderClose,
              ReaderHangup, SignalChild
<1>3. CASE Waiter
  BY <1>3 DEF Waiter, WaiterStart, WaiterReap, WaiterSend, WaiterFree,
              WaiterErase
<1>4. CASE Server
  BY <1>4 DEF Server, SpawnWaiter, SpawnReader, SpawnInsert, HandleData,
              HandleExit, HandleKill, HandleWrite, WriteLoop, WriteTaken,
              WriteStray, WriteRefused, SignalChild
<1>5. QED
  BY <1>1, <1>2, <1>3, <1>4 DEF Next

LEMMA CloseStep == TypeOK /\ CloseInv /\ [Next]_vars => CloseInv'
<1> SUFFICES ASSUME TypeOK, CloseInv, [Next]_vars
             PROVE  CloseInv'
  OBVIOUS
<1> USE DEF kernelVars, threadVars, serverVars, userVars
<1>1. ASSUME UNCHANGED <<fd_closed, nread, wrote, reader>>,
             server' \in {"spawnWaiter", "spawnReader"} =>
               server \in {"spawnWaiter", "spawnReader"},
             server' = "spawnReader" => ~fd_closed
      PROVE  CloseInv'
  BY <1>1, DeathIsFinal DEF CloseInv
<1>2. CASE ChildWrite
  BY <1>2 DEF ChildWrite, CloseInv, TypeOK
<1>3. CASE ChildRead \/ ChildExit \/ CallWrite \/ CallKill \/ UNCHANGED vars
  <2>1. UNCHANGED <<fd_closed, nread, wrote, reader, server>>
    BY <1>3 DEF ChildRead, ChildExit, CallWrite, CallKill, vars
  <2>2. QED
    BY <1>1, <2>1 DEF CloseInv
<1>4. CASE ReaderRead
  <2>1. nread < wrote
    <3>1. nread + 1 .. wrote # {}
      BY <1>4 DEF ReaderRead, ReadReady, Output
    <3>2. QED
      BY <3>1 DEF TypeOK
  <2>2. QED
    BY <1>4, <2>1 DEF ReaderRead, CloseInv, TypeOK
<1>5. CASE ReaderSend
  BY <1>5 DEF ReaderSend, CloseInv
<1>6. CASE ReaderEof
  <2>1. child # "running" /\ nread + 1 .. wrote = {}
    BY <1>6 DEF ReaderEof, EofSeen, Output, Hungup
  <2>2. ~(nread < wrote)
    <3>1. nread < wrote => nread + 1 \in nread + 1 .. wrote
      BY DEF TypeOK
    <3>2. QED
      BY <2>1, <3>1
  <2>3. QED
    BY <1>6, <2>1, <2>2 DEF ReaderEof, CloseInv, TypeOK
<1>7. CASE ReaderClose \/ ReaderHangup
  BY <1>7, DeathIsFinal DEF ReaderClose, ReaderHangup, CloseInv
<1>8. CASE Waiter
  <2>1. UNCHANGED <<fd_closed, nread, wrote, reader, server>>
    BY <1>8 DEF Waiter, WaiterStart, WaiterReap, WaiterSend, WaiterFree,
                WaiterErase
  <2>2. QED
    BY <1>1, <2>1 DEF CloseInv
<1>9. CASE SpawnWaiter
  BY <1>9 DEF SpawnWaiter, CloseInv
<1>10. CASE SpawnReader
  BY <1>10 DEF SpawnReader, CloseInv
<1>11. CASE SpawnInsert \/ HandleData \/ HandleExit \/ HandleKill
            \/ HandleWrite \/ WriteLoop \/ WriteTaken \/ WriteStray
            \/ WriteRefused
  <2>1. UNCHANGED <<fd_closed, nread, wrote, reader>>
    BY <1>11 DEF SpawnInsert, HandleData, HandleExit, HandleKill, HandleWrite,
                 WriteLoop, WriteTaken, WriteStray, WriteRefused
  <2>2. server' \notin {"spawnWaiter", "spawnReader"}
    BY <1>11 DEF SpawnInsert, HandleData, HandleExit, HandleKill, HandleWrite,
                 WriteLoop, WriteTaken, WriteStray, WriteRefused, Receives,
                 Advance
  <2>3. QED
    BY <1>1, <2>1, <2>2
<1>12. QED
  BY <1>2, <1>3, <1>4, <1>5, <1>6, <1>7, <1>8, <1>9, <1>10, <1>11
     DEF Next, Environment, Reader, Server

\* The master descriptor is given up, and with it every write in progress,
\* only when the program is dead and its last output has been read.
THEOREM CloseLosesNothingTheorem == Spec => []CloseLosesNothing
<1>1. Init => CloseInv
  BY DEF Init, CloseInv
<1>2. TypeOK /\ CloseInv /\ [Next]_vars => CloseInv'
  BY CloseStep
<1>3. CloseInv => CloseLosesNothing
  BY DEF CloseInv, CloseLosesNothing
<1>4. QED
  BY <1>1, <1>2, <1>3, TypeCorrect, PTL DEF Spec

-----------------------------------------------------------------------------
(* The report of the end is true and is made once.                         *)

ExitInv ==
  /\ sigchldIgnored = FALSE
  /\ server = "spawnWaiter" => waiter = "none"
  /\ child = "reaped" <=> waiter \in {"send", "free", "erase", "done"}
  /\ waiter = "send" => report = Encode(status)
  /\ waiter \in {"none", "start", "wait", "send"} => ~Announced
  /\ ExitTrue

\* What a step other than waitpid does to a program: it may die, once, and
\* it stays a zombie until it is waited for.
StatusKept ==
  /\ child' = "reaped" <=> child = "reaped"
  /\ child # "running" => status' = status

LEMMA StatusStep ==
  ASSUME sigchldIgnored = FALSE, [Next]_vars, ~WaiterReap
  PROVE  StatusKept
<1> USE DEF kernelVars, threadVars, serverVars, userVars, StatusKept
<1>1. CASE Environment \/ UNCHANGED vars
  BY <1>1 DEF Environment, ChildWrite, ChildRead, ChildExit, CallWrite,
              CallKill, Dies, vars
<1>2. CASE Reader
  BY <1>2 DEF Reader, ReaderRead, ReaderSend, ReaderEof, ReaderClose,
              ReaderHangup, SignalChild, Dies
<1>3. CASE Waiter
  BY <1>3 DEF Waiter, WaiterStart, WaiterSend, WaiterFree, WaiterErase
<1>4. CASE Server
  BY <1>4 DEF Server, SpawnWaiter, SpawnReader, SpawnInsert, HandleData,
              HandleExit, HandleKill, HandleWrite, WriteLoop, WriteTaken,
              WriteStray, WriteRefused, SignalChild, Dies
<1>5. QED
  BY <1>1, <1>2, <1>3, <1>4 DEF Next

\* The messages that are not reports come and go without changing what is
\* reported.
SameReports ==
  \/ mailbox' = mailbox
  \/ \E m \in Messages : m.tag # "exit" /\ mailbox' = Append(mailbox, m)
  \/ \E t : t # "exit" /\ Receives(t)

LEMMA ReportsKept ==
  ASSUME TypeOK, ExitTrue, StatusKept, SameReports, exits' = exits
  PROVE  ExitTrue' /\ (Announced' => Announced)
<1>0. Queued("exit") # {} \/ exits # <<>> => status' = status
  BY DEF ExitTrue, StatusKept
<1>1. CASE mailbox' = mailbox
  <2>1. Queued("exit")' = Queued("exit")
    BY <1>1 DEF Queued
  <2>2. QED
    BY <1>0, <1>1, <2>1 DEF ExitTrue, StatusKept, Announced
<1>2. ASSUME NEW m \in Messages, m.tag # "exit", mailbox' = Append(mailbox, m)
      PROVE  ExitTrue' /\ (Announced' => Announced)
  <2>1. /\ Queued("exit")' = Queued("exit")
        /\ \A i \in Queued("exit") : mailbox'[i] = mailbox[i]
    BY <1>2, QueuedAfterSend DEF Queued
  <2>2. QED
    BY <1>0, <2>1 DEF ExitTrue, StatusKept, Announced
<1>3. ASSUME NEW t, t # "exit", Receives(t)
      PROVE  ExitTrue' /\ (Announced' => Announced)
  <2>1. \A i \in Queued("exit")' :
          i \in Int /\ i + 1 \in Queued("exit") /\ mailbox'[i] = mailbox[i + 1]
    <3>1. mailbox' \in Seq(Messages)
      BY <1>3, ReceiveTypes DEF Receives, TypeOK
    <3>2. Queued("exit")' \subseteq Int
      BY <3>1 DEF Queued
    <3>3. QED
      BY <1>3, <3>2, QueuedAfterReceive
  <2>2. \A i, j \in Queued("exit")' : i = j
    BY <2>1 DEF ExitTrue
  <2>3. QED
    BY <1>0, <2>1, <2>2 DEF ExitTrue, StatusKept, Announced
<1>4. QED
  BY <1>1, <1>2, <1>3 DEF SameReports

LEMMA ExitStep ==
  TypeOK /\ ExitInv /\ [Next]_vars => ExitInv'
<1> SUFFICES ASSUME TypeOK, ExitInv, [Next]_vars
             PROVE  ExitInv'
  OBVIOUS
<1> USE DEF kernelVars, threadVars, serverVars, userVars
<1>1. ~WaiterReap => StatusKept
  BY StatusStep DEF ExitInv
<1>2. ASSUME UNCHANGED <<sigchldIgnored, waiter, report, exits>>,
             server' = "spawnWaiter" => server = "spawnWaiter",
             StatusKept, SameReports
      PROVE  ExitInv'
  <2>1. ExitTrue' /\ (Announced' => Announced)
    BY <1>2, ReportsKept DEF ExitInv
  <2>2. QED
    BY <1>2, <2>1 DEF ExitInv, StatusKept
<1>3. CASE ChildWrite \/ ChildRead \/ ChildExit \/ UNCHANGED vars
  <2>1. /\ UNCHANGED <<sigchldIgnored, waiter, report, exits, server, mailbox>>
        /\ ~WaiterReap
    BY <1>3 DEF ChildWrite, ChildRead, ChildExit, WaiterReap, vars
  <2>2. QED
    BY <1>1, <1>2, <2>1 DEF SameReports
<1>4. CASE CallWrite \/ CallKill
  <2>1. /\ UNCHANGED <<sigchldIgnored, waiter, report, exits, server>>
        /\ ~WaiterReap
    BY <1>4 DEF CallWrite, CallKill, WaiterReap
  <2>2. SameReports
    BY <1>4, CallSends DEF SameReports
  <2>3. QED
    BY <1>1, <1>2, <2>1, <2>2
<1>5. CASE Reader
  <2>1. /\ UNCHANGED <<sigchldIgnored, waiter, report, exits, server>>
        /\ ~WaiterReap
    BY <1>5 DEF Reader, ReaderRead, ReaderSend, ReaderEof, ReaderClose,
                ReaderHangup, WaiterReap
  <2>2. SameReports
    <3>1. Msg("data", nread, 0) \in Messages
          /\ Msg("data", nread, 0).tag # "exit"
      BY MessageTypes DEF Msg, TypeOK
    <3>2. QED
      BY <1>5, <3>1 DEF Reader, ReaderRead, ReaderSend, ReaderEof,
                        ReaderClose, ReaderHangup, Deliver, SameReports
  <2>3. QED
    BY <1>1, <1>2, <2>1, <2>2
<1>6. CASE WaiterStart
  BY <1>1, <1>6, ReportsKept
     DEF WaiterStart, WaiterReap, SameReports, ExitInv, StatusKept
<1>7. CASE WaiterReap
  <2>1. child = "zombie" /\ report' = Encode(status) /\ child' = "reaped"
    BY <1>7 DEF WaiterReap, ExitInv
  <2>2. Queued("exit") = {} /\ exits = <<>>
    BY <1>7 DEF WaiterReap, ExitInv, Announced
  <2>3. Queued("exit")' = {} /\ exits' = <<>>
    BY <1>7, <2>2 DEF WaiterReap, Queued
  <2>4. QED
    BY <1>7, <2>1, <2>3 DEF WaiterReap, ExitInv, ExitTrue, Announced
<1>8. CASE WaiterSend
  <2>1. /\ Queued("exit") = {}
        /\ exits = <<>>
        /\ child = "reaped"
        /\ report = Encode(status)
    BY <1>8 DEF WaiterSend, ExitInv, Announced
  <2> DEFINE m == Msg("exit", report[1], report[2])
  <2>2. m \in Messages
    BY MessageTypes DEF TypeOK
  <2>3. mailbox' = Append(mailbox, m)
    BY <1>8, <2>2, AppendIsConcat DEF WaiterSend, ExitReport, TypeOK
  <2>4. /\ Queued("exit")' = {Len(mailbox) + 1}
        /\ mailbox'[Len(mailbox) + 1] = m
    BY <2>1, <2>2, <2>3, QueuedAfterSend DEF Msg
  <2>5. <<m.a, m.b>> = report
    BY DEF Msg, TypeOK
  <2>6. ExitTrue'
    BY <1>8, <2>1, <2>4, <2>5 DEF WaiterSend, ExitTrue, Encode
  <2>7. QED
    BY <1>8, <2>6 DEF WaiterSend, ExitInv
<1>9. CASE WaiterFree \/ WaiterErase
  BY <1>1, <1>9, ReportsKept
     DEF WaiterFree, WaiterErase, WaiterReap, SameReports, ExitInv, StatusKept
<1>10. CASE SpawnWaiter
  BY <1>1, <1>10, ReportsKept
     DEF SpawnWaiter, WaiterReap, SameReports, ExitInv, StatusKept
<1>11. CASE SpawnReader \/ SpawnInsert \/ WriteLoop \/ WriteTaken
            \/ WriteStray \/ WriteRefused
  <2>1. /\ UNCHANGED <<sigchldIgnored, waiter, report, exits, mailbox>>
        /\ server' # "spawnWaiter"
        /\ ~WaiterReap
    BY <1>11 DEF SpawnReader, SpawnInsert, WriteLoop, WriteTaken, WriteStray,
                 WriteRefused, Advance, WaiterReap
  <2>2. QED
    BY <1>1, <1>2, <2>1 DEF SameReports
<1>12. CASE HandleData \/ HandleKill \/ HandleWrite
  <2>1. SameReports
    BY <1>12 DEF HandleData, HandleKill, HandleWrite, SameReports
  <2>2. /\ UNCHANGED <<sigchldIgnored, waiter, report, exits>>
        /\ server' # "spawnWaiter"
        /\ ~WaiterReap
    BY <1>12 DEF HandleData, HandleKill, HandleWrite, Receives, WaiterReap
  <2>3. QED
    BY <1>1, <1>2, <2>1, <2>2
<1>13. CASE HandleExit
  <2>1. Receives("exit")
    BY <1>13 DEF HandleExit
  <2>2. /\ Queued("exit") = {1}
        /\ <<mailbox[1].a, mailbox[1].b>> = Encode(status)
        /\ exits = <<>>
        /\ Head(mailbox) = mailbox[1]
    BY <2>1, QueuedAfterReceive DEF ExitInv, ExitTrue
  <2>3. exits' = <<Encode(status)>>
    BY <1>13, <2>2 DEF HandleExit
  <2>4. Queued("exit")' = {}
    <3>1. ASSUME NEW i \in Queued("exit")'
          PROVE  i \in DOMAIN mailbox' /\ i + 1 = 1
      BY <2>1, <2>2, QueuedAfterReceive
    <3>2. mailbox' \in Seq(Messages)
      BY <2>1, ReceiveTypes DEF Receives, TypeOK
    <3>3. QED
      BY <3>1, <3>2
  <2>5. ~WaiterReap
    BY <1>13 DEF HandleExit, WaiterReap
  <2>6. child = "reaped" /\ child' = "reaped" /\ status' = status
    BY <1>1, <2>2, <2>5 DEF ExitInv, ExitTrue, StatusKept
  <2>7. ExitTrue'
    BY <2>3, <2>4, <2>6 DEF ExitTrue, Encode
  <2>8. waiter \notin {"none", "start", "wait", "send"} /\ waiter' = waiter
    BY <1>13, <2>2 DEF HandleExit, ExitInv, Announced
  <2>9. QED
    BY <1>13, <2>6, <2>7, <2>8 DEF HandleExit, ExitInv
<1>14. QED
  BY <1>3, <1>4, <1>5, <1>6, <1>7, <1>8, <1>9, <1>10, <1>11, <1>12, <1>13
     DEF Next, Environment, Waiter, Server

LEMMA ExitStarts ==
  ASSUME HostIgnoresSigchld = FALSE
  PROVE  Init => ExitInv
<1> SUFFICES ASSUME Init
             PROVE  ExitInv
  OBVIOUS
<1>1. Queued("exit") = {} /\ exits = <<>>
  BY DEF Init, Queued
<1>2. ExitTrue
  BY <1>1 DEF ExitTrue
<1>3. QED
  BY <1>1, <1>2 DEF Init, ExitInv, Announced

\* If nobody ignored SIGCHLD before the terminal was spawned, on_exit is
\* called at most once, after the program was reaped, with the exit code and
\* the signal it died of.
THEOREM ExitTrueTheorem ==
  ASSUME HostIgnoresSigchld = FALSE
  PROVE  Spec => []ExitTrue
<1>1. Init => ExitInv
  BY ExitStarts
<1>2. TypeOK /\ ExitInv /\ [Next]_vars => ExitInv'
  BY ExitStep
<1>3. ExitInv => ExitTrue
  BY DEF ExitInv
<1>4. QED
  BY <1>1, <1>2, <1>3, TypeCorrect, PTL DEF Spec

-----------------------------------------------------------------------------
(* The messages of one tag among the others.                               *)

\* Messages of other tags come and go.
OthersMove(tag) ==
  \/ mailbox' = mailbox
  \/ \E m \in Messages : m.tag # tag /\ mailbox' = Append(mailbox, m)
  \/ \E t : t # tag /\ Receives(t)

\* The messages of a tag keep their order and what they carry, d places
\* further to the front.
MovedUp(tag, d) ==
  /\ \A i \in Queued(tag)' :
       i \in Int /\ i + d \in Queued(tag) /\ mailbox'[i] = mailbox[i + d]
  /\ \A i \in Queued(tag) :
       i \in Int /\ i - d \in Queued(tag)' /\ mailbox'[i - d] = mailbox[i]

LEMMA QueuedPlaces ==
  ASSUME TypeOK, NEW tag
  PROVE  /\ Queued(tag) \subseteq 1 .. Len(mailbox)
         /\ Len(mailbox) \in Nat
         /\ \A i \in Queued(tag) :
              mailbox[i] \in Messages /\ mailbox[i].tag = tag
                /\ mailbox[i].a \in Nat /\ mailbox[i].b \in Nat
<1>1. /\ mailbox \in Seq(Messages)
      /\ Queued(tag) \subseteq 1 .. Len(mailbox)
      /\ Len(mailbox) \in Nat
  BY DEF TypeOK, Queued
<1>2. ASSUME NEW i \in Queued(tag)
      PROVE  mailbox[i] \in Messages /\ mailbox[i].tag = tag
               /\ mailbox[i].a \in Nat /\ mailbox[i].b \in Nat
  <2>1. mailbox[i] \in Messages /\ mailbox[i].tag = tag
    BY <1>1 DEF Queued
  <2>2. QED
    BY <2>1 DEF Messages
<1>3. QED
  BY <1>1, <1>2

LEMMA OthersKeep ==
  ASSUME TypeOK, TypeOK', NEW tag, OthersMove(tag)
  PROVE  \E d \in {0, 1} : MovedUp(tag, d)
<1>1. Queued(tag) \subseteq Int /\ Queued(tag)' \subseteq Int
  <2>1. mailbox \in Seq(Messages) /\ mailbox' \in Seq(Messages)
    BY DEF TypeOK
  <2>2. QED
    BY <2>1 DEF Queued
<1>2. CASE mailbox' = mailbox
  <2>1. Queued(tag)' = Queued(tag)
    BY <1>2 DEF Queued
  <2>2. MovedUp(tag, 0)
    BY <1>1, <1>2, <2>1 DEF MovedUp
  <2>3. QED
    BY <2>2
<1>3. ASSUME NEW m \in Messages, m.tag # tag, mailbox' = Append(mailbox, m)
      PROVE  MovedUp(tag, 0)
  <2>1. /\ Queued(tag)' = Queued(tag)
        /\ \A i \in Queued(tag) : mailbox'[i] = mailbox[i]
    BY <1>3, QueuedAfterSend DEF Queued
  <2>2. QED
    BY <1>1, <2>1 DEF MovedUp
<1>4. ASSUME NEW t, t # tag, Receives(t)
      PROVE  MovedUp(tag, 1)
  <2>1. 1 \notin Queued(tag)
    BY <1>4, QueuedAfterReceive DEF Queued
  <2>2. QED
    BY <1>1, <1>4, <2>1, QueuedAfterReceive DEF MovedUp
<1>5. QED
  BY <1>2, <1>3, <1>4 DEF OthersMove

\* The first message of a tag is taken, the others follow.
LEMMA FirstTaken ==
  ASSUME TypeOK, TypeOK', NEW tag, Receives(tag)
  PROVE  /\ 1 \in Queued(tag)
         /\ Head(mailbox) = mailbox[1]
         /\ \A i \in Queued(tag)' :
              /\ i \in Int /\ i >= 1
              /\ i + 1 \in Queued(tag)
              /\ mailbox'[i] = mailbox[i + 1]
         /\ \A i \in Queued(tag) :
              i # 1 => i - 1 \in Queued(tag)' /\ mailbox'[i - 1] = mailbox[i]
<1>1. mailbox' \in Seq(Messages)
  BY DEF TypeOK
<1>2. Queued(tag)' \subseteq 1 .. Len(mailbox') /\ Len(mailbox') \in Nat
  BY <1>1 DEF Queued
<1>3. \A i \in Queued(tag)' : i \in Int /\ i >= 1
  BY <1>1, <1>2
<1>4. \A i \in Queued(tag)' : i \in DOMAIN mailbox'
  BY DEF Queued
<1>5. \A i \in Queued(tag)' :
        i + 1 \in Queued(tag) /\ mailbox'[i] = mailbox[i + 1]
  BY <1>4, QueuedAfterReceive
<1>6. QED
  BY <1>3, <1>5, QueuedAfterReceive

\* What a longer sequence holds, and that it still increases.
LEMMA RangeOfAppend ==
  ASSUME NEW S, NEW s \in Seq(S), NEW e \in S
  PROVE  Range(Append(s, e)) = Range(s) \cup {e}
<1>1. /\ Len(s) \in Nat
      /\ DOMAIN s = 1 .. Len(s)
      /\ DOMAIN Append(s, e) = (1 .. Len(s)) \cup {Len(s) + 1}
      /\ \A i \in 1 .. Len(s) : Append(s, e)[i] = s[i]
      /\ Append(s, e)[Len(s) + 1] = e
  OBVIOUS
<1>2. QED
  BY <1>1 DEF Range

LEMMA RangeOfSequence ==
  ASSUME NEW S, NEW s \in Seq(S)
  PROVE  Range(s) \subseteq S
<1>1. \A i \in DOMAIN s : s[i] \in S
  OBVIOUS
<1>2. QED
  BY <1>1 DEF Range

LEMMA IncreasingAppend ==
  ASSUME NEW s \in Seq(Nat), NEW e \in Nat,
         \A i, j \in DOMAIN s : i < j => s[i] < s[j],
         \A n \in Range(s) : n < e
  PROVE  \A i, j \in DOMAIN Append(s, e) :
           i < j => Append(s, e)[i] < Append(s, e)[j]
<1>1. /\ Len(s) \in Nat
      /\ DOMAIN s = 1 .. Len(s)
      /\ DOMAIN Append(s, e) = 1 .. Len(s) + 1
      /\ \A i \in 1 .. Len(s) : Append(s, e)[i] = s[i]
      /\ Append(s, e)[Len(s) + 1] = e
  OBVIOUS
<1>2. \A i \in 1 .. Len(s) : s[i] < e
  BY <1>1 DEF Range
<1>3. QED
  BY <1>1, <1>2

LEMMA WaiterSends ==
  ASSUME TypeOK, WaiterSend
  PROVE  \E m \in Messages :
           m.tag = "exit" /\ mailbox' = Append(mailbox, m)
<1> DEFINE m == Msg("exit", report[1], report[2])
<1>1. m \in Messages /\ m.tag = "exit"
  BY MessageTypes DEF TypeOK, Msg
<1>2. mailbox' = Append(mailbox, m)
  BY <1>1, AppendIsConcat DEF WaiterSend, ExitReport, TypeOK
<1>3. QED
  BY <1>1, <1>2

-----------------------------------------------------------------------------
(* Output.                                                                 *)

\* Only the reader thread and the on_data callback touch the output that is
\* under way.
LEMMA OutputLeftAlone ==
  ASSUME TypeOK, [Next]_vars, ~ReaderSend, ~HandleData
  PROVE  OthersMove("data") /\ UNCHANGED <<seen, lost>>
<1> USE DEF kernelVars, threadVars, serverVars, userVars
<1>1. CASE ChildWrite \/ ChildRead \/ ChildExit \/ UNCHANGED vars
  BY <1>1 DEF ChildWrite, ChildRead, ChildExit, vars, OthersMove
<1>2. CASE CallWrite \/ CallKill
  <2>1. OthersMove("data")
    BY <1>2, CallSends DEF OthersMove
  <2>2. QED
    BY <1>2, <2>1 DEF CallWrite, CallKill
<1>3. CASE Reader
  BY <1>3 DEF Reader, ReaderRead, ReaderEof, ReaderClose, ReaderHangup,
              OthersMove
<1>4. CASE WaiterSend
  BY <1>4, WaiterSends DEF WaiterSend, OthersMove
<1>5. CASE WaiterStart \/ WaiterReap \/ WaiterFree \/ WaiterErase
  BY <1>5 DEF WaiterStart, WaiterReap, WaiterFree, WaiterErase, OthersMove
<1>6. CASE HandleExit \/ HandleKill \/ HandleWrite
  BY <1>6 DEF HandleExit, HandleKill, HandleWrite, OthersMove
<1>7. CASE SpawnWaiter \/ SpawnReader \/ SpawnInsert \/ WriteLoop
           \/ WriteTaken \/ WriteStray \/ WriteRefused
  BY <1>7 DEF SpawnWaiter, SpawnReader, SpawnInsert, WriteLoop, WriteTaken,
              WriteStray, WriteRefused, OthersMove
<1>8. QED
  BY <1>1, <1>2, <1>3, <1>4, <1>5, <1>6, <1>7
     DEF Next, Environment, Waiter, Server

LEMMA OutputKept ==
  ASSUME TypeOK, TypeOK', StreamIntact, OthersMove("data"),
         UNCHANGED <<seen, lost>>
  PROVE  /\ InMailbox' = InMailbox
         /\ \A i, j \in Queued("data")' :
              i < j => mailbox'[i].a < mailbox'[j].a
<1>1. PICK d \in {0, 1} : MovedUp("data", d)
  BY OthersKeep
<1>2. InMailbox' = InMailbox
  BY <1>1 DEF MovedUp, InMailbox
<1>3. ASSUME NEW i \in Queued("data")', NEW j \in Queued("data")', i < j
      PROVE  mailbox'[i].a < mailbox'[j].a
  <2>1. /\ i \in Int /\ j \in Int
        /\ i + d \in Queued("data") /\ j + d \in Queued("data")
        /\ mailbox'[i] = mailbox[i + d] /\ mailbox'[j] = mailbox[j + d]
    BY <1>1 DEF MovedUp
  <2>2. i + d < j + d
    BY <1>3, <2>1
  <2>3. QED
    BY <2>1, <2>2 DEF StreamIntact
<1>4. QED
  BY <1>2, <1>3

LEMMA StreamStep ==
  TypeOK /\ TypeOK' /\ CloseInv /\ StreamIntact /\ [Next]_vars
    => StreamIntact'
<1> SUFFICES ASSUME TypeOK, TypeOK', CloseInv, StreamIntact, [Next]_vars
             PROVE  StreamIntact'
  OBVIOUS
<1> USE DEF kernelVars, threadVars, serverVars, userVars
<1>1. ASSUME OthersMove("data"), UNCHANGED <<seen, lost, nread>>,
             InHand' = InHand
      PROVE  StreamIntact'
  BY <1>1, OutputKept DEF StreamIntact
<1>2. CASE ReaderRead
  <2>1. OthersMove("data") /\ UNCHANGED <<seen, lost>>
    BY <1>2 DEF ReaderRead, OthersMove
  <2>2. InMailbox' = InMailbox
        /\ \A i, j \in Queued("data")' :
             i < j => mailbox'[i].a < mailbox'[j].a
    BY <2>1, OutputKept
  <2>3. /\ nread \in Nat /\ nread' = nread + 1
        /\ InHand = {} /\ InHand' = {nread + 1}
    BY <1>2 DEF ReaderRead, InHand, TypeOK
  <2>4. /\ 1 .. nread + 1 = (1 .. nread) \cup {nread + 1}
        /\ nread + 1 \notin 1 .. nread
    BY <2>3
  <2>5. QED
    BY <2>1, <2>2, <2>3, <2>4 DEF StreamIntact
<1>3. CASE ReaderSend
  <2>1. /\ InHand = {nread} /\ InHand' = {}
        /\ nread' = nread /\ seen' = seen /\ nread \in Nat
    BY <1>3 DEF ReaderSend, InHand, TypeOK
  <2>2. \A n \in Range(seen) \cup InMailbox \cup lost :
          n \in Nat /\ n < nread
    BY <2>1 DEF StreamIntact
  <2>3. CASE mailbox' = mailbox /\ lost' = lost \cup {nread}
    <3>1. Queued("data")' = Queued("data") /\ InMailbox' = InMailbox
      BY <2>3 DEF Queued, InMailbox
    <3>2. QED
      BY <2>1, <2>2, <2>3, <3>1 DEF StreamIntact
  <2>4. CASE Deliver(Msg("data", nread, 0)) /\ lost' = lost
    <3> DEFINE m == Msg("data", nread, 0)
               l == Len(mailbox) + 1
    <3>1. m \in Messages /\ m.tag = "data" /\ m.a = nread
      BY MessageTypes DEF Msg, TypeOK
    <3>2. mailbox' = Append(mailbox, m)
      BY <2>4 DEF Deliver
    <3> HIDE DEF m
    <3>3. /\ Queued("data")' = Queued("data") \cup {l}
          /\ mailbox'[l] = m
          /\ \A i \in Queued("data") : mailbox'[i] = mailbox[i]
      BY <3>1, <3>2, QueuedAfterSend DEF Queued
    <3>4. InMailbox' = InMailbox \cup {nread}
      BY <3>1, <3>3 DEF InMailbox
    <3>5. \A i \in Queued("data") : i \in Nat /\ i < l /\ l \in Nat
      BY QueuedPlaces
    <3>6. ASSUME NEW i \in Queued("data")', NEW j \in Queued("data")', i < j
          PROVE  mailbox'[i].a < mailbox'[j].a
      <4>1. i \in Queued("data")
        BY <3>3, <3>5, <3>6, QueuedPlaces
      <4>2. CASE j \in Queued("data")
        BY <3>3, <3>6, <4>1, <4>2 DEF StreamIntact
      <4>3. CASE j = l
        BY <2>2, <3>1, <3>3, <4>1, <4>3 DEF InMailbox
      <4>4. QED
        BY <3>3, <4>2, <4>3
    <3>7. QED
      BY <2>1, <2>2, <2>4, <3>4, <3>6 DEF StreamIntact
  <2>5. QED
    BY <1>3, <2>3, <2>4 DEF ReaderSend
<1>4. CASE HandleData
  <2>1. Receives("data")
    BY <1>4 DEF HandleData
  <2> DEFINE n == mailbox[1].a
  <2>2. n \in InMailbox /\ seen' = Append(seen, n) /\ n \in Nat
    BY <1>4, <2>1, FirstTaken, QueuedPlaces DEF HandleData, InMailbox
  <2>0. seen \in Seq(Nat)
    BY DEF TypeOK
  <2>3. \A k \in InMailbox' : k \in InMailbox /\ n < k
    <3>1. ASSUME NEW i \in Queued("data")'
          PROVE  mailbox'[i].a \in InMailbox /\ n < mailbox'[i].a
      BY <2>1, FirstTaken DEF InMailbox, StreamIntact
    <3>2. QED
      BY <3>1 DEF InMailbox
  <2>4. InMailbox = InMailbox' \cup {n}
    <3>1. ASSUME NEW i \in Queued("data"), i # 1
          PROVE  mailbox[i].a \in InMailbox'
      BY <2>1, <3>1, FirstTaken DEF InMailbox
    <3>2. QED
      BY <2>2, <2>3, <3>1 DEF InMailbox
  <2>5. Range(seen') = Range(seen) \cup {n}
    <3>1. Range(Append(seen, n)) = Range(seen) \cup {n}
      BY <2>0, <2>2, RangeOfAppend
    <3>2. QED
      BY <2>2, <3>1
  <2>6. \A i, j \in DOMAIN seen' : i < j => seen'[i] < seen'[j]
    <3>1. \A k \in Range(seen) : k < n
      BY <2>2 DEF StreamIntact
    <3>2. QED
      BY <2>0, <2>2, <3>1, IncreasingAppend DEF StreamIntact
  <2>7. \A i, j \in Queued("data")' :
          i < j => mailbox'[i].a < mailbox'[j].a
    BY <2>1, FirstTaken DEF StreamIntact
  <2>8. UNCHANGED <<lost, nread>> /\ InHand' = InHand
    BY <1>4 DEF HandleData, InHand
  <2>9. \A k \in Range(seen') : \A l \in InMailbox' : k < l
    BY <2>3, <2>5 DEF StreamIntact
  <2>10. QED
    BY <2>4, <2>5, <2>6, <2>7, <2>8, <2>9 DEF StreamIntact
<1>5. CASE ~ReaderRead /\ ~ReaderSend /\ ~HandleData
  <2>1. OthersMove("data") /\ UNCHANGED <<seen, lost>>
    BY <1>5, OutputLeftAlone
  <2>2. nread' = nread /\ InHand' = InHand
    <3>1. CASE Environment \/ UNCHANGED vars
      BY <3>1 DEF Environment, ChildWrite, ChildRead, ChildExit, CallWrite,
                  CallKill, vars, InHand
    <3>2. CASE Reader
      BY <1>5, <3>2 DEF Reader, ReaderEof, ReaderClose, ReaderHangup, InHand
    <3>3. CASE Waiter
      BY <3>3 DEF Waiter, WaiterStart, WaiterReap, WaiterSend, WaiterFree,
                  WaiterErase, InHand
    <3>4. CASE Server
      BY <1>5, <3>4 DEF Server, SpawnWaiter, SpawnReader, SpawnInsert,
           HandleExit, HandleKill, HandleWrite, WriteLoop, WriteTaken,
           WriteStray, WriteRefused, CloseInv, InHand
    <3>5. QED
      BY <3>1, <3>2, <3>3, <3>4 DEF Next
  <2>3. QED
    BY <1>1, <2>1, <2>2
<1>6. QED
  BY <1>2, <1>3, <1>4, <1>5

LEMMA StreamStarts == Init => CloseInv /\ StreamIntact
<1> SUFFICES ASSUME Init
             PROVE  CloseInv /\ StreamIntact
  OBVIOUS
<1>1. Queued("data") = {} /\ Range(seen) = {} /\ InHand = {} /\ lost = {}
  BY DEF Init, Queued, Range, InHand
<1>2. InMailbox = {} /\ 1 .. nread = {}
  BY <1>1 DEF InMailbox, Init
<1>3. DOMAIN seen = {}
  BY DEF Init
<1>4. QED
  BY <1>1, <1>2, <1>3 DEF Init, CloseInv, StreamIntact

\* Between read(2) in the reader thread and the on_data callback no output
\* is duplicated, reordered or forgotten, however long the program runs and
\* however the two threads and the server take turns.
THEOREM StreamIntactTheorem == Spec => []StreamIntact
<1>1. Init => CloseInv /\ StreamIntact
  BY StreamStarts
<1>2. TypeOK /\ TypeOK' /\ CloseInv /\ StreamIntact /\ [Next]_vars
        => CloseInv' /\ StreamIntact'
  BY CloseStep, StreamStep
<1>3. QED
  BY <1>1, <1>2, TypeCorrect, PTL DEF Spec
=============================================================================
