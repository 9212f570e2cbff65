------------------------- MODULE PtyContractProofs -------------------------
(***************************************************************************)
(* What the users of a session are promised, proved for buffers and        *)
(* binaries of every size: a write tells the truth about what left, a      *)
(* write that outlives its terminal does little harm, and the session      *)
(* implements PtyContract: every step of the threads, the server and the   *)
(* program is a step that the contract allows, or one its reader does not  *)
(* see.                                                                    *)
(***************************************************************************)
EXTENDS PtySessionProofs

-----------------------------------------------------------------------------
(* The writes that wait in the mailbox.                                    *)

\* They are numbered in the order they will be served, and the one that was
\* served last came before all of them.
QueueInv ==
  /\ job.id <= writes
  /\ \A i \in Queued("write") :
       /\ job.id < mailbox[i].a
       /\ mailbox[i].a <= writes
       /\ mailbox[i].b \in WriteSizes
  /\ \A i, j \in Queued("write") : i < j => mailbox[i].a < mailbox[j].a

LEMMA RequestsLeftAlone ==
  ASSUME TypeOK, [Next]_vars, ~CallWrite, ~HandleWrite
  PROVE  OthersMove("write") /\ UNCHANGED <<job, writes>>
<1> USE DEF kernelVars, threadVars, serverVars, userVars
<1>1. CASE ChildWrite \/ ChildRead \/ ChildExit \/ UNCHANGED vars
  BY <1>1 DEF ChildWrite, ChildRead, ChildExit, vars, OthersMove
<1>2. CASE CallKill
  <2>1. PICK sig \in Signals : mailbox' = Append(mailbox, Msg("kill", sig, 0))
    BY <1>2 DEF CallKill, Deliver
  <2>2. /\ Msg("kill", sig, 0) \in Messages
        /\ Msg("kill", sig, 0).tag # "write"
    BY MessageTypes, DataAssumption DEF Msg
  <2>3. OthersMove("write")
    BY <2>1, <2>2 DEF OthersMove
  <2>4. QED
    BY <1>2, <2>3 DEF CallKill
<1>3. CASE ReaderSend
  <2>1. Msg("data", nread, 0) \in Messages
        /\ Msg("data", nread, 0).tag # "write"
    BY MessageTypes DEF Msg, TypeOK
  <2>2. QED
    BY <1>3, <2>1 DEF ReaderSend, Deliver, OthersMove
<1>4. CASE ReaderRead \/ ReaderEof \/ ReaderClose \/ ReaderHangup
  BY <1>4 DEF ReaderRead, ReaderEof, ReaderClose, ReaderHangup, OthersMove
<1>5. CASE WaiterSend
  BY <1>5, WaiterSends DEF WaiterSend, OthersMove
<1>6. CASE WaiterStart \/ WaiterReap \/ WaiterFree \/ WaiterErase
  BY <1>6 DEF WaiterStart, WaiterReap, WaiterFree, WaiterErase, OthersMove
<1>7. CASE HandleData \/ HandleExit \/ HandleKill
  BY <1>7 DEF HandleData, HandleExit, HandleKill, OthersMove
<1>8. CASE SpawnWaiter \/ SpawnReader \/ SpawnInsert \/ WriteLoop
           \/ WriteTaken \/ WriteStray \/ WriteRefused
  BY <1>8 DEF SpawnWaiter, SpawnReader, SpawnInsert, WriteLoop, WriteTaken,
              WriteStray, WriteRefused, OthersMove
<1>9. QED
  BY <1>1, <1>2, <1>3, <1>4, <1>5, <1>6, <1>7, <1>8
     DEF Next, Environment, Reader, Waiter, Server

LEMMA QueueStep == TypeOK /\ TypeOK' /\ QueueInv /\ [Next]_vars => QueueInv'
<1> SUFFICES ASSUME TypeOK, TypeOK', QueueInv, [Next]_vars
             PROVE  QueueInv'
  OBVIOUS
<1>1. CASE ~CallWrite /\ ~HandleWrite
  <2>1. UNCHANGED <<job, writes>> /\ OthersMove("write")
    BY <1>1, RequestsLeftAlone
  <2>2. PICK d \in {0, 1} : MovedUp("write", d)
    BY <2>1, OthersKeep
  <2>3. ASSUME NEW i \in Queued("write")', NEW j \in Queued("write")', i < j
        PROVE  mailbox'[i].a < mailbox'[j].a
    <3>1. /\ i \in Int /\ j \in Int
          /\ i + d \in Queued("write") /\ j + d \in Queued("write")
          /\ mailbox'[i] = mailbox[i + d] /\ mailbox'[j] = mailbox[j + d]
      BY <2>2 DEF MovedUp
    <3>2. i + d < j + d
      BY <2>3, <3>1
    <3>3. QED
      BY <3>1, <3>2 DEF QueueInv
  <2>4. \A i \in Queued("write")' :
          /\ job.id < mailbox'[i].a
          /\ mailbox'[i].a <= writes
          /\ mailbox'[i].b \in WriteSizes
    BY <2>2 DEF MovedUp, QueueInv
  <2>5. QED
    BY <2>1, <2>3, <2>4 DEF QueueInv
<1>2. CASE CallWrite
  <2>1. PICK size \in WriteSizes :
          mailbox' = Append(mailbox, Msg("write", writes + 1, size))
    BY <1>2 DEF CallWrite, Deliver
  <2> DEFINE m == Msg("write", writes + 1, size)
             l == Len(mailbox) + 1
  <2>2. m \in Messages /\ m.tag = "write" /\ m.a = writes + 1 /\ m.b = size
    BY MessageTypes, DataAssumption DEF Msg, TypeOK
  <2>3. mailbox' = Append(mailbox, m)
    BY <2>1
  <2> HIDE DEF m
  <2>4. /\ Queued("write")' = Queued("write") \cup {l}
        /\ mailbox'[l] = m
        /\ \A i \in Queued("write") : mailbox'[i] = mailbox[i]
    BY <2>2, <2>3, QueuedAfterSend DEF Queued
  <2>5. \A i \in Queued("write") : i \in Nat /\ i < l /\ l \in Nat
    BY QueuedPlaces
  <2>6. job' = job /\ writes' = writes + 1 /\ writes \in Nat /\ job.id \in Nat
    BY <1>2 DEF CallWrite, TypeOK
  <2>7. \A i \in Queued("write")' :
          /\ job.id < mailbox'[i].a
          /\ mailbox'[i].a <= writes + 1
          /\ mailbox'[i].b \in WriteSizes
    <3>1. ASSUME NEW i \in Queued("write")
          PROVE  /\ job.id < mailbox'[i].a
                 /\ mailbox'[i].a <= writes + 1
                 /\ mailbox'[i].b \in WriteSizes
      BY <2>4, <2>6, QueuedPlaces DEF QueueInv
    <3>2. QED
      BY <2>2, <2>4, <2>6, <3>1 DEF QueueInv
  <2>8. ASSUME NEW i \in Queued("write")', NEW j \in Queued("write")', i < j
        PROVE  mailbox'[i].a < mailbox'[j].a
    <3>1. i \in Queued("write")
      BY <2>4, <2>5, <2>8, QueuedPlaces
    <3>2. CASE j \in Queued("write")
      BY <2>4, <2>8, <3>1, <3>2 DEF QueueInv
    <3>3. CASE j = l
      BY <2>2, <2>4, <2>6, <3>1, <3>3, QueuedPlaces DEF QueueInv
    <3>4. QED
      BY <2>4, <3>2, <3>3
  <2>9. job.id <= writes + 1
    BY <2>6 DEF QueueInv
  <2>10. QED
    BY <2>6, <2>7, <2>8, <2>9 DEF QueueInv
<1>3. CASE HandleWrite
  <2>1. Receives("write") /\ writes' = writes
    BY <1>3 DEF HandleWrite
  <2>2. job'.id = mailbox[1].a /\ 1 \in Queued("write")
    BY <1>3, <2>1, FirstTaken DEF HandleWrite
  <2>3. job'.id <= writes
    BY <2>2 DEF QueueInv
  <2>4. \A i \in Queued("write")' :
          /\ job'.id < mailbox'[i].a
          /\ mailbox'[i].a <= writes
          /\ mailbox'[i].b \in WriteSizes
    BY <2>1, <2>2, FirstTaken DEF QueueInv
  <2>5. \A i, j \in Queued("write")' :
          i < j => mailbox'[i].a < mailbox'[j].a
    BY <2>1, FirstTaken DEF QueueInv
  <2>6. QED
    BY <2>1, <2>3, <2>4, <2>5 DEF QueueInv
<1>4. QED
  BY <1>1, <1>2, <1>3

-----------------------------------------------------------------------------
(* What has left, and what the writes said of it.                          *)

Left == Range(accepted) \cup stray

\* Nothing has left for a write that is still in the mailbox, and a write
\* in progress has not been answered.
WriteInv ==
  /\ \A u \in Left : u[1] <= job.id
  /\ \A r \in Range(replies) : r.id <= job.id /\ (Writing => r.id # job.id)
  /\ Writing => job.size \in WriteSizes
  /\ WriteHonest

LEMMA LeftTypes ==
  ASSUME TypeOK
  PROVE  /\ Left \subseteq Nat \X Nat
         /\ \A u \in Left : u[1] \in Nat /\ u[2] \in Nat /\ u = <<u[1], u[2]>>
         /\ Range(accepted) \subseteq Left
         /\ job.id \in Nat /\ job.size \in Nat /\ bytes_written \in Nat
         /\ \A r \in Range(replies) :
              r \in [id : Nat, size : Nat, written : Nat]
<1>1. accepted \in Seq(Nat \X Nat) /\ stray \subseteq Nat \X Nat
  BY DEF TypeOK
<1>2. Range(accepted) \subseteq Nat \X Nat
  BY <1>1, RangeOfSequence
<1>3. \A r \in Range(replies) : r \in [id : Nat, size : Nat, written : Nat]
  <2>1. replies \in Seq([id : Nat, size : Nat, written : Nat])
    BY DEF TypeOK
  <2>2. QED
    BY <2>1, RangeOfSequence
<1>4. job.id \in Nat /\ job.size \in Nat /\ bytes_written \in Nat
  BY DEF TypeOK
<1>5. QED
  BY <1>1, <1>2, <1>3, <1>4 DEF Left

LEMMA EmptyPrefix == \A id : Prefix(id, 0) = {}
<1>1. 1 .. 0 = {}
  OBVIOUS
<1>2. QED
  BY <1>1 DEF Prefix

\* The units of a round are the next ones of the binary.
LEMMA NextOffsets ==
  ASSUME TypeOK, NEW k \in 1 .. nbytes
  PROVE  /\ Prefix(job.id, bytes_written) \cup Offsets(k)
              = Prefix(job.id, bytes_written + k)
         /\ \A u \in Offsets(k) :
              /\ u[1] = job.id
              /\ u[2] \in Nat
              /\ bytes_written < u[2]
              /\ u[2] <= bytes_written + k
<1>1. bytes_written \in Nat /\ k \in Nat
  BY RoundTypes DEF TypeOK
<1>2. \A n : n \in 1 .. bytes_written + k <=>
        n \in 1 .. bytes_written \/ \E i \in 1 .. k : n = bytes_written + i
  <2>1. ASSUME NEW n \in 1 .. bytes_written + k, n \notin 1 .. bytes_written
        PROVE  \E i \in 1 .. k : n = bytes_written + i
    <3>1. n - bytes_written \in 1 .. k /\ n = bytes_written + (n - bytes_written)
      BY <1>1, <2>1
    <3>2. QED
      BY <3>1
  <2>2. QED
    BY <1>1, <2>1
<1>3. Prefix(job.id, bytes_written) \cup Offsets(k)
        = Prefix(job.id, bytes_written + k)
  <2> DEFINE old == 1 .. bytes_written
             new == {bytes_written + i : i \in 1 .. k}
             all == 1 .. bytes_written + k
  <2>1. all = old \cup new
    BY <1>2, Zenon
  <2>2. Offsets(k) = {job.id} \X new
    BY DEF Offsets
  <2> HIDE DEF old, new, all
  <2>3. ({job.id} \X old) \cup ({job.id} \X new) = {job.id} \X all
    BY <2>1
  <2>4. QED
    BY <2>2, <2>3 DEF Prefix, old, all
<1>4. QED
  BY <1>1, <1>3 DEF Offsets

LEMMA ReplyAdds ==
  ASSUME TypeOK, NEW w \in [id : Nat, size : Nat], NEW n \in Nat, Reply(w, n)
  PROVE  Range(replies)' = Range(replies) \cup
                             {[id |-> w.id, size |-> w.size, written |-> n]}
<1> DEFINE Answers == [id : Nat, size : Nat, written : Nat]
           r == [id |-> w.id, size |-> w.size, written |-> n]
<1>1. r \in Answers
  OBVIOUS
<1>2. replies \in Seq(Answers) /\ replies' = Append(replies, r)
  BY DEF Reply, TypeOK
<1> HIDE DEF Answers, r
<1>3. Range(Append(replies, r)) = Range(replies) \cup {r}
  BY <1>1, <1>2, RangeOfAppend
<1>4. QED
  BY <1>2, <1>3 DEF r

\* A step that moves nothing and answers nothing keeps the account.
LEMMA AccountKept ==
  ASSUME TypeOK, WriteInv, Writing' => Writing,
         UNCHANGED <<accepted, stray, replies, job, bytes_written>>
  PROVE  WriteInv'
BY DEF WriteInv, WriteHonest, Left, Delivered, Writing

\* A round: k units leave, into the terminal or elsewhere.
LEMMA RoundKept ==
  ASSUME TypeOK, WriteInv, server = "writeSyscall", job' = job,
         NEW k \in 1 .. nbytes, Advance(k),
         Left' = Left \cup Offsets(k),
         Range(accepted)' \cap stray' = {},
         \A i, j \in DOMAIN accepted' :
           i < j => Earlier(accepted'[i], accepted'[j])
  PROVE  WriteInv'
<1>1. /\ bytes_written' = bytes_written + k
      /\ bytes_written + k <= job.size
      /\ job.id \in Nat /\ job.size \in Nat
  BY RoundTypes, LeftTypes DEF Advance
<1>2. Writing
  BY DEF Writing
<1>3. Delivered(job.id)' = Prefix(job.id, bytes_written + k)
  <2>1. Delivered(job.id)' = Delivered(job.id) \cup Offsets(k)
    BY NextOffsets DEF Delivered, Left
  <2>2. Delivered(job.id) = Prefix(job.id, bytes_written)
    BY DEF WriteInv, WriteHonest
  <2>3. QED
    BY <2>1, <2>2, NextOffsets
<1>4. \A u \in Left' : u[1] <= job'.id
  BY <1>1, NextOffsets DEF WriteInv
<1>5. ASSUME NEW r \in Range(replies)
      PROVE  /\ r.id <= job.id /\ r.id # job.id
             /\ r.written <= r.size
             /\ Delivered(r.id)' = Prefix(r.id, r.written)
  <2>1. r.id <= job.id /\ r.id # job.id
    BY <1>2 DEF WriteInv
  <2>2. r.written <= r.size /\ Delivered(r.id) = Prefix(r.id, r.written)
    BY DEF WriteInv, WriteHonest
  <2>3. Delivered(r.id)' = Delivered(r.id)
    BY <2>1, NextOffsets DEF Delivered, Left
  <2>4. QED
    BY <2>1, <2>2, <2>3
<1>6. CASE bytes_written + k = job.size
  <2> DEFINE new == [id |-> job.id, size |-> job.size, written |-> job.size]
  <2>1. server' = "idle" /\ Reply(job, job.size)
    BY <1>6 DEF Advance
  <2>2. ~Writing'
    BY <2>1 DEF Writing
  <2>3. Range(replies') = Range(replies) \cup {new}
    <3>1. job \in [id : Nat, size : Nat]
      BY DEF TypeOK
    <3>2. QED
      BY <1>1, <2>1, <3>1, ReplyAdds
  <2>4. Delivered(job.id)' = Prefix(job.id, job.size)
    BY <1>3, <1>6
  <2>5. ASSUME NEW r \in Range(replies')
        PROVE  /\ r.id <= job'.id
               /\ r.written <= r.size
               /\ Delivered(r.id)' = Prefix(r.id, r.written)
    <3>1. CASE r \in Range(replies)
      BY <1>5, <3>1
    <3>2. CASE r = new
      BY <1>1, <2>4, <3>2
    <3>3. QED
      BY <2>3, <3>1, <3>2
  <2>6. WriteHonest'
    BY <2>1, <2>5 DEF WriteHonest
  <2>7. QED
    BY <1>4, <2>2, <2>5, <2>6 DEF WriteInv
<1>7. CASE bytes_written + k # job.size
  <2>1. server' = "writeLoop" /\ replies' = replies
    BY <1>7 DEF Advance
  <2>2. ASSUME NEW r \in Range(replies')
        PROVE  /\ r.id <= job'.id /\ r.id # job'.id
               /\ r.written <= r.size
               /\ Delivered(r.id)' = Prefix(r.id, r.written)
    BY <1>5, <2>1
  <2>3. bytes_written' <= job'.size
        /\ Delivered(job.id)' = Prefix(job.id, bytes_written)'
    BY <1>1, <1>3 DEF Prefix
  <2>4. WriteHonest'
    BY <2>2, <2>3 DEF WriteHonest
  <2>5. job'.size \in WriteSizes
    BY <1>2 DEF WriteInv
  <2>6. QED
    BY <1>4, <2>2, <2>4, <2>5 DEF WriteInv
<1>8. QED
  BY <1>6, <1>7

\* A round that reaches the terminal puts its units after all the others.
LEMMA TakenInOrder ==
  ASSUME TypeOK, WriteInv, server = "writeSyscall", NEW k \in 1 .. nbytes,
         accepted' = accepted \o
           [i \in 1 .. k |-> <<job.id, bytes_written + i>>],
         stray' = stray
  PROVE  /\ Left' = Left \cup Offsets(k)
         /\ Range(accepted)' \cap stray' = {}
         /\ \A i, j \in DOMAIN accepted' :
              i < j => Earlier(accepted'[i], accepted'[j])
<1> DEFINE l == Len(accepted)
<1>1. /\ accepted \in Seq(Nat \X Nat)
      /\ l \in Nat /\ DOMAIN accepted = 1 .. l
      /\ k \in Nat /\ bytes_written \in Nat /\ job.id \in Nat
  BY RoundTypes DEF TypeOK
<1>2. [i \in 1 .. k |-> <<job.id, bytes_written + i>>] \in Seq(Nat \X Nat)
      /\ Len([i \in 1 .. k |-> <<job.id, bytes_written + i>>]) = k
  BY <1>1
<1>3. /\ DOMAIN accepted' = 1 .. l + k
      /\ \A i \in 1 .. l : accepted'[i] = accepted[i]
      /\ \A i \in 1 .. k : accepted'[l + i] = <<job.id, bytes_written + i>>
  BY <1>1, <1>2
<1> HIDE DEF l
<1>4. \A i \in 1 .. l + k :
        \/ i \in 1 .. l
        \/ i - l \in 1 .. k /\ i = l + (i - l)
  BY <1>1
<1>5. Range(accepted)' = Range(accepted) \cup Offsets(k)
  <2>1. ASSUME NEW u \in Range(accepted)'
        PROVE  u \in Range(accepted) \cup Offsets(k)
    <3>1. PICK i \in 1 .. l + k : u = accepted'[i]
      BY <1>3, <2>1 DEF Range
    <3>2. CASE i \in 1 .. l
      BY <1>1, <1>3, <3>1, <3>2 DEF Range
    <3>3. CASE i - l \in 1 .. k /\ i = l + (i - l)
      BY <1>3, <3>1, <3>3 DEF Offsets
    <3>4. QED
      BY <1>4, <3>2, <3>3
  <2>2. ASSUME NEW i \in 1 .. l
        PROVE  accepted[i] \in Range(accepted)'
    <3>1. i \in 1 .. l + k
      BY <1>1
    <3>2. QED
      BY <1>3, <3>1 DEF Range
  <2>3. ASSUME NEW i \in 1 .. k
        PROVE  <<job.id, bytes_written + i>> \in Range(accepted)'
    <3>1. l + i \in 1 .. l + k
      BY <1>1
    <3>2. QED
      BY <1>3, <3>1 DEF Range
  <2>4. Range(accepted) \subseteq Range(accepted)'
    BY <1>1, <2>2 DEF Range
  <2>5. Offsets(k) \subseteq Range(accepted)'
    BY <2>3 DEF Offsets
  <2>6. QED
    BY <2>1, <2>4, <2>5
<1>6. \A u \in Left, v \in Offsets(k) : Earlier(u, v)
  <2>1. ASSUME NEW u \in Left, NEW v \in Offsets(k)
        PROVE  Earlier(u, v)
    <3>1. /\ u[1] \in Nat /\ u[2] \in Nat /\ u[1] <= job.id
          /\ v[1] = job.id /\ v[2] \in Nat /\ bytes_written < v[2]
      BY LeftTypes, NextOffsets DEF WriteInv
    <3>2. u[1] = job.id => u[2] <= bytes_written
      <4>1. u[1] = job.id => u \in Prefix(job.id, bytes_written)
        BY DEF WriteInv, WriteHonest, Delivered, Left
      <4>2. QED
        BY <1>1, <4>1 DEF Prefix
    <3>3. QED
      BY <1>1, <3>1, <3>2 DEF Earlier
  <2>2. QED
    BY <2>1
<1>7. Offsets(k) \cap stray = {}
  <2>1. \A u \in stray : u[1] \in Nat /\ u[2] \in Nat /\ ~Earlier(u, u)
    BY LeftTypes DEF Left, Earlier
  <2>2. QED
    BY <1>6, <2>1 DEF Left
<1>8. ASSUME NEW i \in DOMAIN accepted', NEW j \in DOMAIN accepted', i < j
      PROVE  Earlier(accepted'[i], accepted'[j])
  <2>1. CASE j \in 1 .. l
    <3>1. i \in 1 .. l
      BY <1>1, <1>3, <1>8, <2>1
    <3>2. QED
      BY <1>1, <1>3, <1>8, <2>1, <3>1 DEF WriteInv, WriteHonest
  <2>2. CASE i \in 1 .. l /\ j - l \in 1 .. k /\ j = l + (j - l)
    <3>1. accepted'[i] \in Left
      BY <1>1, <1>3, <2>2 DEF Left, Range
    <3>2. accepted'[j] \in Offsets(k)
      BY <1>3, <2>2 DEF Offsets
    <3>3. QED
      BY <1>6, <3>1, <3>2
  <2>3. CASE /\ i - l \in 1 .. k /\ i = l + (i - l)
             /\ j - l \in 1 .. k /\ j = l + (j - l)
    <3>1. /\ accepted'[i] = <<job.id, bytes_written + (i - l)>>
          /\ accepted'[j] = <<job.id, bytes_written + (j - l)>>
      BY <1>3, <2>3
    <3>2. bytes_written + (i - l) < bytes_written + (j - l)
      BY <1>1, <1>8, <2>3
    <3>3. Earlier(<<job.id, bytes_written + (i - l)>>,
                  <<job.id, bytes_written + (j - l)>>)
      BY <3>2 DEF Earlier
    <3>4. QED
      BY <3>1, <3>3
  <2>4. QED
    BY <1>1, <1>3, <1>4, <1>8, <2>1, <2>2, <2>3
<1>9. Range(accepted) \cap stray = {}
  BY DEF WriteInv, WriteHonest
<1>10. QED
  BY <1>5, <1>7, <1>8, <1>9 DEF Left

\* A write that gives up says how much of it has left before.
LEMMA GivingUpKept ==
  ASSUME TypeOK, WriteInv, WriteLoop
  PROVE  WriteInv'
<1> USE DEF kernelVars, threadVars
<1>1. CASE GiveUp
  <2>1. /\ Reply(job, bytes_written) /\ server' = "idle"
        /\ UNCHANGED <<accepted, stray, job, bytes_written>>
        /\ Writing
    BY <1>1 DEF WriteLoop, Writing
  <2>2. ~Writing' /\ Left' = Left
    BY <2>1 DEF Writing, Left
  <2>3. job \in [id : Nat, size : Nat] /\ bytes_written \in Nat
    BY DEF TypeOK
  <2> DEFINE new == [id |-> job.id, size |-> job.size,
                     written |-> bytes_written]
  <2>4. Range(replies)' = Range(replies) \cup {new}
    BY <2>1, <2>3, ReplyAdds
  <2>5. \A id : Delivered(id)' = Delivered(id)
    BY <2>1 DEF Delivered
  <2>6. ASSUME NEW r \in Range(replies)'
        PROVE  /\ r.id <= job.id
               /\ r.written <= r.size
               /\ Delivered(r.id)' = Prefix(r.id, r.written)
    <3>1. CASE r \in Range(replies)
      BY <2>5, <3>1 DEF WriteInv, WriteHonest
    <3>2. CASE r = new
      BY <2>1, <2>3, <2>5, <3>2 DEF WriteInv, WriteHonest, Writing
    <3>3. QED
      BY <2>4, <3>1, <3>2
  <2>7. WriteHonest'
    BY <2>1, <2>6 DEF WriteHonest, WriteInv
  <2>8. QED
    BY <2>1, <2>2, <2>6, <2>7 DEF WriteInv
<1>2. CASE ~GiveUp
  BY <1>2, AccountKept DEF WriteLoop, Writing
<1>3. QED
  BY <1>1, <1>2

\* The server takes the next write; if the reader has given up the terminal
\* it is answered at once.
LEMMA TakingKept ==
  ASSUME TypeOK, TypeOK', WriteInv, QueueInv, HandleWrite
  PROVE  WriteInv'
<1> USE DEF kernelVars, threadVars
<1>1. PICK a \in Nat, b \in Nat : a = mailbox[1].a /\ b = mailbox[1].b
  BY FirstTaken, QueuedPlaces DEF HandleWrite
<1>2. /\ Receives("write")
      /\ job' = [id |-> a, size |-> b]
      /\ bytes_written' = 0
      /\ UNCHANGED <<accepted, stray>>
      /\ server = "idle"
  BY <1>1, QueuedAfterReceive DEF HandleWrite, Receives
<1>3. b \in WriteSizes /\ job.id < a /\ job.id \in Nat
  BY <1>1, <1>2, FirstTaken DEF QueueInv, TypeOK
<1>4. Left' = Left /\ (\A id : Delivered(id)' = Delivered(id))
  BY <1>2 DEF Left, Delivered
<1>5. \A u \in Left : u[1] < a
  BY <1>3, LeftTypes DEF WriteInv
<1>6. Delivered(a)' = Prefix(a, 0)
  <2>1. Delivered(a) = {}
    BY <1>5 DEF Delivered, Left
  <2>2. QED
    BY <1>4, <2>1, EmptyPrefix
<1>7. ASSUME NEW r \in Range(replies)
      PROVE  /\ r.id < a
             /\ r.written <= r.size
             /\ Delivered(r.id)' = Prefix(r.id, r.written)
  <2>1. r.id <= job.id /\ r.id \in Nat
    BY LeftTypes DEF WriteInv
  <2>2. QED
    BY <1>3, <1>4, <2>1 DEF WriteInv, WriteHonest
<1>8. CASE fd_closed
  <2>1. Reply([id |-> a, size |-> b], 0) /\ server' = "idle"
    BY <1>1, <1>2, <1>8, QueuedAfterReceive DEF HandleWrite
  <2>2. Range(replies)' = Range(replies) \cup
                            {[id |-> a, size |-> b, written |-> 0]}
    BY <2>1, ReplyAdds
  <2>3. ASSUME NEW r \in Range(replies)'
        PROVE  /\ r.id <= a
               /\ r.written <= r.size
               /\ Delivered(r.id)' = Prefix(r.id, r.written)
    <3>1. CASE r \in Range(replies)
      <4>1. r.id \in Nat
        BY <3>1, LeftTypes
      <4>2. QED
        BY <1>7, <3>1, <4>1
    <3>2. CASE r = [id |-> a, size |-> b, written |-> 0]
      BY <1>6, <3>2
    <3>3. QED
      BY <2>2, <3>1, <3>2
  <2>4. ~Writing'
    BY <2>1 DEF Writing
  <2>5. WriteHonest'
    BY <1>2, <2>1, <2>3 DEF WriteHonest, WriteInv
  <2>6. \A u \in Left' : u[1] <= a
    BY <1>4, <1>5, LeftTypes
  <2>7. QED
    BY <1>2, <2>3, <2>4, <2>5, <2>6 DEF WriteInv
<1>9. CASE ~fd_closed
  <2>1. replies' = replies /\ server' = "writeLoop"
    BY <1>9 DEF HandleWrite
  <2>2. ASSUME NEW r \in Range(replies)'
        PROVE  /\ r.id <= a /\ r.id # a
               /\ r.written <= r.size
               /\ Delivered(r.id)' = Prefix(r.id, r.written)
    <3>1. r \in Range(replies) /\ r.id \in Nat
      BY <2>1, LeftTypes
    <3>2. QED
      BY <1>7, <3>1
  <2>3. Delivered(job.id)' = Prefix(job.id, bytes_written)'
    <3>1. Prefix(job.id, bytes_written)' = Prefix(a, 0)
      BY <1>2 DEF Prefix
    <3>2. Delivered(job.id)' = Delivered(a)'
      BY <1>2 DEF Delivered
    <3>3. QED
      BY <1>6, <3>1, <3>2
  <2>4. WriteHonest'
    BY <1>2, <2>1, <2>2, <2>3 DEF WriteHonest, WriteInv
  <2>5. \A u \in Left' : u[1] <= a
    BY <1>4, <1>5, LeftTypes
  <2>6. QED
    BY <1>2, <1>3, <2>2, <2>4, <2>5 DEF WriteInv
<1>10. QED
  BY <1>8, <1>9

LEMMA WriteStep ==
  TypeOK /\ TypeOK' /\ QueueInv /\ WriteInv /\ [Next]_vars => WriteInv'
<1> SUFFICES ASSUME TypeOK, TypeOK', QueueInv, WriteInv, [Next]_vars
             PROVE  WriteInv'
  OBVIOUS
<1> USE DEF kernelVars, threadVars, serverVars, userVars
<1>1. CASE Environment \/ UNCHANGED vars
  BY <1>1, AccountKept DEF Environment, ChildWrite, ChildRead, ChildExit,
                           CallWrite, CallKill, vars, Writing
<1>2. CASE Reader
  BY <1>2, AccountKept DEF Reader, ReaderRead, ReaderSend, ReaderEof,
                           ReaderClose, ReaderHangup, Writing
<1>3. CASE Waiter
  BY <1>3, AccountKept DEF Waiter, WaiterStart, WaiterReap, WaiterSend,
                           WaiterFree, WaiterErase, Writing
<1>4. CASE SpawnWaiter \/ SpawnReader \/ SpawnInsert \/ HandleData
           \/ HandleExit \/ HandleKill \/ WriteRefused
  BY <1>4, AccountKept DEF SpawnWaiter, SpawnReader, SpawnInsert, HandleData,
                           HandleExit, HandleKill, WriteRefused, Receives,
                           Writing
<1>5. CASE HandleWrite
  BY <1>5, TakingKept
<1>6. CASE WriteLoop
  BY <1>6, GivingUpKept
<1>7. CASE WriteTaken
  <2>1. PICK k \in 1 .. nbytes :
          /\ Advance(k)
          /\ accepted' = accepted \o
               [i \in 1 .. k |-> <<job.id, bytes_written + i>>]
    BY <1>7 DEF WriteTaken
  <2>2. server = "writeSyscall" /\ job' = job /\ stray' = stray
    BY <1>7 DEF WriteTaken
  <2>3. QED
    BY <2>1, <2>2, TakenInOrder, RoundKept
<1>8. CASE WriteStray
  <2>1. PICK k \in 1 .. nbytes :
          /\ Advance(k)
          /\ stray' = stray \cup Offsets(k)
    BY <1>8 DEF WriteStray
  <2>2. server = "writeSyscall" /\ job' = job /\ accepted' = accepted
    BY <1>8 DEF WriteStray
  <2>3. Left' = Left \cup Offsets(k)
    BY <2>1, <2>2 DEF Left
  <2>4. Range(accepted) \cap Offsets(k) = {}
    <3>1. ASSUME NEW u \in Range(accepted), u \in Offsets(k)
          PROVE  FALSE
      <4>1. /\ u[1] = job.id /\ u[2] \in Nat /\ bytes_written < u[2]
            /\ bytes_written \in Nat
        BY <3>1, NextOffsets DEF TypeOK
      <4>2. u \in Prefix(job.id, bytes_written)
        BY <2>2, <3>1, <4>1 DEF WriteInv, WriteHonest, Delivered
      <4>3. QED
        BY <4>1, <4>2 DEF Prefix
    <3>2. QED
      BY <3>1
  <2>5. /\ Range(accepted)' \cap stray' = {}
        /\ \A i, j \in DOMAIN accepted' :
             i < j => Earlier(accepted'[i], accepted'[j])
    BY <2>1, <2>2, <2>4 DEF WriteInv, WriteHonest
  <2>6. QED
    BY <2>1, <2>2, <2>3, <2>5, RoundKept
<1>9. QED
  BY <1>1, <1>2, <1>3, <1>4, <1>5, <1>6, <1>7, <1>8 DEF Next, Server

LEMMA AccountStarts == Init => QueueInv /\ WriteInv
<1> SUFFICES ASSUME Init
             PROVE  QueueInv /\ WriteInv
  OBVIOUS
<1>1. Queued("write") = {} /\ Range(replies) = {} /\ Range(accepted) = {}
  BY DEF Init, Queued, Range
<1>2. Left = {} /\ ~Writing /\ DOMAIN accepted = {}
  BY <1>1 DEF Init, Left, Writing
<1>3. QED
  BY <1>1, <1>2 DEF Init, QueueInv, WriteInv, WriteHonest

\* The number a write returns is true, for binaries and buffers of every
\* size and however the rounds of the loop went: exactly that long a prefix
\* of the binary has left, once and in order.
THEOREM WriteHonestTheorem == Spec => []WriteHonest
<1>1. Init => QueueInv /\ WriteInv
  BY AccountStarts
<1>2. TypeOK /\ TypeOK' /\ QueueInv /\ WriteInv /\ [Next]_vars
        => QueueInv' /\ WriteInv'
  BY QueueStep, WriteStep
<1>3. WriteInv => WriteHonest
  BY DEF WriteInv
<1>4. QED
  BY <1>1, <1>2, <1>3, TypeCorrect, PTL DEF Spec

-----------------------------------------------------------------------------
(* A write that outlives its terminal.                                     *)

\* The descriptor closes after the flag went up, and once units have gone
\* astray the loop does not come back for another round.
StrayInv ==
  /\ reader = "close" => fd_closed
  /\ ~fdOpen => fd_closed
  /\ stray # {} => server # "writeSyscall"
  /\ StrayBounded

LEMMA StrayStep == TypeOK /\ StrayInv /\ [Next]_vars => StrayInv'
<1> SUFFICES ASSUME TypeOK, StrayInv, [Next]_vars
             PROVE  StrayInv'
  OBVIOUS
<1> USE DEF kernelVars, threadVars, serverVars, userVars
<1>1. ASSUME UNCHANGED <<reader, fdOpen, fd_closed, stray>>,
             server' = "writeSyscall" => server = "writeSyscall"
      PROVE  StrayInv'
  BY <1>1 DEF StrayInv, StrayBounded
<1>2. CASE Environment \/ UNCHANGED vars
  BY <1>1, <1>2 DEF Environment, ChildWrite, ChildRead, ChildExit, CallWrite,
                    CallKill, vars
<1>3. CASE Reader
  BY <1>3 DEF Reader, ReaderRead, ReaderSend, ReaderEof, ReaderClose,
              ReaderHangup, StrayInv, StrayBounded
<1>4. CASE Waiter
  BY <1>1, <1>4 DEF Waiter, WaiterStart, WaiterReap, WaiterSend, WaiterFree,
                    WaiterErase
<1>5. CASE SpawnReader
  BY <1>5 DEF SpawnReader, StrayInv, StrayBounded
<1>6. CASE SpawnWaiter \/ SpawnInsert \/ HandleData \/ HandleExit
           \/ HandleKill \/ HandleWrite \/ WriteRefused
  BY <1>1, <1>6 DEF SpawnWaiter, SpawnInsert, HandleData, HandleExit,
                    HandleKill, HandleWrite, WriteRefused, Receives
<1>7. CASE WriteLoop
  BY <1>7 DEF WriteLoop, GiveUp, StrayInv, StrayBounded
<1>8. CASE WriteTaken
  BY <1>1, <1>8 DEF WriteTaken, Advance
<1>9. CASE WriteStray
  <2>1. PICK k \in 1 .. nbytes :
          /\ Advance(k)
          /\ stray' = stray \cup Offsets(k)
    BY <1>9 DEF WriteStray
  <2>2. stray = {} /\ fd_closed /\ server' # "writeSyscall"
        /\ UNCHANGED <<reader, fdOpen, fd_closed>>
    BY <1>9, <2>1 DEF WriteStray, Advance, StrayInv
  <2>3. ASSUME NEW u \in Offsets(k), NEW v \in Offsets(k)
        PROVE  u[1] = v[1] /\ u[2] - v[2] < BufferSize
    <3>1. /\ u[1] = job.id /\ u[2] \in Nat /\ u[2] <= bytes_written + k
          /\ v[1] = job.id /\ v[2] \in Nat /\ bytes_written < v[2]
      BY NextOffsets
    <3>2. k <= BufferSize /\ k \in Nat /\ bytes_written \in Nat
      BY RoundTypes DEF TypeOK
    <3>3. QED
      BY <3>1, <3>2, BoundsAssumption
  <2>4. QED
    BY <2>1, <2>2, <2>3 DEF StrayInv, StrayBounded
<1>10. QED
  BY <1>2, <1>3, <1>4, <1>5, <1>6, <1>7, <1>8, <1>9 DEF Next, Server

\* Whatever file the BEAM opens under the number of the closed master, at
\* most one buffer of one write reaches it.
THEOREM StrayBoundedTheorem == Spec => []StrayBounded
<1>1. Init => StrayInv
  BY DEF Init, StrayInv, StrayBounded
<1>2. TypeOK /\ StrayInv /\ [Next]_vars => StrayInv'
  BY StrayStep
<1>3. StrayInv => StrayBounded
  BY DEF StrayInv
<1>4. QED
  BY <1>1, <1>2, <1>3, TypeCorrect, PTL DEF Spec

-----------------------------------------------------------------------------
(* What each step shows of the session.                                    *)

\* What the contract sees of the finished writes.
AnswersOf(s) ==
  [i \in DOMAIN s |-> [size |-> s[i].size, written |-> s[i].written]]

LEMMA AnswersAppend ==
  ASSUME NEW S, NEW s \in Seq(S), NEW r \in S
  PROVE  AnswersOf(Append(s, r))
           = Append(AnswersOf(s), [size |-> r.size, written |-> r.written])
BY DEF AnswersOf

\* A step that leaves these alone shows nothing.
LEMMA Unseen ==
  ASSUME UNCHANGED <<wrote, seen, exits, replies>>,
         \/ UNCHANGED <<child, status>>
         \/ child # "running" /\ child' # "running" /\ status' = status
  PROVE  UNCHANGED Contract!vars
BY DEF Contract!vars

LEMMA EmitSeen ==
  ASSUME TypeOK, ChildWrite
  PROVE  Contract!Emit
BY DEF ChildWrite, Contract!Emit, Contract!Alive, userVars, threadVars,
       serverVars

LEMMA DeathSeen ==
  ASSUME child = "running", child' # "running", status' \in Deaths,
         UNCHANGED <<wrote, seen, exits, replies>>
  PROVE  Contract!Die
BY DEF Contract!Die, Contract!Alive

\* on_data shows the unit that follows the last one shown, or, once output
\* has been lost, a later one; and output is lost only when the program is
\* dead.
LEMMA DataSeen ==
  ASSUME TypeOK, TypeOK', CloseInv, StreamIntact, HandleData,
         child = "running" => lost = {}
  PROVE  Contract!OnData
<1> DEFINE last == IF seen = <<>> THEN 0 ELSE seen[Len(seen)]
           top  == IF seen = <<>> THEN 0 ELSE Len(seen)
<1>1. /\ Receives("data")
      /\ UNCHANGED <<wrote, child, status, exits, replies>>
  BY DEF HandleData, kernelVars
<1>2. PICK n \in Nat : n = mailbox[1].a /\ n \in InMailbox
                       /\ seen' = Append(seen, n)
  BY <1>1, FirstTaken, QueuedPlaces DEF HandleData, InMailbox
<1>3. seen \in Seq(Nat) /\ nread \in Nat /\ wrote \in Nat /\ nread <= wrote
  BY DEF TypeOK, CloseInv
<1>4. last \in Nat /\ last < n /\ n <= nread
  <2>1. n \in 1 .. nread
    BY <1>2 DEF StreamIntact
  <2>2. seen # <<>> => Len(seen) \in DOMAIN seen
    BY <1>3
  <2>3. seen # <<>> => seen[Len(seen)] \in Range(seen)
    BY <2>2 DEF Range
  <2>4. seen # <<>> => seen[Len(seen)] < n /\ seen[Len(seen)] \in Nat
    BY <1>2, <1>3, <2>2, <2>3 DEF StreamIntact
  <2>5. QED
    BY <2>1, <2>4
<1>5. n \in last + 1 .. wrote
  BY <1>3, <1>4
<1>6. ASSUME child = "running"
      PROVE  n = last + 1
  <2>1. last + 1 \in 1 .. nread
    BY <1>3, <1>4
  <2>2. last + 1 \in Range(seen) \cup InMailbox \cup InHand
    BY <1>6, <2>1 DEF StreamIntact
  <2>3. last + 1 \notin Range(seen)
    <3>1. ASSUME NEW i \in DOMAIN seen
          PROVE  seen[i] <= last
      <4>1. /\ i \in 1 .. Len(seen) /\ Len(seen) \in Nat
            /\ Len(seen) \in DOMAIN seen /\ seen # <<>>
            /\ seen[i] \in Nat /\ last = seen[Len(seen)]
        BY <1>3, <3>1
      <4>2. CASE i = Len(seen)
        BY <4>1, <4>2
      <4>3. CASE i < Len(seen)
        BY <1>4, <4>1, <4>3 DEF StreamIntact
      <4>4. QED
        BY <4>1, <4>2, <4>3
    <3>2. ASSUME NEW i \in DOMAIN seen
          PROVE  seen[i] # last + 1
      BY <1>3, <1>4, <3>1
    <3>3. QED
      BY <3>2 DEF Range
  <2>4. CASE last + 1 \in InHand
    <3>1. last + 1 = nread /\ n = nread
      BY <1>3, <1>4, <2>4 DEF InHand
    <3>2. QED
      BY <1>2, <2>4, <3>1 DEF StreamIntact
  <2>5. CASE last + 1 \in InMailbox
    <3>1. PICK i \in Queued("data") : last + 1 = mailbox[i].a
      BY <2>5 DEF InMailbox
    <3>2. i \in 1 .. Len(mailbox) /\ 1 \in Queued("data")
      BY <1>1, FirstTaken, QueuedPlaces
    <3>3. CASE i = 1
      BY <1>2, <3>1, <3>3
    <3>4. CASE 1 < i
      <4>1. n < last + 1
        BY <1>2, <3>1, <3>2, <3>4 DEF StreamIntact
      <4>2. QED
        BY <1>4, <4>1
    <3>5. QED
      BY <3>2, <3>3, <3>4, QueuedPlaces
  <2>6. QED
    BY <2>2, <2>3, <2>4, <2>5
<1>7. Contract!LastSeen = last
  BY DEF Contract!LastSeen
<1>8. Contract!Alive => child = "running"
  BY DEF Contract!Alive
<1> HIDE DEF last
<1>9. QED
  BY <1>1, <1>2, <1>5, <1>6, <1>7, <1>8 DEF Contract!OnData

\* on_exit is called for a dead program, for the first time, and is told
\* what the program died of.
LEMMA ExitSeen ==
  ASSUME TypeOK, ExitTrue, HandleExit
  PROVE  Contract!OnExit
<1>1. /\ Receives("exit")
      /\ UNCHANGED <<wrote, child, status, seen, replies>>
      /\ exits' = Append(exits, <<Head(mailbox).a, Head(mailbox).b>>)
  BY DEF HandleExit, kernelVars
<1>2. 1 \in Queued("exit") /\ Head(mailbox) = mailbox[1]
  BY <1>1, QueuedAfterReceive
<1>3. /\ <<mailbox[1].a, mailbox[1].b>> = Encode(status)
      /\ exits = <<>>
      /\ child = "reaped"
  BY <1>2 DEF ExitTrue
<1>4. exits' = <<Encode(status)>>
  BY <1>1, <1>2, <1>3
<1>5. QED
  BY <1>1, <1>3, <1>4 DEF Contract!OnExit, Contract!Alive

\* A write returns a number no greater than the size of the binary, and the
\* whole size if the program lives.
LEMMA AnswerSeen ==
  ASSUME TypeOK, NEW w \in [id : Nat, size : Nat], w.size \in WriteSizes,
         NEW n \in 0 .. w.size, child = "running" => n = w.size,
         Reply(w, n), UNCHANGED <<wrote, child, status, seen, exits>>
  PROVE  Contract!Answer
<1> DEFINE Answers == [id : Nat, size : Nat, written : Nat]
           r == [id |-> w.id, size |-> w.size, written |-> n]
<1>1. r \in Answers /\ r.size = w.size /\ r.written = n
  OBVIOUS
<1>2. replies \in Seq(Answers) /\ replies' = Append(replies, r)
  BY DEF Reply, TypeOK
<1> HIDE DEF Answers, r
<1>3. AnswersOf(Append(replies, r))
        = Append(AnswersOf(replies), [size |-> r.size, written |-> r.written])
  BY <1>1, <1>2, AnswersAppend
<1>4. AnswersOf(replies')
        = Append(AnswersOf(replies), [size |-> w.size, written |-> n])
  BY <1>1, <1>2, <1>3
<1>5. Contract!Alive => n = w.size
  BY DEF Contract!Alive
<1>6. QED
  BY <1>4, <1>5 DEF Contract!Answer, AnswersOf

\* What a signal shows: the death of the program, or nothing.
LEMMA SignalSeen ==
  ASSUME TypeOK', NEW sig, SignalChild(sig),
         UNCHANGED <<wrote, seen, exits, replies>>
  PROVE  Contract!Next \/ UNCHANGED Contract!vars
<1>1. CASE child = "running" /\ sig \in FatalSignals
  <2>1. child' # "running" /\ status' \in Deaths
    BY <1>1 DEF SignalChild, Dies, TypeOK
  <2>2. QED
    BY <1>1, <2>1, DeathSeen DEF Contract!Next
<1>2. CASE ~(child = "running" /\ sig \in FatalSignals)
  <2>1. UNCHANGED <<child, status>>
    BY <1>2 DEF SignalChild
  <2>2. QED
    BY <2>1, Unseen
<1>3. QED
  BY <1>1, <1>2

\* The end of a round shows the answer of a finished write.
LEMMA RoundSeen ==
  ASSUME TypeOK, server = "writeSyscall", WriteInv, NEW k \in 1 .. nbytes,
         Advance(k), UNCHANGED <<wrote, child, status, seen, exits>>
  PROVE  Contract!Next \/ UNCHANGED Contract!vars
<1>1. /\ job \in [id : Nat, size : Nat]
      /\ job.size \in WriteSizes
      /\ job.size \in 0 .. job.size
  BY DEF TypeOK, WriteInv, Writing
<1>2. CASE Reply(job, job.size)
  BY <1>1, <1>2, AnswerSeen DEF Contract!Next
<1>3. CASE replies' = replies
  BY <1>3, Unseen
<1>4. QED
  BY <1>2, <1>3 DEF Advance

\* A write that gives up does so because the reader thread has closed the
\* terminal, and that it does only when the program is dead.
LEMMA LoopSeen ==
  ASSUME TypeOK, CloseInv, WriteInv, WriteLoop
  PROVE  Contract!Next \/ UNCHANGED Contract!vars
<1>1. UNCHANGED <<wrote, child, status, seen, exits>>
  BY DEF WriteLoop, kernelVars
<1>2. CASE GiveUp
  <2>1. /\ job \in [id : Nat, size : Nat]
        /\ job.size \in WriteSizes
        /\ bytes_written \in 0 .. job.size
    BY DEF TypeOK, WriteLoop, WriteInv, WriteHonest, Writing
  <2>2. child # "running" /\ Reply(job, bytes_written)
    BY <1>2 DEF GiveUp, CloseInv, WriteLoop
  <2>3. QED
    BY <1>1, <2>1, <2>2, AnswerSeen DEF Contract!Next
<1>3. CASE ~GiveUp
  BY <1>1, <1>3, Unseen DEF WriteLoop
<1>4. QED
  BY <1>2, <1>3

LEMMA TakeSeen ==
  ASSUME TypeOK, TypeOK', CloseInv, QueueInv, HandleWrite
  PROVE  Contract!Next \/ UNCHANGED Contract!vars
<1>1. UNCHANGED <<wrote, child, status, seen, exits>>
  BY DEF HandleWrite, kernelVars
<1>2. PICK a \in Nat, b \in Nat :
        a = Head(mailbox).a /\ b = Head(mailbox).b /\ b \in WriteSizes
  BY FirstTaken, QueuedPlaces DEF HandleWrite, QueueInv
<1>3. CASE fd_closed
  <2>1. child # "running" /\ Reply([id |-> a, size |-> b], 0)
    BY <1>2, <1>3 DEF CloseInv, HandleWrite
  <2>2. QED
    BY <1>1, <1>2, <2>1, AnswerSeen DEF Contract!Next
<1>4. CASE ~fd_closed
  BY <1>1, <1>4, Unseen DEF HandleWrite
<1>5. QED
  BY <1>3, <1>4

-----------------------------------------------------------------------------
(* The refinement.                                                         *)

\* What the steps need to know of the state they start from.
SessionInv ==
  /\ LossInv
  /\ CloseInv
  /\ ExitInv
  /\ StreamIntact
  /\ QueueInv
  /\ WriteInv

LEMMA SessionStarts ==
  ASSUME HostIgnoresSigchld = FALSE
  PROVE  Init => SessionInv
<1>1. Init => LossInv
  BY DEF Init, LossInv
<1>2. QED
  BY <1>1, ExitStarts, StreamStarts, AccountStarts DEF SessionInv

LEMMA SessionStep ==
  TypeOK /\ TypeOK' /\ SessionInv /\ [Next]_vars => SessionInv'
BY LossStep, CloseStep, ExitStep, StreamStep, QueueStep, WriteStep
   DEF SessionInv

LEMMA ContractStarts == Init => Contract!Init
<1> SUFFICES ASSUME Init
             PROVE  Contract!Init
  OBVIOUS
<1>1. [i \in DOMAIN replies |->
         [size |-> replies[i].size, written |-> replies[i].written]] = <<>>
  BY DEF Init
<1>2. QED
  BY <1>1 DEF Init, Contract!Init

LEMMA ContractStep ==
  TypeOK /\ TypeOK' /\ SessionInv /\ [Next]_vars
    => [Contract!Next]_Contract!vars
<1> SUFFICES ASSUME TypeOK, TypeOK', SessionInv, [Next]_vars
             PROVE  Contract!Next \/ UNCHANGED Contract!vars
  OBVIOUS
<1> USE DEF kernelVars, threadVars, serverVars, userVars
<1>1. CASE ChildWrite
  BY <1>1, EmitSeen DEF Contract!Next
<1>2. CASE ChildExit
  <2>1. /\ child = "running" /\ child' # "running" /\ status' \in Deaths
        /\ UNCHANGED <<wrote, seen, exits, replies>>
    BY <1>2 DEF ChildExit, Dies, TypeOK
  <2>2. QED
    BY <2>1, DeathSeen DEF Contract!Next
<1>3. CASE ChildRead \/ CallWrite \/ CallKill \/ UNCHANGED vars
  BY <1>3, Unseen DEF ChildRead, CallWrite, CallKill, vars
<1>4. CASE ReaderHangup
  BY <1>4, SignalSeen DEF ReaderHangup
<1>5. CASE ReaderRead \/ ReaderSend \/ ReaderEof \/ ReaderClose
  BY <1>5, Unseen DEF ReaderRead, ReaderSend, ReaderEof, ReaderClose
<1>6. CASE WaiterReap
  BY <1>6, Unseen DEF WaiterReap
<1>7. CASE WaiterStart \/ WaiterSend \/ WaiterFree \/ WaiterErase
  BY <1>7, Unseen DEF WaiterStart, WaiterSend, WaiterFree, WaiterErase
<1>8. CASE SpawnWaiter \/ SpawnReader \/ SpawnInsert \/ WriteRefused
  BY <1>8, Unseen DEF SpawnWaiter, SpawnReader, SpawnInsert, WriteRefused
<1>9. CASE HandleData
  <2>1. child = "running" => lost = {}
    BY DEF SessionInv, LossInv, ExitInv
  <2>2. QED
    BY <1>9, <2>1, DataSeen DEF SessionInv, Contract!Next
<1>10. CASE HandleExit
  BY <1>10, ExitSeen DEF SessionInv, ExitInv, Contract!Next
<1>11. CASE HandleKill
  BY <1>11, SignalSeen DEF HandleKill
<1>12. CASE HandleWrite
  BY <1>12, TakeSeen DEF SessionInv
<1>13. CASE WriteLoop
  BY <1>13, LoopSeen DEF SessionInv
<1>14. CASE WriteTaken
  BY <1>14, RoundSeen DEF WriteTaken, SessionInv
<1>15. CASE WriteStray
  BY <1>15, RoundSeen DEF WriteStray, SessionInv
<1>16. QED
  BY <1>1, <1>2, <1>3, <1>4, <1>5, <1>6, <1>7, <1>8, <1>9, <1>10, <1>11,
     <1>12, <1>13, <1>14, <1>15 DEF Next, Environment, Reader, Waiter, Server

\* If nobody ignored SIGCHLD before the terminal was spawned, the threads,
\* the shared pid, the mailbox and the write loop together keep the promise
\* of PtyContract: on_data in order and without gaps while the program
\* lives, on_exit once and true, short writes only to a dead program.
THEOREM KeepsContractTheorem ==
  ASSUME HostIgnoresSigchld = FALSE
  PROVE  Spec => KeepsContract
<1>1. Init => SessionInv
  BY SessionStarts
<1>2. TypeOK /\ TypeOK' /\ SessionInv /\ [Next]_vars => SessionInv'
  BY SessionStep
<1>3. Init => Contract!Init
  BY ContractStarts
<1>4. TypeOK /\ TypeOK' /\ SessionInv /\ [Next]_vars
        => [Contract!Next]_Contract!vars
  BY ContractStep
<1>5. QED
  BY <1>1, <1>2, <1>3, <1>4, TypeCorrect, PTL
     DEF Spec, KeepsContract, Contract!Spec
=============================================================================
