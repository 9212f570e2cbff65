------------------------- MODULE TerminalServerProofs -------------------------
(***************************************************************************)
(* What TLC checks for two clients and three calls, proved for any number  *)
(* of clients, calls, messages and changes by the program, and for every   *)
(* choice of options.                                                      *)
(***************************************************************************)
EXTENDS TerminalServer, TLAPS

-----------------------------------------------------------------------------
(* The mailbox.                                                            *)

LEMMA AppendShape ==
  ASSUME NEW S, NEW s \in Seq(S), NEW m \in S
  PROVE  /\ Append(s, m) \in Seq(S)
         /\ Len(Append(s, m)) = Len(s) + 1
         /\ \A i \in 1..Len(s) : Append(s, m)[i] = s[i]
         /\ Append(s, m)[Len(s) + 1] = m
OBVIOUS

LEMMA TailShape ==
  ASSUME NEW S, NEW s \in Seq(S), s # <<>>
  PROVE  /\ Head(s) \in S /\ Head(s) = s[1]
         /\ Tail(s) \in Seq(S)
         /\ Len(s) \in Nat /\ Len(s) > 0
         /\ Len(Tail(s)) = Len(s) - 1
         /\ \A i \in 1..Len(s) - 1 : Tail(s)[i] = s[i + 1]
OBVIOUS

LEMMA ConcatShape ==
  ASSUME NEW S, NEW s \in Seq(S), NEW t \in Seq(S)
  PROVE  /\ Len(s) \in Nat /\ Len(s \o t) = Len(s) + Len(t)
         /\ \A i \in 1..Len(s \o t) :
              (s \o t)[i] = IF i <= Len(s) THEN s[i] ELSE t[i - Len(s)]
OBVIOUS

-----------------------------------------------------------------------------
(* Types, and what the steps of a settings call say of the job.            *)

Types ==
  /\ ixon \in BOOLEAN /\ echo \in BOOLEAN
  /\ stopped \in BOOLEAN /\ open \in BOOLEAN
  /\ typed \in Seq(Characters) /\ Len(typed) <= QueueCap
  /\ input \in Seq(0..MaxCalls)
  /\ mailbox \in Seq(Messages)
  /\ job \in [do : Jobs, id : 0..MaxCalls, off : BOOLEAN]
  /\ at \in {"idle", "get", "set", "send"}
  /\ settings \in BOOLEAN \X BOOLEAN
  /\ flow \in BOOLEAN
  /\ callback \in [Kinds -> BOOLEAN]
  /\ calls \in 0..MaxCalls
  /\ waiting \in [Clients -> 0..MaxCalls]
  /\ oked \subseteq 1..MaxCalls
  /\ events \in 0..MaxEvents /\ exited \in BOOLEAN
  /\ missed \subseteq Kinds \X (1..MaxEvents)
  /\ since \in [Kinds -> 0..MaxEvents + 1]
  /\ touches \in 0..MaxTouches
  /\ asked \in {"none", "pause", "refused", "resume"}
  /\ touched \in BOOLEAN /\ lastEcho \in BOOLEAN /\ overwritten \in BOOLEAN
  /\ at = "idle" <=> job.do[1] = "none"
  /\ at = "send" => job.do[1] \in {"pause", "resume"}

\* What a message of one operation carries.
LEMMA ArgumentType ==
  ASSUME Types, mailbox # <<>>, NEW op, Head(mailbox).call[1] = op
  PROVE  /\ Head(mailbox) \in Messages
         /\ Head(mailbox).id \in 0..MaxCalls
         /\ op \in Kinds => Head(mailbox).event \in 1..MaxEvents
         /\ op = "write" => Argument \in Chars /\ Head(mailbox).id \in 1..MaxCalls
         /\ op \in {"flow", "echo"} => Argument \in BOOLEAN
         /\ op = "callback" => Argument \in Kinds
         /\ op \in {"pause", "resume"} => Argument = TRUE
<1> DEFINE m == Head(mailbox)
<1>1. m \in Messages
  BY TailShape DEF Types
<1>2. CASE m \in [call : Calls, id : 1..MaxCalls, event : {0}]
  <2>1. m.call \in AllCalls /\ m.id \in 0..MaxCalls /\ m.id \in 1..MaxCalls
    BY <1>2, ServerAssumption
  <2>2. QED
    BY <1>1, <2>1 DEF AllCalls, Kinds, Argument
<1>3. CASE m \in [call : Kinds \X {TRUE}, id : {0}, event : 1..MaxEvents]
  <2>1. m.call \in Kinds \X {TRUE} /\ m.id = 0 /\ m.event \in 1..MaxEvents
    BY <1>3
  <2>2. m.call[1] \in Kinds
    BY <2>1
  <2>3. QED
    BY <1>1, <2>1, <2>2, ServerAssumption DEF Kinds, Argument
<1>4. QED
  BY <1>1, <1>2, <1>3 DEF Messages

LEMMA JobType ==
  ASSUME Types
  PROVE  /\ job.do[1] = "echo" => job.do[2] \in BOOLEAN
         /\ job.do[1] \in {"none", "pause", "resume", "echo"}
         /\ settings[1] \in BOOLEAN /\ settings[2] \in BOOLEAN
<1>1. job.do \in Jobs
  BY DEF Types
<1>2. CASE job.do = <<"none", TRUE>>
  BY <1>2 DEF Types
<1>3. CASE job.do \in {"pause", "resume"} \X {TRUE}
  BY <1>3 DEF Types
<1>4. CASE job.do \in {"echo"} \X BOOLEAN
  BY <1>4 DEF Types
<1>5. QED
  BY <1>1, <1>2, <1>3, <1>4 DEF Jobs, NoJob

LEMMA ReplyType ==
  ASSUME Types, NEW id, Reply(id)
  PROVE  waiting' \in [Clients -> 0..MaxCalls]
BY ServerAssumption DEF Types, Reply

LEMMA DeliverType ==
  ASSUME Types, NEW m \in Messages, Deliver(m)
  PROVE  mailbox' \in Seq(Messages)
BY AppendShape DEF Types, Deliver

LEMMA MessageType ==
  ASSUME Types, NEW op, Message(op)
  PROVE  mailbox' \in Seq(Messages)
BY TailShape DEF Types, Message

\* A character typed while the queue has room.
LEMMA TypeType ==
  ASSUME Types, NEW c \in Chars, NEW id \in 0..MaxCalls, Room, Type(c, id)
  PROVE  typed' \in Seq(Characters) /\ Len(typed') <= QueueCap
<1>1. [char |-> c, id |-> id] \in Characters
  BY DEF Characters
<1>2. typed' = Append(typed, [char |-> c, id |-> id])
  BY DEF Type
<1>3. Len(typed) \in Nat /\ Len(typed) < QueueCap /\ QueueCap \in Nat
  BY ServerAssumption DEF Types, Room
<1>4. typed' \in Seq(Characters) /\ Len(typed') = Len(typed) + 1
  <2> DEFINE x == [char |-> c, id |-> id]
  <2>1. typed \in Seq(Characters) /\ x \in Characters /\ typed' = Append(typed, x)
    BY <1>1, <1>2 DEF Types
  <2> HIDE DEF x
  <2>2. QED
    BY <2>1, AppendShape
<1>5. QED
  BY <1>3, <1>4

LEMMA BeginType ==
  ASSUME Types, NEW op, Message(op),
         NEW kind \in {"pause", "resume", "echo"}, NEW arg \in BOOLEAN,
         kind # "echo" => arg = TRUE, NEW off \in BOOLEAN, Begin(kind, arg, off)
  PROVE  Types'
<1>1. Head(mailbox).id \in 0..MaxCalls
  BY ArgumentType DEF Message
<1>2. <<kind, arg>> \in Jobs
  BY DEF Jobs
<1>3. /\ job' \in [do : Jobs, id : 0..MaxCalls, off : BOOLEAN]
      /\ job'.do[1] = kind
  BY <1>1, <1>2 DEF Begin
<1>4. mailbox' \in Seq(Messages)
  BY MessageType
<1>5. QED
  BY <1>3, <1>4 DEF Types, Begin, settingVars, queueVars, lineVars, callVars,
                     eventVars

LEMMA ReturnType ==
  ASSUME Types, Return
  PROVE  /\ at' = "idle" /\ job'.do[1] = "none" /\ flow' \in BOOLEAN
         /\ job' \in [do : Jobs, id : 0..MaxCalls, off : BOOLEAN]
         /\ settings' \in BOOLEAN \X BOOLEAN
         /\ waiting' \in [Clients -> 0..MaxCalls]
<1>1. NoJob \in Jobs /\ 0 \in 0..MaxCalls
  BY ServerAssumption DEF Jobs
<1>2. waiting' \in [Clients -> 0..MaxCalls]
  BY ReplyType DEF Return
<1>3. QED
  BY <1>1, <1>2 DEF Return, Types, NoJob, NoSettings

LEMMA ClauseTypes ==
  ASSUME Types,
         \/ \E k \in Kinds : HandleEvent(k)
         \/ HandleCallback \/ HandleFlow \/ HandleWriteFlow \/ HandleWrite
         \/ \E op \in {"pause", "resume", "echo"} : HandleSettings(op)
  PROVE  Types'
<1> USE ServerAssumption
    DEF settingVars, queueVars, lineVars, serverVars, callVars, eventVars, flowVars
<1>1. CASE \E k \in Kinds : HandleEvent(k)
  <2> PICK k \in Kinds : HandleEvent(k)
    BY <1>1
  <2>1. mailbox' \in Seq(Messages)
    BY MessageType DEF HandleEvent
  <2>2. Head(mailbox).event \in 1..MaxEvents
    BY ArgumentType DEF HandleEvent, Message
  <2>3. missed' \subseteq Kinds \X (1..MaxEvents)
    BY <2>2 DEF HandleEvent, Types
  <2>4. QED
    BY <2>1, <2>3 DEF HandleEvent, Types
<1>2. CASE HandleCallback
  <2>1. mailbox' \in Seq(Messages) /\ waiting' \in [Clients -> 0..MaxCalls]
    BY <1>2, MessageType, ReplyType DEF HandleCallback, ReplyNow
  <2>2. callback' \in [Kinds -> BOOLEAN]
    BY <1>2 DEF HandleCallback, CallbackSet, Types
  <2>3. QED
    BY <1>2, <2>1, <2>2 DEF HandleCallback, Types
<1>3. CASE HandleFlow
  <2>1. Argument \in BOOLEAN
    BY <1>3, ArgumentType DEF HandleFlow, Message
  <2>2. CASE Begin("resume", TRUE, TRUE)
    <3>1. Message("flow")
      BY <1>3 DEF HandleFlow
    <3>2. QED
      BY <2>2, <3>1, BeginType, Zenon
  <2>3. CASE /\ flow' = Argument /\ ReplyNow
             /\ UNCHANGED <<lineVars, job, at, settings, callback, calls, oked,
                            eventVars, flowVars>>
    <3>1. mailbox' \in Seq(Messages) /\ waiting' \in [Clients -> 0..MaxCalls]
      BY <1>3, <2>3, MessageType, ReplyType DEF HandleFlow, ReplyNow
    <3>2. QED
      BY <2>1, <2>3, <3>1 DEF Types
  <2>4. QED
    BY <1>3, <2>2, <2>3 DEF HandleFlow
<1>4. CASE HandleWriteFlow
  <2>1. CASE Begin("pause", TRUE, FALSE) \/ Begin("resume", TRUE, FALSE)
    <3>1. Message("write")
      BY <1>4 DEF HandleWriteFlow
    <3>2. QED
      BY <2>1, <3>1, BeginType, Zenon
  <2>2. CASE /\ Oked /\ ReplyNow
             /\ UNCHANGED <<lineVars, job, at, settings, flow, callback, calls,
                            eventVars, flowVars>>
    <3>0. oked' \subseteq 1..MaxCalls
      <4>1. Head(mailbox).id \in 1..MaxCalls
        BY <1>4, ArgumentType DEF HandleWriteFlow, Message
      <4>2. QED
        BY <2>2, <4>1 DEF Oked, Types
    <3>1. mailbox' \in Seq(Messages) /\ waiting' \in [Clients -> 0..MaxCalls]
      BY <1>4, <2>2, MessageType, ReplyType DEF HandleWriteFlow, ReplyNow
    <3>2. QED
      BY <2>2, <3>0, <3>1 DEF Types
  <2>3. QED
    BY <1>4, <2>1, <2>2 DEF HandleWriteFlow
<1>5. CASE HandleWrite
  <2>1. mailbox' \in Seq(Messages) /\ waiting' \in [Clients -> 0..MaxCalls]
    BY <1>5, MessageType, ReplyType DEF HandleWrite, ReplyNow
  <2>2. Argument \in Chars /\ Head(mailbox).id \in 1..MaxCalls
    BY <1>5, ArgumentType DEF HandleWrite, Message
  <2>3. /\ typed' \in Seq(Characters) /\ Len(typed') <= QueueCap
        /\ oked' \subseteq 1..MaxCalls
    <3>1. CASE open
      <4>1. Room /\ Type(Argument, Head(mailbox).id) /\ Oked
        BY <1>5, <3>1 DEF HandleWrite, Passed
      <4>2. oked' \subseteq 1..MaxCalls
        BY <2>2, <4>1 DEF Oked, Types
      <4>3. Head(mailbox).id \in 0..MaxCalls
        BY <2>2
      <4>4. QED
        BY <2>2, <4>1, <4>2, <4>3, TypeType
    <3>2. CASE ~open
      BY <1>5, <3>2 DEF HandleWrite, Types
    <3>3. QED
      BY <3>1, <3>2
  <2>4. QED
    BY <1>5, <2>1, <2>2, <2>3 DEF HandleWrite, Types
<1>6. CASE \E op \in {"pause", "resume", "echo"} : HandleSettings(op)
  <2> PICK op \in {"pause", "resume", "echo"} : HandleSettings(op)
    BY <1>6
  <2>1. Argument \in BOOLEAN /\ (op # "echo" => Argument = TRUE)
    BY ArgumentType DEF HandleSettings, Message
  <2>2. QED
    BY <2>1, BeginType DEF HandleSettings
<1>7. QED
  BY <1>1, <1>2, <1>3, <1>4, <1>5, <1>6

LEMMA JobTypes ==
  ASSUME Types, Fail \/ Get \/ Set \/ SendControl \/ GetElsewhere \/ SetElsewhere
  PROVE  Types'
<1> USE DEF settingVars, queueVars, lineVars, callVars, eventVars, flowVars
<1>1. CASE Fail
  BY <1>1, ReturnType DEF Fail, Types
<1>2. CASE Get
  BY <1>2 DEF Get, Copied, Types
<1>3. CASE Set
  <2>1. Changed[1] \in BOOLEAN /\ Changed[2] \in BOOLEAN
    <3>1. job.do[1] \in {"pause", "resume", "echo"}
      BY <1>3, JobType DEF Set, Types
    <3>2. QED
      BY <3>1, JobType DEF Changed
  <2>2. ixon' \in BOOLEAN /\ echo' \in BOOLEAN /\ stopped' \in BOOLEAN
    BY <1>3, <2>1 DEF Set, LineSet, Types
  <2>3. job.do[1] = "echo" => job.do[2] \in BOOLEAN
    BY JobType
  <2>4. CASE job.do[1] = "echo"
    BY <1>3, <2>2, <2>3, <2>4, ReturnType DEF Set, Types
  <2>5. CASE job.do[1] # "echo"
    <3>1. job.do[1] \in {"pause", "resume"}
      BY <1>3, <2>5, JobType DEF Set, Types
    <3>2. QED
      BY <1>3, <2>2, <2>5, <3>1 DEF Set, Types
  <2>6. QED
    BY <2>4, <2>5
<1>4. CASE SendControl
  <2>1. typed' \in Seq(Characters) /\ Len(typed') <= QueueCap
    <3>1. CASE typed' = typed
      BY <3>1 DEF Types
    <3>2. CASE \E c \in {"xoff", "xon"} : Room /\ Type(c, 0)
      <4> PICK c \in {"xoff", "xon"} : Room /\ Type(c, 0)
        BY <3>2
      <4>1. c \in Chars /\ 0 \in 0..MaxCalls
        BY ServerAssumption DEF Chars
      <4>2. QED
        BY <4>1, TypeType
    <3>3. QED
      BY <1>4, <3>1, <3>2 DEF SendControl
  <2>2. asked' \in {"none", "pause", "refused", "resume"}
    <3>1. job.do[1] \in {"pause", "resume"}
      BY <1>4 DEF SendControl, Types
    <3>2. QED
      BY <1>4, <3>1 DEF SendControl
  <2>3. Return
    BY <1>4 DEF SendControl
  <2>4. QED
    BY <1>4, <2>1, <2>2, <2>3, ReturnType DEF SendControl, Types
<1>5. CASE GetElsewhere
  BY <1>5 DEF GetElsewhere, Types
<1>6. CASE SetElsewhere
  <2>1. CASE job.do[1] = "echo"
    BY <1>6, <2>1, ReturnType DEF SetElsewhere, Types
  <2>2. CASE job.do[1] # "echo"
    <3>1. job.do[1] \in {"pause", "resume"}
      BY <1>6, <2>2, JobType DEF SetElsewhere, Types
    <3>2. QED
      BY <1>6, <2>2, <3>1 DEF SetElsewhere, Types
  <2>3. QED
    BY <2>1, <2>2
<1>7. QED
  BY <1>1, <1>2, <1>3, <1>4, <1>5, <1>6

LEMMA OutsideTypes ==
  ASSUME Types,
         \/ \E c \in Clients : GiveUp(c) \/ \E call \in Calls : Call(c, call)
         \/ \E k \in Kinds : Send(k)
         \/ \E s \in BOOLEAN \X BOOLEAN : Touch(s)
         \/ CloseMaster \/ TakeChar
  PROVE  Types'
<1> USE ServerAssumption
    DEF settingVars, queueVars, lineVars, serverVars, callVars, eventVars, flowVars
<1>1. CASE \E c \in Clients : GiveUp(c)
  BY <1>1 DEF GiveUp, Types
<1>2. CASE \E c \in Clients, call \in Calls : Call(c, call)
  <2> PICK c \in Clients, call \in Calls : Call(c, call)
    BY <1>2
  <2>1. calls' \in 1..MaxCalls
    BY DEF Call, Types
  <2>2. [call |-> call, id |-> calls', event |-> 0] \in Messages
    BY <2>1 DEF Messages
  <2>3. mailbox' \in Seq(Messages)
    BY <2>2, DeliverType DEF Call
  <2>4. waiting' \in [Clients -> 0..MaxCalls]
    BY <2>1 DEF Call, Types
  <2>5. since' \in [Kinds -> 0..MaxEvents + 1]
    BY DEF Call, Types
  <2>6. /\ UNCHANGED <<ixon, echo, stopped, open, typed, input>>
        /\ UNCHANGED <<job, at, settings, flow, callback, oked>>
        /\ UNCHANGED <<events, exited, missed>>
        /\ UNCHANGED <<touches, asked, touched, lastEcho, overwritten>>
    BY DEF Call
  <2>7. calls' \in 0..MaxCalls
    BY <2>1
  <2>8. QED
    BY <2>3, <2>4, <2>5, <2>6, <2>7 DEF Types
<1>3. CASE \E k \in Kinds : Send(k)
  <2> PICK k \in Kinds : Send(k)
    BY <1>3
  <2>1. events' \in 1..MaxEvents
    BY DEF Send, Types
  <2>2. [call |-> <<k, TRUE>>, id |-> 0, event |-> events'] \in Messages
    BY <2>1 DEF Messages
  <2>3. mailbox' \in Seq(Messages)
    BY <2>2, DeliverType DEF Send
  <2>4. /\ UNCHANGED <<ixon, echo, stopped, open, typed, input>>
        /\ UNCHANGED <<job, at, settings, flow, callback>>
        /\ UNCHANGED <<calls, waiting, oked, missed, since>>
        /\ UNCHANGED <<touches, asked, touched, lastEcho, overwritten>>
    BY DEF Send
  <2>5. events' \in 0..MaxEvents /\ exited' \in BOOLEAN
    BY <2>1 DEF Send
  <2>6. QED
    BY <2>3, <2>4, <2>5 DEF Types
<1>4. CASE \E s \in BOOLEAN \X BOOLEAN : Touch(s)
  BY <1>4 DEF Touch, LineSet, Types
<1>5. CASE CloseMaster
  <2>1. open' \in BOOLEAN
    BY <1>5 DEF CloseMaster
  <2>2. /\ UNCHANGED <<ixon, echo, stopped>>
        /\ UNCHANGED <<mailbox, job, at, settings, flow, callback>>
        /\ UNCHANGED <<calls, waiting, oked, typed, input>>
        /\ UNCHANGED <<events, exited, missed, since>>
        /\ UNCHANGED <<touches, asked, touched, lastEcho, overwritten>>
    BY <1>5 DEF CloseMaster
  <2>3. QED
    BY <2>1, <2>2 DEF Types
<1>6. CASE TakeChar
  <2>1. /\ Head(typed) \in Characters /\ typed' \in Seq(Characters)
        /\ Len(typed') <= QueueCap
    <3>1. typed \in Seq(Characters) /\ typed # <<>> /\ typed' = Tail(typed)
      BY <1>6 DEF TakeChar, Types
    <3>2. QED
      BY <3>1, TailShape DEF Types
  <2>2. Head(typed).id \in 0..MaxCalls
    BY <2>1 DEF Characters
  <2>3. input' \in Seq(0..MaxCalls)
    BY <1>6, <2>2, AppendShape DEF TakeChar, Types
  <2>4. stopped' \in BOOLEAN
    BY <1>6 DEF TakeChar, LineTakes, Types
  <2>5. QED
    BY <1>6, <2>1, <2>3, <2>4 DEF TakeChar, Types
<1>7. QED
  BY <1>1, <1>2, <1>3, <1>4, <1>5, <1>6

LEMMA TypesInit == Init => Types
<1> SUFFICES ASSUME Init PROVE Types
  OBVIOUS
<1>1. /\ job \in [do : Jobs, id : 0..MaxCalls, off : BOOLEAN]
      /\ job.do[1] = "none"
  BY ServerAssumption DEF Init, Jobs, NoJob
<1>2. mailbox \in Seq(Messages)
  <2>1. mailbox = <<>>
    BY DEF Init
  <2>2. QED
    BY <2>1
<1>3. settings \in BOOLEAN \X BOOLEAN
  BY DEF Init, NoSettings
<1>4. callback \in [Kinds -> BOOLEAN] /\ waiting \in [Clients -> 0..MaxCalls]
  BY ServerAssumption DEF Init, Accepted
<1>5. since \in [Kinds -> 0..MaxEvents + 1]
  BY ServerAssumption DEF Init
<1>6. /\ ixon \in BOOLEAN /\ echo \in BOOLEAN
      /\ stopped \in BOOLEAN /\ open \in BOOLEAN
      /\ at = "idle" /\ flow \in BOOLEAN
      /\ touched \in BOOLEAN /\ lastEcho \in BOOLEAN /\ overwritten \in BOOLEAN
  BY ServerAssumption DEF Init
<1>7. /\ calls = 0 /\ events = 0 /\ touches = 0 /\ exited \in BOOLEAN
      /\ oked = {} /\ typed = <<>> /\ input = <<>>
      /\ missed = {} /\ asked = "none"
  BY DEF Init
<1>8. typed \in Seq(Characters) /\ Len(typed) <= QueueCap /\ input \in Seq(0..MaxCalls)
  BY <1>7, ServerAssumption
<1>9. QED
  BY <1>1, <1>2, <1>3, <1>4, <1>5, <1>6, <1>7, <1>8, ServerAssumption DEF Types

LEMMA TypesStep == Types /\ [Next]_vars => Types'
<1> SUFFICES ASSUME Types, [Next]_vars PROVE Types'
  OBVIOUS
<1>1. CASE ServerStep
  BY <1>1, ClauseTypes, JobTypes DEF ServerStep
<1>2. CASE Next /\ ~ServerStep
  BY <1>2, OutsideTypes DEF Next
<1>3. CASE UNCHANGED vars
  BY <1>3 DEF vars, settingVars, queueVars, lineVars, serverVars, callVars,
              eventVars, flowVars, Types
<1>4. QED
  BY <1>1, <1>2, <1>3

-----------------------------------------------------------------------------
(* Flow control and the settings.                                          *)

\* While a settings call holds a copy that no change of the program made
\* stale, the copy is the line's; nothing is stopped without IXON.
FlowInv ==
  /\ stopped => ixon
  /\ asked = "pause" => ixon /\ IF typed = <<>> THEN stopped ELSE XoffDue
  /\ asked = "resume" => ~ixon /\ ~stopped
  /\ job.do[1] \in {"pause", "resume"} => asked = "none"
  /\ at = "set" /\ ~touched /\ open => settings[1] = ixon /\ settings[2] = echo
  /\ at = "send" /\ ~touched /\ open => (ixon <=> job.do[1] = "pause")

LEMMA FlowInit == Init => FlowInv
BY DEF Init, FlowInv, NoJob, NoSettings

\* A step that changes neither the line nor the job and its copy.
LEMMA FlowFrame ==
  ASSUME FlowInv, UNCHANGED <<lineVars, job, at, settings, asked, touched>>
  PROVE  FlowInv'
BY DEF FlowInv, XoffDue, settingVars, queueVars, lineVars

LEMMA BeginFlow ==
  ASSUME FlowInv, NEW kind \in {"pause", "resume", "echo"}, NEW arg, NEW off,
         Begin(kind, arg, off)
  PROVE  FlowInv'
BY DEF Begin, FlowInv, XoffDue, settingVars, queueVars, lineVars

LEMMA ClauseFlow ==
  ASSUME Types, FlowInv,
         \/ \E k \in Kinds : HandleEvent(k)
         \/ HandleCallback \/ HandleFlow \/ HandleWriteFlow \/ HandleWrite
         \/ \E op \in {"pause", "resume", "echo"} : HandleSettings(op)
  PROVE  FlowInv'
<1> USE DEF flowVars
<1>1. CASE \E k \in Kinds : HandleEvent(k)
  BY <1>1, FlowFrame DEF HandleEvent
<1>2. CASE HandleCallback
  BY <1>2, FlowFrame DEF HandleCallback
<1>3. CASE HandleFlow
  <2>1. CASE Begin("resume", TRUE, TRUE)
    BY <2>1, BeginFlow, Zenon
  <2>2. CASE UNCHANGED <<lineVars, job, at, settings, callback, calls, oked,
                         eventVars, flowVars>>
    BY <2>2, FlowFrame
  <2>3. QED
    BY <1>3, <2>1, <2>2 DEF HandleFlow
<1>4. CASE HandleWriteFlow
  <2>1. CASE Begin("pause", TRUE, FALSE) \/ Begin("resume", TRUE, FALSE)
    BY <2>1, BeginFlow, Zenon
  <2>2. CASE UNCHANGED <<lineVars, job, at, settings, flow, callback, calls,
                         eventVars, flowVars>>
    BY <2>2, FlowFrame
  <2>3. QED
    BY <1>4, <2>1, <2>2 DEF HandleWriteFlow
<1>5. CASE HandleWrite
  <2>1. at = "idle" /\ job.do[1] = "none" /\ asked' # "pause"
    BY <1>5 DEF HandleWrite, Message, Types
  <2>2. UNCHANGED <<ixon, echo, stopped, job, at, settings, touched>>
    BY <1>5 DEF HandleWrite, settingVars
  <2>3. asked' = "resume" => asked = "resume"
    BY <1>5 DEF HandleWrite
  <2>4. QED
    BY <2>1, <2>2, <2>3 DEF FlowInv
<1>6. CASE \E op \in {"pause", "resume", "echo"} : HandleSettings(op)
  BY <1>6, BeginFlow DEF HandleSettings
<1>7. QED
  BY <1>1, <1>2, <1>3, <1>4, <1>5, <1>6

LEMMA SetFlow ==
  ASSUME Types, FlowInv, Set
  PROVE  FlowInv'
<1>1. /\ ixon' = Changed[1] /\ echo' = Changed[2]
      /\ stopped' = (stopped /\ Changed[1])
      /\ asked' = IF touched THEN "none" ELSE asked
      /\ UNCHANGED <<touched, typed>>
  BY DEF Set, LineSet, flowVars, queueVars
<1>2. job.do[1] \in {"pause", "resume", "echo"}
  BY JobType DEF Set, Types
<1>3. CASE job.do[1] = "echo"
  <2>1. Changed[1] = settings[1]
    BY <1>3 DEF Changed
  <2>2. at' = "idle" /\ job'.do[1] = "none"
    BY <1>3, ReturnType DEF Set
  <2>3. QED
    <3>1. /\ at = "set" /\ open /\ (~touched => settings[1] = ixon)
          /\ (XoffDue' <=> XoffDue)
      BY <1>1 DEF Set, FlowInv, XoffDue
    <3>2. QED
      BY <1>1, <2>1, <2>2, <3>1 DEF FlowInv
<1>4. CASE job.do[1] # "echo"
  <2>1. Changed[1] = (job.do[1] = "pause")
    BY <1>2, <1>4 DEF Changed
  <2>2. at' = "send" /\ job' = job
    BY <1>4 DEF Set
  <2>3. asked = "none"
    BY <1>2, <1>4 DEF FlowInv
  <2>4. QED
    BY <1>1, <2>1, <2>2, <2>3 DEF FlowInv
<1>5. QED
  BY <1>3, <1>4

LEMMA JobFlow ==
  ASSUME Types, FlowInv,
         Fail \/ Get \/ Set \/ SendControl \/ GetElsewhere \/ SetElsewhere
  PROVE  FlowInv'
<1>1. CASE Fail
  <2>1. at' = "idle" /\ job'.do[1] = "none"
    BY <1>1, ReturnType DEF Fail
  <2>2. QED
    BY <1>1, <2>1 DEF Fail, FlowInv, XoffDue, settingVars, queueVars, lineVars,
                      flowVars
<1>2. CASE Get
  BY <1>2 DEF Get, Copied, FlowInv, XoffDue, settingVars, queueVars, lineVars
<1>3. CASE Set
  BY <1>3, SetFlow
<1>4. CASE SendControl
  <2>1. /\ at' = "idle" /\ job'.do[1] = "none"
        /\ job.do[1] \in {"pause", "resume"}
    BY <1>4, ReturnType DEF SendControl, Types
  <2>2. UNCHANGED <<ixon, echo, stopped>>
    BY <1>4 DEF SendControl, settingVars
  <2>3. asked' = "pause" => ~touched /\ open /\ job.do[1] = "pause" /\ typed' # <<>> /\ XoffDue'
    <3> SUFFICES ASSUME asked' = "pause"
                 PROVE  ~touched /\ open /\ job.do[1] = "pause" /\ typed' # <<>> /\ XoffDue'
      OBVIOUS
    <3>1. ~touched /\ open /\ job.do[1] = "pause" /\ Type("xoff", 0)
      BY <1>4, <2>1 DEF SendControl
    <3>2. typed' = Append(typed, [char |-> "xoff", id |-> 0])
      BY <3>1 DEF Type
    <3>3. [char |-> "xoff", id |-> 0] \in Characters
      BY ServerAssumption DEF Characters, Chars
    <3>4. typed' # <<>> /\ typed'[Len(typed')] = [char |-> "xoff", id |-> 0]
      <4> DEFINE x == [char |-> "xoff", id |-> 0]
      <4>1. typed \in Seq(Characters) /\ x \in Characters /\ typed' = Append(typed, x)
        BY <3>2, <3>3 DEF Types
      <4> HIDE DEF x
      <4>2. /\ Len(typed') = Len(typed) + 1 /\ Len(typed) \in Nat
            /\ typed'[Len(typed) + 1] = x
        BY <4>1, AppendShape
      <4>3. typed' # <<>> /\ typed'[Len(typed')] = x
        BY <4>2
      <4>4. QED
        BY <4>3 DEF x
    <3>5. QED
      BY <3>1, <3>4 DEF XoffDue
  <2>4. asked' = "resume" => ~touched /\ job.do[1] = "resume" /\ open
    BY <1>4, <2>1 DEF SendControl
  <2>5. at = "send" /\ touched' = touched
    BY <1>4 DEF SendControl
  <2>6. QED
    BY <2>1, <2>2, <2>3, <2>4, <2>5 DEF FlowInv
<1>5. CASE GetElsewhere
  BY <1>5 DEF GetElsewhere, FlowInv, XoffDue, settingVars, queueVars, lineVars, flowVars
<1>6. CASE SetElsewhere
  BY <1>6, ReturnType DEF SetElsewhere, FlowInv, XoffDue, settingVars, queueVars,
                          lineVars, flowVars
<1>7. QED
  BY <1>1, <1>2, <1>3, <1>4, <1>5, <1>6

\* The last character typed is the last to be taken; an XOFF of the server
\* that is the first stops the output.
LEMMA TakeFlow ==
  ASSUME Types, FlowInv, TakeChar
  PROVE  FlowInv'
<1>1. /\ UNCHANGED <<ixon, echo, open, job, at, settings, asked, touched>>
      /\ stopped' = IF ixon THEN Head(typed).char = "xoff" ELSE stopped
  BY DEF TakeChar, LineTakes, settingVars, serverVars, flowVars
<1>2. typed \in Seq(Characters) /\ typed # <<>> /\ typed' = Tail(typed)
  BY DEF TakeChar, Types
<1>3. /\ Len(typed) \in Nat /\ Len(typed) > 0
      /\ Head(typed) = typed[1]
      /\ Len(typed') = Len(typed) - 1 /\ typed' \in Seq(Characters)
      /\ \A i \in 1..Len(typed') : typed'[i] = typed[i + 1]
  BY <1>2, TailShape
<1>4. asked = "pause" => ixon /\ IF typed' = <<>> THEN stopped' ELSE XoffDue'
  <2> SUFFICES ASSUME asked = "pause"
               PROVE  ixon /\ IF typed' = <<>> THEN stopped' ELSE XoffDue'
    OBVIOUS
  <2>1. ixon /\ typed[Len(typed)] = [char |-> "xoff", id |-> 0]
    BY <1>2 DEF FlowInv, XoffDue
  <2>2. CASE Len(typed) = 1
    <3>1. typed' = <<>>
      BY <1>3, <2>2
    <3>2. Head(typed).char = "xoff"
      BY <1>3, <2>1, <2>2
    <3>3. QED
      BY <1>1, <2>1, <3>1, <3>2
  <2>3. CASE Len(typed) > 1
    <3>1. typed' # <<>> /\ typed'[Len(typed')] = typed[Len(typed)]
      <4>1. PICK n \in 1..Len(typed') : n = Len(typed') /\ n + 1 = Len(typed)
        BY <1>3, <2>3
      <4>2. QED
        BY <1>3, <4>1
    <3>2. QED
      BY <2>1, <3>1 DEF XoffDue
  <2>4. QED
    BY <1>3, <2>2, <2>3
<1>5. QED
  BY <1>1, <1>4 DEF FlowInv

LEMMA FlowStep == Types /\ FlowInv /\ [Next]_vars => FlowInv'
<1> SUFFICES ASSUME Types, FlowInv, [Next]_vars PROVE FlowInv'
  OBVIOUS
<1> USE DEF settingVars, queueVars, lineVars, serverVars, flowVars
<1>1. CASE ServerStep
  BY <1>1, ClauseFlow, JobFlow DEF ServerStep
<1>2. CASE \E c \in Clients : GiveUp(c) \/ \E call \in Calls : Call(c, call)
  BY <1>2, FlowFrame DEF GiveUp, Call
<1>3. CASE \E k \in Kinds : Send(k)
  BY <1>3, FlowFrame DEF Send
<1>4. CASE \E s \in BOOLEAN \X BOOLEAN : Touch(s)
  BY <1>4 DEF Touch, LineSet, FlowInv
<1>5. CASE CloseMaster
  BY <1>5 DEF CloseMaster, FlowInv, XoffDue
<1>6. CASE TakeChar
  BY <1>6, TakeFlow
<1>7. CASE UNCHANGED vars
  BY <1>7, FlowFrame DEF vars
<1>8. QED
  BY <1>1, <1>2, <1>3, <1>4, <1>5, <1>6, <1>7 DEF Next

LEMMA EchoStep ==
  Types /\ FlowInv /\ LastEchoWins /\ [Next]_vars => LastEchoWins'
<1> SUFFICES ASSUME Types, FlowInv, LastEchoWins, [Next]_vars PROVE LastEchoWins'
  OBVIOUS
<1> USE DEF settingVars, queueVars, lineVars, serverVars, flowVars, LastEchoWins
<1>1. CASE Set
  <2>1. job.do[1] \in {"pause", "resume", "echo"}
    BY <1>1, JobType DEF Set, Types
  <2>2. echo' = Changed[2] /\ overwritten' = (overwritten \/ touched)
    BY <1>1 DEF Set, LineSet
  <2>3. CASE job.do[1] = "echo"
    BY <1>1, <2>2, <2>3 DEF Set, Changed
  <2>4. CASE job.do[1] # "echo"
    <3>1. Changed[2] = settings[2] /\ lastEcho' = lastEcho
      BY <1>1, <2>1, <2>4 DEF Set, Changed
    <3>2. QED
      BY <1>1, <2>2, <3>1 DEF Set, FlowInv
  <2>5. QED
    BY <2>3, <2>4
<1>2. CASE \E s \in BOOLEAN \X BOOLEAN : Touch(s)
  BY <1>2 DEF Touch, LineSet
<1>3. CASE Next /\ ~Set /\ ~\E s \in BOOLEAN \X BOOLEAN : Touch(s)
  <2>1. UNCHANGED <<echo, lastEcho, overwritten>>
    BY <1>3 DEF Next, ServerStep, HandleEvent, HandleCallback, HandleSettings,
                HandleFlow, HandleWriteFlow, HandleWrite, Begin, Fail, Get,
                SendControl, GetElsewhere, SetElsewhere, GiveUp, Call, Send,
                CloseMaster, TakeChar
  <2>2. QED
    BY <2>1
<1>4. CASE UNCHANGED vars
  BY <1>4 DEF vars
<1>5. QED
  BY <1>1, <1>2, <1>3, <1>4

-----------------------------------------------------------------------------
(* Output and callbacks: the mailbox keeps the order of the senders.       *)

\* Will on_data or on_exit be set when the message at place i is handled?
SetBefore(k, i) ==
  callback[k] \/ \E j \in 1..(i - 1) : mailbox[j].call = <<"callback", k>>

OrderInv ==
  /\ \A k \in Kinds : since[k] = MaxEvents + 1 \/ SetBefore(k, Len(mailbox) + 1)
  /\ \A i \in 1..Len(mailbox), k \in Kinds :
       mailbox[i].call[1] = k =>
         /\ mailbox[i].event <= events
         /\ mailbox[i].event <= since[k] \/ SetBefore(k, i)

MissedInv == \A m \in missed : m[2] <= events /\ m[2] <= since[m[1]]

LEMMA OrderInit == Init => OrderInv /\ MissedInv
<1> SUFFICES ASSUME Init PROVE OrderInv /\ MissedInv
  OBVIOUS
<1>1. \A k \in Kinds : since[k] = MaxEvents + 1 \/ callback[k]
  BY DEF Init
<1>2. mailbox = <<>> /\ missed = {}
  BY DEF Init
<1>3. Len(mailbox) = 0
  BY <1>2
<1>4. QED
  BY <1>1, <1>2, <1>3 DEF OrderInv, MissedInv, SetBefore

LEMMA EventRange ==
  ASSUME Types, NEW i \in 1..Len(mailbox), NEW k \in Kinds, mailbox[i].call[1] = k
  PROVE  mailbox[i].event \in 1..MaxEvents
<1> DEFINE m == mailbox[i]
<1>1. m \in Messages
  BY DEF Types
<1>2. m \notin [call : Calls, id : 1..MaxCalls, event : {0}]
  BY ServerAssumption DEF AllCalls, Kinds
<1>3. QED
  BY <1>1, <1>2 DEF Messages

\* A clause takes the first message; if it was on_data or on_exit, the
\* callback is set now.
LEMMA TailOrder ==
  ASSUME Types, OrderInv, mailbox # <<>>, mailbox' = Tail(mailbox),
         UNCHANGED <<events, since>>,
         \A k \in Kinds : callback[k] => callback'[k],
         \A k \in Kinds : Head(mailbox).call = <<"callback", k>> => callback'[k]
  PROVE  OrderInv'
<1>1. /\ Len(mailbox) \in Nat /\ Len(mailbox) > 0
      /\ Len(mailbox') = Len(mailbox) - 1
      /\ \A i \in 1..Len(mailbox') : mailbox'[i] = mailbox[i + 1]
      /\ Head(mailbox) = mailbox[1]
  BY TailShape DEF Types
<1>2. ASSUME NEW k \in Kinds, NEW i \in 1..Len(mailbox) + 1, i > 1, SetBefore(k, i)
      PROVE  SetBefore(k, i - 1)'
  <2>1. CASE callback[k]
    BY <2>1 DEF SetBefore
  <2>2. CASE \E j \in 1..(i - 1) : mailbox[j].call = <<"callback", k>>
    <3> PICK j \in 1..(i - 1) : mailbox[j].call = <<"callback", k>>
      BY <2>2
    <3>1. CASE j = 1
      BY <1>1, <3>1 DEF SetBefore
    <3>2. CASE j # 1
      <4>1. j - 1 \in 1..((i - 1) - 1) /\ j - 1 \in 1..Len(mailbox')
        BY <1>1, <3>2
      <4>2. mailbox'[j - 1].call = <<"callback", k>>
        BY <1>1, <4>1
      <4>3. QED
        BY <4>1, <4>2 DEF SetBefore
    <3>3. QED
      BY <3>1, <3>2
  <2>3. QED
    BY <1>2, <2>1, <2>2 DEF SetBefore
<1>3. ASSUME NEW k \in Kinds, since'[k] # MaxEvents + 1
      PROVE  SetBefore(k, Len(mailbox) + 1)'
  <2>1. SetBefore(k, Len(mailbox) + 1)
    BY <1>3 DEF OrderInv
  <2>2. PICK i \in Nat : i = Len(mailbox) + 1
    BY <1>1
  <2>3. SetBefore(k, i - 1)'
    <3>1. i \in 1..Len(mailbox) + 1 /\ i > 1 /\ SetBefore(k, i)
      BY <1>1, <2>1, <2>2
    <3>2. QED
      BY <1>2, <3>1
  <2>4. i - 1 = Len(mailbox') + 1
    BY <1>1, <2>2
  <2>5. QED
    BY <2>3, <2>4 DEF SetBefore
<1>4. ASSUME NEW i \in 1..Len(mailbox'), NEW k \in Kinds, mailbox'[i].call[1] = k
      PROVE  /\ mailbox'[i].event <= events'
             /\ mailbox'[i].event <= since'[k] \/ SetBefore(k, i)'
  <2>1. i + 1 \in 1..Len(mailbox) /\ mailbox'[i] = mailbox[i + 1]
    BY <1>1
  <2>2. /\ mailbox[i + 1].event <= events
        /\ mailbox[i + 1].event <= since[k] \/ SetBefore(k, i + 1)
    BY <1>4, <2>1 DEF OrderInv
  <2>3. SetBefore(k, i + 1) => SetBefore(k, i)'
    <3>1. i + 1 \in 1..Len(mailbox) + 1 /\ i + 1 > 1 /\ (i + 1) - 1 = i
      BY <1>1, <2>1
    <3>2. QED
      BY <1>2, <3>1
  <2>4. QED
    BY <2>1, <2>2, <2>3
<1>5. QED
  BY <1>3, <1>4 DEF OrderInv

\* A message is queued behind those that wait.
LEMMA AppendOrder ==
  ASSUME Types, OrderInv, NEW m \in Messages, Deliver(m), UNCHANGED callback,
         events' \in Nat, events <= events',
         \A k \in Kinds : m.call[1] = k => m.event <= events',
         \A k \in Kinds : m.call[1] = k /\ m.event > since[k]
                         => since[k] # MaxEvents + 1,
         \A k \in Kinds : since'[k] = since[k]
                         \/ (since'[k] = events /\ m.call = <<"callback", k>>)
  PROVE  OrderInv'
<1>1. /\ Len(mailbox) \in Nat /\ Len(mailbox') = Len(mailbox) + 1
      /\ \A i \in 1..Len(mailbox) : mailbox'[i] = mailbox[i]
      /\ mailbox'[Len(mailbox) + 1] = m
  BY AppendShape DEF Types, Deliver
<1>2. ASSUME NEW k \in Kinds, NEW i \in 1..Len(mailbox) + 1, SetBefore(k, i)
      PROVE  SetBefore(k, i)'
  BY <1>1, <1>2 DEF SetBefore
<1>3. ASSUME NEW k \in Kinds, SetBefore(k, Len(mailbox) + 1)
      PROVE  SetBefore(k, Len(mailbox) + 1)'
  <2>1. PICK i \in Nat : i = Len(mailbox) + 1
    BY <1>1
  <2>2. SetBefore(k, i)'
    BY <1>1, <1>2, <1>3, <2>1
  <2>3. i < Len(mailbox') + 1
    BY <1>1, <2>1
  <2>4. QED
    BY <1>1, <2>2, <2>3 DEF SetBefore
<1>4. ASSUME NEW k \in Kinds, since'[k] # MaxEvents + 1
      PROVE  SetBefore(k, Len(mailbox) + 1)'
  <2>1. CASE since'[k] = since[k]
    BY <1>3, <1>4, <2>1 DEF OrderInv
  <2>2. CASE m.call = <<"callback", k>>
    <3>1. Len(mailbox) + 1 \in 1..(Len(mailbox') + 1 - 1)
      BY <1>1
    <3>2. QED
      BY <1>1, <2>2, <3>1 DEF SetBefore
  <2>3. QED
    BY <2>1, <2>2
<1>5. ASSUME NEW i \in 1..Len(mailbox'), NEW k \in Kinds, mailbox'[i].call[1] = k
      PROVE  /\ mailbox'[i].event <= events'
             /\ mailbox'[i].event <= since'[k] \/ SetBefore(k, i)'
  <2>1. since[k] \in 0..MaxEvents + 1 /\ events \in Nat
    BY DEF Types
  <2>2. CASE i \in 1..Len(mailbox)
    <3>1. mailbox'[i] = mailbox[i] /\ mailbox[i].event \in Nat
      BY <1>1, <1>5, <2>2, EventRange
    <3>2. /\ mailbox[i].event <= events
          /\ mailbox[i].event <= since[k] \/ SetBefore(k, i)
      BY <1>5, <2>2, <3>1 DEF OrderInv
    <3>3. SetBefore(k, i) => SetBefore(k, i)'
      BY <1>1, <1>2, <2>2
    <3>4. QED
      BY <2>1, <3>1, <3>2, <3>3
  <2>3. CASE i = Len(mailbox) + 1
    <3>1. m.call[1] = k /\ mailbox'[i] = m
      BY <1>1, <1>5, <2>3
    <3>2. since'[k] = since[k]
      BY <3>1 DEF Kinds
    <3>3. m.event \in Nat
      <4>1. CASE m \in [call : Calls, id : 1..MaxCalls, event : {0}]
        BY <4>1
      <4>2. CASE m \in [call : Kinds \X {TRUE}, id : {0}, event : 1..MaxEvents]
        BY <4>2, ServerAssumption
      <4>3. QED
        BY <4>1, <4>2 DEF Messages
    <3>4. CASE m.event > since[k]
      <4>1. SetBefore(k, i)
        BY <2>3, <3>1, <3>4 DEF OrderInv
      <4>2. QED
        BY <1>1, <1>2, <2>3, <3>1, <4>1
    <3>5. QED
      BY <2>1, <3>1, <3>2, <3>3, <3>4
  <2>4. QED
    BY <1>1, <2>2, <2>3
<1>6. QED
  BY <1>4, <1>5 DEF OrderInv

LEMMA HeadCall ==
  ASSUME Types, NEW op, Message(op)
  PROVE  /\ mailbox # <<>> /\ mailbox' = Tail(mailbox)
         /\ Head(mailbox).call = <<op, Argument>>
<1>1. Head(mailbox) \in Messages
  BY TailShape DEF Types, Message
<1> DEFINE call == Head(mailbox).call
<1>2. call \in AllCalls \cup (Kinds \X {TRUE})
  BY <1>1, ServerAssumption DEF Messages
<1>3. call = <<call[1], call[2]>>
  <2>1. \A S, T : call \in S \X T => call = <<call[1], call[2]>>
    OBVIOUS
  <2>2. QED
    BY <1>2, <2>1 DEF AllCalls
<1>4. QED
  BY <1>3 DEF Message, Argument

LEMMA ClauseOrder ==
  ASSUME Types, OrderInv, NEW op, Message(op), op # "callback",
         UNCHANGED <<events, since, callback>>
  PROVE  OrderInv'
<1>1. /\ mailbox # <<>> /\ mailbox' = Tail(mailbox)
      /\ Head(mailbox).call = <<op, Argument>>
  BY HeadCall
<1>2. \A k \in Kinds : Head(mailbox).call # <<"callback", k>>
  BY <1>1
<1>3. QED
  BY <1>1, <1>2, TailOrder

LEMMA CallbackOrder ==
  ASSUME Types, OrderInv, HandleCallback
  PROVE  OrderInv'
<1>1. /\ mailbox # <<>> /\ mailbox' = Tail(mailbox)
      /\ Head(mailbox).call = <<"callback", Argument>>
      /\ Message("callback")
  BY HeadCall DEF HandleCallback
<1>2. UNCHANGED <<events, since>>
  BY DEF HandleCallback, eventVars
<1>3. \A k \in Kinds : callback[k] => callback'[k]
  BY DEF HandleCallback, CallbackSet, Types
<1>4. ASSUME NEW k \in Kinds, Head(mailbox).call = <<"callback", k>>
      PROVE  callback'[k]
  <2>1. k = Argument
    BY <1>1, <1>4
  <2>2. QED
    BY <2>1 DEF HandleCallback, CallbackSet, Types
<1>5. QED
  BY <1>1, <1>2, <1>3, <1>4, TailOrder

LEMMA CallOrder ==
  ASSUME Types, OrderInv, MissedInv,
         NEW c \in Clients, NEW call \in Calls, Call(c, call)
  PROVE  OrderInv' /\ MissedInv'
<1> DEFINE m == [call |-> call, id |-> calls', event |-> 0]
<1>1. calls' \in 1..MaxCalls /\ calls' = calls + 1
  BY ServerAssumption DEF Call, Types
<1>2. m \in Messages
  BY <1>1 DEF Messages
<1>3. Deliver(m)
  BY DEF Call
<1>4. UNCHANGED <<callback, events, missed>> /\ events \in Nat
  BY ServerAssumption DEF Call, Types
<1>5. \A k \in Kinds : call[1] # k
  BY ServerAssumption DEF AllCalls, Kinds
<1>6. \A k \in Kinds : \/ since'[k] = since[k]
                       \/ (since'[k] = events /\ call = <<"callback", k>>)
  BY DEF Call
<1>7. OrderInv'
  <2>1. \A k \in Kinds : \/ since'[k] = since[k]
                         \/ (since'[k] = events /\ m.call = <<"callback", k>>)
    BY <1>6
  <2>2. \A k \in Kinds : m.call[1] # k
    BY <1>5
  <2>3. events' \in Nat /\ events <= events'
    BY <1>4
  <2> HIDE DEF m
  <2>4. QED
    BY <1>2, <1>3, <1>4, <2>1, <2>2, <2>3, AppendOrder
<1>8. ASSUME NEW e \in missed' PROVE e[2] <= events' /\ e[2] <= since'[e[1]]
  <2>1. e[1] \in Kinds
    BY <1>4 DEF Types
  <2>2. QED
    BY <1>4, <1>6, <1>8, <2>1 DEF MissedInv
<1>9. QED
  BY <1>7, <1>8 DEF MissedInv

LEMMA SendOrder ==
  ASSUME Types, OrderInv, MissedInv, NEW k \in Kinds, Send(k)
  PROVE  OrderInv' /\ MissedInv'
<1> DEFINE m == [call |-> <<k, TRUE>>, id |-> 0, event |-> events']
<1>1. events' \in 1..MaxEvents /\ events' = events + 1 /\ events \in Nat
  BY ServerAssumption DEF Send, Types
<1>2. m \in Messages
  BY <1>1 DEF Messages
<1>3. Deliver(m) /\ UNCHANGED <<callback, since, missed>>
  BY DEF Send
<1>4. OrderInv'
  <2>1. m.event = events' /\ m.event \in 1..MaxEvents
    BY <1>1
  <2>2. \A x \in Kinds : m.event > since[x] => since[x] # MaxEvents + 1
    BY <1>1, ServerAssumption
  <2>3. events' \in Nat /\ events <= events' /\ m.event <= events'
    BY <1>1
  <2> HIDE DEF m
  <2>4. QED
    BY <1>2, <1>3, <2>2, <2>3, AppendOrder
<1>5. MissedInv'
  <2> SUFFICES ASSUME NEW e \in missed
               PROVE  e[2] <= events' /\ e[2] <= since[e[1]]
    BY <1>3 DEF MissedInv
  <2>1. e[2] \in Nat
    BY DEF Types
  <2>2. QED
    BY <1>1, <2>1 DEF MissedInv
<1>6. QED
  BY <1>4, <1>5

LEMMA OrderStep ==
  Types /\ OrderInv /\ MissedInv /\ [Next]_vars => OrderInv' /\ MissedInv'
<1> SUFFICES ASSUME Types, OrderInv, MissedInv, [Next]_vars
             PROVE  OrderInv' /\ MissedInv'
  OBVIOUS
<1> USE DEF settingVars, queueVars, lineVars, serverVars, callVars, eventVars, flowVars
<1>1. CASE \E k \in Kinds : HandleEvent(k)
  <2> PICK k \in Kinds : HandleEvent(k)
    BY <1>1
  <2>1. Message(k) /\ k # "callback" /\ UNCHANGED <<events, since, callback>>
    BY DEF HandleEvent, Kinds
  <2>2. OrderInv'
    BY <2>1, ClauseOrder
  <2>3. ~callback[k] => /\ Head(mailbox).event <= events
                        /\ Head(mailbox).event <= since[k]
    <3>1. /\ Head(mailbox) = mailbox[1] /\ 1 \in 1..Len(mailbox)
          /\ mailbox[1].call[1] = k
      BY <2>1, TailShape DEF Message, Types
    <3>2. SetBefore(k, 1) => callback[k]
      BY DEF SetBefore
    <3>3. QED
      BY <3>1, <3>2 DEF OrderInv
  <2>4. QED
    BY <2>1, <2>2, <2>3 DEF HandleEvent, MissedInv
<1>2. CASE HandleCallback
  BY <1>2, CallbackOrder DEF HandleCallback, MissedInv
<1>3. CASE \/ HandleFlow \/ HandleWriteFlow \/ HandleWrite
           \/ \E op \in {"pause", "resume", "echo"} : HandleSettings(op)
  <2>1. UNCHANGED <<events, since, callback, missed>>
    BY <1>3 DEF HandleFlow, HandleWriteFlow, HandleWrite, HandleSettings, Begin
  <2>2. PICK op \in {"flow", "write", "pause", "resume", "echo"} : Message(op)
    BY <1>3 DEF HandleFlow, HandleWriteFlow, HandleWrite, HandleSettings
  <2>3. QED
    BY <2>1, <2>2, ClauseOrder DEF MissedInv
<1>4. CASE \E c \in Clients, call \in Calls : Call(c, call)
  BY <1>4, CallOrder
<1>5. CASE \E k \in Kinds : Send(k)
  BY <1>5, SendOrder
<1>6. CASE \/ Fail \/ Get \/ Set \/ SendControl \/ GetElsewhere
           \/ SetElsewhere \/ CloseMaster \/ TakeChar
           \/ \E c \in Clients : GiveUp(c)
           \/ \E s \in BOOLEAN \X BOOLEAN : Touch(s)
           \/ UNCHANGED vars
  <2>1. UNCHANGED <<mailbox, callback, eventVars>>
    BY <1>6 DEF Fail, Get, Set, SendControl, GetElsewhere, SetElsewhere,
                CloseMaster, TakeChar, GiveUp, Touch, vars
  <2>2. QED
    BY <2>1 DEF OrderInv, MissedInv, SetBefore
<1>7. QED
  BY <1>1, <1>2, <1>3, <1>4, <1>5, <1>6 DEF Next, ServerStep

-----------------------------------------------------------------------------
(* Writes: the calls are in order from the mailbox to the program.         *)

\* The ids of two characters or messages, 0 for what is no call of a client.
Earlier(m, n) == m # 0 /\ n # 0 => m < n

\* Within the mailbox, the queue and the input, and from each to the next.
MailRising  == /\ \A i, j \in 1..Len(mailbox) :
                    i < j => Earlier(mailbox[i].id, mailbox[j].id)
               /\ \A i \in 1..Len(mailbox) : mailbox[i].id <= calls
TypedRising == /\ \A i, j \in 1..Len(typed) :
                    i < j => Earlier(typed[i].id, typed[j].id)
               /\ \A i \in 1..Len(typed) : typed[i].id <= calls
InputRising == /\ \A i, j \in 1..Len(input) :
                    i < j => Earlier(input[i], input[j])
               /\ \A i \in 1..Len(input) : input[i] <= calls
TypedFirst  == \A i \in 1..Len(typed), j \in 1..Len(mailbox) :
                 Earlier(typed[i].id, mailbox[j].id)
InputFirst  == /\ \A i \in 1..Len(input), j \in 1..Len(typed) :
                    Earlier(input[i], typed[j].id)
               /\ \A i \in 1..Len(input), j \in 1..Len(mailbox) :
                    Earlier(input[i], mailbox[j].id)

QueueInv ==
  MailRising /\ TypedRising /\ InputRising /\ TypedFirst /\ InputFirst

LEMMA QueueInit == Init => QueueInv
<1> SUFFICES ASSUME Init PROVE QueueInv
  OBVIOUS
<1>1. Len(mailbox) = 0 /\ Len(typed) = 0 /\ Len(input) = 0
  BY DEF Init
<1>2. QED
  BY <1>1 DEF QueueInv, MailRising, TypedRising, InputRising, TypedFirst,
              InputFirst

\* What is in the queue has an id.
LEMMA QueueNumbers ==
  ASSUME Types
  PROVE  /\ calls \in Nat
         /\ \A i \in 1..Len(mailbox) : mailbox[i].id \in Nat
         /\ \A i \in 1..Len(typed) : typed[i].id \in Nat
         /\ \A i \in 1..Len(input) : input[i] \in Nat
<1>1. \A i \in 1..Len(mailbox) : mailbox[i] \in Messages
  BY DEF Types
<1>2. ASSUME NEW m \in Messages PROVE m.id \in Nat
  <2>1. CASE m \in [call : Calls, id : 1..MaxCalls, event : {0}]
    BY <2>1, ServerAssumption
  <2>2. CASE m \in [call : Kinds \X {TRUE}, id : {0}, event : 1..MaxEvents]
    BY <2>2
  <2>3. QED
    BY <2>1, <2>2 DEF Messages
<1>3. \A i \in 1..Len(typed) : typed[i] \in Characters
  BY DEF Types
<1>4. \A c \in Characters : c.id \in Nat
  BY ServerAssumption DEF Characters
<1>5. \A i \in 1..Len(input) : input[i] \in Nat
  BY ServerAssumption DEF Types
<1>6. calls \in Nat
  BY ServerAssumption DEF Types
<1>7. QED
  BY <1>1, <1>2, <1>3, <1>4, <1>5, <1>6

\* A clause takes the first message and types nothing.
LEMMA TailQueue ==
  ASSUME Types, QueueInv, mailbox # <<>>, mailbox' = Tail(mailbox),
         UNCHANGED <<typed, input, calls>>
  PROVE  QueueInv'
<1>1. /\ Len(mailbox) \in Nat /\ Len(mailbox') = Len(mailbox) - 1
      /\ \A i \in 1..Len(mailbox') : mailbox'[i] = mailbox[i + 1]
  BY TailShape DEF Types
<1>2. MailRising'
  BY <1>1 DEF QueueInv, MailRising
<1>3. TypedFirst'
  BY <1>1 DEF QueueInv, TypedFirst
<1>4. InputFirst'
  BY <1>1 DEF QueueInv, InputFirst
<1>5. QED
  BY <1>2, <1>3, <1>4 DEF QueueInv, TypedRising, InputRising

\* A new call has the highest id, a message of a thread none.
LEMMA DeliverQueue ==
  ASSUME Types, QueueInv, NEW m \in Messages, Deliver(m),
         UNCHANGED <<typed, input>>, calls' \in Nat, calls <= calls',
         m.id = 0 \/ (m.id = calls' /\ calls' = calls + 1)
  PROVE  QueueInv'
<1>1. /\ Len(mailbox) \in Nat /\ Len(mailbox') = Len(mailbox) + 1
      /\ \A i \in 1..Len(mailbox) : mailbox'[i] = mailbox[i]
      /\ mailbox'[Len(mailbox) + 1] = m
  BY AppendShape DEF Types, Deliver
<1>2. MailRising'
  <2>1. \A i \in 1..Len(mailbox) : mailbox[i].id \in Nat /\ mailbox[i].id <= calls
    BY QueueNumbers DEF QueueInv, MailRising
  <2>2. ASSUME NEW i \in 1..Len(mailbox'), NEW j \in 1..Len(mailbox'), i < j
        PROVE  Earlier(mailbox'[i].id, mailbox'[j].id)
    <3>1. CASE j \in 1..Len(mailbox)
      BY <1>1, <2>2, <3>1 DEF QueueInv, MailRising
    <3>2. CASE j = Len(mailbox) + 1
      <4>1. i \in 1..Len(mailbox) /\ mailbox'[i] = mailbox[i] /\ mailbox'[j] = m
        BY <1>1, <2>2, <3>2
      <4>2. QED
        BY <2>1, <4>1, QueueNumbers DEF Earlier
    <3>3. QED
      BY <1>1, <3>1, <3>2
  <2>3. ASSUME NEW i \in 1..Len(mailbox') PROVE mailbox'[i].id <= calls'
    <3>1. CASE i \in 1..Len(mailbox)
      BY <1>1, <2>1, <3>1, QueueNumbers
    <3>2. CASE i = Len(mailbox) + 1
      BY <1>1, <3>2
    <3>3. QED
      BY <1>1, <3>1, <3>2
  <2>4. QED
    BY <2>2, <2>3 DEF MailRising
<1>3. TypedRising' /\ InputRising'
  BY QueueNumbers DEF QueueInv, TypedRising, InputRising
<1>4. TypedFirst'
  <2> SUFFICES ASSUME NEW i \in 1..Len(typed), NEW j \in 1..Len(mailbox')
               PROVE  Earlier(typed[i].id, mailbox'[j].id)
    BY DEF TypedFirst
  <2>1. CASE j \in 1..Len(mailbox)
    BY <1>1, <2>1 DEF QueueInv, TypedFirst
  <2>2. CASE j = Len(mailbox) + 1
    <3>1. typed[i].id \in Nat /\ typed[i].id <= calls /\ mailbox'[j] = m
      BY <1>1, <2>2, QueueNumbers DEF QueueInv, TypedRising
    <3>2. QED
      BY <3>1, QueueNumbers DEF Earlier
  <2>3. QED
    BY <1>1, <2>1, <2>2
<1>5. InputFirst'
  <2>1. ASSUME NEW i \in 1..Len(input), NEW j \in 1..Len(mailbox')
        PROVE  Earlier(input[i], mailbox'[j].id)
    <3>1. CASE j \in 1..Len(mailbox)
      BY <1>1, <3>1 DEF QueueInv, InputFirst
    <3>2. CASE j = Len(mailbox) + 1
      <4>1. input[i] \in Nat /\ input[i] <= calls /\ mailbox'[j] = m
        BY <1>1, <3>2, QueueNumbers DEF QueueInv, InputRising
      <4>2. QED
        BY <4>1, QueueNumbers DEF Earlier
    <3>3. QED
      BY <1>1, <3>1, <3>2
  <2>2. QED
    BY <2>1 DEF QueueInv, InputFirst
<1>6. QED
  BY <1>2, <1>3, <1>4, <1>5 DEF QueueInv

\* The server types a character: of no call, or of the call that waited
\* longest.
LEMMA TypeQueue ==
  ASSUME Types, QueueInv, NEW c \in Chars, NEW id \in 0..MaxCalls,
         Type(c, id), id <= calls, UNCHANGED <<input, calls>>, MailRising',
         \A i \in 1..Len(typed) : Earlier(typed[i].id, id),
         \A i \in 1..Len(input) : Earlier(input[i], id),
         \A j \in 1..Len(mailbox') : Earlier(id, mailbox'[j].id),
         \A i \in 1..Len(typed), j \in 1..Len(mailbox') :
           Earlier(typed[i].id, mailbox'[j].id),
         \A i \in 1..Len(input), j \in 1..Len(mailbox') :
           Earlier(input[i], mailbox'[j].id)
  PROVE  QueueInv'
<1> DEFINE x == [char |-> c, id |-> id]
<1>1. x \in Characters /\ x.id = id /\ typed \in Seq(Characters)
  BY DEF Characters, Types
<1>2. typed' = Append(typed, x)
  BY DEF Type
<1> HIDE DEF x
<1>3. /\ Len(typed) \in Nat /\ Len(typed') = Len(typed) + 1
      /\ \A i \in 1..Len(typed) : typed'[i] = typed[i]
      /\ typed'[Len(typed) + 1] = x
  BY <1>1, <1>2, AppendShape
<1>4. TypedRising'
  <2>1. ASSUME NEW i \in 1..Len(typed'), NEW j \in 1..Len(typed'), i < j
        PROVE  Earlier(typed'[i].id, typed'[j].id)
    <3>1. CASE j \in 1..Len(typed)
      BY <1>3, <2>1, <3>1 DEF QueueInv, TypedRising
    <3>2. CASE j = Len(typed) + 1
      BY <1>1, <1>3, <2>1, <3>2
    <3>3. QED
      BY <1>3, <3>1, <3>2
  <2>2. ASSUME NEW i \in 1..Len(typed') PROVE typed'[i].id <= calls
    <3>1. CASE i \in 1..Len(typed)
      BY <1>3, <3>1 DEF QueueInv, TypedRising
    <3>2. CASE i = Len(typed) + 1
      BY <1>1, <1>3, <3>2
    <3>3. QED
      BY <1>3, <3>1, <3>2
  <2>3. QED
    BY <2>1, <2>2 DEF TypedRising
<1>5. TypedFirst'
  <2> SUFFICES ASSUME NEW i \in 1..Len(typed'), NEW j \in 1..Len(mailbox')
               PROVE  Earlier(typed'[i].id, mailbox'[j].id)
    BY DEF TypedFirst
  <2>1. CASE i \in 1..Len(typed)
    BY <1>3, <2>1
  <2>2. CASE i = Len(typed) + 1
    BY <1>1, <1>3, <2>2
  <2>3. QED
    BY <1>3, <2>1, <2>2
<1>6. InputFirst'
  <2>1. ASSUME NEW i \in 1..Len(input), NEW j \in 1..Len(typed')
        PROVE  Earlier(input[i], typed'[j].id)
    <3>1. CASE j \in 1..Len(typed)
      BY <1>3, <3>1 DEF QueueInv, InputFirst
    <3>2. CASE j = Len(typed) + 1
      BY <1>1, <1>3, <3>2
    <3>3. QED
      BY <1>3, <3>1, <3>2
  <2>2. QED
    BY <2>1 DEF InputFirst
<1>7. QED
  BY <1>4, <1>5, <1>6 DEF QueueInv, InputRising

\* The line takes a character, and may give it to the program.
LEMMA TakeQueue ==
  ASSUME Types, QueueInv, TakeChar
  PROVE  QueueInv'
<1>1. UNCHANGED <<mailbox, calls>>
  BY DEF TakeChar, serverVars, callVars
<1>2. typed \in Seq(Characters) /\ typed # <<>> /\ typed' = Tail(typed)
  BY DEF TakeChar, Types
<1>3. /\ Len(typed) \in Nat /\ Len(typed) > 0
      /\ Len(typed') = Len(typed) - 1 /\ Head(typed) = typed[1]
      /\ \A i \in 1..Len(typed') : typed'[i] = typed[i + 1]
  BY <1>2, TailShape
<1> DEFINE n == typed[1].id
<1>4. n \in 0..MaxCalls /\ input \in Seq(0..MaxCalls)
  <2>1. typed[1] \in Characters
    BY <1>2, <1>3
  <2>2. QED
    BY <2>1 DEF Types, Characters
<1>5. TypedRising' /\ TypedFirst'
  <2>1. \A i \in 1..Len(typed') : i + 1 \in 1..Len(typed)
    BY <1>3
  <2>2. \A i, j \in 1..Len(typed') :
          i < j => Earlier(typed'[i].id, typed'[j].id)
    BY <1>3, <2>1 DEF QueueInv, TypedRising
  <2>3. \A i \in 1..Len(typed') : typed'[i].id <= calls
    BY <1>3, <2>1 DEF QueueInv, TypedRising
  <2>4. \A i \in 1..Len(typed'), j \in 1..Len(mailbox) :
          Earlier(typed'[i].id, mailbox[j].id)
    BY <1>3, <2>1 DEF QueueInv, TypedFirst
  <2>5. TypedRising'
    BY <1>1, <2>2, <2>3 DEF TypedRising
  <2>6. TypedFirst'
    BY <1>1, <2>4 DEF TypedFirst
  <2>7. QED
    BY <2>5, <2>6
<1>6. CASE input' = input
  <2>1. MailRising' /\ InputRising'
    BY <1>1, <1>6 DEF QueueInv, MailRising, InputRising
  <2>2. \A j \in 1..Len(typed') : j + 1 \in 1..Len(typed)
    BY <1>3
  <2>3. \A i \in 1..Len(input), j \in 1..Len(typed') :
          Earlier(input[i], typed'[j].id)
    BY <1>3, <2>2 DEF QueueInv, InputFirst
  <2>4. \A i \in 1..Len(input), j \in 1..Len(mailbox) :
          Earlier(input[i], mailbox[j].id)
    BY DEF QueueInv, InputFirst
  <2>5. InputFirst'
    BY <1>1, <1>6, <2>3, <2>4 DEF InputFirst
  <2>6. QED
    BY <1>5, <2>1, <2>5 DEF QueueInv
<1>7. CASE input' = Append(input, n)
  <2> HIDE DEF n
  <2>1. /\ Len(input) \in Nat /\ Len(input') = Len(input) + 1
        /\ \A i \in 1..Len(input) : input'[i] = input[i]
        /\ input'[Len(input) + 1] = n
    BY <1>4, <1>7, AppendShape
  <2>2. /\ n <= calls
        /\ \A i \in 1..Len(input) : Earlier(input[i], n)
        /\ \A j \in 1..Len(typed') : Earlier(n, typed'[j].id)
        /\ \A j \in 1..Len(mailbox) : Earlier(n, mailbox[j].id)
    BY <1>3 DEF QueueInv, TypedRising, TypedFirst, InputFirst, n
  <2>3. InputRising'
    <3>1. ASSUME NEW i \in 1..Len(input'), NEW j \in 1..Len(input'), i < j
          PROVE  Earlier(input'[i], input'[j])
      <4>1. CASE j \in 1..Len(input)
        BY <2>1, <3>1, <4>1 DEF QueueInv, InputRising
      <4>2. CASE j = Len(input) + 1
        BY <2>1, <2>2, <3>1, <4>2
      <4>3. QED
        BY <2>1, <4>1, <4>2
    <3>2. ASSUME NEW i \in 1..Len(input') PROVE input'[i] <= calls
      <4>1. CASE i \in 1..Len(input)
        BY <2>1, <4>1 DEF QueueInv, InputRising
      <4>2. CASE i = Len(input) + 1
        BY <2>1, <2>2, <4>2
      <4>3. QED
        BY <2>1, <4>1, <4>2
    <3>3. QED
      BY <1>1, <3>1, <3>2 DEF InputRising
  <2>4. InputFirst'
    <3>1. ASSUME NEW i \in 1..Len(input'), NEW j \in 1..Len(typed')
          PROVE  Earlier(input'[i], typed'[j].id)
      <4>1. CASE i \in 1..Len(input)
        BY <1>3, <2>1, <4>1 DEF QueueInv, InputFirst
      <4>2. CASE i = Len(input) + 1
        BY <2>1, <2>2, <4>2
      <4>3. QED
        BY <2>1, <4>1, <4>2
    <3>2. ASSUME NEW i \in 1..Len(input'), NEW j \in 1..Len(mailbox)
          PROVE  Earlier(input'[i], mailbox[j].id)
      <4>1. CASE i \in 1..Len(input)
        BY <2>1, <4>1 DEF QueueInv, InputFirst
      <4>2. CASE i = Len(input) + 1
        BY <2>1, <2>2, <4>2
      <4>3. QED
        BY <2>1, <4>1, <4>2
    <3>3. QED
      BY <1>1, <3>1, <3>2 DEF InputFirst
  <2>5. QED
    BY <1>1, <1>5, <2>3, <2>4 DEF QueueInv, MailRising
<1>8. QED
  BY <1>3, <1>6, <1>7 DEF TakeChar

LEMMA WriteQueue ==
  ASSUME Types, QueueInv, HandleWrite
  PROVE  QueueInv'
<1>1. /\ Message("write") /\ UNCHANGED <<input, calls>>
      /\ mailbox # <<>> /\ mailbox' = Tail(mailbox)
  BY DEF HandleWrite, Message
<1>2. CASE ~open
  BY <1>1, <1>2, TailQueue DEF HandleWrite
<1>3. CASE open
  <2> DEFINE id == Head(mailbox).id
  <2>1. Argument \in Chars /\ id \in 0..MaxCalls
    BY <1>1, ArgumentType DEF Message
  <2>2. Type(Argument, id)
    BY <1>3 DEF HandleWrite, Passed
  <2>3. /\ Len(mailbox) \in Nat /\ Len(mailbox) > 0
        /\ Len(mailbox') = Len(mailbox) - 1
        /\ \A i \in 1..Len(mailbox') : mailbox'[i] = mailbox[i + 1]
        /\ Head(mailbox) = mailbox[1]
    BY <1>1, TailShape DEF Types
  <2>4. /\ id <= calls
        /\ \A i \in 1..Len(typed) : Earlier(typed[i].id, id)
        /\ \A i \in 1..Len(input) : Earlier(input[i], id)
        /\ \A j \in 1..Len(mailbox') : Earlier(id, mailbox'[j].id)
    <3>1. 1 \in 1..Len(mailbox)
          /\ \A j \in 1..Len(mailbox') : j + 1 \in 1..Len(mailbox) /\ 1 < j + 1
      BY <2>3
    <3>2. id <= calls /\ \A j \in 1..Len(mailbox') : Earlier(id, mailbox'[j].id)
      BY <2>3, <3>1 DEF QueueInv, MailRising
    <3>3. \A i \in 1..Len(typed) : Earlier(typed[i].id, id)
      BY <2>3, <3>1 DEF QueueInv, TypedFirst
    <3>4. \A i \in 1..Len(input) : Earlier(input[i], id)
      BY <2>3, <3>1 DEF QueueInv, InputFirst
    <3>5. QED
      BY <3>2, <3>3, <3>4
  <2>5. /\ MailRising'
        /\ \A i \in 1..Len(typed), j \in 1..Len(mailbox') :
             Earlier(typed[i].id, mailbox'[j].id)
        /\ \A i \in 1..Len(input), j \in 1..Len(mailbox') :
             Earlier(input[i], mailbox'[j].id)
    <3>1. /\ \A j \in 1..Len(mailbox') : j + 1 \in 1..Len(mailbox)
          /\ \A i, j \in 1..Len(mailbox') : i < j => i + 1 < j + 1
      BY <2>3
    <3>2. MailRising'
      BY <1>1, <2>3, <3>1 DEF QueueInv, MailRising
    <3>3. \A i \in 1..Len(typed), j \in 1..Len(mailbox') :
            Earlier(typed[i].id, mailbox'[j].id)
      BY <2>3, <3>1 DEF QueueInv, TypedFirst
    <3>4. \A i \in 1..Len(input), j \in 1..Len(mailbox') :
            Earlier(input[i], mailbox'[j].id)
      BY <2>3, <3>1 DEF QueueInv, InputFirst
    <3>5. QED
      BY <3>2, <3>3, <3>4
  <2> HIDE DEF id
  <2>6. QED
    BY <1>1, <2>1, <2>2, <2>4, <2>5, TypeQueue
<1>4. QED
  BY <1>2, <1>3

LEMMA QueueStep == Types /\ QueueInv /\ [Next]_vars => QueueInv'
<1> SUFFICES ASSUME Types, QueueInv, [Next]_vars PROVE QueueInv'
  OBVIOUS
<1> USE DEF settingVars, queueVars, lineVars, serverVars, callVars, eventVars,
            flowVars
<1>1. CASE \/ \E k \in Kinds : HandleEvent(k)
           \/ HandleCallback \/ HandleFlow \/ HandleWriteFlow
           \/ \E op \in {"pause", "resume", "echo"} : HandleSettings(op)
  <2>1. /\ UNCHANGED <<typed, input, calls>>
        /\ mailbox # <<>> /\ mailbox' = Tail(mailbox)
    BY <1>1 DEF HandleEvent, HandleCallback, HandleFlow, HandleWriteFlow,
                HandleSettings, Begin, Message
  <2>2. QED
    BY <2>1, TailQueue
<1>2. CASE HandleWrite
  BY <1>2, WriteQueue
<1>3. CASE SendControl
  <2>1. UNCHANGED <<mailbox, input, calls>>
    BY <1>3 DEF SendControl
  <2>2. CASE typed' = typed
    BY <2>1, <2>2 DEF QueueInv, MailRising, TypedRising, InputRising, TypedFirst,
                      InputFirst
  <2>3. CASE \E c \in {"xoff", "xon"} : Type(c, 0)
    <3> PICK c \in {"xoff", "xon"} : Type(c, 0)
      BY <2>3
    <3>1. c \in Chars /\ 0 \in 0..MaxCalls /\ 0 <= calls
      BY ServerAssumption, QueueNumbers DEF Chars
    <3>2. \A n : Earlier(n, 0) /\ Earlier(0, n)
      BY DEF Earlier
    <3>3. /\ MailRising'
          /\ \A i \in 1..Len(typed), j \in 1..Len(mailbox') :
               Earlier(typed[i].id, mailbox'[j].id)
          /\ \A i \in 1..Len(input), j \in 1..Len(mailbox') :
               Earlier(input[i], mailbox'[j].id)
      BY <2>1 DEF QueueInv, MailRising, TypedFirst, InputFirst
    <3>4. QED
      BY <2>1, <3>1, <3>2, <3>3, TypeQueue
  <2>4. QED
    BY <1>3, <2>2, <2>3 DEF SendControl
<1>4. CASE \E c \in Clients, call \in Calls : Call(c, call)
  <2> PICK c \in Clients, call \in Calls : Call(c, call)
    BY <1>4
  <2> DEFINE m == [call |-> call, id |-> calls', event |-> 0]
  <2>1. calls' \in 1..MaxCalls /\ calls' = calls + 1 /\ calls \in Nat
    BY ServerAssumption DEF Call, Types
  <2>2. m \in Messages /\ m.id = calls' /\ Deliver(m)
    BY <2>1 DEF Messages, Call
  <2>3. UNCHANGED <<typed, input>> /\ calls' \in Nat /\ calls <= calls'
    BY <2>1 DEF Call
  <2> HIDE DEF m
  <2>4. QED
    BY <2>1, <2>2, <2>3, DeliverQueue
<1>5. CASE \E k \in Kinds : Send(k)
  <2> PICK k \in Kinds : Send(k)
    BY <1>5
  <2> DEFINE m == [call |-> <<k, TRUE>>, id |-> 0, event |-> events']
  <2>1. events' \in 1..MaxEvents
    BY ServerAssumption DEF Send, Types
  <2>2. m \in Messages /\ m.id = 0 /\ Deliver(m)
    BY <2>1 DEF Messages, Send
  <2>3. UNCHANGED <<typed, input, calls>> /\ calls \in Nat
    BY QueueNumbers DEF Send
  <2> HIDE DEF m
  <2>4. QED
    BY <2>2, <2>3, DeliverQueue
<1>6. CASE TakeChar
  BY <1>6, TakeQueue
<1>7. CASE \/ Fail \/ Get \/ Set \/ GetElsewhere \/ SetElsewhere \/ CloseMaster
           \/ \E c \in Clients : GiveUp(c)
           \/ \E s \in BOOLEAN \X BOOLEAN : Touch(s)
           \/ UNCHANGED vars
  <2>1. UNCHANGED <<mailbox, typed, input, calls>>
    BY <1>7 DEF Fail, Get, Set, GetElsewhere, SetElsewhere, CloseMaster, GiveUp,
                Touch, vars
  <2>2. QED
    BY <2>1 DEF QueueInv, MailRising, TypedRising, InputRising, TypedFirst,
                InputFirst
<1>8. QED
  BY <1>1, <1>2, <1>3, <1>4, <1>5, <1>6, <1>7 DEF Next, ServerStep

-----------------------------------------------------------------------------
(* The theorems.                                                           *)

Inductive == Types /\ FlowInv /\ LastEchoWins /\ OrderInv /\ MissedInv /\ QueueInv

\* The inductive invariant: the settings in hand are the line's, the XOFF of
\* a pause is the last character typed, and the mailbox, the queue and the
\* input are in the order of the senders.
THEOREM InductiveInvariant == Spec => []Inductive
<1>1. Init => Inductive
  <2>1. Init => LastEchoWins
    BY DEF Init, LastEchoWins
  <2>2. QED
    BY <2>1, TypesInit, FlowInit, OrderInit, QueueInit DEF Inductive
<1>2. Inductive /\ [Next]_vars => Inductive'
  BY TypesStep, FlowStep, EchoStep, OrderStep, QueueStep DEF Inductive
<1>3. QED
  BY <1>1, <1>2, PTL DEF Spec

\* Every variable of the server, the line and its clients has its type.
THEOREM TypeCorrect == Spec => []TypeOK
<1>1. Inductive => TypeOK
  BY DEF Inductive, Types, TypeOK
<1>2. QED
  BY <1>1, InductiveInvariant, PTL

\* The XOFF or XON that the terminal took is obeyed until the program or a
\* write interferes, however the calls of the clients, the changes by the
\* program and the reading of the queue interleave; a pause whose XOFF met a
\* full queue is not among them.
THEOREM FlowObeyedTheorem == Spec => []FlowObeyed
<1>1. Inductive => FlowObeyed
  BY DEF Inductive, FlowInv, FlowObeyed
<1>2. QED
  BY <1>1, InductiveInvariant, PTL

\* pause and resume keep the ECHO of the line, but for the race with the
\* program.
THEOREM LastEchoWinsTheorem == Spec => []LastEchoWins
<1>1. Inductive => LastEchoWins
  BY DEF Inductive
<1>2. QED
  BY <1>1, InductiveInvariant, PTL

\* A callback misses only messages sent before it was asked for.
THEOREM MissedOnlyEarlierTheorem == Spec => []MissedOnlyEarlier
<1>1. Inductive => MissedOnlyEarlier
  BY DEF Inductive, MissedInv, MissedOnlyEarlier
<1>2. QED
  BY <1>1, InductiveInvariant, PTL

\* A write reaches the program at most once and in the order of the calls,
\* given up or not, and whatever pauses and resumes come between.
THEOREM InputInOrderTheorem == Spec => []InputInOrder
<1>1. Inductive => InputInOrder
  <2> SUFFICES ASSUME Types, QueueInv PROVE InputInOrder
    BY DEF Inductive
  <2> DEFINE ids == [i \in 1..Len(typed) |-> typed[i].id]
  <2>1. \A i \in 1..Len(typed) : typed[i].id \in Nat
    BY QueueNumbers
  <2>2. Len(typed) \in Nat
    BY DEF Types
  <2>3. ids \in Seq(Nat) /\ Len(ids) = Len(typed)
    BY <2>1, <2>2
  <2>4. \A i \in 1..Len(typed) : ids[i] = typed[i].id
    OBVIOUS
  <2>5. Passing = input \o ids
    BY DEF Passing
  <2>6. input \in Seq(Nat)
    BY ServerAssumption DEF Types
  <2> HIDE DEF ids
  <2>7. /\ Len(input) \in Nat /\ Len(Passing) = Len(input) + Len(typed)
        /\ \A i \in 1..Len(Passing) :
             Passing[i] = IF i <= Len(input) THEN input[i]
                          ELSE ids[i - Len(input)]
    BY <2>3, <2>5, <2>6, ConcatShape
  <2>8. ASSUME NEW i \in 1..Len(Passing), NEW j \in 1..Len(Passing), i < j
        PROVE  Earlier(Passing[i], Passing[j])
    <3>1. CASE j <= Len(input)
      BY <2>7, <2>8, <3>1 DEF QueueInv, InputRising
    <3>2. CASE i <= Len(input) /\ ~(j <= Len(input))
      <4>1. /\ i \in 1..Len(input) /\ j - Len(input) \in 1..Len(typed)
            /\ Passing[i] = input[i]
            /\ Passing[j] = typed[j - Len(input)].id
        BY <2>2, <2>4, <2>7, <2>8, <3>2
      <4>2. QED
        BY <4>1 DEF QueueInv, InputFirst
    <3>3. CASE ~(i <= Len(input))
      <4>1. /\ i - Len(input) \in 1..Len(typed)
            /\ j - Len(input) \in 1..Len(typed)
            /\ i - Len(input) < j - Len(input)
            /\ Passing[i] = typed[i - Len(input)].id
            /\ Passing[j] = typed[j - Len(input)].id
        BY <2>2, <2>4, <2>7, <2>8, <3>3
      <4>2. QED
        BY <4>1 DEF QueueInv, TypedRising
    <3>4. QED
      BY <2>7, <2>8, <3>1, <3>2, <3>3
  <2>9. QED
    BY <2>8 DEF InputInOrder, Earlier
<1>2. QED
  BY <1>1, InductiveInvariant, PTL
=============================================================================
