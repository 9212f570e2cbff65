--------------------------- MODULE TerminalServer ---------------------------
(***************************************************************************)
(* The GenServer of one Unix terminal after spawn (expty.ex:546-699): its  *)
(* callbacks, automatic flow control, pause, resume and set_echo, which    *)
(* read, change and write back the settings of the line (pty.cpp:470-545), *)
(* and callers that give up after the five seconds of GenServer.call.      *)
(* The program may change the same settings at any moment.                 *)
(*                                                                         *)
(* The write loop is in PtySession; here a write is one step, taken when   *)
(* the input queue of the terminal has room.  The line discipline takes    *)
(* characters from that queue when it likes, and only then do ^S and ^Q    *)
(* stop and start the output.  Of the settings the model keeps IXON and    *)
(* the ECHO flags, IXANY is always on as set by spawn, and IXOFF has no    *)
(* effect in a pseudoterminal.                                             *)
(***************************************************************************)
EXTENDS Naturals, Sequences

CONSTANTS
  Clients,       \* processes that use the terminal
  Calls,         \* the calls they make, as <<operation, argument>>
  MaxCalls,      \* bound: calls made
  MaxEvents,     \* bound: data messages of the reader, and the exit
  MaxTouches,    \* bound: changes of the settings by the program
  Options,       \* on_data and on_exit given to spawn: "none", "function"
                 \* or "module"
  FlowControl,   \* the option handle_flow_control
  QueueCap,      \* characters the input queue holds
  HostReopens    \* the number of the closed master may get another file

Kinds == {"data", "exit"}
Chars == {"text", "xoff", "xon"}

AllCalls ==
  ({"write"} \X Chars) \cup ({"flow", "echo"} \X BOOLEAN) \cup
  ({"callback"} \X Kinds) \cup ({"pause", "resume"} \X {TRUE})

ASSUME ServerAssumption ==
  /\ Calls \subseteq AllCalls
  /\ MaxCalls \in Nat /\ MaxEvents \in Nat /\ MaxTouches \in Nat
  /\ Options \in [Kinds -> {"none", "function", "module"}]
  /\ FlowControl \in BOOLEAN
  /\ QueueCap \in Nat \ {0}
  /\ HostReopens \in BOOLEAN

VARIABLES
  \* the line (kernel)
  ixon, echo,   \* its settings
  stopped,      \* has XOFF stopped the output?
  open,         \* the master descriptor
  typed,        \* its input queue: characters not yet taken
  \* the server
  mailbox,
  job,          \* the settings call in progress
  at,           \* where it is: "idle", "get", "set" or "send"
  settings,     \* the copy of the settings in its hand, <<ixon, echo>>
  flow,         \* handle_flow_control
  callback,     \* on_data and on_exit: set or not
  \* callers and threads
  calls,        \* calls made
  waiting,      \* the call each client waits for, 0: none
  events,       \* data and exit messages sent, in this order
  exited,       \* was the last of them the exit?
  touches,      \* changes made by the program
  \* history
  input,        \* what the program was given: calls, 0 for a character the
                \* server sent of its own
  oked,         \* writes of text that were answered :ok
  missed,       \* <<kind, event>> that met no callback
  since,        \* events sent when a callback was first asked for
  asked,        \* "pause" or "resume", while nothing else interfered, and
                \* "refused" for a pause whose XOFF met a full queue
  touched,      \* has the program changed the settings since tcgetattr?
  lastEcho,     \* the last setting of ECHO by the program or by set_echo
  overwritten   \* has a stale copy been written back?

settingVars == <<ixon, echo>>
queueVars  == <<typed, input>>
lineVars   == <<settingVars, stopped, open, queueVars>>
serverVars == <<mailbox, job, at, settings, flow, callback>>
callVars   == <<calls, waiting, oked>>
eventVars  == <<events, exited, missed, since>>
flowVars   == <<touches, asked, touched, lastEcho, overwritten>>
vars == <<lineVars, serverVars, callVars, eventVars, flowVars>>

NoJob == <<"none", TRUE>>
NoSettings == <<TRUE, FALSE>>
Jobs  == {NoJob} \cup ({"pause", "resume"} \X {TRUE}) \cup
         ({"echo"} \X BOOLEAN)

Characters == [char : Chars, id : 0..MaxCalls]

Messages ==
  [call : Calls, id : 1..MaxCalls, event : {0}] \cup
  [call : Kinds \X {TRUE}, id : {0}, event : 1..MaxEvents]

TypeOK ==
  /\ ixon \in BOOLEAN /\ echo \in BOOLEAN
  /\ stopped \in BOOLEAN /\ open \in BOOLEAN
  /\ typed \in Seq(Characters) /\ Len(typed) <= QueueCap
  /\ input \in Seq(0..MaxCalls)
  /\ mailbox \in Seq(Messages)
  /\ job \in [do : Jobs, id : 0..MaxCalls, off : BOOLEAN]
  /\ at \in {"idle", "get", "set", "send"}
  /\ settings \in BOOLEAN \X BOOLEAN
  /\ flow \in BOOLEAN
  /\ callback \in [Kinds -> BOOLEAN]
  /\ calls \in 0..MaxCalls
  /\ waiting \in [Clients -> 0..MaxCalls]
  /\ oked \subseteq 1..MaxCalls
  /\ events \in 0..MaxEvents /\ exited \in BOOLEAN
  /\ missed \subseteq Kinds \X (1..MaxEvents)
  /\ since \in [Kinds -> 0..MaxEvents + 1]
  /\ touches \in 0..MaxTouches
  /\ asked \in {"none", "pause", "refused", "resume"}
  /\ touched \in BOOLEAN /\ lastEcho \in BOOLEAN /\ overwritten \in BOOLEAN

\* init takes a function, or a module that exports the callback with three
\* arguments; a module's on_exit has four.
Accepted(k) ==
  \/ Options[k] = "function"
  \/ Options[k] = "module" /\ k = "data"

Init ==
  /\ ixon = TRUE /\ echo \in BOOLEAN /\ stopped = FALSE /\ open = TRUE
  /\ typed = <<>> /\ input = <<>>
  /\ mailbox = <<>>
  /\ job = [do |-> NoJob, id |-> 0, off |-> FALSE]
  /\ at = "idle"
  /\ settings = NoSettings
  /\ flow = FlowControl
  /\ callback = [k \in Kinds |-> Accepted(k)]
  /\ calls = 0
  /\ waiting = [c \in Clients |-> 0]
  /\ oked = {}
  /\ events = 0 /\ exited = FALSE
  /\ missed = {}
  /\ since = [k \in Kinds |-> IF Accepted(k) THEN 0 ELSE MaxEvents + 1]
  /\ touches = 0
  /\ asked = "none" /\ touched = FALSE
  /\ lastEcho = echo /\ overwritten = FALSE

-----------------------------------------------------------------------------
(* The line discipline and the program (outside the repository).           *)

Room == Len(typed) < QueueCap

\* write(2) of one character.
Type(char, id) == typed' = Append(typed, [char |-> char, id |-> id])

\* With IXON the two control characters stop and start the output, and any
\* other starts it too (IXANY).
LineTakes(c) == stopped' = (IF ixon THEN c = "xoff" ELSE stopped)

\* The discipline takes a character, soon or late: it waits while the
\* program does not read.
TakeChar ==
  /\ typed # <<>>
  /\ typed' = Tail(typed)
  /\ LineTakes(Head(typed).char)
  /\ input' = IF ixon /\ Head(typed).char \in {"xoff", "xon"} THEN input
              ELSE Append(input, Head(typed).id)
  /\ UNCHANGED <<settingVars, open, serverVars, callVars, eventVars, flowVars>>

\* tcsetattr: without IXON nothing stays stopped.
LineSet(s) ==
  /\ ixon' = s[1]
  /\ echo' = s[2]
  /\ stopped' = (stopped /\ s[1])

Touch(s) ==
  /\ touches < MaxTouches /\ ~exited
  /\ touches' = touches + 1
  /\ LineSet(s)
  /\ touched' = TRUE
  /\ asked' = "none"
  /\ lastEcho' = s[2]
  /\ UNCHANGED <<open, queueVars, serverVars, callVars, eventVars, overwritten>>

-----------------------------------------------------------------------------
(* Messages to the server.                                                 *)

Deliver(m) == mailbox' = Append(mailbox, m)

\* The reader and the waiter thread (PtySession): output, then the exit.
\* What was written before a stop is still read after it.
Send(k) ==
  /\ events < MaxEvents /\ ~exited
  /\ events' = events + 1
  /\ exited' = (k = "exit")
  /\ Deliver([call |-> <<k, TRUE>>, id |-> 0, event |-> events'])
  /\ UNCHANGED <<lineVars, job, at, settings, flow, callback, callVars,
                 missed, since, flowVars>>

\* The reader closes the master of a dead program (BSD).
CloseMaster ==
  /\ exited /\ open
  /\ open' = FALSE
  /\ UNCHANGED <<settingVars, stopped, queueVars, serverVars, callVars,
                 eventVars, flowVars>>

Call(c, call) ==
  /\ calls < MaxCalls /\ waiting[c] = 0
  /\ calls' = calls + 1
  /\ waiting' = [waiting EXCEPT ![c] = calls']
  /\ Deliver([call |-> call, id |-> calls', event |-> 0])
  /\ since' = [k \in Kinds |-> IF call = <<"callback", k>> /\ events < since[k]
                               THEN events ELSE since[k]]
  /\ UNCHANGED <<lineVars, job, at, settings, flow, callback, oked,
                 events, exited, missed, flowVars>>

\* Five seconds are over; the call stays in the mailbox or goes on.
GiveUp(c) ==
  /\ waiting[c] # 0
  /\ waiting' = [waiting EXCEPT ![c] = 0]
  /\ UNCHANGED <<lineVars, serverVars, calls, oked, eventVars,
                 flowVars>>

-----------------------------------------------------------------------------
(* The clauses of handle_call and handle_info.                             *)

Message(op) ==
  /\ at = "idle" /\ mailbox # <<>>
  /\ Head(mailbox).call[1] = op
  /\ mailbox' = Tail(mailbox)

Argument == Head(mailbox).call[2]

\* A reply to a client that has given up is thrown away.
Reply(id) ==
  waiting' = [c \in Clients |-> IF waiting[c] = id THEN 0 ELSE waiting[c]]
ReplyNow  == Reply(Head(mailbox).id)

HandleEvent(k) ==
  /\ Message(k)
  /\ missed' = IF callback[k] THEN missed
               ELSE missed \cup {<<k, Head(mailbox).event>>}
  /\ UNCHANGED <<lineVars, job, at, settings, flow, callback, callVars,
                 events, exited, since, flowVars>>

\* Slip: the two clauses set each other's callback.
CallbackSetSwapped == CHOOSE k \in Kinds : k # Argument

CallbackSet == Argument

HandleCallback ==
  /\ Message("callback")
  /\ callback' = [callback EXCEPT ![CallbackSet] = TRUE]
  /\ ReplyNow
  /\ UNCHANGED <<lineVars, job, at, settings, flow, calls, oked, eventVars,
                 flowVars>>

\* A call of pause, resume or set_echo in the NIF begins.
Begin(kind, arg, off) ==
  /\ job' = [do |-> <<kind, arg>>, id |-> Head(mailbox).id, off |-> off]
  /\ at' = "get"
  /\ asked' = IF kind = "echo" THEN asked ELSE "none"
  /\ UNCHANGED <<lineVars, settings, flow, callback, callVars, eventVars,
                 touches, touched, lastEcho, overwritten>>

HandleSettings(op) ==
  /\ Message(op)
  /\ Begin(op, Argument, FALSE)

\* Flow control is turned off with a resume.
HandleFlow ==
  /\ Message("flow")
  /\ \/ ~Argument /\ flow /\ Begin("resume", TRUE, TRUE)
     \/ /\ Argument \/ ~flow
        /\ flow' = Argument
        /\ ReplyNow
        /\ UNCHANGED <<lineVars, job, at, settings, callback, calls, oked,
                       eventVars, flowVars>>

Oked == oked' = IF Argument = "text" THEN oked \cup {Head(mailbox).id} ELSE oked

\* With flow control the two strings are commands and the rest is dropped,
\* answered :ok.
HandleWriteFlow ==
  /\ Message("write") /\ flow
  /\ \/ Argument = "xoff" /\ Begin("pause", TRUE, FALSE)
     \/ Argument = "xon" /\ Begin("resume", TRUE, FALSE)
     \/ /\ Argument = "text"
        /\ Oked
        /\ ReplyNow
        /\ UNCHANGED <<lineVars, job, at, settings, flow, callback, calls,
                       eventVars, flowVars>>

\* Slip: the server tries the text again by itself.
PassedTwice ==
  LET new == [char |-> Argument, id |-> Head(mailbox).id]
  IN  typed' = typed \o <<new, new>>

Passed == Type(Argument, Head(mailbox).id)

\* The write loop goes on till the queue has room; a closed master answers
\* that nothing was written.
HandleWrite ==
  /\ Message("write") /\ ~flow
  /\ IF open THEN Room /\ Passed /\ Oked ELSE UNCHANGED <<typed, oked>>
  /\ asked' = IF asked \in {"pause", "refused"} THEN "none" ELSE asked
  /\ ReplyNow
  /\ UNCHANGED <<settingVars, stopped, open, input, job, at, settings, flow,
                 callback, calls, eventVars, touches, touched, lastEcho,
                 overwritten>>

-----------------------------------------------------------------------------
(* expty_pause, expty_resume and expty_set_echo.                           *)

\* The call returns to the server, which replies.
Return ==
  /\ at' = "idle"
  /\ job' = [do |-> NoJob, id |-> 0, off |-> FALSE]
  /\ settings' = NoSettings
  /\ flow' = (flow /\ ~job.off)
  /\ Reply(job.id)

\* A closed descriptor fails tcgetattr and tcsetattr.
Fail ==
  /\ at \in {"get", "set"} /\ ~open
  /\ Return
  /\ UNCHANGED <<lineVars, mailbox, callback, calls, oked, eventVars,
                 flowVars>>

\* Or they read and change the file that has its number now.
GetElsewhere ==
  /\ at = "get" /\ ~open /\ HostReopens
  /\ settings' \in BOOLEAN \X BOOLEAN
  /\ at' = "set"
  /\ UNCHANGED <<lineVars, mailbox, job, flow, callback, callVars, eventVars,
                 flowVars>>

SetElsewhere ==
  /\ at = "set" /\ ~open /\ HostReopens
  /\ IF job.do[1] = "echo" THEN Return
     ELSE at' = "send" /\ UNCHANGED <<job, settings, flow, waiting>>
  /\ UNCHANGED <<lineVars, mailbox, callback, calls, oked, eventVars,
                 flowVars>>

\* Slip: the settings are those of spawn, not those of the line.
CopiedAtSpawn == <<TRUE, FALSE>>

Copied == <<ixon, echo>>

Get ==
  /\ at = "get" /\ open
  /\ settings' = Copied
  /\ touched' = FALSE
  /\ at' = "set"
  /\ UNCHANGED <<lineVars, mailbox, job, flow, callback, callVars, eventVars,
                 touches, asked, lastEcho, overwritten>>

\* Slip: pause relies on the IXON of spawn.
ChangedResumeOnly ==
  CASE job.do[1] = "pause"  -> settings
    [] job.do[1] = "resume" -> <<FALSE, settings[2]>>
    [] job.do[1] = "echo"   -> <<settings[1], job.do[2]>>

Changed ==
  CASE job.do[1] = "pause"  -> <<TRUE, settings[2]>>
    [] job.do[1] = "resume" -> <<FALSE, settings[2]>>
    [] job.do[1] = "echo"   -> <<settings[1], job.do[2]>>

Set ==
  /\ at = "set" /\ open
  /\ LineSet(Changed)
  /\ overwritten' = (overwritten \/ touched)
  /\ IF job.do[1] = "echo"
     THEN /\ lastEcho' = job.do[2]
          /\ Return
     ELSE /\ at' = "send"
          /\ UNCHANGED <<lastEcho, job, settings, flow, waiting>>
  /\ asked' = IF touched THEN "none" ELSE asked
  /\ UNCHANGED <<open, queueVars, mailbox, callback, calls, oked,
                 eventVars, touches, touched>>

\* XOFF after a pause, XON after a resume: one write, whose result is not
\* looked at.  A full queue or a terminal that is gone refuses it, and a
\* closed master loses it.
SendControl ==
  /\ at = "send"
  /\ \/ /\ open /\ Room
        /\ Type(IF job.do[1] = "pause" THEN "xoff" ELSE "xon", 0)
        /\ asked' = IF touched THEN "none" ELSE job.do[1]
     \/ /\ open /\ (~Room \/ exited)
        /\ asked' = IF touched THEN "none"
                    ELSE IF job.do[1] = "pause" THEN "refused" ELSE "resume"
        /\ UNCHANGED typed
     \/ /\ ~open
        /\ asked' = "none"
        /\ UNCHANGED typed
  /\ Return
  /\ UNCHANGED <<settingVars, stopped, open, input, mailbox, callback, calls,
                 oked, eventVars, touches, touched, lastEcho, overwritten>>

-----------------------------------------------------------------------------
ServerStep ==
  \/ \E k \in Kinds : HandleEvent(k)
  \/ HandleCallback
  \/ \E op \in {"pause", "resume", "echo"} : HandleSettings(op)
  \/ HandleFlow
  \/ HandleWriteFlow \/ HandleWrite
  \/ Fail \/ Get \/ Set \/ SendControl
  \/ GetElsewhere \/ SetElsewhere

Next ==
  \/ ServerStep
  \/ \E c \in Clients : GiveUp(c) \/ \E call \in Calls : Call(c, call)
  \/ \E k \in Kinds : Send(k)
  \/ \E s \in BOOLEAN \X BOOLEAN : Touch(s)
  \/ CloseMaster
  \/ TakeChar

Spec == Init /\ [][Next]_vars

-----------------------------------------------------------------------------
(* Properties.                                                             *)

\* The last character in the queue is an XOFF of the server.
XoffDue == typed # <<>> /\ typed[Len(typed)] = [char |-> "xoff", id |-> 0]

\* After a pause the output is stopped, or will be once the line has taken
\* what is in its queue, unless the queue was full; after a resume or the
\* end of flow control it is not and no ^S, typed before or later, stops
\* it.  This holds until the program changes the settings or, after a
\* pause, a write comes that flow control does not drop (pty.cpp:470-513,
\* expty.ex:558-570, 643-660).
FlowObeyed ==
  /\ asked = "pause" => stopped \/ XoffDue
  /\ asked = "resume" => ~stopped

\* A pause that was answered :ok stops the output of a running program,
\* until something else interferes ("Pause flow", expty.ex:311-317).
PauseStops == asked \in {"pause", "refused"} /\ ~exited => stopped \/ XoffDue

\* The ECHO of the line is what the program or set_echo wanted last; pause
\* and resume, which write all settings back, keep it unless the program
\* changed the settings between their tcgetattr and their tcsetattr
\* (pty.cpp:475-481, 499-505).
LastEchoWins == overwritten \/ echo = lastEcho

\* Only messages sent before on_data or on_exit was called can miss the
\* callback (expty.ex:258): the call is queued behind them, and later ones
\* are queued behind it.
MissedOnlyEarlier == \A m \in missed : m[2] <= since[m[1]]

\* The calls whose characters are at the program or on their way, in that
\* order; 0 for those the server sent of its own.
Passing == input \o [i \in 1..Len(typed) |-> typed[i].id]

\* Each write reaches the program at most once and in the order of the
\* calls, whether or not its caller still waits (expty.ex:243): one that
\* gave up and tries again sends its text twice, and none is overtaken.
InputInOrder ==
  \A i, j \in 1..Len(Passing) :
    i < j /\ Passing[i] # 0 /\ Passing[j] # 0 => Passing[i] < Passing[j]

\* A text whose write was answered :ok is in the terminal's queue or has
\* come to the program ("Write data to the pseudoterminal", expty.ex:238-244).
OkMeansWritten ==
  \A id \in oked : \E i \in 1..Len(Passing) : Passing[i] = id

\* An on_exit or on_data given to spawn is called (README.md:49-66,
\* expty.ex:155-159).
OptionsHonoured == \A m \in missed : Options[m[1]] = "none"
=============================================================================
