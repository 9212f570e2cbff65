------------------------------ MODULE SmartCell ------------------------------
(***************************************************************************)
(* The Livebook cell (expty_smartcell.ex) between the page of one browser  *)
(* (main.js) and the terminals it starts one after the other.  Events of   *)
(* the page, delayed resizes and the exit notices of terminals meet in the *)
(* mailbox of the cell's process.  An exit notice does not say which       *)
(* terminal it is about; the model carries the terminal along for the      *)
(* properties only.                                                        *)
(***************************************************************************)
EXTENDS Naturals, Sequences, FiniteSets

CONSTANTS
  MaxTerminals,  \* bound: terminals started
  Sizes,         \* sizes of the window
  DefaultSize,   \* 80 by 24, of the page and of ExPTY.spawn
  MaxEvents,     \* bound: what the user does with the page
  KillWorks      \* ExPTY.kill is implemented (not on Windows)

ASSUME CellAssumption ==
  /\ MaxTerminals \in Nat /\ MaxEvents \in Nat
  /\ DefaultSize \in Sizes
  /\ KillWorks \in BOOLEAN

Terminals == 1..MaxTerminals

VARIABLES
  \* the page
  button,     \* what it shows: "play" or "stop"
  pageSize,   \* size of its terminal
  observing,  \* does resizeObserver report changes of the size?
  leftOver,   \* does one that it has replaced?
  toPage,     \* executable_exited events on their way to it
  \* the cell
  cell,       \* "up", or "down" after a crash or terminate
  mailbox,
  timers,     \* resizes that wait for half a second
  setup,      \* the terminal a start in progress has spawned, 0: none
  pty,        \* the terminal held, 0: none
  started,    \* started?
  \* the terminals
  term,       \* "none", "running", "dead", then "told" or "unheard"
  onExit,     \* has on_exit been set?
  size,
  \* history
  events,     \* what the user did
  sizedBy     \* what set the size last: "spawn", "event" or "timer"

pageVars == <<button, pageSize, observing, leftOver, toPage>>
cellVars == <<cell, mailbox, timers, setup, pty, started>>
termVars == <<term, onExit, size, sizedBy>>
vars == <<pageVars, cellVars, termVars, events>>

Msg(tag, arg) == [tag |-> tag, arg |-> arg]
Messages == [tag : {"start", "stop", "key"}, arg : {0}] \cup
            [tag : {"exited"}, arg : Terminals] \cup
            [tag : {"resize", "delayed"}, arg : Sizes]

TypeOK ==
  /\ button \in {"play", "stop"}
  /\ pageSize \in Sizes
  /\ {observing, leftOver, started} \subseteq BOOLEAN
  /\ toPage \in 0..MaxTerminals
  /\ cell \in {"up", "down"}
  /\ mailbox \in Seq(Messages)
  /\ timers \in Seq(Sizes)
  /\ setup \in 0..MaxTerminals
  /\ pty \in 0..MaxTerminals
  /\ started <=> pty # 0
  /\ term \in [Terminals -> {"none", "running", "dead", "told", "unheard"}]
  /\ onExit \in [Terminals -> BOOLEAN]
  /\ size \in [Terminals -> Sizes]
  /\ sizedBy \in [Terminals -> {"spawn", "event", "timer"}]
  /\ events \in 0..MaxEvents

Init ==
  /\ button = "play" /\ pageSize = DefaultSize
  /\ observing = FALSE /\ leftOver = FALSE /\ toPage = 0
  /\ cell = "up" /\ mailbox = <<>> /\ timers = <<>>
  /\ setup = 0 /\ pty = 0 /\ started = FALSE
  /\ term = [t \in Terminals |-> "none"]
  /\ onExit = [t \in Terminals |-> FALSE]
  /\ size = [t \in Terminals |-> DefaultSize]
  /\ sizedBy = [t \in Terminals |-> "spawn"]
  /\ events = 0

-----------------------------------------------------------------------------
(* The page (main.js).                                                     *)

\* A start for each terminal the bound leaves.
Unborn     == {t \in Terminals : term[t] = "none"}
IsStart(m) == m.tag = "start"

UserActs == events < MaxEvents /\ events' = events + 1

\* The button, when it shows "stop".  Only the last observer is let go.
PressStop ==
  /\ UserActs
  /\ button = "stop"
  /\ button' = "play"
  /\ observing' = FALSE
  /\ mailbox' = Append(mailbox, Msg("stop", 0))
  /\ UNCHANGED <<pageSize, leftOver, toPage, cell, timers, setup, pty, started,
                 termVars>>

\* The button, when it shows "play": the terminal is fitted to the window
\* next, which reports a size only if it is a new one.  The new observer
\* replaces the last one, which observes on if the program had exited.
PressStart(s) ==
  /\ UserActs
  /\ Len(SelectSeq(mailbox, IsStart)) < Cardinality(Unborn)
  /\ button = "play"
  /\ button' = "stop"
  /\ observing' = TRUE
  /\ leftOver' = (leftOver \/ observing)
  /\ pageSize' = s
  /\ mailbox' = mailbox \o <<Msg("start", 0)>> \o
                  (IF s = pageSize THEN <<>> ELSE <<Msg("resize", s)>>)
  /\ UNCHANGED <<toPage, cell, timers, setup, pty, started, termVars>>

ResizePage(s) ==
  /\ UserActs
  /\ observing \/ leftOver
  /\ s # pageSize
  /\ pageSize' = s
  /\ mailbox' = Append(mailbox, Msg("resize", s))
  /\ UNCHANGED <<button, observing, leftOver, toPage, cell, timers, setup, pty,
                 started, termVars>>

PressKey ==
  /\ UserActs
  /\ mailbox' = Append(mailbox, Msg("key", 0))
  /\ UNCHANGED <<pageVars, cell, timers, setup, pty, started, termVars>>

ExitShown ==
  /\ toPage > 0
  /\ toPage' = toPage - 1
  /\ button' = "play"
  /\ UNCHANGED <<pageSize, observing, leftOver, cellVars, termVars, events>>

-----------------------------------------------------------------------------
(* The cell.                                                               *)

Message(tag) ==
  /\ cell = "up" /\ setup = 0
  /\ mailbox # <<>> /\ Head(mailbox).tag = tag
  /\ mailbox' = Tail(mailbox)

Argument == Head(mailbox).arg

\* ExPTY.spawn, then on_data and on_exit are set in the new terminal; any
\* answer but {:ok, pty} ends the cell.
HandleStart ==
  /\ Message("start")
  /\ \/ /\ started
        /\ UNCHANGED <<cell, setup, term>>
     \/ /\ ~started
        /\ \/ \E t \in Unborn :
                /\ \A u \in Unborn : t <= u
                /\ term' = [term EXCEPT ![t] = "running"]
                /\ setup' = t
                /\ UNCHANGED cell
           \/ cell' = "down" /\ UNCHANGED <<setup, term>>
  /\ UNCHANGED <<pageVars, timers, pty, started, onExit, size, sizedBy, events>>

FinishStart ==
  /\ cell = "up" /\ setup # 0
  /\ onExit' = [onExit EXCEPT ![setup] = TRUE]
  /\ pty' = setup
  /\ started' = TRUE
  /\ setup' = 0
  /\ UNCHANGED <<pageVars, cell, mailbox, timers, term, size, sizedBy, events>>

\* Slip: as it is on Windows.
StoppedNot == term

\* stop_executable: signal 9 to the program of the terminal held.
Stopped == [t \in Terminals |->
              IF t = pty /\ KillWorks /\ term[t] = "running" THEN "dead"
              ELSE term[t]]

HandleStop ==
  /\ Message("stop")
  /\ term' = Stopped
  /\ pty' = 0
  /\ started' = FALSE
  /\ UNCHANGED <<pageVars, cell, timers, setup, onExit, size, sizedBy, events>>

\* The write may take longer than the five seconds of its call, which ends
\* the cell; terminate then tries to kill the program through the same
\* server.
HandleKey ==
  /\ Message("key")
  /\ \/ UNCHANGED <<cell, term>>
     \/ /\ pty # 0
        /\ cell' = "down"
        /\ term' \in {term, Stopped}
  /\ UNCHANGED <<pageVars, timers, setup, pty, started, onExit, size, sizedBy,
                 events>>

\* Slip: only the first size of a terminal is taken.
ResizedOnce(how) ==
  /\ size' = [size EXCEPT ![pty] = IF sizedBy[pty] = "spawn" THEN Argument ELSE @]
  /\ sizedBy' = [sizedBy EXCEPT ![pty] = how]

Resized(how) ==
  /\ size' = [size EXCEPT ![pty] = Argument]
  /\ sizedBy' = [sizedBy EXCEPT ![pty] = how]

HandleResize ==
  /\ Message("resize")
  /\ IF pty = 0
     THEN timers' = Append(timers, Argument) /\ UNCHANGED <<size, sizedBy>>
     ELSE Resized("event") /\ UNCHANGED timers
  /\ UNCHANGED <<pageVars, cell, setup, pty, started, term, onExit, events>>

TimerFires ==
  /\ cell = "up" /\ timers # <<>>
  /\ mailbox' = Append(mailbox, Msg("delayed", Head(timers)))
  /\ timers' = Tail(timers)
  /\ UNCHANGED <<pageVars, cell, setup, pty, started, termVars, events>>

HandleDelayed ==
  /\ Message("delayed")
  /\ IF pty # 0 THEN Resized("timer") ELSE UNCHANGED <<size, sizedBy>>
  /\ UNCHANGED <<pageVars, cell, timers, setup, pty, started, term, onExit,
                 events>>

\* Slip: started? is left as it was.
StartedAfterExitKept == started

StartedAfterExit == FALSE

\* Whichever terminal it was, the one held now is let go.
HandleExited ==
  /\ Message("exited")
  /\ toPage' = toPage + 1
  /\ pty' = 0
  /\ started' = StartedAfterExit
  /\ UNCHANGED <<button, pageSize, observing, leftOver, cell, timers, setup,
                 termVars, events>>

Terminate ==
  /\ cell = "up" /\ setup = 0
  /\ cell' = "down"
  /\ term' = Stopped
  /\ UNCHANGED <<pageVars, mailbox, timers, setup, pty, started, onExit, size,
                 sizedBy, events>>

-----------------------------------------------------------------------------
(* The terminals (PtySession, TerminalServer).                             *)

ProgramEnds(t) ==
  /\ term[t] = "running"
  /\ term' = [term EXCEPT ![t] = "dead"]
  /\ UNCHANGED <<pageVars, cellVars, onExit, size, sizedBy, events>>

\* Slip: self() is taken in the callback, which the terminal's server runs.
NotifiedServer(t) == mailbox

Notified(t) == Append(mailbox, Msg("exited", t))

\* The server handles the exit message; without on_exit nobody hears.
TellExit(t) ==
  /\ term[t] = "dead"
  /\ IF onExit[t]
     THEN /\ term' = [term EXCEPT ![t] = "told"]
          /\ mailbox' = Notified(t)
     ELSE /\ term' = [term EXCEPT ![t] = "unheard"]
          /\ UNCHANGED mailbox
  /\ UNCHANGED <<pageVars, cell, timers, setup, pty, started, onExit, size,
                 sizedBy, events>>

-----------------------------------------------------------------------------
CellStep ==
  \/ HandleStart \/ FinishStart
  \/ HandleStop \/ HandleKey
  \/ HandleResize \/ HandleDelayed
  \/ HandleExited

Next ==
  \/ PressStop \/ PressKey
  \/ \E s \in Sizes : PressStart(s) \/ ResizePage(s)
  \/ ExitShown
  \/ CellStep \/ TimerFires \/ Terminate
  \/ \E t \in Terminals : ProgramEnds(t) \/ TellExit(t)

Spec == Init /\ [][Next]_vars

\* The cell's process and the terminals' servers run, timers go off.
FairSpec ==
  /\ Spec
  /\ WF_vars(CellStep) /\ WF_vars(TimerFires)
  /\ \A t \in Terminals : WF_vars(TellExit(t))

-----------------------------------------------------------------------------
(* Properties.                                                             *)

\* The cell lets go of a program that runs on only for the exit notice of
\* an earlier terminal (expty_smartcell.ex:117-120): a stop kills the
\* program first (73-77, 154-166).
LetsGoOnlyForStaleExit ==
  [][\A t \in Terminals :
       pty = t /\ pty' # t /\ term'[t] = "running" =>
         Head(mailbox).tag = "exited" /\ Head(mailbox).arg < t]_vars

\* A program whose exit can be heard of is let go once it has died, so that
\* the next start is not refused (39-41), whatever waits in the mailbox;
\* "unheard" is one that died before on_exit was set (53-63).
ExitReleases ==
  \A t \in Terminals :
    pty = t /\ term[t] # "running" ~>
      pty # t \/ cell = "down" \/ term[t] = "unheard"

Quiet == cell = "up" /\ mailbox = <<>> /\ timers = <<>> /\ setup = 0

\* When nothing is under way the program has the size of the page, unless
\* the page has sent no size while this terminal was held (main.js:107-118
\* sends none when fitting changes nothing) or a delayed size was applied
\* after it (93-115).
SizeAgrees ==
  Quiet /\ pty # 0 =>
    \/ size[pty] = pageSize
    \/ sizedBy[pty] = "spawn" /\ size[pty] = DefaultSize
    \/ sizedBy[pty] = "timer"
=============================================================================
