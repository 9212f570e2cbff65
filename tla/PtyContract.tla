---------------------------- MODULE PtyContract ----------------------------
(***************************************************************************)
(* What an ExPTY terminal promises to the code that uses it: the on_data   *)
(* callback sees the output of the spawned program in order and without    *)
(* gaps for as long as the program lives, the on_exit callback fires at    *)
(* most once, after the program has died and with the status it died of,   *)
(* and a write is cut short only when the program is dead.                 *)
(*                                                                         *)
(* Threads, buffers, the mailbox and the pointer the threads share are     *)
(* hidden here; PtySession implements this specification.                  *)
(***************************************************************************)
EXTENDS Naturals, Sequences

CONSTANTS
  Statuses,     \* the ways a program can die
  Sizes,        \* the sizes a write may have
  Encode(_)     \* the <<exit_code, signal_code>> that stands for a status

VARIABLES
  output,       \* how many chunks the program has written so far
  died,         \* <<>> while the program lives, then <<status>>
  seen,         \* the chunks handed to on_data, oldest first
  reported,     \* the reports handed to on_exit
  answers       \* one [size, written] per finished write

vars == <<output, died, seen, reported, answers>>

Alive == died = <<>>

LastSeen == IF seen = <<>> THEN 0 ELSE seen[Len(seen)]

Init ==
  /\ output = 0
  /\ died = <<>>
  /\ seen = <<>>
  /\ reported = <<>>
  /\ answers = <<>>

Emit ==
  /\ Alive
  /\ output' = output + 1
  /\ UNCHANGED <<died, seen, reported, answers>>

Die ==
  /\ Alive
  /\ \E st \in Statuses : died' = <<st>>
  /\ UNCHANGED <<output, seen, reported, answers>>

\* A chunk is shown after the ones before it; chunks may be skipped only
\* once the program is dead.
OnData ==
  /\ \E n \in LastSeen + 1 .. output :
       /\ Alive => n = LastSeen + 1
       /\ seen' = Append(seen, n)
  /\ UNCHANGED <<output, died, reported, answers>>

OnExit ==
  /\ ~Alive
  /\ reported = <<>>
  /\ reported' = <<Encode(died[1])>>
  /\ UNCHANGED <<output, died, seen, answers>>

Answer ==
  /\ \E size \in Sizes : \E n \in 0 .. size :
       /\ Alive => n = size
       /\ answers' = Append(answers, [size |-> size, written |-> n])
  /\ UNCHANGED <<output, died, seen, reported>>

Next == Emit \/ Die \/ OnData \/ OnExit \/ Answer

Spec == Init /\ [][Next]_vars
=============================================================================
