---------------------------- MODULE CommandLine ----------------------------
(***************************************************************************)
(* args_to_command_line (expty.ex:701-785): the arguments of a program as  *)
(* one Windows command line, and the reader it is written for, the rules   *)
(* of CommandLineToArgvW for all words but the first.  A word is a         *)
(* sequence of characters; space and tab are one blank.                    *)
(***************************************************************************)
EXTENDS Naturals, Sequences, SequencesExt

Quote == "quote"
Slash == "backslash"
Blank == "blank"
Chars == {"letter", Quote, Slash, Blank}

Slashes(n) == [i \in 1..n |-> Slash]

Enclosed(w)    == w # <<>> /\ Head(w) = Quote /\ Last(w) = Quote
HasBlank(w)    == \E i \in DOMAIN w : w[i] = Blank

\* quote?: a word with quotes at both ends is taken to be quoted already.
NeedsQuotes(w) == (w = <<>>) \/ (HasBlank(w) /\ ~Enclosed(w))

\* Backslashes are held back until it is known what follows them.
WriteChar(s, c) ==
  CASE c = Slash -> [s EXCEPT !.held = @ + 1]
    [] c = Quote -> [held |-> 0,
                     out  |-> s.out \o Slashes(2 * s.held + 1) \o <<Quote>>]
    [] OTHER     -> [held |-> 0, out |-> s.out \o Slashes(s.held) \o <<c>>]

\* Slip: the backslashes before the closing quote are not doubled.
ClosingPlain(w, held) ==
  IF NeedsQuotes(w) THEN Slashes(held) \o <<Quote>> ELSE Slashes(held)

Closing(w, held) ==
  IF NeedsQuotes(w) THEN Slashes(2 * held) \o <<Quote>> ELSE Slashes(held)

\* What has been written after each of the word's characters.
Writing(w) ==
  LET opening == IF NeedsQuotes(w) THEN <<Quote>> ELSE <<>>
      s[i \in 0..Len(w)] == IF i = 0 THEN [held |-> 0, out |-> opening]
                            ELSE WriteChar(s[i - 1], w[i])
  IN s

Written(w) == LET s == Writing(w)[Len(w)] IN s.out \o Closing(w, s.held)

\* The line after each of the arguments.
Lines(file, args) ==
  LET line[i \in 0..Len(args)] == IF i = 0 THEN Written(file)
                                  ELSE line[i - 1] \o <<Blank>> \o Written(args[i])
  IN line

\* args_to_command_line(file, args)
ArgsToCommandLine(file, args) == Lines(file, args)[Len(args)]

-----------------------------------------------------------------------------
(* The reader (CommandLineToArgvW, outside the repository).                *)

Flushed(s) == [s EXCEPT !.word = @ \o Slashes(s.held), !.held = 0]

ReadChar(s, c) ==
  CASE c = Slash -> [s EXCEPT !.held = @ + 1, !.any = TRUE]
    [] c = Quote ->
         LET half == s.word \o Slashes(s.held \div 2)
         IN IF s.held % 2 = 1
            THEN [s EXCEPT !.word = Append(half, Quote), !.held = 0]
            ELSE [s EXCEPT !.word = half, !.held = 0, !.any = TRUE,
                           !.quoted = ~@]
    [] c = Blank /\ ~s.quoted ->
         IF s.any
         THEN [words |-> Append(s.words, Flushed(s).word), word |-> <<>>,
               held |-> 0, any |-> FALSE, quoted |-> FALSE]
         ELSE s
    [] OTHER -> LET f == Flushed(s)
                IN [f EXCEPT !.word = Append(@, c), !.any = TRUE]

\* The reader after each character.
Reading(line) ==
  LET s[i \in 0..Len(line)] ==
        IF i = 0 THEN [words |-> <<>>, word |-> <<>>, held |-> 0, any |-> FALSE,
                       quoted |-> FALSE]
        ELSE ReadChar(s[i - 1], line[i])
  IN s

ArgvOf(line) ==
  LET s == Reading(line)[Len(line)]
  IN IF s.any THEN Append(s.words, Flushed(s).word) ELSE s.words

\* The words that are read as they were: those not taken for quoted ones.
ReadBack(w) == ~(HasBlank(w) /\ Enclosed(w))
=============================================================================
