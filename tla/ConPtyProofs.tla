----------------------------- MODULE ConPtyProofs -----------------------------
(***************************************************************************)
(* Theorems of CommandLine and ConPty: the round trip of the arguments,    *)
(* the types, what the program gets and who holds the baton's mutex.       *)
(*                                                                         *)
(* Writing and Reading are functions defined by recursion on the           *)
(* characters.  What they are for every word is proved by induction over   *)
(* the natural numbers, as a statement about a set (NatSetInduction).      *)
(***************************************************************************)
EXTENDS ConPty, WellFoundedInduction, TLAPS

-----------------------------------------------------------------------------
(* Recursion.                                                              *)

\* A set with zero and each successor has every number.
LEMMA NatSetInduction ==
  ASSUME NEW S, 0 \in S, \A n \in Nat : n \in S => n + 1 \in S
  PROVE  \A n \in Nat : n \in S
<1> DEFINE R == OpToRel(<, Nat)
           T == Nat \ S
<1>1. IsWellFoundedOn(R, Nat)
  BY NatLessThanWellFounded, Zenon
<1>2. \A x, y \in Nat : <<y, x>> \in R <=> y < x
  BY DEF OpToRel
<1> HIDE DEF R
<1>3. ASSUME T # {}
      PROVE  FALSE
  <2>1. T \subseteq Nat
    OBVIOUS
  <2> HIDE DEF T
  <2>2. PICK x \in T : \A y \in T : ~(<<y, x>> \in R)
    BY <1>1, <1>3, <2>1, WFMin, Zenon
  <2>3. x \in Nat /\ x \notin S /\ \A y \in Nat : y < x => y \in S
    BY <1>2, <2>1, <2>2 DEF T
  <2>4. x # 0
    BY <2>3
  <2>5. x - 1 \in Nat /\ x - 1 < x /\ (x - 1) + 1 = x
    BY <2>3, <2>4
  <2>6. x - 1 \in S
    BY <2>3, <2>5
  <2>7. QED BY <2>3, <2>5, <2>6
<1>4. QED BY <1>3

\* A run of n steps from x, the i-th of which takes the state p to F[<<p, i>>].
Runs(s, x, n, F) ==
  /\ s[0] = x
  /\ \A i \in 1..n : s[i] = F[<<s[i - 1], i>>]

LEMMA RunExists ==
  ASSUME NEW S, NEW x \in S, NEW n \in Nat, NEW F \in [S \X (1..n) -> S]
  PROVE  \E s \in [0..n -> S] : Runs(s, x, n, F)
<1> DEFINE D == {m \in Nat : m <= n => \E s \in [0..m -> S] : Runs(s, x, m, F)}
<1>1. 0 \in D
  <2> DEFINE s == [i \in 0..0 |-> x]
  <2>1. s \in [0..0 -> S] /\ Runs(s, x, 0, F)
    BY DEF Runs
  <2>2. QED BY <2>1
<1>2. ASSUME NEW m \in Nat, m \in D
      PROVE  m + 1 \in D
  <2>1. SUFFICES ASSUME m + 1 <= n
                 PROVE  \E s \in [0..(m + 1) -> S] : Runs(s, x, m + 1, F)
    OBVIOUS
  <2>2. PICK s \in [0..m -> S] : Runs(s, x, m, F)
    BY <1>2, <2>1
  <2> DEFINE r == [i \in 0..(m + 1) |-> IF i = m + 1 THEN F[<<s[m], m + 1>>] ELSE s[i]]
  <2>3. F[<<s[m], m + 1>>] \in S
    <3>1. s[m] \in S /\ m + 1 \in 1..n
      BY <2>1
    <3>2. QED BY <3>1
  <2>4. r \in [0..(m + 1) -> S]
    BY <2>3
  <2>5. \A i \in 0..m : r[i] = s[i]
    OBVIOUS
  <2>6. r[m + 1] = F[<<r[m], m + 1>>]
    <3>1. m \in 0..m /\ m + 1 \in 0..(m + 1)
      OBVIOUS
    <3>2. r[m] = s[m]
      BY <2>5, <3>1
    <3>3. r[m + 1] = F[<<s[m], m + 1>>]
      BY <3>1
    <3>4. QED BY <3>2, <3>3
  <2> HIDE DEF r
  <2>7. ASSUME NEW i \in 1..(m + 1)
        PROVE  r[i] = F[<<r[i - 1], i>>]
    <3>1. CASE i = m + 1
      BY <2>6, <3>1
    <3>2. CASE i # m + 1
      <4>1. i \in 1..m /\ i \in 0..m /\ i - 1 \in 0..m
        BY <3>2
      <4>2. s[i] = F[<<s[i - 1], i>>]
        BY <2>2, <4>1 DEF Runs
      <4>3. QED BY <2>5, <4>1, <4>2
    <3>3. QED BY <3>1, <3>2
  <2>8. Runs(r, x, m + 1, F)
    <3>1. r[0] = s[0]
      BY <2>5
    <3>2. QED BY <2>2, <2>7, <3>1 DEF Runs
  <2>9. QED BY <2>4, <2>8
<1> HIDE DEF D
<1>3. n \in D
  BY <1>1, <1>2, NatSetInduction
<1>4. QED BY <1>3 DEF D

\* Two runs that take the same steps are the same.
Alike(r, s, n) ==
  /\ r[0] = s[0]
  /\ \A i \in 1..n : r[i - 1] = s[i - 1] => r[i] = s[i]

LEMMA RunUnique ==
  ASSUME NEW n \in Nat, NEW r, NEW s, Alike(r, s, n)
  PROVE  \A i \in 0..n : r[i] = s[i]
<1> DEFINE D == {m \in Nat : m <= n => r[m] = s[m]}
<1>1. 0 \in D
  BY DEF Alike
<1>2. ASSUME NEW m \in Nat, m \in D
      PROVE  m + 1 \in D
  <2>1. SUFFICES ASSUME m + 1 <= n
                 PROVE  r[m + 1] = s[m + 1]
    OBVIOUS
  <2>2. r[m] = s[m]
    BY <1>2, <2>1
  <2>3. m + 1 \in 1..n /\ (m + 1) - 1 = m
    BY <2>1
  <2>4. QED BY <2>2, <2>3 DEF Alike
<1> HIDE DEF D
<1>3. \A m \in Nat : m \in D
  BY <1>1, <1>2, NatSetInduction
<1>4. QED BY <1>3 DEF D

-----------------------------------------------------------------------------
(* Sequences.                                                              *)

Words == Seq(Chars)

LEMMA SlashesType == \A k \in Nat : Slashes(k) \in Words
BY DEF Slashes, Words, Chars

LEMMA SlashesGrow ==
  /\ Slashes(0) = <<>>
  /\ \A k \in Nat : Slashes(k + 1) = Append(Slashes(k), Slash)
<1>1. Slashes(0) = <<>>
  BY DEF Slashes
<1>2. ASSUME NEW k \in Nat
      PROVE  Slashes(k + 1) = Append(Slashes(k), Slash)
  <2>1. Len(Slashes(k)) = k /\ Slashes(k) \in Seq(Chars)
    BY DEF Slashes, Chars
  <2>2. QED BY <2>1 DEF Slashes
<1>3. QED BY <1>1, <1>2

LEMMA Characters ==
  /\ {"letter", Blank, Quote, Slash} = Chars
  /\ Slash # Quote /\ Slash # Blank /\ Quote # Blank
  /\ "letter" # Slash /\ "letter" # Quote /\ "letter" # Blank
BY DEF Chars, Quote, Slash, Blank

-----------------------------------------------------------------------------
(* The writer.                                                             *)

WriterStates == [held : Nat, out : Words]

Opening(w) == IF NeedsQuotes(w) THEN <<Quote>> ELSE <<>>

\* WriteChar, by character.
LEMMA WriteCharIs ==
  ASSUME NEW s \in WriterStates
  PROVE  /\ WriteChar(s, Slash) = [held |-> s.held + 1, out |-> s.out]
         /\ WriteChar(s, Quote) =
              [held |-> 0, out |-> s.out \o Slashes(2 * s.held + 1) \o <<Quote>>]
         /\ \A c \in {"letter", Blank} :
              WriteChar(s, c) = [held |-> 0, out |-> s.out \o Slashes(s.held) \o <<c>>]
<1>1. WriteChar(s, Slash) = [held |-> s.held + 1, out |-> s.out]
  BY Characters DEF WriteChar, WriterStates
<1>2. WriteChar(s, Quote) =
        [held |-> 0, out |-> s.out \o Slashes(2 * s.held + 1) \o <<Quote>>]
  BY Characters, Zenon DEF WriteChar
<1>3. ASSUME NEW c \in {"letter", Blank}
      PROVE  WriteChar(s, c) = [held |-> 0, out |-> s.out \o Slashes(s.held) \o <<c>>]
  <2>1. c # Slash /\ c # Quote
    BY <1>3, Characters
  <2>2. QED BY <2>1, Zenon DEF WriteChar
<1>4. QED BY <1>1, <1>2, <1>3

LEMMA WriteCharType ==
  ASSUME NEW s \in WriterStates, NEW c \in Chars
  PROVE  WriteChar(s, c) \in WriterStates
<1>1. PICK h \in Nat, o \in Words : h = s.held /\ o = s.out
  BY DEF WriterStates
<1>2. Slashes(h) \in Words /\ Slashes(2 * h + 1) \in Words
  <2>1. 2 * h + 1 \in Nat
    OBVIOUS
  <2>2. QED BY <2>1, SlashesType
<1>3. <<c>> \in Words /\ <<Quote>> \in Words
  BY DEF Words, Chars
<1>4. o \o Slashes(2 * h + 1) \o <<Quote>> \in Words /\ o \o Slashes(h) \o <<c>> \in Words
  BY <1>2, <1>3 DEF Words
<1>5. CASE c = Slash
  <2>1. WriteChar(s, c) = [held |-> h + 1, out |-> o]
    BY <1>1, <1>5, WriteCharIs
  <2>2. QED BY <2>1 DEF WriterStates
<1>6. CASE c = Quote
  <2>1. WriteChar(s, c) = [held |-> 0, out |-> o \o Slashes(2 * h + 1) \o <<Quote>>]
    BY <1>1, <1>6, WriteCharIs
  <2>2. QED BY <1>4, <2>1 DEF WriterStates
<1>7. CASE c \in {"letter", Blank}
  <2>1. WriteChar(s, c) = [held |-> 0, out |-> o \o Slashes(h) \o <<c>>]
    BY <1>1, <1>7, WriteCharIs
  <2>2. QED BY <1>4, <2>1 DEF WriterStates
<1>8. QED BY <1>5, <1>6, <1>7, Characters

LEMMA WritingRuns ==
  ASSUME NEW w \in Words
  PROVE  LET s == Writing(w)
         IN  /\ s[0] = [held |-> 0, out |-> Opening(w)]
             /\ \A i \in 0..Len(w) : s[i] \in WriterStates
             /\ \A i \in 1..Len(w) : s[i] = WriteChar(s[i - 1], w[i])
<1> DEFINE n == Len(w)
           x == [held |-> 0, out |-> Opening(w)]
           F == [p \in WriterStates \X (1..n) |-> WriteChar(p[1], w[p[2]])]
           G(f) == [i \in 0..n |-> IF i = 0 THEN x ELSE WriteChar(f[i - 1], w[i])]
<1>1. n \in Nat /\ \A i \in 1..n : w[i] \in Chars
  BY DEF Words
<1>2. x \in WriterStates
  <2>1. <<>> \in Words /\ <<Quote>> \in Words
    BY DEF Words, Chars
  <2>2. Opening(w) \in Words
    BY <2>1, Zenon DEF Opening
  <2>3. QED BY <2>2 DEF WriterStates
<1>3. F \in [WriterStates \X (1..n) -> WriterStates]
  BY <1>1, WriteCharType
<1> HIDE DEF n, x
<1>4. PICK s \in [0..n -> WriterStates] : Runs(s, x, n, F)
  BY <1>1, <1>2, <1>3, RunExists
<1>5. \A i \in 1..n : s[i] = WriteChar(s[i - 1], w[i])
  <2>1. TAKE i \in 1..n
  <2>2. s[i - 1] \in WriterStates
    BY <1>1
  <2>3. F[<<s[i - 1], i>>] = WriteChar(s[i - 1], w[i])
    BY <2>2
  <2>4. QED BY <1>4, <2>3 DEF Runs
<1>6. s[0] = x
  BY <1>4 DEF Runs
<1>7. s = G(s)
  <2>1. \A i \in 0..n : s[i] = G(s)[i]
    BY <1>1, <1>5, <1>6
  <2>2. QED BY <2>1
<1>8. Writing(w) = CHOOSE f : f = G(f)
  BY Zenon DEF Writing, Opening, n, x
<1> HIDE DEF F, G
<1>9. Writing(w) = G(Writing(w))
  BY <1>7, <1>8, Zenon
<1> DEFINE r == Writing(w)
<1>10. r[0] = x /\ \A i \in 1..n : r[i] = WriteChar(r[i - 1], w[i])
  <2> HIDE DEF r
  <2>1. r = [i \in 0..n |-> IF i = 0 THEN x ELSE WriteChar(r[i - 1], w[i])]
    BY <1>9, Zenon DEF G, r
  <2>2. QED BY <1>1, <2>1
<1> HIDE DEF r
<1>11. \A i \in 0..n : r[i] = s[i]
  <2>1. Alike(r, s, n)
    BY <1>5, <1>6, <1>10 DEF Alike
  <2>2. QED BY <1>1, <2>1, RunUnique
<1>12. \A i \in 0..n : r[i] \in WriterStates
  BY <1>11
<1>13. QED BY <1>10, <1>12 DEF r, n, x

-----------------------------------------------------------------------------
(* The reader.                                                             *)

\* The flags of a state by name, for steps that do not depend on truth values.
Yes == TRUE
No == FALSE
Flags == {Yes, No}

ReaderStates == [words : Seq(Words), word : Words, held : Nat, any : Flags,
                 quoted : Flags]

At(ws, wd, h, a, q) == [words |-> ws, word |-> wd, held |-> h, any |-> a, quoted |-> q]

LEMMA AtType ==
  ASSUME NEW ws \in Seq(Words), NEW wd \in Words, NEW h \in Nat,
         NEW a \in Flags, NEW q \in Flags
  PROVE  At(ws, wd, h, a, q) \in ReaderStates
BY DEF ReaderStates, At

LEMMA AtAll ==
  ASSUME NEW s \in ReaderStates
  PROVE  \E ws \in Seq(Words), wd \in Words, h \in Nat, a, q \in Flags :
           s = At(ws, wd, h, a, q)
<1>1. /\ s.words \in Seq(Words) /\ s.word \in Words /\ s.held \in Nat
      /\ s.any \in Flags /\ s.quoted \in Flags
      /\ s = At(s.words, s.word, s.held, s.any, s.quoted)
  BY DEF ReaderStates, At
<1>2. QED BY <1>1, Zenon

\* ReadChar, by character.
LEMMA FlushedIs ==
  ASSUME NEW ws, NEW wd, NEW h, NEW a, NEW q
  PROVE  Flushed(At(ws, wd, h, a, q)) = At(ws, wd \o Slashes(h), 0, a, q)
<1> DEFINE s == At(ws, wd, h, a, q)
           r == Flushed(s)
           x == wd \o Slashes(h)
<1>1. s.word = wd /\ s.held = h
  BY DEF At
<1>2. r = [s EXCEPT !.word = x, !.held = 0]
  BY <1>1, Zenon DEF Flushed
<1> HIDE DEF r, x
<1>3. r = At(ws, x, 0, a, q)
  BY <1>2 DEF At
<1>4. QED BY <1>3 DEF r, x

LEMMA ReadSlash ==
  ASSUME NEW ws, NEW wd, NEW h, NEW a, NEW q
  PROVE  ReadChar(At(ws, wd, h, a, q), Slash) = At(ws, wd, h + 1, Yes, q)
BY Characters DEF ReadChar, At, Yes

LEMMA ReadOddQuote ==
  ASSUME NEW ws, NEW wd, NEW h, NEW a, NEW q, h % 2 = 1
  PROVE  ReadChar(At(ws, wd, h, a, q), Quote) =
           At(ws, Append(wd \o Slashes(h \div 2), Quote), 0, a, q)
BY Characters DEF ReadChar, At

LEMMA ReadOpeningQuote ==
  ASSUME NEW ws, NEW wd, NEW h, NEW a, h % 2 # 1
  PROVE  ReadChar(At(ws, wd, h, a, No), Quote) =
           At(ws, wd \o Slashes(h \div 2), 0, Yes, Yes)
BY Characters DEF ReadChar, At, Yes, No

LEMMA ReadClosingQuote ==
  ASSUME NEW ws, NEW wd, NEW h, NEW a, h % 2 # 1
  PROVE  ReadChar(At(ws, wd, h, a, Yes), Quote) =
           At(ws, wd \o Slashes(h \div 2), 0, Yes, No)
BY Characters DEF ReadChar, At, Yes, No

LEMMA ReadOther ==
  ASSUME NEW ws, NEW wd, NEW h, NEW a, NEW q, NEW c,
         c # Slash, c # Quote, c = Blank => q = Yes
  PROVE  ReadChar(At(ws, wd, h, a, q), c) = At(ws, Append(wd \o Slashes(h), c), 0, Yes, q)
<1> DEFINE s == At(ws, wd, h, a, q)
           f == Flushed(s)
           r == ReadChar(s, c)
           x == wd \o Slashes(h)
<1>1. ~(c = Blank /\ ~s.quoted)
  BY DEF At, Yes
<1>2. r = [f EXCEPT !.word = Append(@, c), !.any = TRUE]
  BY <1>1, Zenon DEF ReadChar
<1>3. f = At(ws, x, 0, a, q)
  BY FlushedIs
<1> HIDE DEF f, r, x
<1>4. r = At(ws, Append(x, c), 0, Yes, q)
  BY <1>2, <1>3 DEF At, Yes
<1>5. QED BY <1>4 DEF r, x

LEMMA ReadBreak ==
  ASSUME NEW ws, NEW wd, NEW h
  PROVE  ReadChar(At(ws, wd, h, Yes, No), Blank) =
           At(Append(ws, wd \o Slashes(h)), <<>>, 0, No, No)
<1> DEFINE s == At(ws, wd, h, Yes, No)
<1>1. Blank # Slash /\ Blank # Quote /\ ~s.quoted /\ s.any /\ s.words = ws
  BY Characters DEF At, Yes, No
<1>2. Flushed(s).word = wd \o Slashes(h)
  <2>1. Flushed(s) = At(ws, wd \o Slashes(h), 0, Yes, No)
    BY FlushedIs
  <2> DEFINE x == wd \o Slashes(h)
  <2> HIDE DEF x
  <2>2. At(ws, x, 0, Yes, No).word = x
    BY DEF At
  <2>3. QED BY <2>1, <2>2, Zenon DEF x
<1> HIDE DEF s
<1>3. ReadChar(s, Blank) = [words |-> Append(s.words, Flushed(s).word), word |-> <<>>,
                            held |-> 0, any |-> FALSE, quoted |-> FALSE]
  BY <1>1, Zenon DEF ReadChar
<1>4. QED BY <1>1, <1>2, <1>3, Zenon DEF s, At, No

LEMMA ReadNoWord ==
  ASSUME NEW ws, NEW wd, NEW h
  PROVE  ReadChar(At(ws, wd, h, No, No), Blank) = At(ws, wd, h, No, No)
<1> DEFINE s == At(ws, wd, h, No, No)
<1>1. Blank # Slash /\ Blank # Quote /\ ~s.quoted /\ ~s.any
  BY Characters DEF At, No
<1> HIDE DEF s
<1>2. ReadChar(s, Blank) = s
  BY <1>1, Zenon DEF ReadChar
<1>3. QED BY <1>2 DEF s

LEMMA ReadCharType ==
  ASSUME NEW s \in ReaderStates, NEW c \in Chars
  PROVE  ReadChar(s, c) \in ReaderStates
<1>1. PICK ws \in Seq(Words), wd \in Words, h \in Nat, a \in Flags, q \in Flags :
        s = At(ws, wd, h, a, q)
  BY AtAll
<1>2. /\ h + 1 \in Nat /\ h \div 2 \in Nat /\ 0 \in Nat
      /\ Yes \in Flags /\ No \in Flags /\ (a = Yes \/ a = No)
      /\ (q = Yes \/ q = No)
  BY DEF Flags
<1>3. \A k \in Nat : wd \o Slashes(k) \in Words
  BY SlashesType DEF Words
<1>4. \A x \in Words, d \in Chars : Append(x, d) \in Words
  BY DEF Words
<1>5. Append(ws, wd \o Slashes(h)) \in Seq(Words) /\ <<>> \in Words
  BY <1>3 DEF Words
<1>6. CASE c = Slash
  BY <1>1, <1>2, <1>6, ReadSlash, AtType
<1>7. CASE c = Quote
  <2>1. /\ Append(wd \o Slashes(h \div 2), Quote) \in Words
        /\ wd \o Slashes(h \div 2) \in Words
    BY <1>2, <1>3, <1>4, Characters
  <2>2. QED BY <1>1, <1>2, <1>7, <2>1, ReadOddQuote, ReadOpeningQuote, ReadClosingQuote,
               AtType
<1>8. CASE c \in {"letter", Blank}
  <2>1. Append(wd \o Slashes(h), c) \in Words
    BY <1>3, <1>4
  <2>2. \/ ReadChar(s, c) = At(ws, Append(wd \o Slashes(h), c), 0, Yes, q)
        \/ ReadChar(s, c) = At(Append(ws, wd \o Slashes(h)), <<>>, 0, No, No)
        \/ ReadChar(s, c) = s
    <3>1. CASE c = "letter"
      BY <1>1, <3>1, ReadOther, Characters
    <3>2. CASE c = Blank
      <4>1. CASE q = Yes
        BY <1>1, <3>2, <4>1, ReadOther, Characters
      <4>2. CASE q = No
        BY <1>1, <1>2, <3>2, <4>2, ReadBreak, ReadNoWord
      <4>3. QED BY <1>2, <4>1, <4>2
    <3>3. QED BY <1>8, <3>1, <3>2
  <2>3. QED BY <1>2, <1>5, <2>1, <2>2, AtType
<1>9. QED BY <1>6, <1>7, <1>8, Characters

Fresh(ws) == At(ws, <<>>, 0, No, No)

\* The reader at the end of a line.
After(l) == Reading(l)[Len(l)]

LEMMA ReadingRuns ==
  ASSUME NEW l \in Words
  PROVE  LET s == Reading(l)
         IN  /\ s[0] = Fresh(<<>>)
             /\ \A i \in 0..Len(l) : s[i] \in ReaderStates
             /\ \A i \in 1..Len(l) : s[i] = ReadChar(s[i - 1], l[i])
<1> DEFINE n == Len(l)
           x == Fresh(<<>>)
           F == [p \in ReaderStates \X (1..n) |-> ReadChar(p[1], l[p[2]])]
           G(f) == [i \in 0..n |-> IF i = 0 THEN x ELSE ReadChar(f[i - 1], l[i])]
<1>1. n \in Nat /\ \A i \in 1..n : l[i] \in Chars
  BY DEF Words
<1>2. x \in ReaderStates
  <2>1. <<>> \in Seq(Words) /\ <<>> \in Words /\ 0 \in Nat /\ No \in Flags
    BY DEF Words, Flags
  <2>2. QED BY <2>1, AtType, Zenon DEF Fresh
<1>3. F \in [ReaderStates \X (1..n) -> ReaderStates]
  BY <1>1, ReadCharType
<1>8. Reading(l) = CHOOSE f : f = G(f)
  BY Zenon DEF Reading, Fresh, At, No
<1> HIDE DEF n, x
<1>4. PICK s \in [0..n -> ReaderStates] : Runs(s, x, n, F)
  BY <1>1, <1>2, <1>3, RunExists
<1>5. \A i \in 1..n : s[i] = ReadChar(s[i - 1], l[i])
  <2>1. TAKE i \in 1..n
  <2>2. s[i - 1] \in ReaderStates
    BY <1>1
  <2>3. F[<<s[i - 1], i>>] = ReadChar(s[i - 1], l[i])
    BY <2>2
  <2>4. QED BY <1>4, <2>3 DEF Runs
<1>6. s[0] = x
  BY <1>4 DEF Runs
<1>7. s = G(s)
  <2>1. \A i \in 0..n : s[i] = G(s)[i]
    BY <1>1, <1>5, <1>6
  <2>2. QED BY <2>1
<1> HIDE DEF F, G
<1>9. Reading(l) = G(Reading(l))
  BY <1>7, <1>8, Zenon
<1> DEFINE r == Reading(l)
<1>10. r[0] = x /\ \A i \in 1..n : r[i] = ReadChar(r[i - 1], l[i])
  <2> HIDE DEF r
  <2>1. r = [i \in 0..n |-> IF i = 0 THEN x ELSE ReadChar(r[i - 1], l[i])]
    BY <1>9, Zenon DEF G, r
  <2>2. QED BY <1>1, <2>1
<1> HIDE DEF r
<1>11. \A i \in 0..n : r[i] = s[i]
  <2>1. Alike(r, s, n)
    BY <1>5, <1>6, <1>10 DEF Alike
  <2>2. QED BY <1>1, <2>1, RunUnique
<1>12. \A i \in 0..n : r[i] \in ReaderStates
  BY <1>11
<1>13. QED BY <1>10, <1>12 DEF r, n, x

\* One character more.
LEMMA ReadOne ==
  ASSUME NEW l \in Words, NEW c \in Chars
  PROVE  /\ After(l) \in ReaderStates
         /\ Append(l, c) \in Words
         /\ After(Append(l, c)) = ReadChar(After(l), c)
<1> DEFINE m == Append(l, c)
           n == Len(l)
           r == Reading(m)
           s == Reading(l)
<1>1. /\ n \in Nat /\ m \in Words /\ Len(m) = n + 1 /\ m[n + 1] = c
      /\ \A i \in 1..n : m[i] = l[i]
  BY DEF Words
<1>2. /\ s[0] = Fresh(<<>>) /\ s[n] \in ReaderStates
      /\ \A i \in 1..n : s[i] = ReadChar(s[i - 1], l[i])
  BY <1>1, ReadingRuns
<1>3. r[0] = Fresh(<<>>) /\ \A i \in 1..(n + 1) : r[i] = ReadChar(r[i - 1], m[i])
  BY <1>1, ReadingRuns
<1> HIDE DEF m, n, r, s
<1>4. Alike(r, s, n)
  BY <1>1, <1>2, <1>3 DEF Alike
<1>5. r[n] = s[n]
  BY <1>1, <1>4, RunUnique
<1>6. r[n + 1] = ReadChar(s[n], c)
  BY <1>1, <1>3, <1>5
<1>7. QED BY <1>1, <1>2, <1>6 DEF After, m, n, r, s

LEMMA NoLine == After(<<>>) = Fresh(<<>>)
<1>1. <<>> \in Words /\ Len(<<>>) = 0
  BY DEF Words
<1>2. QED BY <1>1, ReadingRuns DEF After

-----------------------------------------------------------------------------
(* Reading what WriteChar writes.                                          *)

LEMMA Joined == \A v, u \in Words : v \o u \in Words
BY DEF Words

LEMMA JoinedNothing == \A v \in Words : v \o <<>> = v
BY DEF Words

LEMMA JoinedChar ==
  \A v \in Words, c \in Chars : v \o <<c>> = Append(v, c) /\ v \o <<c>> \in Words
BY DEF Words

LEMMA JoinedLonger ==
  \A v, u \in Words, c \in Chars : v \o Append(u, c) = Append(v \o u, c)
BY DEF Words

Joins(v, u, x) == v \o (u \o x) = (v \o u) \o x

LEMMA JoinedTwice == \A v, u, x \in Words : Joins(v, u, x)
BY DEF Words, Joins

\* Backslashes are held back.
LEMMA ReadSlashes ==
  ASSUME NEW l \in Words, NEW ws, NEW wd, NEW a, NEW q, After(l) = At(ws, wd, 0, a, q),
         NEW k \in Nat
  PROVE  /\ l \o Slashes(k) \in Words
         /\ k = 0 => After(l \o Slashes(k)) = At(ws, wd, k, a, q)
         /\ k # 0 => After(l \o Slashes(k)) = At(ws, wd, k, Yes, q)
<1> DEFINE L(n) == l \o Slashes(n)
           D == {n \in Nat : n # 0 => After(L(n)) = At(ws, wd, n, Yes, q)}
<1>1. \A n \in Nat : L(n) \in Words
  BY SlashesType, Joined
<1>2. L(0) = l
  BY SlashesGrow, JoinedNothing
<1>3. ASSUME NEW n \in Nat
      PROVE  L(n + 1) = Append(L(n), Slash)
  <2>1. PICK u \in Words : u = Slashes(n)
    BY SlashesType
  <2>2. Slashes(n + 1) = Append(u, Slash)
    BY <2>1, SlashesGrow
  <2>3. l \o Append(u, Slash) = Append(l \o u, Slash)
    BY JoinedLonger, Characters
  <2>4. QED BY <2>1, <2>2, <2>3
<1> HIDE DEF L
<1>4. 0 \in D
  OBVIOUS
<1>5. ASSUME NEW n \in Nat, n \in D
      PROVE  n + 1 \in D
  <2>1. After(L(n + 1)) = ReadChar(After(L(n)), Slash)
    BY <1>1, <1>3, ReadOne, Characters
  <2>2. n # 0 => After(L(n)) = At(ws, wd, n, Yes, q)
    BY <1>5
  <2>3. n = 0 => After(L(n)) = At(ws, wd, n, a, q)
    BY <1>2
  <2>4. ReadChar(After(L(n)), Slash) = At(ws, wd, n + 1, Yes, q)
    <3>1. PICK b : After(L(n)) = At(ws, wd, n, b, q)
      BY <2>2, <2>3
    <3>2. ReadChar(At(ws, wd, n, b, q), Slash) = At(ws, wd, n + 1, Yes, q)
      BY ReadSlash
    <3>3. QED BY <3>1, <3>2
  <2>5. After(L(n + 1)) = At(ws, wd, n + 1, Yes, q)
    BY <2>1, <2>4
  <2>6. QED BY <2>5
<1> HIDE DEF D
<1>6. k \in D
  BY <1>4, <1>5, NatSetInduction
<1>7. L(k) \in Words /\ (k # 0 => After(L(k)) = At(ws, wd, k, Yes, q))
  BY <1>1, <1>6 DEF D
<1>8. k = 0 => After(L(k)) = At(ws, wd, k, a, q)
  BY <1>2
<1>9. QED BY <1>7, <1>8 DEF L

\* A character after h backslashes.
LEMMA ReadEscaped ==
  ASSUME NEW l \in Words, NEW ws, NEW wd, NEW a, NEW q, After(l) = At(ws, wd, 0, a, q),
         NEW h \in Nat
  PROVE  /\ After(l \o Slashes(2 * h + 1) \o <<Quote>>) =
              At(ws, Append(wd \o Slashes(h), Quote), 0, Yes, q)
         /\ q = Yes => After(l \o Slashes(2 * h) \o <<Quote>>) =
              At(ws, wd \o Slashes(h), 0, Yes, No)
         /\ q = No => After(l \o Slashes(2 * h) \o <<Quote>>) =
              At(ws, wd \o Slashes(h), 0, Yes, Yes)
<1>1. PICK j \in Nat, k \in Nat : /\ j = 2 * h /\ k = 2 * h + 1 /\ k # 0
                                  /\ k % 2 = 1 /\ k \div 2 = h
                                  /\ j % 2 # 1 /\ j \div 2 = h
  OBVIOUS
<1>2. l \o Slashes(k) \in Words /\ After(l \o Slashes(k)) = At(ws, wd, k, Yes, q)
  BY <1>1, ReadSlashes
<1>3. After(l \o Slashes(k) \o <<Quote>>) = ReadChar(At(ws, wd, k, Yes, q), Quote)
  BY <1>2, JoinedChar, ReadOne, Characters
<1>4. After(l \o Slashes(k) \o <<Quote>>) = At(ws, Append(wd \o Slashes(h), Quote), 0, Yes, q)
  <2>1. ReadChar(At(ws, wd, k, Yes, q), Quote) =
          At(ws, Append(wd \o Slashes(k \div 2), Quote), 0, Yes, q)
    BY <1>1, ReadOddQuote
  <2>2. QED BY <1>1, <1>3, <2>1
<1>5. l \o Slashes(j) \in Words /\ \E b : After(l \o Slashes(j)) = At(ws, wd, j, b, q)
  BY ReadSlashes
<1>6. PICK b : After(l \o Slashes(j)) = At(ws, wd, j, b, q)
  BY <1>5
<1>7. After(l \o Slashes(j) \o <<Quote>>) = ReadChar(At(ws, wd, j, b, q), Quote)
  BY <1>5, <1>6, JoinedChar, ReadOne, Characters
<1>8. /\ q = Yes => After(l \o Slashes(j) \o <<Quote>>) = At(ws, wd \o Slashes(h), 0, Yes, No)
      /\ q = No => After(l \o Slashes(j) \o <<Quote>>) = At(ws, wd \o Slashes(h), 0, Yes, Yes)
  <2>1. /\ q = Yes => ReadChar(At(ws, wd, j, b, q), Quote) =
             At(ws, wd \o Slashes(j \div 2), 0, Yes, No)
        /\ q = No => ReadChar(At(ws, wd, j, b, q), Quote) =
             At(ws, wd \o Slashes(j \div 2), 0, Yes, Yes)
    BY <1>1, ReadOpeningQuote, ReadClosingQuote
  <2>2. QED BY <1>1, <1>7, <2>1
<1>9. QED BY <1>1, <1>4, <1>8

LEMMA ReadPlain ==
  ASSUME NEW l \in Words, NEW ws, NEW wd, NEW a, NEW q, After(l) = At(ws, wd, 0, a, q),
         NEW h \in Nat
  PROVE  /\ After(l \o Slashes(h) \o <<"letter">>) =
              At(ws, Append(wd \o Slashes(h), "letter"), 0, Yes, q)
         /\ q = Yes => After(l \o Slashes(h) \o <<Blank>>) =
              At(ws, Append(wd \o Slashes(h), Blank), 0, Yes, q)
         /\ q = No /\ (a = Yes \/ h # 0) =>
              After(l \o Slashes(h) \o <<Blank>>) = Fresh(Append(ws, wd \o Slashes(h)))
         /\ q = No /\ a = No /\ h = 0 =>
              After(l \o Slashes(h) \o <<Blank>>) = At(ws, wd, 0, a, q)
<1>1. PICK b : /\ l \o Slashes(h) \in Words
               /\ After(l \o Slashes(h)) = At(ws, wd, h, b, q)
               /\ h # 0 => b = Yes
               /\ h = 0 => b = a
  BY ReadSlashes
<1>2. \A c \in Chars : After(l \o Slashes(h) \o <<c>>) = ReadChar(At(ws, wd, h, b, q), c)
  BY <1>1, JoinedChar, ReadOne
<1>3. ASSUME NEW c \in Chars, c # Slash, c # Quote, c = Blank => q = Yes
      PROVE  After(l \o Slashes(h) \o <<c>>) = At(ws, Append(wd \o Slashes(h), c), 0, Yes, q)
  <2>1. ReadChar(At(ws, wd, h, b, q), c) = At(ws, Append(wd \o Slashes(h), c), 0, Yes, q)
    BY <1>3, ReadOther
  <2>2. QED BY <1>2, <2>1
<1>4. After(l \o Slashes(h) \o <<"letter">>) =
        At(ws, Append(wd \o Slashes(h), "letter"), 0, Yes, q)
  BY <1>3, Characters
<1>5. q = Yes => After(l \o Slashes(h) \o <<Blank>>) =
                   At(ws, Append(wd \o Slashes(h), Blank), 0, Yes, q)
  BY <1>3, Characters
<1>6. ASSUME q = No, a = Yes \/ h # 0
      PROVE  After(l \o Slashes(h) \o <<Blank>>) = Fresh(Append(ws, wd \o Slashes(h)))
  <2>1. b = Yes
    BY <1>1, <1>6
  <2>2. ReadChar(At(ws, wd, h, b, q), Blank) = Fresh(Append(ws, wd \o Slashes(h)))
    BY <1>6, <2>1, ReadBreak, Zenon DEF Fresh
  <2>3. QED BY <1>2, <2>2, Characters
<1>7. ASSUME q = No, a = No, h = 0
      PROVE  After(l \o Slashes(h) \o <<Blank>>) = At(ws, wd, 0, a, q)
  <2>1. b = No
    BY <1>1, <1>7
  <2>2. ReadChar(At(ws, wd, h, b, q), Blank) = At(ws, wd, h, b, q)
    BY <1>7, <2>1, ReadNoWord, Zenon
  <2>3. QED BY <1>2, <1>7, <2>1, <2>2, Characters
<1>8. QED BY <1>4, <1>5, <1>6, <1>7

\* What is read after one character more was written.
LEMMA ReadWritten ==
  ASSUME NEW l \in Words, NEW p \in WriterStates, NEW c \in Chars,
         NEW ws, NEW wd, NEW a, NEW q, After(l \o p.out) = At(ws, wd, 0, a, q),
         NEW r, r = WriteChar(p, c)
  PROVE  /\ c = Slash => /\ r.held = p.held + 1
                         /\ After(l \o r.out) = At(ws, wd, 0, a, q)
         /\ c # Slash => r.held = 0
         /\ c # Slash /\ (c = Blank => q = Yes) =>
              After(l \o r.out) = At(ws, Append(wd \o Slashes(p.held), c), 0, Yes, q)
         /\ c = Blank /\ q = No /\ (a = Yes \/ p.held # 0) =>
              After(l \o r.out) = Fresh(Append(ws, wd \o Slashes(p.held)))
         /\ c = Blank /\ q = No /\ a = No /\ p.held = 0 =>
              After(l \o r.out) = At(ws, wd, 0, a, q)
<1>1. PICK h \in Nat, o \in Words : h = p.held /\ o = p.out
  BY DEF WriterStates
<1>2. PICK m \in Words : m = l \o o
  BY Joined
<1>3. After(m) = At(ws, wd, 0, a, q)
  BY <1>1, <1>2
<1>4. \A u \in Words : l \o (o \o u \o <<c>>) = m \o u \o <<c>>
  <2>1. TAKE u \in Words
  <2>2. PICK x \in Words : x = <<c>>
    <3>1. <<c>> \in Words
      BY DEF Words
    <3>2. QED BY <3>1
  <2>3. o \o u \in Words
    BY Joined
  <2>4. Joins(l, o \o u, x) /\ Joins(l, o, u)
    BY <2>3, JoinedTwice, Zenon
  <2>5. QED BY <1>2, <2>2, <2>4, Zenon DEF Joins
<1>5. CASE c = Slash
  <2>1. r = [held |-> h + 1, out |-> o]
    BY <1>1, <1>5, WriteCharIs
  <2>2. QED BY <1>1, <1>2, <1>3, <1>5, <2>1, Characters
<1>6. CASE c = Quote
  <2>1. r = [held |-> 0, out |-> o \o Slashes(2 * h + 1) \o <<Quote>>]
    BY <1>1, <1>6, WriteCharIs
  <2>2. 2 * h + 1 \in Nat
    OBVIOUS
  <2>3. PICK u \in Words : u = Slashes(2 * h + 1)
    BY <2>2, SlashesType
  <2>4. l \o (o \o u \o <<c>>) = m \o u \o <<c>>
    BY <1>4
  <2>5. r.held = 0 /\ r.out = o \o u \o <<c>>
    BY <1>6, <2>1, <2>3
  <2>6. After(m \o Slashes(2 * h + 1) \o <<Quote>>) =
          At(ws, Append(wd \o Slashes(h), Quote), 0, Yes, q)
    BY <1>3, ReadEscaped
  <2>7. After(l \o r.out) = At(ws, Append(wd \o Slashes(h), c), 0, Yes, q)
    BY <1>6, <2>3, <2>4, <2>5, <2>6, Zenon
  <2>8. QED BY <1>1, <1>6, <2>5, <2>7, Characters
<1>7. CASE c \in {"letter", Blank}
  <2>1. r = [held |-> 0, out |-> o \o Slashes(h) \o <<c>>]
    BY <1>1, <1>7, WriteCharIs
  <2>2. PICK u \in Words : u = Slashes(h)
    BY SlashesType
  <2>3. l \o (o \o u \o <<c>>) = m \o u \o <<c>>
    BY <1>4
  <2>4. r.held = 0 /\ r.out = o \o u \o <<c>>
    BY <2>1, <2>2
  <2>5. l \o r.out = m \o Slashes(h) \o <<c>>
    BY <2>2, <2>3, <2>4, Zenon
  <2>6. CASE c = "letter"
    <3>1. After(m \o Slashes(h) \o <<"letter">>) =
            At(ws, Append(wd \o Slashes(h), "letter"), 0, Yes, q)
      BY <1>3, ReadPlain
    <3>2. After(l \o r.out) = At(ws, Append(wd \o Slashes(h), c), 0, Yes, q)
      BY <2>5, <2>6, <3>1, Zenon
    <3>3. QED BY <1>1, <2>4, <2>6, <3>2, Characters
  <2>7. CASE c = Blank
    <3> DEFINE y == m \o Slashes(h) \o <<Blank>>
    <3>1. /\ q = Yes => After(y) = At(ws, Append(wd \o Slashes(h), Blank), 0, Yes, q)
          /\ q = No /\ (a = Yes \/ h # 0) => After(y) = Fresh(Append(ws, wd \o Slashes(h)))
          /\ q = No /\ a = No /\ h = 0 => After(y) = At(ws, wd, 0, a, q)
      BY <1>3, ReadPlain
    <3>2. l \o r.out = y
      BY <2>5, <2>7
    <3> HIDE DEF y
    <3>3. QED BY <1>1, <2>4, <2>7, <3>1, <3>2, Characters
  <2>8. QED BY <1>7, <2>6, <2>7
<1>8. QED BY <1>5, <1>6, <1>7, Characters

-----------------------------------------------------------------------------
(* A word.                                                                 *)

\* The reader is in a quoted part while a word is written that is quoted.
Quoting(w) == IF NeedsQuotes(w) THEN Yes ELSE No

\* What was read, and what is held back, is the word up to character i.
ReadSoFar(w, i, l, ws) ==
  LET s == Writing(w)[i]
  IN \E wd \in Words, a \in Flags :
       /\ After(l \o s.out) = At(ws, wd, 0, a, Quoting(w))
       /\ wd \o Slashes(s.held) = SubSeq(w, 1, i)
       /\ wd # <<>> => a = Yes

LEMMA LongerPrefix ==
  ASSUME NEW w \in Words, NEW i \in Nat, i + 1 <= Len(w)
  PROVE  /\ SubSeq(w, 1, i) \in Words /\ w[i + 1] \in Chars
         /\ SubSeq(w, 1, i + 1) = Append(SubSeq(w, 1, i), w[i + 1])
<1> DEFINE v == SubSeq(w, 1, i)
           u == SubSeq(w, 1, i + 1)
<1>1. /\ w[i + 1] \in Chars /\ v \in Words /\ u \in Words
      /\ Len(v) = i /\ Len(u) = i + 1
  BY DEF Words
<1>2. \A j \in 1..(i + 1) : u[j] = w[j]
  BY DEF Words
<1>3. \A j \in 1..i : v[j] = w[j]
  BY DEF Words
<1> HIDE DEF u, v
<1>4. u = Append(v, w[i + 1])
  BY <1>1, <1>2, <1>3 DEF Words
<1>5. QED BY <1>1, <1>4 DEF u, v

LEMMA LongerArgs ==
  ASSUME NEW args \in Seq(Words), NEW i \in Nat, i + 1 <= Len(args)
  PROVE  /\ SubSeq(args, 1, i) \in Seq(Words)
         /\ SubSeq(args, 1, i + 1) = Append(SubSeq(args, 1, i), args[i + 1])
<1> DEFINE v == SubSeq(args, 1, i)
           u == SubSeq(args, 1, i + 1)
<1>1. /\ args[i + 1] \in Words /\ v \in Seq(Words) /\ u \in Seq(Words)
      /\ Len(v) = i /\ Len(u) = i + 1
  OBVIOUS
<1>2. \A j \in 1..(i + 1) : u[j] = args[j]
  OBVIOUS
<1>3. \A j \in 1..i : v[j] = args[j]
  OBVIOUS
<1> HIDE DEF u, v
<1>4. u = Append(v, args[i + 1])
  BY <1>1, <1>2, <1>3
<1>5. QED BY <1>1, <1>4 DEF u, v

LEMMA NoWordYet == \A w \in Words : SubSeq(w, 1, 0) = <<>> /\ SubSeq(w, 1, Len(w)) = w
BY DEF Words

\* The opening quote.
LEMMA ReadOpening ==
  ASSUME NEW l \in Words, NEW ws, After(l) = Fresh(ws), NEW w \in Words
  PROVE  \E a \in Flags : After(l \o Opening(w)) = At(ws, <<>>, 0, a, Quoting(w))
<1>1. CASE NeedsQuotes(w)
  <2>1. Opening(w) = <<Quote>> /\ Quoting(w) = Yes
    BY <1>1 DEF Opening, Quoting
  <2>2. After(Append(l, Quote)) = ReadChar(At(ws, <<>>, 0, No, No), Quote)
    BY ReadOne, Characters DEF Fresh
  <2>3. 0 % 2 # 1 /\ 0 \div 2 = 0
    OBVIOUS
  <2>4. ReadChar(At(ws, <<>>, 0, No, No), Quote) = At(ws, <<>> \o Slashes(0 \div 2), 0, Yes, Yes)
    BY <2>3, ReadOpeningQuote
  <2>5. <<>> \o Slashes(0 \div 2) = <<>>
    <3>1. <<>> \in Words
      BY DEF Words
    <3>2. QED BY <2>3, <3>1, SlashesGrow, JoinedNothing
  <2>6. l \o <<Quote>> = Append(l, Quote)
    BY JoinedChar, Characters
  <2>7. After(l \o <<Quote>>) = At(ws, <<>>, 0, Yes, Yes)
    BY <2>2, <2>4, <2>5, <2>6
  <2>8. QED BY <2>1, <2>7 DEF Flags
<1>2. CASE ~NeedsQuotes(w)
  <2>1. Opening(w) = <<>> /\ Quoting(w) = No
    BY <1>2 DEF Opening, Quoting
  <2>2. After(l \o <<>>) = At(ws, <<>>, 0, No, No)
    BY JoinedNothing DEF Fresh
  <2>3. QED BY <2>1, <2>2 DEF Flags
<1>3. QED BY <1>1, <1>2

LEMMA WordSoFar ==
  ASSUME NEW l \in Words, NEW ws, After(l) = Fresh(ws), NEW w \in Words, ReadBack(w)
  PROVE  ReadSoFar(w, Len(w), l, ws)
<1> DEFINE n == Len(w)
           D == {i \in Nat : i <= n => ReadSoFar(w, i, l, ws)}
<1>n. n \in Nat /\ <<>> \in Words
  BY DEF Words
<1>1. 0 \in D
  <2>1. Writing(w)[0] = [held |-> 0, out |-> Opening(w)]
    BY WritingRuns
  <2>2. PICK a \in Flags : After(l \o Opening(w)) = At(ws, <<>>, 0, a, Quoting(w))
    BY ReadOpening
  <2>3. <<>> \o Slashes(0) = SubSeq(w, 1, 0)
    BY <1>n, SlashesGrow, NoWordYet, JoinedNothing
  <2>4. Writing(w)[0].held = 0 /\ Writing(w)[0].out = Opening(w)
    BY <2>1
  <2>5. ReadSoFar(w, 0, l, ws)
    BY <1>n, <2>2, <2>3, <2>4, Zenon DEF ReadSoFar
  <2>6. QED BY <2>5
<1>2. ASSUME NEW i \in Nat, i \in D
      PROVE  i + 1 \in D
  <2>1. SUFFICES ASSUME i + 1 <= n
                 PROVE  ReadSoFar(w, i + 1, l, ws)
    OBVIOUS
  <2> DEFINE p == Writing(w)[i]
             r == Writing(w)[i + 1]
             c == w[i + 1]
             v == SubSeq(w, 1, i)
  <2>2. p \in WriterStates /\ r = WriteChar(p, c)
    <3>1. i \in 0..n /\ i + 1 \in 1..n /\ (i + 1) - 1 = i
      BY <2>1
    <3>2. QED BY <3>1, WritingRuns
  <2>3. PICK h \in Nat : h = p.held
    BY <2>2 DEF WriterStates
  <2>4. PICK wd \in Words, a \in Flags :
             /\ After(l \o p.out) = At(ws, wd, 0, a, Quoting(w))
             /\ wd \o Slashes(h) = v
             /\ wd # <<>> => a = Yes
    <3>1. ReadSoFar(w, i, l, ws)
      BY <1>2, <2>1
    <3>2. QED BY <2>3, <3>1, Zenon DEF ReadSoFar
  <2>5. v \in Words /\ c \in Chars /\ SubSeq(w, 1, i + 1) = Append(v, c)
    BY <2>1, LongerPrefix
  <2>6. c = Blank => Quoting(w) = Yes
    <3>1. SUFFICES ASSUME c = Blank
                   PROVE  NeedsQuotes(w)
      BY DEF Quoting
    <3>2. HasBlank(w)
      BY <2>1, <3>1 DEF HasBlank, Words
    <3>3. QED BY <3>2 DEF NeedsQuotes, ReadBack
  <2> HIDE DEF p, r, c, v
  <2>7. CASE c = Slash
    <3>1. r.held = h + 1 /\ After(l \o r.out) = At(ws, wd, 0, a, Quoting(w))
      BY <2>2, <2>3, <2>4, <2>5, <2>7, ReadWritten
    <3>2. wd \o Slashes(h + 1) = Append(v, c)
      <4>1. PICK u \in Words : u = Slashes(h)
        BY SlashesType
      <4>2. wd \o Append(u, Slash) = Append(wd \o u, Slash)
        BY JoinedLonger, Characters
      <4>3. Slashes(h + 1) = Append(u, Slash)
        BY <4>1, SlashesGrow
      <4>4. QED BY <2>4, <2>7, <4>1, <4>2, <4>3
    <3>3. QED BY <2>4, <2>5, <3>1, <3>2 DEF ReadSoFar, r
  <2>8. CASE c # Slash
    <3>1. r.held = 0 /\ After(l \o r.out) = At(ws, Append(v, c), 0, Yes, Quoting(w))
      <4>1. /\ r.held = 0
            /\ After(l \o r.out) =
                 At(ws, Append(wd \o Slashes(p.held), c), 0, Yes, Quoting(w))
        BY <2>2, <2>4, <2>5, <2>6, <2>8, ReadWritten
      <4>2. QED BY <2>3, <2>4, <4>1, Zenon
    <3>2. Append(v, c) \in Words /\ Append(v, c) \o Slashes(0) = Append(v, c)
      <4>1. Append(v, c) \in Words
        BY <2>5 DEF Words
      <4>2. QED BY <4>1, SlashesGrow, JoinedNothing
    <3>3. Yes \in Flags
      BY DEF Flags
    <3>4. QED BY <2>5, <3>1, <3>2, <3>3 DEF ReadSoFar, r
  <2>9. QED BY <2>7, <2>8
<1> HIDE DEF D
<1>3. n \in D
  BY <1>n, <1>1, <1>2, NatSetInduction
<1>4. QED BY <1>n, <1>3 DEF D

LEMMA WrittenType == \A w \in Words : Written(w) \in Words
<1>1. TAKE w \in Words
<1>2. Len(w) \in 0..Len(w)
  BY DEF Words
<1>3. Writing(w)[Len(w)] \in WriterStates
  BY <1>2, WritingRuns
<1>4. PICK h \in Nat, o \in Words : h = Writing(w)[Len(w)].held /\ o = Writing(w)[Len(w)].out
  BY <1>3 DEF WriterStates
<1>5. Written(w) = o \o Closing(w, h)
  BY <1>4, Zenon DEF Written
<1>6. Closing(w, h) \in Words
  <2>1. 2 * h \in Nat
    OBVIOUS
  <2>2. Slashes(2 * h) \in Words /\ Slashes(h) \in Words
    BY <2>1, SlashesType
  <2>3. Slashes(2 * h) \o <<Quote>> \in Words
    BY <2>2, JoinedChar, Characters
  <2>4. QED BY <2>2, <2>3, Zenon DEF Closing
<1>7. QED BY <1>5, <1>6, Joined

\* A word is read as it was, up to the blank that ends it.
LEMMA WordKept ==
  ASSUME NEW l \in Words, NEW ws, After(l) = Fresh(ws), NEW w \in Words, ReadBack(w)
  PROVE  \E wd \in Words, k \in Nat :
           /\ After(l \o Written(w)) = At(ws, wd, k, Yes, No)
           /\ wd \o Slashes(k) = w
<1> DEFINE s == Writing(w)[Len(w)]
<1>1. PICK wd \in Words, a \in Flags :
        /\ After(l \o s.out) = At(ws, wd, 0, a, Quoting(w))
        /\ wd \o Slashes(s.held) = w
        /\ wd # <<>> => a = Yes
  <2>1. ReadSoFar(w, Len(w), l, ws) /\ SubSeq(w, 1, Len(w)) = w
    BY WordSoFar, NoWordYet
  <2>2. QED BY <2>1, Zenon DEF ReadSoFar
<1>2. s \in WriterStates
  <2>1. Len(w) \in 0..Len(w)
    BY DEF Words
  <2>2. QED BY <2>1, WritingRuns
<1>3. PICK h \in Nat, o \in Words : h = s.held /\ o = s.out
  BY <1>2 DEF WriterStates
<1>4. Written(w) = o \o Closing(w, h)
  BY <1>3, Zenon DEF Written
<1>5. PICK m \in Words : m = l \o o
  BY Joined
<1>6. After(m) = At(ws, wd, 0, a, Quoting(w)) /\ wd \o Slashes(h) = w
  BY <1>1, <1>3, <1>5
<1> HIDE DEF s
<1>7. CASE NeedsQuotes(w)
  <2>1. Closing(w, h) = Slashes(2 * h) \o <<Quote>> /\ Quoting(w) = Yes
    BY <1>7, Zenon DEF Closing, Quoting
  <2>2. PICK u \in Words : u = Slashes(2 * h)
    <3>1. 2 * h \in Nat
      OBVIOUS
    <3>2. QED BY <3>1, SlashesType
  <2>3. l \o (o \o (u \o <<Quote>>)) = m \o u \o <<Quote>>
    <3>1. PICK x \in Words : x = <<Quote>>
      <4>1. <<Quote>> \in Words
        BY Characters DEF Words
      <4>2. QED BY <4>1
    <3>2. o \o u \in Words
      BY Joined, Zenon
    <3>3. Joins(o, u, x) /\ Joins(l, o \o u, x) /\ Joins(l, o, u)
      BY <3>2, JoinedTwice, Zenon
    <3>4. QED BY <1>5, <3>1, <3>3, Zenon DEF Joins
  <2>4. After(m \o Slashes(2 * h) \o <<Quote>>) = At(ws, wd \o Slashes(h), 0, Yes, No)
    <3>1. After(m) = At(ws, wd, 0, a, Yes)
      BY <1>6, <2>1
    <3>2. QED BY <3>1, ReadEscaped
  <2>5. After(l \o Written(w)) = At(ws, w, 0, Yes, No)
    BY <1>4, <1>6, <2>1, <2>2, <2>3, <2>4, Zenon
  <2>6. w \o Slashes(0) = w
    BY SlashesGrow, JoinedNothing
  <2>7. QED BY <2>5, <2>6
<1>8. CASE ~NeedsQuotes(w)
  <2>1. Closing(w, h) = Slashes(h) /\ Quoting(w) = No
    BY <1>8, Zenon DEF Closing, Quoting
  <2>2. l \o Written(w) = m \o Slashes(h)
    <3>1. PICK u \in Words : u = Slashes(h)
      BY SlashesType
    <3>2. Joins(l, o, u)
      BY JoinedTwice, Zenon
    <3>3. QED BY <1>4, <1>5, <2>1, <3>1, <3>2, Zenon DEF Joins
  <2>3. /\ h = 0 => After(m \o Slashes(h)) = At(ws, wd, h, a, No)
        /\ h # 0 => After(m \o Slashes(h)) = At(ws, wd, h, Yes, No)
    BY <1>6, <2>1, ReadSlashes
  <2>4. h = 0 => a = Yes
    <3>1. SUFFICES ASSUME h = 0, wd = <<>>
                   PROVE  FALSE
      BY <1>1
    <3>2. w = <<>>
      BY <1>6, <3>1, SlashesGrow
    <3>3. QED BY <1>8, <3>2 DEF NeedsQuotes
  <2>5. After(l \o Written(w)) = At(ws, wd, h, Yes, No)
    BY <2>2, <2>3, <2>4
  <2>6. QED BY <1>6, <2>5
<1>9. QED BY <1>7, <1>8

\* A word taken for a quoted one is torn at its first blank.
BlankIn(w, i) == \E k \in 1..i : w[k] = Blank

Torn(w, i, ws, vs, a) ==
  /\ Len(vs) >= Len(ws)
  /\ BlankIn(w, i) => Len(vs) > Len(ws)
  /\ i # 0 /\ ~BlankIn(w, i) => a = Yes
  /\ i # 0 /\ w[i] = Quote => a = Yes

TornSoFar(w, i, l, ws) ==
  \E vs \in Seq(Words), wd \in Words, a \in Flags :
    /\ After(l \o Writing(w)[i].out) = At(vs, wd, 0, a, No)
    /\ Torn(w, i, ws, vs, a)

LEMMA NotReadBack ==
  ASSUME NEW w \in Words, ~ReadBack(w)
  PROVE  /\ Len(w) \in Nat /\ Len(w) # 0 /\ w[1] = Quote /\ w[Len(w)] = Quote
         /\ BlankIn(w, Len(w)) /\ ~NeedsQuotes(w) /\ Quoting(w) = No
<1>1. HasBlank(w) /\ Enclosed(w) /\ w # <<>> /\ Head(w) = Quote /\ Last(w) = Quote
  BY DEF ReadBack, Enclosed
<1>2. Len(w) \in Nat /\ Len(w) # 0 /\ w[1] = Quote /\ w[Len(w)] = Quote
  BY <1>1 DEF Words, Last
<1>3. BlankIn(w, Len(w))
  BY <1>1 DEF HasBlank, BlankIn, Words
<1>4. ~NeedsQuotes(w)
  BY <1>1, Zenon DEF NeedsQuotes
<1>5. QED BY <1>2, <1>3, <1>4 DEF Quoting

LEMMA WordTorn ==
  ASSUME NEW l \in Words, NEW ws \in Seq(Words), After(l) = Fresh(ws),
         NEW w \in Words, ~ReadBack(w)
  PROVE  TornSoFar(w, Len(w), l, ws)
<1> DEFINE n == Len(w)
           D == {i \in Nat : i <= n => TornSoFar(w, i, l, ws)}
<1>n. n \in Nat /\ <<>> \in Words /\ w[1] = Quote /\ Len(ws) \in Nat
  BY NotReadBack DEF Words
<1>1. 0 \in D
  <2>1. Writing(w)[0].out = Opening(w)
    <3>1. Writing(w)[0] = [held |-> 0, out |-> Opening(w)]
      BY WritingRuns
    <3>2. QED BY <3>1
  <2>2. PICK a \in Flags : After(l \o Opening(w)) = At(ws, <<>>, 0, a, Quoting(w))
    BY ReadOpening
  <2>3. Torn(w, 0, ws, ws, a)
    BY <1>n DEF Torn, BlankIn
  <2>4. TornSoFar(w, 0, l, ws)
    BY <1>n, <2>1, <2>2, <2>3, NotReadBack, Zenon DEF TornSoFar
  <2>5. QED BY <2>4
<1>2. ASSUME NEW i \in Nat, i \in D
      PROVE  i + 1 \in D
  <2>1. SUFFICES ASSUME i + 1 <= n
                 PROVE  TornSoFar(w, i + 1, l, ws)
    OBVIOUS
  <2> DEFINE p == Writing(w)[i]
             r == Writing(w)[i + 1]
             c == w[i + 1]
  <2>2. p \in WriterStates /\ r = WriteChar(p, c)
    <3>1. i \in 0..n /\ i + 1 \in 1..n /\ (i + 1) - 1 = i
      BY <2>1
    <3>2. QED BY <3>1, WritingRuns
  <2>3. PICK h \in Nat : h = p.held
    BY <2>2 DEF WriterStates
  <2>4. PICK vs \in Seq(Words), wd \in Words, a \in Flags :
             After(l \o p.out) = At(vs, wd, 0, a, No) /\ Torn(w, i, ws, vs, a)
    <3>1. TornSoFar(w, i, l, ws)
      BY <1>2, <2>1
    <3>2. QED BY <3>1, Zenon DEF TornSoFar
  <2>5. c \in Chars /\ wd \o Slashes(h) \in Words /\ Append(wd \o Slashes(h), c) \in Words
    <3>1. c \in Chars
      BY <2>1, LongerPrefix
    <3>2. wd \o Slashes(h) \in Words
      BY SlashesType, Joined
    <3>3. QED BY <3>1, <3>2, JoinedChar
  <2>6. BlankIn(w, i + 1) <=> BlankIn(w, i) \/ c = Blank
    BY DEF BlankIn
  <2>7. i = 0 => c = Quote
    BY <1>n
  <2>8. Len(vs) \in Nat /\ Yes \in Flags /\ No \in Flags
    BY DEF Flags
  <2>9. ASSUME NEW us \in Seq(Words), NEW ud \in Words, NEW b \in Flags,
               After(l \o r.out) = At(us, ud, 0, b, No), Torn(w, i + 1, ws, us, b)
        PROVE  TornSoFar(w, i + 1, l, ws)
    BY <2>9, Zenon DEF TornSoFar
  <2> HIDE DEF p, r, c
  <2>10. CASE c = Slash
    <3>1. After(l \o r.out) = At(vs, wd, 0, a, No)
      BY <2>2, <2>4, <2>5, <2>10, ReadWritten
    <3>2. Torn(w, i + 1, ws, vs, a)
      BY <2>4, <2>6, <2>7, <2>10, Characters DEF Torn, c
    <3>3. QED BY <2>9, <3>1, <3>2
  <2>11. CASE c # Slash /\ c # Blank
    <3>1. After(l \o r.out) = At(vs, Append(wd \o Slashes(h), c), 0, Yes, No)
      BY <2>2, <2>3, <2>4, <2>5, <2>11, ReadWritten
    <3>2. Torn(w, i + 1, ws, vs, Yes)
      BY <2>4, <2>6, <2>11 DEF Torn
    <3>3. QED BY <2>5, <2>8, <2>9, <3>1, <3>2
  <2>12. CASE c = Blank
    <3>1. /\ a = Yes \/ h # 0 => After(l \o r.out) = Fresh(Append(vs, wd \o Slashes(h)))
          /\ a = No /\ h = 0 => After(l \o r.out) = At(vs, wd, 0, a, No)
      BY <2>2, <2>3, <2>4, <2>5, <2>12, ReadWritten
    <3>2. CASE a = Yes \/ h # 0
      <4>1. PICK us : us = Append(vs, wd \o Slashes(h))
        OBVIOUS
      <4>2. us \in Seq(Words) /\ Len(us) = Len(vs) + 1
        BY <2>5, <4>1
      <4>3. After(l \o r.out) = At(us, <<>>, 0, No, No)
        BY <3>1, <3>2, <4>1 DEF Fresh
      <4>4. Torn(w, i + 1, ws, us, No)
        BY <1>n, <2>4, <2>6, <2>8, <2>12, <4>2, Characters DEF Torn, c
      <4>5. QED BY <1>n, <2>8, <2>9, <4>2, <4>3, <4>4
    <3>3. CASE a = No /\ h = 0
      <4>1. a # Yes /\ i # 0
        BY <2>7, <2>12, <3>3, Characters DEF Yes, No
      <4>2. Torn(w, i + 1, ws, vs, a)
        BY <2>4, <2>6, <2>12, <4>1, Characters DEF Torn, c
      <4>3. QED BY <2>9, <3>1, <3>3, <4>2
    <3>4. QED BY <3>2, <3>3 DEF Flags
  <2>13. QED BY <2>10, <2>11, <2>12
<1> HIDE DEF D
<1>3. n \in D
  BY <1>n, <1>1, <1>2, NatSetInduction
<1>4. QED BY <1>n, <1>3 DEF D

LEMMA WordLost ==
  ASSUME NEW l \in Words, NEW ws \in Seq(Words), After(l) = Fresh(ws),
         NEW w \in Words, ~ReadBack(w)
  PROVE  \E vs \in Seq(Words), wd \in Words, k \in Nat :
           After(l \o Written(w)) = At(vs, wd, k, Yes, No) /\ Len(vs) > Len(ws)
<1> DEFINE s == Writing(w)[Len(w)]
<1>1. PICK vs \in Seq(Words), wd \in Words, a \in Flags :
        After(l \o s.out) = At(vs, wd, 0, a, No) /\ Torn(w, Len(w), ws, vs, a)
  <2>1. TornSoFar(w, Len(w), l, ws)
    BY WordTorn
  <2>2. QED BY <2>1, Zenon DEF TornSoFar
<1>2. Len(vs) > Len(ws) /\ a = Yes
  BY <1>1, NotReadBack DEF Torn
<1>3. s \in WriterStates
  <2>1. Len(w) \in 0..Len(w)
    BY DEF Words
  <2>2. QED BY <2>1, WritingRuns
<1>4. PICK h \in Nat, o \in Words : h = s.held /\ o = s.out
  BY <1>3 DEF WriterStates
<1>5. Written(w) = o \o Closing(w, h)
  BY <1>4, Zenon DEF Written
<1>6. PICK m \in Words : m = l \o o
  BY Joined
<1>7. After(m) = At(vs, wd, 0, Yes, No)
  BY <1>1, <1>2, <1>4, <1>6
<1> HIDE DEF s
<1>8. Closing(w, h) = Slashes(h)
  BY NotReadBack, Zenon DEF Closing
<1>9. l \o Written(w) = m \o Slashes(h)
  <2>1. PICK u \in Words : u = Slashes(h)
    BY SlashesType
  <2>2. Joins(l, o, u)
    BY JoinedTwice, Zenon
  <2>3. QED BY <1>5, <1>6, <1>8, <2>1, <2>2, Zenon DEF Joins
<1>10. After(m \o Slashes(h)) = At(vs, wd, h, Yes, No)
  BY <1>7, ReadSlashes
<1>11. QED BY <1>2, <1>9, <1>10

\* What the reader has when a word was written, be it closed by a blank or by the end.
Ended(l, us) ==
  \E vs \in Seq(Words), wd \in Words, k \in Nat :
    After(l) = At(vs, wd, k, Yes, No) /\ us = Append(vs, wd \o Slashes(k))

LEMMA WordRead ==
  ASSUME NEW l \in Words, NEW ws \in Seq(Words), After(l) = Fresh(ws), NEW w \in Words
  PROVE  \E us \in Seq(Words) :
           /\ Ended(l \o Written(w), us)
           /\ ReadBack(w) => us = Append(ws, w)
           /\ ~ReadBack(w) => Len(us) > Len(ws) + 1
<1>1. CASE ReadBack(w)
  <2>1. PICK wd \in Words, k \in Nat :
          /\ After(l \o Written(w)) = At(ws, wd, k, Yes, No)
          /\ wd \o Slashes(k) = w
    BY <1>1, WordKept
  <2>2. Append(ws, w) \in Seq(Words)
    OBVIOUS
  <2>3. Ended(l \o Written(w), Append(ws, w))
    BY <2>1, Zenon DEF Ended
  <2>4. QED BY <1>1, <2>2, <2>3
<1>2. CASE ~ReadBack(w)
  <2>1. PICK vs \in Seq(Words), wd \in Words, k \in Nat :
          After(l \o Written(w)) = At(vs, wd, k, Yes, No) /\ Len(vs) > Len(ws)
    BY <1>2, WordLost
  <2>2. wd \o Slashes(k) \in Words
    BY SlashesType, Joined
  <2>3. PICK us : us = Append(vs, wd \o Slashes(k))
    OBVIOUS
  <2>4. us \in Seq(Words) /\ Len(us) = Len(vs) + 1 /\ Len(vs) \in Nat /\ Len(ws) \in Nat
    BY <2>2, <2>3
  <2>5. Len(us) > Len(ws) + 1
    BY <2>1, <2>4
  <2>6. Ended(l \o Written(w), us)
    BY <2>1, <2>3, Zenon DEF Ended
  <2>7. QED BY <1>2, <2>4, <2>5, <2>6
<1>3. QED BY <1>1, <1>2

\* A blank ends the word, and the next one begins.
LEMMA WordBreak ==
  ASSUME NEW l \in Words, NEW us, Ended(l, us)
  PROVE  l \o <<Blank>> \in Words /\ After(l \o <<Blank>>) = Fresh(us)
<1>1. PICK vs \in Seq(Words), wd \in Words, k \in Nat :
        After(l) = At(vs, wd, k, Yes, No) /\ us = Append(vs, wd \o Slashes(k))
  BY Zenon DEF Ended
<1>2. l \o <<Blank>> = Append(l, Blank) /\ l \o <<Blank>> \in Words
  BY JoinedChar, Characters
<1>3. After(Append(l, Blank)) = ReadChar(At(vs, wd, k, Yes, No), Blank)
  BY <1>1, ReadOne, Characters
<1>4. ReadChar(At(vs, wd, k, Yes, No), Blank) = At(us, <<>>, 0, No, No)
  BY <1>1, ReadBreak
<1>5. QED BY <1>2, <1>3, <1>4 DEF Fresh

LEMMA ArgvIs ==
  ASSUME NEW l, NEW us, Ended(l, us)
  PROVE  ArgvOf(l) = us
<1>1. PICK vs \in Seq(Words), wd \in Words, k \in Nat :
        After(l) = At(vs, wd, k, Yes, No) /\ us = Append(vs, wd \o Slashes(k))
  BY Zenon DEF Ended
<1> DEFINE s == At(vs, wd, k, Yes, No)
<1>2. s.any /\ s.words = vs
  BY DEF At, Yes
<1>3. Flushed(s).word = wd \o Slashes(k)
  <2>1. Flushed(s) = At(vs, wd \o Slashes(k), 0, Yes, No)
    BY FlushedIs
  <2> DEFINE x == wd \o Slashes(k)
  <2> HIDE DEF x
  <2>2. At(vs, x, 0, Yes, No).word = x
    BY DEF At
  <2>3. QED BY <2>1, <2>2, Zenon DEF x
<1>4. Reading(l)[Len(l)] = s
  BY <1>1 DEF After
<1> HIDE DEF s
<1>5. ArgvOf(l) = Append(s.words, Flushed(s).word)
  BY <1>2, <1>4, Zenon DEF ArgvOf
<1>6. QED BY <1>1, <1>2, <1>3, <1>5, Zenon

-----------------------------------------------------------------------------
(* The line.                                                               *)

\* One word more.
Longer(l, w) == l \o <<Blank>> \o Written(w)

LEMMA LinesRun ==
  ASSUME NEW file \in Words, NEW args \in Seq(Words)
  PROVE  LET s == Lines(file, args)
         IN  /\ s[0] = Written(file)
             /\ \A i \in 0..Len(args) : s[i] \in Words
             /\ \A i \in 1..Len(args) : s[i] = Longer(s[i - 1], args[i])
<1> DEFINE n == Len(args)
           x == Written(file)
           F == [p \in Words \X (1..n) |-> Longer(p[1], args[p[2]])]
           G(f) == [i \in 0..n |-> IF i = 0 THEN x
                                   ELSE Longer(f[i - 1], args[i])]
<1>1. n \in Nat /\ \A i \in 1..n : args[i] \in Words
  OBVIOUS
<1>2. x \in Words
  BY WrittenType
<1>3. F \in [Words \X (1..n) -> Words]
  <2>1. \A l \in Words, i \in 1..n : Longer(l, args[i]) \in Words
    <3>1. TAKE l \in Words, i \in 1..n
    <3>2. l \o <<Blank>> \in Words
      BY JoinedChar, Characters
    <3>3. Written(args[i]) \in Words
      BY <1>1, WrittenType
    <3>4. QED BY <3>2, <3>3, Joined DEF Longer
  <2>2. QED BY <2>1
<1>8. Lines(file, args) = CHOOSE f : f = G(f)
  BY Zenon DEF Lines, Longer
<1> HIDE DEF n, x
<1>4. PICK s \in [0..n -> Words] : Runs(s, x, n, F)
  BY <1>1, <1>2, <1>3, RunExists
<1>5. \A i \in 1..n : s[i] = Longer(s[i - 1], args[i])
  <2>1. TAKE i \in 1..n
  <2>2. s[i - 1] \in Words
    BY <1>1
  <2>3. F[<<s[i - 1], i>>] = Longer(s[i - 1], args[i])
    BY <2>2
  <2>4. QED BY <1>4, <2>3 DEF Runs
<1>6. s[0] = x
  BY <1>4 DEF Runs
<1>7. s = G(s)
  <2>1. \A i \in 0..n : s[i] = G(s)[i]
    BY <1>1, <1>5, <1>6
  <2>2. QED BY <2>1
<1> HIDE DEF F, G
<1>9. Lines(file, args) = G(Lines(file, args))
  BY <1>7, <1>8, Zenon
<1> DEFINE r == Lines(file, args)
<1>10. r[0] = x /\ \A i \in 1..n : r[i] = Longer(r[i - 1], args[i])
  <2> HIDE DEF r
  <2>1. r = [i \in 0..n |-> IF i = 0 THEN x ELSE Longer(r[i - 1], args[i])]
    BY <1>9, Zenon DEF G, r
  <2>2. QED BY <1>1, <2>1
<1> HIDE DEF r
<1>11. \A i \in 0..n : r[i] = s[i]
  <2>1. Alike(r, s, n)
    BY <1>5, <1>6, <1>10 DEF Alike
  <2>2. QED BY <1>1, <2>1, RunUnique
<1>12. \A i \in 0..n : r[i] \in Words
  BY <1>11
<1>13. QED BY <1>10, <1>12 DEF r, n, x

\* What is read after j arguments.
AllRead(args, j) == \A i \in 1..j : ReadBack(args[i])

Got(file, args, j, us) ==
  /\ Len(us) > j
  /\ AllRead(args, j) => us = <<file>> \o SubSeq(args, 1, j)
  /\ ~AllRead(args, j) => Len(us) > j + 1

LineSoFar(file, args, j) ==
  \E us \in Seq(Words) : Ended(Lines(file, args)[j], us) /\ Got(file, args, j, us)

LEMMA AllReadGrows ==
  ASSUME NEW args, NEW j \in Nat
  PROVE  AllRead(args, j + 1) <=> AllRead(args, j) /\ ReadBack(args[j + 1])
<1>1. \A i : i \in 1..(j + 1) <=> i \in 1..j \/ i = j + 1
  OBVIOUS
<1>2. QED BY <1>1, Zenon DEF AllRead

\* One argument more.
LEMMA GotGrows ==
  ASSUME NEW file \in Words, NEW args \in Seq(Words),
         NEW j \in Nat, j + 1 <= Len(args),
         NEW us \in Seq(Words), Got(file, args, j, us), NEW vs \in Seq(Words),
         ReadBack(args[j + 1]) => vs = Append(us, args[j + 1]),
         ~ReadBack(args[j + 1]) => Len(vs) > Len(us) + 1
  PROVE  Got(file, args, j + 1, vs)
<1> DEFINE w == args[j + 1]
           x == SubSeq(args, 1, j)
<1>1. /\ Len(us) \in Nat /\ Len(vs) \in Nat
      /\ Len(us) > j /\ (~AllRead(args, j) => Len(us) > j + 1)
  BY DEF Got
<1>2. w \in Words
  OBVIOUS
<1>3. SubSeq(args, 1, j + 1) = Append(x, w) /\ x \in Seq(Words)
  BY LongerArgs
<1>4. AllRead(args, j) => us = <<file>> \o x
  BY DEF Got
<1> HIDE DEF w, x
<1>5. CASE ReadBack(w)
  <2>1. vs = Append(us, w)
    BY <1>5 DEF w
  <2>2. Len(vs) = Len(us) + 1
    BY <1>2, <2>1
  <2>3. AllRead(args, j + 1) <=> AllRead(args, j)
    BY <1>5, AllReadGrows DEF w
  <2>4. Len(vs) > j + 1 /\ (~AllRead(args, j) => Len(vs) > (j + 1) + 1)
    BY <1>1, <2>2
  <2>5. ASSUME AllRead(args, j)
        PROVE  vs = <<file>> \o SubSeq(args, 1, j + 1)
    <3>1. <<file>> \in Seq(Words)
      OBVIOUS
    <3>2. <<file>> \o Append(x, w) = Append(<<file>> \o x, w)
      BY <1>2, <1>3, <3>1
    <3>3. us = <<file>> \o x
      BY <1>4, <2>5
    <3>4. QED BY <1>3, <2>1, <3>2, <3>3
  <2>6. QED BY <2>3, <2>4, <2>5, Zenon DEF Got
<1>6. CASE ~ReadBack(w)
  <2>1. Len(vs) > Len(us) + 1
    BY <1>6 DEF w
  <2>2. ~AllRead(args, j + 1)
    BY <1>6, AllReadGrows DEF w
  <2>3. Len(vs) > j + 1 /\ Len(vs) > (j + 1) + 1
    BY <1>1, <2>1
  <2>4. QED BY <2>2, <2>3, Zenon DEF Got
<1>7. QED BY <1>5, <1>6

LEMMA LineRead ==
  ASSUME NEW file \in Words, ReadBack(file), NEW args \in Seq(Words)
  PROVE  LineSoFar(file, args, Len(args))
<1> DEFINE n == Len(args)
           L == Lines(file, args)
           D == {j \in Nat : j <= n => LineSoFar(file, args, j)}
<1>n. n \in Nat /\ <<>> \in Words /\ <<>> \in Seq(Words)
  BY DEF Words
<1>1. 0 \in D
  <2>1. PICK us \in Seq(Words) : Ended(<<>> \o Written(file), us) /\ us = Append(<<>>, file)
    <3>1. PICK us \in Seq(Words) :
            /\ Ended(<<>> \o Written(file), us)
            /\ ReadBack(file) => us = Append(<<>>, file)
            /\ ~ReadBack(file) => Len(us) > Len(<<>>) + 1
      BY <1>n, NoLine, WordRead
    <3>2. us = Append(<<>>, file)
      BY <3>1
    <3>3. Ended(<<>> \o Written(file), us)
      BY <3>1, Zenon
    <3>4. QED BY <3>2, <3>3, Zenon
  <2>2. L[0] = <<>> \o Written(file)
    <3>1. PICK u \in Words : u = Written(file)
      BY WrittenType
    <3>2. <<>> \o u = u
      BY DEF Words
    <3>3. QED BY <3>1, <3>2, LinesRun
  <2>3. Got(file, args, 0, us)
    <3>1. Len(us) > 0 /\ us = <<file>> \o SubSeq(args, 1, 0)
      BY <2>1
    <3>2. AllRead(args, 0)
      BY DEF AllRead
    <3>3. QED BY <3>1, <3>2 DEF Got
  <2>4. Ended(L[0], us)
    BY <2>1, <2>2, Zenon
  <2>5. LineSoFar(file, args, 0)
    BY <2>3, <2>4, Zenon DEF LineSoFar
  <2>6. QED BY <2>5
<1>2. ASSUME NEW j \in Nat, j \in D
      PROVE  j + 1 \in D
  <2>1. SUFFICES ASSUME j + 1 <= n
                 PROVE  LineSoFar(file, args, j + 1)
    OBVIOUS
  <2>2. PICK us \in Seq(Words) : Ended(L[j], us) /\ Got(file, args, j, us)
    <3>1. LineSoFar(file, args, j)
      BY <1>2, <2>1
    <3>2. QED BY <3>1, Zenon DEF LineSoFar
  <2> DEFINE w == args[j + 1]
  <2>3. L[j] \in Words /\ w \in Words /\ L[j + 1] = Longer(L[j], w)
    <3>1. j \in 0..n /\ j + 1 \in 1..n /\ (j + 1) - 1 = j
      BY <2>1
    <3>2. QED BY <3>1, LinesRun
  <2> HIDE DEF L, w
  <2>4. PICK l : l = L[j] \o <<Blank>>
    OBVIOUS
  <2>5. l \in Words /\ After(l) = Fresh(us)
    BY <2>2, <2>3, <2>4, WordBreak, Zenon
  <2>6. PICK vs \in Seq(Words) :
          /\ Ended(l \o Written(w), vs)
          /\ ReadBack(w) => vs = Append(us, w)
          /\ ~ReadBack(w) => Len(vs) > Len(us) + 1
    BY <2>3, <2>5, WordRead
  <2>7. Ended(L[j + 1], vs)
    <3>1. L[j + 1] = l \o Written(w)
      BY <2>3, <2>4, Zenon DEF Longer
    <3>2. Ended(l \o Written(w), vs)
      BY <2>6, Zenon
    <3>3. QED BY <3>1, <3>2, Zenon
  <2>8. Got(file, args, j + 1, vs)
    <3>1. /\ ReadBack(args[j + 1]) => vs = Append(us, args[j + 1])
          /\ ~ReadBack(args[j + 1]) => Len(vs) > Len(us) + 1
      BY <2>6, Zenon DEF w
    <3>2. Got(file, args, j, us)
      BY <2>2, Zenon
    <3>3. j + 1 <= Len(args)
      BY <2>1
    <3>4. QED BY <3>1, <3>2, <3>3, GotGrows
  <2>9. QED BY <2>7, <2>8, Zenon DEF LineSoFar, L
<1> HIDE DEF D
<1>3. n \in D
  BY <1>n, <1>1, <1>2, NatSetInduction
<1>4. QED BY <1>n, <1>3 DEF D

-----------------------------------------------------------------------------
(* A program whose own name is read back gets the arguments it was given   *)
(* if and only if each of them is read back (expty.ex:701-785), for every  *)
(* list of words.                                                          *)
THEOREM RoundTrip ==
  ASSUME NEW file \in Words, ReadBack(file), NEW args \in Seq(Words)
  PROVE  LET back == Tail(ArgvOf(ArgsToCommandLine(file, args)))
         IN  /\ back \in Seq(Words)
             /\ back = args <=> \A i \in DOMAIN args : ReadBack(args[i])
<1> DEFINE n == Len(args)
<1>1. n \in Nat /\ DOMAIN args = 1..n /\ SubSeq(args, 1, n) = args
  OBVIOUS
<1>2. PICK us \in Seq(Words) : Ended(Lines(file, args)[n], us) /\ Got(file, args, n, us)
  BY LineRead, Zenon DEF LineSoFar
<1>3. ArgvOf(ArgsToCommandLine(file, args)) = us
  BY <1>2, ArgvIs, Zenon DEF ArgsToCommandLine
<1>4. Len(us) \in Nat /\ Len(us) > n
  BY <1>2 DEF Got
<1>5. us # <<>> /\ Tail(us) \in Seq(Words) /\ Len(Tail(us)) = Len(us) - 1
  BY <1>1, <1>4
<1>6. AllRead(args, n) <=> \A i \in DOMAIN args : ReadBack(args[i])
  BY <1>1, Zenon DEF AllRead
<1>7. ASSUME AllRead(args, n)
      PROVE  Tail(us) = args
  <2>1. us = <<file>> \o args
    BY <1>1, <1>2, <1>7 DEF Got
  <2>2. Tail(<<file>> \o args) = args
    OBVIOUS
  <2>3. QED BY <2>1, <2>2
<1>8. ASSUME ~AllRead(args, n)
      PROVE  Tail(us) # args
  <2>1. Len(us) > n + 1
    BY <1>2, <1>8 DEF Got
  <2>2. PICK a \in Nat, b \in Nat : a = Len(us) /\ b = n
    BY <1>1, <1>4
  <2>3. a > b + 1
    BY <2>1, <2>2
  <2>4. Len(Tail(us)) = a - 1
    BY <1>5, <2>2
  <2>5. a - 1 # b
    BY <2>3
  <2>6. QED BY <2>2, <2>4, <2>5
<1>9. QED BY <1>3, <1>5, <1>6, <1>7, <1>8

-----------------------------------------------------------------------------
(* The arguments.                                                          *)

\* The arguments that a program gets when the list args was given.
Passed(args) == Tail(ArgvOf(ArgsToCommandLine(File, args)))

LEMMA FileIsWord == File \in Words /\ ReadBack(File)
<1>1. File \in Words /\ DOMAIN File = {1} /\ File[1] = "letter"
  BY DEF File, Words, Chars
<1>2. ~HasBlank(File)
  BY <1>1, Characters, Zenon DEF HasBlank
<1>3. QED BY <1>1, <1>2 DEF ReadBack

LEMMA PassedIs ==
  ASSUME NEW args \in ArgLists
  PROVE  /\ Passed(args) \in Seq(Seq(Chars))
         /\ Passed(args) = args <=> \A i \in DOMAIN args : ReadBack(args[i])
<1>1. args \in Seq(Words)
  BY ConPtyAssumption DEF Words
<1>2. /\ Passed(args) \in Seq(Words)
      /\ Passed(args) = args <=> \A i \in DOMAIN args : ReadBack(args[i])
  BY <1>1, FileIsWord, RoundTrip, Zenon DEF Passed
<1>3. QED BY <1>2 DEF Words

-----------------------------------------------------------------------------
(* The invariant.                                                          *)

\* The arguments are those of the list that was given.
ArgInv == argv = IF program = "none" THEN <<>> ELSE Passed(given)

\* Until a WriteFile fails, the mutex is held exactly while a write is in
\* WriteFile, by the thread that it runs on.
MutexInv == failed \/ holder = (IF write = "file" THEN scheduler ELSE None)

ConInv == TypeOK /\ ArgInv /\ MutexInv

LEMMA InitCon == Init => ConInv
<1> SUFFICES ASSUME Init
             PROVE  ConInv
  OBVIOUS
<1>1. TypeOK
  <2>1. {console, failed} \subseteq BOOLEAN
    BY DEF Init
  <2>2. {scheduler, holder} \subseteq Schedulers \cup {None}
    BY DEF Init
  <2>3. out \in 0..MaxOut /\ shown \in 0..out /\ writes \in 0..MaxWrites
    BY ConPtyAssumption DEF Init
  <2>4. argv \in Seq(Seq(Chars))
    BY DEF Init
  <2>5. QED BY <2>1, <2>2, <2>3, <2>4 DEF Init, TypeOK
<1>2. ArgInv
  BY DEF Init, ArgInv
<1>3. MutexInv
  BY DEF Init, MutexInv
<1>4. QED BY <1>1, <1>2, <1>3 DEF ConInv

-----------------------------------------------------------------------------
(* Types.                                                                  *)

LEMMA TypeStep ==
  ASSUME TypeOK, [Next]_vars
  PROVE  TypeOK'
<1> USE DEF TypeOK
<1>1. CASE CreateConsole
  <2>1. console' \in BOOLEAN
    BY <1>1 DEF CreateConsole, Goto
  <2>2. QED BY <1>1, <2>1 DEF CreateConsole, Goto, threadVars, writeVars
<1>2. CASE Connect
  <2>1. at' \in {"in", "failed"} /\ writer' \in {"none", "opening", "open", "ready"}
    BY <1>2 DEF Connect, Goto
  <2>2. QED BY <1>2, <2>1 DEF Connect, programVars, writeVars
<1>3. CASE ConnectIn
  BY <1>3 DEF ConnectIn, Goto, ReaderAfterIn, programVars, writeVars
<1>4. CASE ConnectOut
  BY <1>4 DEF ConnectOut, Goto, threadVars, programVars, writeVars
<1>5. CASE CreateProcess
  <2>1. argv' = argv \/ argv' = Passed(given)
    BY <1>5 DEF CreateProcess, Passed
  <2>2. argv' \in Seq(Seq(Chars))
    BY <2>1, PassedIs
  <2>3. QED BY <1>5, <2>2 DEF CreateProcess, Goto, threadVars, writeVars
<1>6. CASE Arm
  BY <1>6 DEF Arm, Goto, Wait, threadVars, writeVars
<1>7. CASE Lock
  BY <1>7 DEF Lock, spawnVars, threadVars, programVars
<1>8. CASE WriteFile
  BY <1>8 DEF WriteFile, WriteReturns, Unlocked, spawnVars, threadVars, programVars
<1>9. CASE WriteFileFails
  BY <1>9 DEF WriteFileFails, WriteReturns, spawnVars, threadVars, programVars
<1>10. CASE WriterOpens
  BY <1>10 DEF WriterOpens, spawnVars, programVars, writeVars
<1>11. CASE WriterReady
  BY <1>11 DEF WriterReady, spawnVars, programVars, writeVars
<1>12. CASE ReaderOpens
  BY <1>12 DEF ReaderOpens, spawnVars, programVars, writeVars
<1>13. CASE ReadData
  <2>1. shown' \in 0..out
    BY <1>13, ConPtyAssumption DEF ReadData, Forwarded
  <2>2. QED BY <1>13, <2>1 DEF ReadData, spawnVars, programVars, writeVars
<1>14. ASSUME NEW d \in Schedulers, Write(d)
       PROVE  TypeOK'
  <2>1. writes' \in 0..MaxWrites
    BY <1>14, ConPtyAssumption DEF Write
  <2>2. write' \in {"idle", "lock", "file"} /\ scheduler' \in Schedulers \cup {None}
    BY <1>14 DEF Write
  <2>3. QED BY <1>14, <2>1, <2>2 DEF Write, spawnVars, threadVars, programVars
<1>15. CASE ProgramWrites
  <2>1. out' \in 0..MaxOut /\ shown \in 0..out'
    BY <1>15, ConPtyAssumption DEF ProgramWrites
  <2>2. QED BY <1>15, <2>1 DEF ProgramWrites, spawnVars, threadVars, writeVars
<1>16. CASE ProgramExits
  BY <1>16 DEF ProgramExits, spawnVars, threadVars, writeVars
<1>17. CASE ConsoleEnds
  BY <1>17 DEF ConsoleEnds, spawnVars, threadVars, writeVars
<1>18. CASE PostExit
  BY <1>18 DEF PostExit, spawnVars, threadVars, writeVars
<1>19. CASE UNCHANGED vars
  BY <1>19 DEF vars, spawnVars, threadVars, programVars, writeVars
<1>20. QED
  BY <1>1, <1>2, <1>3, <1>4, <1>5, <1>6, <1>7, <1>8, <1>9, <1>10, <1>11, <1>12,
     <1>13, <1>14, <1>15, <1>16, <1>17, <1>18, <1>19
  DEF Next, ServerStep, WriterStep, ReaderStep

-----------------------------------------------------------------------------
(* The arguments are written once, by CreateProcess.                       *)

LEMMA ArgStep ==
  ASSUME ConInv, [Next]_vars
  PROVE  ArgInv'
<1>1. ArgInv /\ given \in ArgLists
  BY DEF ConInv, TypeOK
<1>2. CASE CreateProcess
  <2>1. CASE UNCHANGED <<program, argv>>
    BY <1>1, <1>2, <2>1, Zenon DEF CreateProcess, ArgInv
  <2>2. CASE program' = "running" /\ argv' = Passed(given)
    <3>1. "running" # "none" /\ given' = given
      BY <1>2 DEF CreateProcess
    <3>2. QED BY <2>2, <3>1, Zenon DEF ArgInv
  <2>3. QED BY <1>2, <2>1, <2>2 DEF CreateProcess, Passed
<1>3. CASE ProgramExits
  BY <1>1, <1>3 DEF ProgramExits, ArgInv, spawnVars
<1>4. CASE UNCHANGED <<given, program, argv>>
  BY <1>1, <1>4, Zenon DEF ArgInv
<1>5. \/ CreateProcess \/ ProgramExits
      \/ UNCHANGED <<given, program, argv>>
  BY DEF Next, ServerStep, WriterStep, ReaderStep, vars, spawnVars, programVars,
         CreateConsole, Connect, ConnectIn, ConnectOut, Arm, Lock, WriteFile,
         WriteFileFails, WriteReturns, WriterOpens, WriterReady, ReaderOpens, ReadData,
         Write, ProgramWrites, ConsoleEnds, PostExit
<1>6. QED BY <1>2, <1>3, <1>4, <1>5

-----------------------------------------------------------------------------
(* The mutex is given back by every write that does not fail.              *)

LEMMA MutexStep ==
  ASSUME ConInv, [Next]_vars
  PROVE  MutexInv'
<1>1. MutexInv
  BY DEF ConInv
<1>2. ASSUME NEW d \in Schedulers, Write(d)
      PROVE  MutexInv'
  <2>1. write = "idle" /\ write' \in {"idle", "lock"}
    BY <1>2 DEF Write
  <2>2. holder' = holder /\ failed' = failed
    BY <1>2 DEF Write
  <2>3. QED BY <1>1, <2>1, <2>2 DEF MutexInv
<1>3. CASE Lock
  BY <1>3 DEF Lock, MutexInv
<1>4. CASE WriteFile
  BY <1>1, <1>4 DEF WriteFile, WriteReturns, Unlocked, MutexInv
<1>5. CASE WriteFileFails
  BY <1>5 DEF WriteFileFails, MutexInv
<1>6. CASE UNCHANGED <<write, scheduler, holder, failed>>
  BY <1>1, <1>6 DEF MutexInv
<1>7. \/ \E d \in Schedulers : Write(d)
      \/ Lock \/ WriteFile \/ WriteFileFails
      \/ UNCHANGED <<write, scheduler, holder, failed>>
  BY DEF Next, ServerStep, WriterStep, ReaderStep, vars, writeVars,
         CreateConsole, Connect, ConnectIn, ConnectOut, CreateProcess, Arm,
         WriterOpens, WriterReady, ReaderOpens, ReadData,
         ProgramWrites, ProgramExits, ConsoleEnds, PostExit
<1>8. QED BY <1>2, <1>3, <1>4, <1>5, <1>6, <1>7

-----------------------------------------------------------------------------
(* The theorems.                                                           *)

LEMMA ConInvCorrect == Spec => []ConInv
<1>1. Init => ConInv
  BY InitCon
<1>2. ConInv /\ [Next]_vars => ConInv'
  <2> SUFFICES ASSUME ConInv, [Next]_vars
               PROVE  ConInv'
    OBVIOUS
  <2>1. TypeOK'
    BY TypeStep DEF ConInv
  <2>2. QED BY <2>1, ArgStep, MutexStep DEF ConInv
<1>3. QED BY <1>1, <1>2, PTL DEF Spec

\* Every variable of a Windows terminal keeps its type; the arguments of
\* the program stay a list of words (conpty.cc:367-458).
THEOREM ConTypeCorrect == Spec => []TypeOK
<1>1. ConInv => TypeOK
  BY DEF ConInv
<1>2. QED BY <1>1, ConInvCorrect, PTL

\* A program gets the arguments that were given, for every list of words,
\* if and only if none of them is taken for a quoted word
\* (expty.ex:722-728, 746-748).
THEOREM ArgumentsArriveTheorem == Spec => []ArgumentsArrive
<1>1. ConInv => ArgumentsArrive
  <2> SUFFICES ASSUME ConInv, program # "none"
               PROVE  argv = given <=> \A i \in DOMAIN given : ReadBack(given[i])
    BY DEF ArgumentsArrive
  <2>1. given \in ArgLists /\ argv = Passed(given)
    BY Zenon DEF ConInv, TypeOK, ArgInv
  <2>2. QED BY <2>1, PassedIs
<1>2. QED BY <1>1, ConInvCorrect, PTL

\* A write waits at the mutex only after a WriteFile failed, which returns
\* without the unlock (conpty.cc:77-79): every other write, on whatever
\* scheduler thread, gives the mutex back.
LockFree == write = "lock" => failed \/ holder = None

\* However many scheduler threads there are, a write finds the mutex taken
\* only after a WriteFile failed (conpty.cc:75-81).
THEOREM LockFreeTheorem == Spec => []LockFree
<1>1. ConInv => LockFree
  BY DEF ConInv, MutexInv, LockFree
<1>2. QED BY <1>1, ConInvCorrect, PTL
=============================================================================
