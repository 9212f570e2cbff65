--------------------------- MODULE SmartCellProofs ---------------------------
(***************************************************************************)
(* What TLC checks for three terminals and six acts of the user, proved    *)
(* for any number of terminals, sizes and acts.                            *)
(***************************************************************************)
EXTENDS SmartCell, FiniteSetTheorems, TLAPS

-----------------------------------------------------------------------------
(* The strengthening.                                                      *)

Tagged(q, tag) == {i \in DOMAIN q : q[i].tag = tag}

\* The terminals whose exit notice is in a mailbox, and the one notice each
\* has there.
HeardIn(q) == {q[i].arg : i \in Tagged(q, "exited")}
Single(q)  == \A i, j \in Tagged(q, "exited") : q[i].arg = q[j].arg => i = j

NoResize(q)      == Tagged(q, "resize") = {}
LastResize(q, s) == \A i \in Tagged(q, "resize") :
                      (\A j \in Tagged(q, "resize") : j <= i) => q[i].arg = s

Told == {t \in Terminals : term[t] = "told"}

\* A terminal gives one notice of its exit, which the mailbox or the page has.
NoticeInv ==
  /\ HeardIn(mailbox) \subseteq Told
  /\ Single(mailbox)
  /\ toPage + Cardinality(HeardIn(mailbox)) <= Cardinality(Told)

\* The terminal held, or being set up, is the last one started.
OrderInv ==
  /\ setup # 0 => pty = 0
  /\ \A t \in Terminals : t \in {pty, setup} =>
       /\ term[t] # "none"
       /\ \A u \in Terminals : t < u => term[u] = "none"
  /\ \A t, u \in Terminals : t < u /\ term[u] # "none" => term[t] # "none"

\* A terminal has the size it was spawned with until the cell sets another.
SpawnSized ==
  /\ \A t \in Terminals : sizedBy[t] = "spawn" => size[t] = DefaultSize
  /\ \A t \in Terminals : term[t] = "none" \/ t = setup => sizedBy[t] = "spawn"

\* The resizes on their way end in the size of the page; when none is left the
\* terminal held has it.
PageSized ==
  /\ LastResize(mailbox, pageSize)
  /\ NoResize(mailbox) /\ pty # 0 /\ sizedBy[pty] = "event" =>
       size[pty] = pageSize

-----------------------------------------------------------------------------
(* The mailbox.                                                            *)

LEMMA Entered ==
  ASSUME NEW q \in Seq(Messages), NEW m \in Messages, NEW tag
  PROVE  /\ Append(q, m) \in Seq(Messages)
         /\ Tagged(q, tag) \subseteq 1..Len(q)
         /\ tag # m.tag => Tagged(Append(q, m), tag) = Tagged(q, tag)
         /\ tag = m.tag => Tagged(Append(q, m), tag) = Tagged(q, tag) \cup {Len(q) + 1}
         /\ \A i \in Tagged(q, tag) : Append(q, m)[i] = q[i]
         /\ Append(q, m)[Len(q) + 1] = m
<1>1. /\ Append(q, m) \in Seq(Messages)
      /\ DOMAIN q = 1..Len(q) /\ Len(q) \in Nat
      /\ DOMAIN Append(q, m) = 1..(Len(q) + 1)
      /\ \A i \in 1..Len(q) : Append(q, m)[i] = q[i]
      /\ Append(q, m)[Len(q) + 1] = m
  OBVIOUS
<1>2. 1..(Len(q) + 1) = (1..Len(q)) \cup {Len(q) + 1}
  BY <1>1
<1>3. QED BY <1>1, <1>2, Zenon DEF Tagged

\* A message other than an exit notice, or than a resize, changes nothing
\* about those.
LEMMA OthersEnter ==
  ASSUME NEW q \in Seq(Messages), NEW m \in Messages
  PROVE  /\ m.tag # "exited" => /\ HeardIn(Append(q, m)) = HeardIn(q)
                                /\ Single(q) => Single(Append(q, m))
         /\ m.tag # "resize" => /\ NoResize(Append(q, m)) <=> NoResize(q)
                                /\ \A s : LastResize(q, s) => LastResize(Append(q, m), s)
<1>1. ASSUME m.tag # "exited"
      PROVE  /\ HeardIn(Append(q, m)) = HeardIn(q)
             /\ Single(q) => Single(Append(q, m))
  <2>1. /\ Tagged(Append(q, m), "exited") = Tagged(q, "exited")
        /\ \A i \in Tagged(q, "exited") : Append(q, m)[i] = q[i]
    BY <1>1, Entered
  <2>2. HeardIn(Append(q, m)) = HeardIn(q)
    BY <2>1 DEF HeardIn
  <2>3. Single(q) => Single(Append(q, m))
    BY <2>1 DEF Single
  <2>4. QED BY <2>2, <2>3
<1>2. ASSUME m.tag # "resize"
      PROVE  /\ NoResize(Append(q, m)) <=> NoResize(q)
             /\ \A s : LastResize(q, s) => LastResize(Append(q, m), s)
  <2>1. /\ Tagged(Append(q, m), "resize") = Tagged(q, "resize")
        /\ \A i \in Tagged(q, "resize") : Append(q, m)[i] = q[i]
    BY <1>2, Entered
  <2>2. QED BY <2>1, Zenon DEF NoResize, LastResize
<1>3. QED BY <1>1, <1>2

\* A notice of a terminal that has none there.
LEMMA NoticeEnters ==
  ASSUME NEW q \in Seq(Messages), NEW m \in Messages,
         m.tag = "exited", m.arg \notin HeardIn(q), Single(q)
  PROVE  /\ HeardIn(Append(q, m)) = HeardIn(q) \cup {m.arg}
         /\ Single(Append(q, m))
<1> DEFINE Q == Append(q, m)
           n == Len(q) + 1
<1>1. /\ Tagged(Q, "exited") = Tagged(q, "exited") \cup {n}
      /\ Q[n] = m
      /\ \A i \in Tagged(q, "exited") : Q[i] = q[i]
  BY Entered
<1> HIDE DEF Q, n
<1>2. HeardIn(Q) = HeardIn(q) \cup {m.arg}
  BY <1>1 DEF HeardIn
<1>3. \A i \in Tagged(q, "exited") : q[i].arg # m.arg
  BY DEF HeardIn
<1>4. Single(Q)
  BY <1>1, <1>3 DEF Single
<1>5. QED BY <1>2, <1>4 DEF Q

LEMMA ResizeEnters ==
  ASSUME NEW q \in Seq(Messages), NEW s \in Sizes
  PROVE  /\ LastResize(Append(q, Msg("resize", s)), s)
         /\ ~NoResize(Append(q, Msg("resize", s)))
<1> DEFINE m == Msg("resize", s)
           Q == Append(q, m)
           n == Len(q) + 1
<1>1. m \in Messages /\ m.tag = "resize" /\ m.arg = s
  BY DEF Msg, Messages
<1> HIDE DEF m
<1>2. /\ Tagged(Q, "resize") = Tagged(q, "resize") \cup {n}
      /\ Tagged(q, "resize") \subseteq 1..Len(q)
      /\ Q[n] = m
  BY <1>1, Entered
<1>3. n \in Nat /\ \A i \in 1..Len(q) : ~(n <= i)
  OBVIOUS
<1> HIDE DEF Q, n
<1>4. LastResize(Q, s) /\ ~NoResize(Q)
  BY <1>1, <1>2, <1>3 DEF NoResize, LastResize
<1>5. QED BY <1>4 DEF Q, m

\* T is q without its first message, for those of one tag.
Shifted(q, T, tag) ==
  LET A == Tagged(q, tag)
      B == Tagged(T, tag)
  IN  /\ A \subseteq Nat \ {0} /\ B \subseteq Nat \ {0}
      /\ \A i \in B : i + 1 \in A /\ T[i] = q[i + 1]
      /\ \A j \in A : j # 1 => \E i \in B : j = i + 1
      /\ Head(q) = q[1] /\ (1 \in A <=> Head(q).tag = tag)

LEMMA Left ==
  ASSUME NEW q \in Seq(Messages), q # <<>>, NEW tag
  PROVE  /\ Tail(q) \in Seq(Messages) /\ Head(q) \in Messages
         /\ Shifted(q, Tail(q), tag)
<1> DEFINE T == Tail(q)
<1>1. /\ T \in Seq(Messages) /\ Head(q) \in Messages /\ Head(q) = q[1]
      /\ Len(q) \in Nat \ {0}
      /\ DOMAIN q = 1..Len(q) /\ DOMAIN T = 1..(Len(q) - 1)
      /\ \A i \in 1..(Len(q) - 1) : T[i] = q[i + 1]
  OBVIOUS
<1>2. \A i \in Tagged(T, tag) : i \in Nat \ {0} /\ i + 1 \in Tagged(q, tag)
                                      /\ T[i] = q[i + 1]
  BY <1>1 DEF Tagged
<1>3. ASSUME NEW j \in Tagged(q, tag), j # 1
      PROVE  \E i \in Tagged(T, tag) : j = i + 1
  <2>1. j \in 1..Len(q) /\ q[j].tag = tag
    BY <1>1 DEF Tagged
  <2>2. j - 1 \in 1..(Len(q) - 1) /\ (j - 1) + 1 = j
    BY <1>1, <1>3, <2>1
  <2>3. T[j - 1] = q[j]
    BY <1>1, <2>2
  <2>4. j - 1 \in Tagged(T, tag)
    BY <1>1, <2>1, <2>2, <2>3 DEF Tagged
  <2>5. QED BY <2>2, <2>4
<1>4. 1 \in Tagged(q, tag) <=> Head(q).tag = tag
  BY <1>1 DEF Tagged
<1>5. Tagged(q, tag) \subseteq Nat \ {0}
  BY <1>1 DEF Tagged
<1>6. QED BY <1>1, <1>2, <1>3, <1>4, <1>5, Zenon DEF Shifted

LEMMA HeardLeave ==
  ASSUME NEW q, NEW T, Shifted(q, T, "exited"), Single(q)
  PROVE  /\ Head(q).tag # "exited" => HeardIn(T) = HeardIn(q)
         /\ Head(q).tag = "exited" =>
              /\ Head(q).arg \in HeardIn(q)
              /\ HeardIn(T) = HeardIn(q) \ {Head(q).arg}
         /\ Single(T)
<1> DEFINE A == Tagged(q, "exited")
           B == Tagged(T, "exited")
<1>1. \A i \in B : i \in Nat \ {0} /\ i + 1 \in A /\ i + 1 # 1 /\ T[i] = q[i + 1]
  <2>1. \A i \in B : i \in Nat \ {0} /\ i + 1 \in A /\ T[i] = q[i + 1]
    BY DEF Shifted
  <2>2. \A i \in Nat \ {0} : i + 1 # 1
    OBVIOUS
  <2>3. QED BY <2>1, <2>2
<1>2. \A j \in A : j # 1 => \E i \in B : j = i + 1
  BY DEF Shifted
<1>3. Head(q) = q[1] /\ (1 \in A <=> Head(q).tag = "exited")
  BY DEF Shifted
<1>4. \A j, k \in A : q[j].arg = q[k].arg => j = k
  BY DEF Single
<1>5. HeardIn(q) = {q[j].arg : j \in A} /\ HeardIn(T) = {T[i].arg : i \in B}
  BY DEF HeardIn
<1> HIDE DEF A, B
<1>6. \A x \in HeardIn(T) : \E j \in A : j # 1 /\ x = q[j].arg
  BY <1>1, <1>5
<1>7. \A j \in A : j # 1 => q[j].arg \in HeardIn(T)
  <2>1. SUFFICES ASSUME NEW j \in A, j # 1
                 PROVE  q[j].arg \in HeardIn(T)
    OBVIOUS
  <2>2. PICK i \in B : j = i + 1
    BY <1>2, <2>1
  <2>3. q[j].arg = T[i].arg
    BY <1>1, <2>2
  <2>4. QED BY <1>5, <2>3
<1>8. Head(q).tag # "exited" => HeardIn(T) = HeardIn(q)
  <2>1. HAVE Head(q).tag # "exited"
  <2>2. \A j \in A : j # 1
    BY <1>3, <2>1
  <2>3. QED BY <1>5, <1>6, <1>7, <2>2
<1>9. ASSUME Head(q).tag = "exited"
      PROVE  /\ Head(q).arg \in HeardIn(q)
             /\ HeardIn(T) = HeardIn(q) \ {Head(q).arg}
  <2>1. 1 \in A /\ Head(q).arg = q[1].arg
    BY <1>3, <1>9
  <2>2. \A j \in A : j # 1 => q[j].arg # q[1].arg
    BY <1>4, <2>1
  <2>3. Head(q).arg \in HeardIn(q)
    BY <1>5, <2>1
  <2>4. \A x \in HeardIn(T) : x \in HeardIn(q) /\ x # q[1].arg
    BY <1>5, <1>6, <2>2
  <2>5. \A x \in HeardIn(q) : x # q[1].arg => x \in HeardIn(T)
    BY <1>5, <1>7
  <2>6. HeardIn(T) = HeardIn(q) \ {q[1].arg}
    BY <2>4, <2>5
  <2>7. QED BY <2>1, <2>3, <2>6
<1>10. Single(T)
  <2>1. SUFFICES ASSUME NEW i \in B, NEW j \in B, T[i].arg = T[j].arg
                 PROVE  i = j
    BY DEF Single, B
  <2>2. i + 1 \in A /\ j + 1 \in A /\ q[i + 1].arg = q[j + 1].arg
    BY <1>1, <2>1
  <2>3. i + 1 = j + 1
    BY <1>4, <2>2
  <2>4. QED BY <1>1, <2>3
<1>11. QED BY <1>8, <1>9, <1>10

\* A resize that leaves no other behind has the size the resizes end in.
LEMMA ResizesLeave ==
  ASSUME NEW q, NEW T, Shifted(q, T, "resize"), NEW s, LastResize(q, s)
  PROVE  /\ LastResize(T, s)
         /\ Head(q).tag # "resize" => (NoResize(T) <=> NoResize(q))
         /\ Head(q).tag = "resize" /\ NoResize(T) => Head(q).arg = s
<1> DEFINE A == Tagged(q, "resize")
           B == Tagged(T, "resize")
<1>1. \A i \in B : i \in Nat \ {0} /\ i + 1 \in A /\ T[i] = q[i + 1]
  BY DEF Shifted
<1>2. \A j \in A : j \in Nat \ {0} /\ (j # 1 => \E i \in B : j = i + 1)
  BY DEF Shifted
<1>3. Head(q) = q[1] /\ (1 \in A <=> Head(q).tag = "resize")
  BY DEF Shifted
<1>4. \A i \in A : (\A j \in A : j <= i) => q[i].arg = s
  BY DEF LastResize
<1>5. (NoResize(q) <=> A = {}) /\ (NoResize(T) <=> B = {})
  BY DEF NoResize
<1> HIDE DEF A, B
<1>6. LastResize(T, s)
  <2>1. SUFFICES ASSUME NEW i \in B, \A j \in B : j <= i
                 PROVE  T[i].arg = s
    BY DEF LastResize, B
  <2>2. ASSUME NEW j \in A
        PROVE  j <= i + 1
    <3>1. CASE j = 1
      BY <1>1, <3>1
    <3>2. CASE j # 1
      <4>1. PICK k \in B : j = k + 1
        BY <1>2, <3>2
      <4>2. QED BY <1>1, <2>1, <4>1
    <3>3. QED BY <3>1, <3>2
  <2>3. QED BY <1>1, <1>4, <2>2
<1>7. Head(q).tag # "resize" => (NoResize(T) <=> NoResize(q))
  BY <1>1, <1>2, <1>3, <1>5
<1>8. ASSUME Head(q).tag = "resize", B = {}
      PROVE  Head(q).arg = s
  <2>1. 1 \in A /\ \A j \in A : j = 1
    BY <1>2, <1>3, <1>8
  <2>2. QED BY <1>3, <1>4, <2>1
<1>9. QED BY <1>5, <1>6, <1>7, <1>8

-----------------------------------------------------------------------------
(* Types.                                                                  *)

LEMMA MessageTypes ==
  /\ \A tag \in {"start", "stop", "key"} : Msg(tag, 0) \in Messages
  /\ \A t \in Terminals : Msg("exited", t) \in Messages
  /\ \A s \in Sizes : Msg("resize", s) \in Messages /\ Msg("delayed", s) \in Messages
  /\ \A m \in Messages : /\ m.tag = "exited" => m.arg \in Terminals
                         /\ m.tag \in {"resize", "delayed"} => m.arg \in Sizes
BY DEF Messages, Msg

\* A start is one message, or two.
LEMMA StartSent ==
  ASSUME NEW q \in Seq(Messages), NEW s \in Sizes
  PROVE  /\ q \o <<Msg("start", 0)>> \o <<>> = Append(q, Msg("start", 0))
         /\ q \o <<Msg("start", 0)>> \o <<Msg("resize", s)>> =
              Append(Append(q, Msg("start", 0)), Msg("resize", s))
<1>1. Msg("start", 0) \in Messages /\ Msg("resize", s) \in Messages
  BY MessageTypes
<1>2. QED BY <1>1

LEMMA TypeStarts == Init => TypeOK
<1> HAVE Init
<1>1. mailbox \in Seq(Messages) /\ timers \in Seq(Sizes)
  BY DEF Init
<1>2. {observing, leftOver, started} \subseteq BOOLEAN /\ (started <=> pty # 0)
  BY DEF Init
<1>3. /\ toPage \in 0..MaxTerminals /\ setup \in 0..MaxTerminals
      /\ pty \in 0..MaxTerminals /\ events \in 0..MaxEvents
  BY CellAssumption DEF Init
<1>4. /\ onExit \in [Terminals -> BOOLEAN]
      /\ term \in [Terminals -> {"none", "running", "dead", "told", "unheard"}]
      /\ size \in [Terminals -> Sizes]
      /\ sizedBy \in [Terminals -> {"spawn", "event", "timer"}]
  BY CellAssumption DEF Init
<1>5. pageSize \in Sizes /\ button \in {"play", "stop"} /\ cell \in {"up", "down"}
  BY CellAssumption DEF Init
<1>6. QED BY <1>1, <1>2, <1>3, <1>4, <1>5 DEF TypeOK

\* The sizes of the sets of terminals with a notice.
LEMMA NoticesFinite ==
  ASSUME TypeOK, NoticeInv
  PROVE  /\ IsFiniteSet(Told) /\ Cardinality(Told) \in 0..MaxTerminals
         /\ IsFiniteSet(HeardIn(mailbox)) /\ Cardinality(HeardIn(mailbox)) \in Nat
<1>1. Told \subseteq 1..MaxTerminals
  BY DEF Told, Terminals
<1>2. IsFiniteSet(1..MaxTerminals) /\ Cardinality(1..MaxTerminals) = MaxTerminals
  BY FS_Interval, CellAssumption
<1>3. IsFiniteSet(Told) /\ Cardinality(Told) <= MaxTerminals
  BY <1>1, <1>2, FS_Subset
<1>4. IsFiniteSet(HeardIn(mailbox))
  BY <1>3, FS_Subset DEF NoticeInv
<1>5. QED BY <1>3, <1>4, FS_CardinalityType, CellAssumption

\* The page has room for the notice the cell takes.
LEMMA NoticeFits ==
  ASSUME TypeOK, NoticeInv, Message("exited")
  PROVE  toPage + 1 \in 0..MaxTerminals /\ Argument \in HeardIn(mailbox)
<1>1. mailbox \in Seq(Messages) /\ mailbox # <<>> /\ Head(mailbox).tag = "exited"
  BY DEF TypeOK, Message
<1>2. Shifted(mailbox, Tail(mailbox), "exited")
  BY <1>1, Left
<1>3. Argument \in HeardIn(mailbox)
  BY <1>1, <1>2, HeardLeave DEF NoticeInv, Argument
<1>4. Cardinality(HeardIn(mailbox)) # 0
  BY <1>3, NoticesFinite, FS_EmptySet
<1>5. toPage + Cardinality(HeardIn(mailbox)) <= Cardinality(Told) /\ toPage \in Nat
  BY DEF NoticeInv, TypeOK
<1>6. toPage + 1 <= MaxTerminals
  <2> DEFINE h == Cardinality(HeardIn(mailbox))
             k == Cardinality(Told)
  <2>1. h \in Nat /\ h # 0 /\ k \in 0..MaxTerminals
    BY <1>4, NoticesFinite
  <2>2. toPage + h <= k /\ toPage \in Nat
    BY <1>5
  <2> HIDE DEF h, k
  <2>3. QED BY <2>1, <2>2, CellAssumption
<1>7. QED BY <1>3, <1>5, <1>6, CellAssumption

\* Signal 9 to the terminal held.
LEMMA StoppedTypes ==
  ASSUME TypeOK
  PROVE  /\ Stopped \in [Terminals -> {"none", "running", "dead", "told", "unheard"}]
         /\ \A t \in Terminals : /\ Stopped[t] = "none" <=> term[t] = "none"
                                 /\ Stopped[t] = "told" <=> term[t] = "told"
BY DEF Stopped, TypeOK

\* The first message of the cell is one it understands.
LEMMA MessageTaken ==
  ASSUME TypeOK, NEW tag, Message(tag)
  PROVE  /\ mailbox # <<>> /\ mailbox \in Seq(Messages)
         /\ Head(mailbox) \in Messages /\ Head(mailbox).tag = tag
         /\ mailbox' = Tail(mailbox) /\ mailbox' \in Seq(Messages)
         /\ cell = "up" /\ setup = 0
BY DEF TypeOK, Message

LEMMA TypeStep == TypeOK /\ NoticeInv /\ [Next]_vars => TypeOK'
<1> SUFFICES ASSUME TypeOK, NoticeInv, [Next]_vars PROVE TypeOK'
  OBVIOUS
<1> USE CellAssumption
<1>1. CASE PressStop
  <2>1. mailbox' \in Seq(Messages)
    BY <1>1, MessageTypes DEF PressStop, TypeOK
  <2>2. {observing', leftOver', started'} \subseteq BOOLEAN
    BY <1>1 DEF PressStop, TypeOK
  <2>3. QED
    BY <1>1, <2>1, <2>2 DEF PressStop, UserActs, TypeOK, termVars
<1>2. CASE PressKey
  <2>1. mailbox' \in Seq(Messages)
    BY <1>2, MessageTypes DEF PressKey, TypeOK
  <2>2. QED
    BY <1>2, <2>1 DEF PressKey, UserActs, TypeOK, termVars, pageVars
<1>3. ASSUME NEW s \in Sizes, PressStart(s)
      PROVE  TypeOK'
  <2>1. mailbox' \in Seq(Messages)
    BY <1>3, MessageTypes DEF PressStart, TypeOK
  <2>2. {observing', leftOver', started'} \subseteq BOOLEAN
    BY <1>3 DEF PressStart, TypeOK
  <2>3. QED
    BY <1>3, <2>1, <2>2 DEF PressStart, UserActs, TypeOK, termVars
<1>4. ASSUME NEW s \in Sizes, ResizePage(s)
      PROVE  TypeOK'
  <2>1. mailbox' \in Seq(Messages)
    BY <1>4, MessageTypes DEF ResizePage, TypeOK
  <2>2. QED
    BY <1>4, <2>1 DEF ResizePage, UserActs, TypeOK, termVars
<1>5. CASE ExitShown
  BY <1>5 DEF ExitShown, TypeOK, cellVars, termVars
<1>6. CASE HandleStart
  <2>1. mailbox' \in Seq(Messages)
    BY <1>6, MessageTaken DEF HandleStart
  <2>2. /\ setup' \in 0..MaxTerminals /\ cell' \in {"up", "down"}
        /\ term' \in [Terminals -> {"none", "running", "dead", "told", "unheard"}]
    BY <1>6 DEF HandleStart, TypeOK, Unborn, Terminals
  <2>3. QED
    BY <1>6, <2>1, <2>2 DEF HandleStart, TypeOK, pageVars
<1>7. CASE FinishStart
  <2>1. {observing', leftOver', started'} \subseteq BOOLEAN /\ (started' <=> pty' # 0)
    BY <1>7 DEF FinishStart, TypeOK, pageVars
  <2>2. onExit' \in [Terminals -> BOOLEAN]
    BY <1>7 DEF FinishStart, TypeOK
  <2>3. QED
    BY <1>7, <2>1, <2>2 DEF FinishStart, TypeOK, pageVars
<1>8. CASE HandleStop
  <2>1. mailbox' \in Seq(Messages)
    BY <1>8, MessageTaken DEF HandleStop
  <2>2. {observing', leftOver', started'} \subseteq BOOLEAN /\ (started' <=> pty' # 0)
    BY <1>8 DEF HandleStop, TypeOK, pageVars
  <2>3. QED
    BY <1>8, <2>1, <2>2, StoppedTypes DEF HandleStop, TypeOK, pageVars
<1>9. CASE HandleKey
  <2>1. mailbox' \in Seq(Messages)
    BY <1>9, MessageTaken DEF HandleKey
  <2>2. /\ cell' \in {"up", "down"}
        /\ term' \in [Terminals -> {"none", "running", "dead", "told", "unheard"}]
    BY <1>9, StoppedTypes DEF HandleKey, TypeOK
  <2>3. QED
    BY <1>9, <2>1, <2>2 DEF HandleKey, TypeOK, pageVars
<1>10. CASE HandleResize
  <2>1. mailbox' \in Seq(Messages) /\ Argument \in Sizes
    BY <1>10, MessageTaken, MessageTypes DEF HandleResize, Argument
  <2>2. timers' \in Seq(Sizes)
    <3>1. timers \in Seq(Sizes) /\ timers' \in {timers, Append(timers, Argument)}
      BY <1>10 DEF HandleResize, TypeOK
    <3>2. QED BY <2>1, <3>1
  <2>3. /\ size' \in [Terminals -> Sizes]
        /\ sizedBy' \in [Terminals -> {"spawn", "event", "timer"}]
    BY <1>10, <2>1 DEF HandleResize, Resized, TypeOK
  <2>4. QED
    BY <1>10, <2>1, <2>2, <2>3 DEF HandleResize, TypeOK, pageVars
<1>11. CASE HandleDelayed
  <2>1. mailbox' \in Seq(Messages) /\ Argument \in Sizes
    BY <1>11, MessageTaken, MessageTypes DEF HandleDelayed, Argument
  <2>2. /\ size' \in [Terminals -> Sizes]
        /\ sizedBy' \in [Terminals -> {"spawn", "event", "timer"}]
    BY <1>11, <2>1 DEF HandleDelayed, Resized, TypeOK
  <2>3. QED
    BY <1>11, <2>1, <2>2 DEF HandleDelayed, TypeOK, pageVars
<1>12. CASE HandleExited
  <2>1. mailbox' \in Seq(Messages) /\ toPage' \in 0..MaxTerminals
    BY <1>12, MessageTaken, NoticeFits DEF HandleExited
  <2>2. {observing', leftOver', started'} \subseteq BOOLEAN /\ (started' <=> pty' # 0)
    BY <1>12 DEF HandleExited, StartedAfterExit, TypeOK
  <2>3. QED
    BY <1>12, <2>1, <2>2 DEF HandleExited, TypeOK, termVars
<1>13. CASE TimerFires
  <2>1. timers' \in Seq(Sizes) /\ \E s \in Sizes : s = Head(timers)
    BY <1>13 DEF TimerFires, TypeOK
  <2>2. mailbox' \in Seq(Messages)
    <3>1. PICK s \in Sizes : s = Head(timers)
      BY <2>1
    <3>2. Msg("delayed", s) \in Messages /\ mailbox' = Append(mailbox, Msg("delayed", s))
      BY <1>13, <3>1, MessageTypes DEF TimerFires
    <3>3. mailbox \in Seq(Messages)
      BY DEF TypeOK
    <3>4. QED BY <3>2, <3>3
  <2>3. QED
    BY <1>13, <2>1, <2>2 DEF TimerFires, TypeOK, pageVars, termVars
<1>14. CASE Terminate
  BY <1>14, StoppedTypes DEF Terminate, TypeOK, pageVars
<1>15. ASSUME NEW t \in Terminals, ProgramEnds(t)
       PROVE  TypeOK'
  BY <1>15 DEF ProgramEnds, TypeOK, pageVars, cellVars
<1>16. ASSUME NEW t \in Terminals, TellExit(t)
       PROVE  TypeOK'
  <2>1. mailbox' \in Seq(Messages)
    <3>1. Msg("exited", t) \in Messages /\ mailbox \in Seq(Messages)
      BY MessageTypes DEF TypeOK
    <3>2. mailbox' \in {mailbox, Append(mailbox, Msg("exited", t))}
      BY <1>16 DEF TellExit, Notified
    <3>3. QED BY <3>1, <3>2
  <2>2. term' \in [Terminals -> {"none", "running", "dead", "told", "unheard"}]
    BY <1>16 DEF TellExit, TypeOK
  <2>3. QED
    BY <1>16, <2>1, <2>2 DEF TellExit, TypeOK, pageVars
<1>17. CASE UNCHANGED vars
  BY <1>17 DEF vars, pageVars, cellVars, termVars, TypeOK
<1>18. QED
  BY <1>1, <1>2, <1>3, <1>4, <1>5, <1>6, <1>7, <1>8, <1>9, <1>10, <1>11, <1>12,
     <1>13, <1>14, <1>15, <1>16, <1>17 DEF Next, CellStep

-----------------------------------------------------------------------------
(* The notices of exits.                                                   *)

LEMMA NoticeStarts == Init => NoticeInv
<1> HAVE Init
<1>1. HeardIn(mailbox) = {} /\ Single(mailbox)
  BY DEF Init, HeardIn, Single, Tagged
<1>2. Told = {}
  BY DEF Init, Told
<1>3. QED BY <1>1, <1>2, FS_EmptySet DEF Init, NoticeInv

\* What the sizes depend on.
LEMMA NoticesKept ==
  ASSUME NoticeInv, Told' = Told, Single(mailbox)', HeardIn(mailbox)' = HeardIn(mailbox),
         toPage' = toPage
  PROVE  NoticeInv'
BY DEF NoticeInv

LEMMA NoticeStep == TypeOK /\ NoticeInv /\ [Next]_vars => NoticeInv'
<1> SUFFICES ASSUME TypeOK, NoticeInv, [Next]_vars PROVE NoticeInv'
  OBVIOUS
<1>t. mailbox \in Seq(Messages)
  BY DEF TypeOK
\* The user, the timers: another message comes in.
<1>1. ASSUME NEW m \in Messages, m.tag # "exited", mailbox' = Append(mailbox, m),
             UNCHANGED <<term, toPage>>
      PROVE  NoticeInv'
  <2>1. HeardIn(mailbox)' = HeardIn(mailbox) /\ Single(mailbox)'
    BY <1>t, <1>1, OthersEnter DEF NoticeInv
  <2>2. QED BY <1>1, <2>1, NoticesKept DEF Told
<1>2. CASE PressStop \/ PressKey
  <2>1. Msg("stop", 0) \in Messages /\ Msg("stop", 0).tag # "exited"
        /\ Msg("key", 0) \in Messages /\ Msg("key", 0).tag # "exited"
    BY DEF Msg, Messages
  <2>2. QED BY <1>1, <1>2, <2>1 DEF PressStop, PressKey, pageVars, termVars
<1>3. ASSUME NEW s \in Sizes, PressStart(s)
      PROVE  NoticeInv'
  <2> DEFINE a == Msg("start", 0)
             b == Msg("resize", s)
  <2>1. a \in Messages /\ a.tag # "exited" /\ b \in Messages /\ b.tag # "exited"
    BY DEF Msg, Messages
  <2>2. /\ Append(mailbox, a) \in Seq(Messages)
        /\ mailbox' \in {Append(mailbox, a), Append(Append(mailbox, a), b)}
    BY <1>t, <1>3, <2>1, StartSent DEF PressStart
  <2>3. UNCHANGED <<term, toPage>>
    BY <1>3 DEF PressStart, termVars
  <2> HIDE DEF a, b
  <2>4. HeardIn(mailbox)' = HeardIn(mailbox) /\ Single(mailbox)'
    BY <1>t, <2>1, <2>2, OthersEnter DEF NoticeInv
  <2>5. QED BY <2>3, <2>4, NoticesKept DEF Told
<1>4. ASSUME NEW s \in Sizes, ResizePage(s)
      PROVE  NoticeInv'
  <2>1. Msg("resize", s) \in Messages /\ Msg("resize", s).tag # "exited"
    BY DEF Msg, Messages
  <2>2. QED BY <1>1, <1>4, <2>1 DEF ResizePage, termVars
<1>5. CASE TimerFires
  <2>1. PICK s \in Sizes : s = Head(timers)
    BY <1>5 DEF TimerFires, TypeOK
  <2>2. Msg("delayed", s) \in Messages /\ Msg("delayed", s).tag # "exited"
    BY DEF Msg, Messages
  <2>3. QED BY <1>1, <1>5, <2>1, <2>2 DEF TimerFires, pageVars, termVars
\* The cell takes a message of another kind.
<1>6. ASSUME NEW tag, tag # "exited", Message(tag), Told' = Told, toPage' = toPage
      PROVE  NoticeInv'
  <2>1. mailbox # <<>> /\ Head(mailbox).tag # "exited" /\ mailbox' = Tail(mailbox)
    BY <1>6 DEF Message
  <2>2. Shifted(mailbox, mailbox', "exited")
    BY <1>t, <2>1, Left
  <2>3. HeardIn(mailbox)' = HeardIn(mailbox) /\ Single(mailbox)'
    BY <2>1, <2>2, HeardLeave DEF NoticeInv
  <2>4. QED BY <1>6, <2>3, NoticesKept
<1>7. CASE HandleStart
  <2>1. Told' = Told
    BY <1>7 DEF HandleStart, Told, Unborn, TypeOK
  <2>2. QED BY <1>6, <1>7, <2>1 DEF HandleStart, pageVars
<1>8. CASE HandleStop \/ HandleKey \/ HandleResize \/ HandleDelayed
  <2>1. term' \in {term, Stopped} /\ toPage' = toPage
    BY <1>8 DEF HandleStop, HandleKey, HandleResize, HandleDelayed, pageVars
  <2>2. Told' = Told
    BY <2>1, StoppedTypes DEF Told
  <2>3. QED
    BY <1>6, <1>8, <2>1, <2>2 DEF HandleStop, HandleKey, HandleResize, HandleDelayed
<1>9. CASE HandleExited
  <2>1. mailbox # <<>> /\ Head(mailbox).tag = "exited" /\ mailbox' = Tail(mailbox)
    BY <1>9 DEF HandleExited, Message
  <2>2. Shifted(mailbox, mailbox', "exited")
    BY <1>t, <2>1, Left
  <2>3. /\ Head(mailbox).arg \in HeardIn(mailbox)
        /\ HeardIn(mailbox)' = HeardIn(mailbox) \ {Head(mailbox).arg}
        /\ Single(mailbox)'
    BY <2>1, <2>2, HeardLeave DEF NoticeInv
  <2>4. Told' = Told /\ toPage' = toPage + 1
    BY <1>9 DEF HandleExited, termVars, Told
  <2>5. /\ Cardinality(HeardIn(mailbox)') = Cardinality(HeardIn(mailbox)) - 1
        /\ Cardinality(HeardIn(mailbox)) \in Nat
    BY <2>3, NoticesFinite, FS_RemoveElement
  <2>6. toPage' + Cardinality(HeardIn(mailbox)') <= Cardinality(Told')
    <3> DEFINE h == Cardinality(HeardIn(mailbox))
               i == Cardinality(HeardIn(mailbox)')
               k == Cardinality(Told)
    <3>1. h \in Nat /\ i = h - 1 /\ toPage + h <= k /\ Cardinality(Told') = k /\ k \in Nat
      BY <2>4, <2>5, NoticesFinite DEF NoticeInv
    <3>2. toPage \in Nat /\ toPage' = toPage + 1
      BY <2>4 DEF TypeOK
    <3> HIDE DEF h, i, k
    <3>3. toPage' + i <= k
      BY <3>1, <3>2
    <3>4. QED BY <3>1, <3>3 DEF i
  <2>7. HeardIn(mailbox)' \subseteq Told'
    BY <2>3, <2>4 DEF NoticeInv
  <2>8. QED BY <2>3, <2>6, <2>7 DEF NoticeInv
\* Nothing comes in or goes out.
<1>10. ASSUME UNCHANGED mailbox, Told' = Told, toPage' <= toPage, toPage' \in Nat
       PROVE  NoticeInv'
  <2>1. Cardinality(HeardIn(mailbox)) \in Nat /\ Cardinality(Told) \in Nat
        /\ toPage \in Nat
    BY NoticesFinite DEF TypeOK
  <2>2. HeardIn(mailbox)' = HeardIn(mailbox) /\ (Single(mailbox)' <=> Single(mailbox))
    BY <1>10 DEF HeardIn, Single, Tagged
  <2>3. toPage' + Cardinality(HeardIn(mailbox)) <= Cardinality(Told)
    <3> DEFINE h == Cardinality(HeardIn(mailbox))
               k == Cardinality(Told)
    <3>1. h \in Nat /\ k \in Nat /\ toPage + h <= k
      BY <2>1 DEF NoticeInv
    <3> HIDE DEF h, k
    <3>2. \A p, q \in Nat : p <= q /\ q + h <= k => p + h <= k
      BY <3>1
    <3>3. toPage' + h <= k
      BY <1>10, <2>1, <3>1, <3>2
    <3>4. QED BY <3>3 DEF h, k
  <2>4. QED BY <1>10, <2>2, <2>3 DEF NoticeInv
<1>11. CASE ExitShown \/ FinishStart \/ UNCHANGED vars
  <2>1. Told' = Told /\ UNCHANGED mailbox
    BY <1>11 DEF ExitShown, FinishStart, vars, cellVars, termVars, Told
  <2>2. toPage' <= toPage /\ toPage' \in Nat
    BY <1>11 DEF ExitShown, FinishStart, vars, pageVars, TypeOK
  <2>3. QED BY <1>10, <2>1, <2>2
<1>12. CASE Terminate
  <2>1. Told' = Told
    BY <1>12, StoppedTypes DEF Terminate, Told
  <2>2. QED BY <1>10, <1>12, <2>1 DEF Terminate, pageVars, TypeOK
<1>13. ASSUME NEW t \in Terminals, ProgramEnds(t)
       PROVE  NoticeInv'
  <2>1. Told' = Told
    BY <1>13 DEF ProgramEnds, Told, TypeOK
  <2>2. QED BY <1>10, <1>13, <2>1 DEF ProgramEnds, pageVars, cellVars, TypeOK
<1>14. ASSUME NEW t \in Terminals, TellExit(t)
       PROVE  NoticeInv'
  <2>1. CASE ~onExit[t]
    <3>1. Told' = Told
      BY <1>14, <2>1 DEF TellExit, Told, TypeOK
    <3>2. QED BY <1>10, <1>14, <2>1, <3>1 DEF TellExit, pageVars, TypeOK
  <2>2. CASE onExit[t]
    <3> DEFINE m == Msg("exited", t)
    <3>1. m \in Messages /\ m.tag = "exited" /\ m.arg = t
      BY DEF Msg, Messages
    <3>2. mailbox' = Append(mailbox, m) /\ toPage' = toPage
      BY <1>14, <2>2 DEF TellExit, Notified, pageVars
    <3>3. Told' = Told \cup {t} /\ t \notin Told
      BY <1>14, <2>2 DEF TellExit, Told, TypeOK
    <3>4. t \notin HeardIn(mailbox) /\ Single(mailbox)
      BY <3>3 DEF NoticeInv
    <3> HIDE DEF m
    <3>5. HeardIn(mailbox)' = HeardIn(mailbox) \cup {t} /\ Single(mailbox)'
      BY <1>t, <3>1, <3>2, <3>4, NoticeEnters
    <3>6. /\ Cardinality(Told') = Cardinality(Told) + 1
          /\ Cardinality(HeardIn(mailbox)') = Cardinality(HeardIn(mailbox)) + 1
      BY <3>3, <3>4, <3>5, NoticesFinite, FS_AddElement
    <3>7. toPage' + Cardinality(HeardIn(mailbox)') <= Cardinality(Told')
      <4> DEFINE h == Cardinality(HeardIn(mailbox))
                 k == Cardinality(Told)
                 i == Cardinality(HeardIn(mailbox)')
                 l == Cardinality(Told')
      <4>1. /\ h \in Nat /\ k \in Nat /\ toPage + h <= k /\ i = h + 1 /\ l = k + 1
            /\ toPage \in Nat
        BY <3>6, NoticesFinite DEF NoticeInv, TypeOK
      <4> HIDE DEF h, k, i, l
      <4>2. toPage + i <= l
        BY <4>1
      <4>3. QED BY <3>2, <4>2 DEF i, l
    <3>8. HeardIn(mailbox)' \subseteq Told'
      BY <3>3, <3>5 DEF NoticeInv
    <3>9. QED BY <3>5, <3>7, <3>8 DEF NoticeInv
  <2>3. QED BY <2>1, <2>2
<1>15. QED
  BY <1>2, <1>3, <1>4, <1>5, <1>7, <1>8, <1>9, <1>11, <1>12, <1>13, <1>14
     DEF Next, CellStep

-----------------------------------------------------------------------------
(* Which terminal is held.                                                 *)

LEMMA OrderStarts == Init => OrderInv
BY DEF Init, OrderInv, Terminals

\* Terminals that live on keep their order.
LEMMA OrderKept ==
  ASSUME OrderInv, \A t \in Terminals : term'[t] = "none" <=> term[t] = "none",
         setup' = setup, pty' \in {pty, 0}
  PROVE  OrderInv'
<1>1. setup' # 0 => pty' = 0
  BY DEF OrderInv
<1>2. ASSUME NEW t \in Terminals, t \in {pty', setup'}
      PROVE  term'[t] # "none" /\ \A u \in Terminals : t < u => term'[u] = "none"
  <2>1. t # 0
    BY CellAssumption DEF Terminals
  <2>2. t \in {pty, setup}
    BY <1>2, <2>1
  <2>3. QED BY <2>2 DEF OrderInv
<1>3. QED BY <1>1, <1>2 DEF OrderInv

LEMMA OrderStep == TypeOK /\ OrderInv /\ [Next]_vars => OrderInv'
<1> SUFFICES ASSUME TypeOK, OrderInv, [Next]_vars PROVE OrderInv'
  OBVIOUS
<1>1. CASE UNCHANGED <<term, setup, pty>>
  BY <1>1, OrderKept
<1>2. ASSUME UNCHANGED <<setup, pty>>, term' \in {term, Stopped}
      PROVE  OrderInv'
  BY <1>2, OrderKept, StoppedTypes
<1>3. CASE HandleStart
  <2>1. setup = 0
    BY <1>3 DEF HandleStart, Message
  <2>2. CASE UNCHANGED <<setup, term>>
    BY <1>1, <1>3, <2>2 DEF HandleStart
  <2>3. ASSUME NEW t \in Unborn, ~started, \A u \in Unborn : t <= u,
               term' = [term EXCEPT ![t] = "running"], setup' = t
        PROVE  OrderInv'
    <3>1. t \in Terminals /\ term[t] = "none" /\ pty' = 0 /\ t \in Nat /\ t # 0
      BY <1>3, <2>3 DEF HandleStart, TypeOK, Unborn, Terminals
    <3>2. \A u \in Terminals : /\ u = t => term'[u] = "running"
                               /\ u # t => term'[u] = term[u]
      BY <2>3, <3>1 DEF TypeOK
    <3>3. \A u \in Terminals : u < t => term[u] # "none"
      BY <2>3, <3>1 DEF Unborn, Terminals
    <3>4. \A u \in Terminals : t < u => term[u] = "none"
      BY <3>1 DEF OrderInv
    <3>5. \A u \in Terminals : t < u => term'[u] = "none"
      BY <3>1, <3>2, <3>4 DEF Terminals
    <3>6. \A u, v \in Terminals : u < v /\ term'[v] # "none" => term'[u] # "none"
      <4>1. TAKE u, v \in Terminals
      <4>2. HAVE u < v /\ term'[v] # "none"
      <4>3. u \in Nat /\ v \in Nat
        BY DEF Terminals
      <4>4. ~(t < v)
        BY <3>5, <4>2
      <4>5. v <= t /\ u < t
        BY <3>1, <4>2, <4>3, <4>4
      <4>6. term[u] # "none" /\ u # t
        BY <3>1, <3>3, <4>3, <4>5
      <4>7. QED BY <3>2, <4>6
    <3>7. \A u \in Terminals : u \in {pty', setup'} => u = t
      BY <2>3, <3>1, CellAssumption DEF Terminals
    <3>8. QED BY <2>3, <3>1, <3>2, <3>5, <3>6, <3>7 DEF OrderInv
  <2>4. QED BY <1>3, <2>2, <2>3 DEF HandleStart
<1>4. CASE FinishStart
  BY <1>4 DEF FinishStart, OrderInv, Terminals, termVars
<1>5. CASE HandleStop
  BY <1>5, OrderKept, StoppedTypes DEF HandleStop
<1>6. CASE HandleExited
  BY <1>6, OrderKept DEF HandleExited, termVars
<1>7. CASE HandleKey \/ Terminate
  BY <1>2, <1>7 DEF HandleKey, Terminate
<1>8. ASSUME NEW t \in Terminals, ProgramEnds(t) \/ TellExit(t)
      PROVE  OrderInv'
  <2>1. /\ term[t] # "none"
        /\ \E x \in {"dead", "told", "unheard"} : term' = [term EXCEPT ![t] = x]
    BY <1>8 DEF ProgramEnds, TellExit
  <2>2. \A u \in Terminals : term'[u] = "none" <=> term[u] = "none"
    BY <2>1 DEF TypeOK
  <2>3. QED BY <1>8, <2>2, OrderKept DEF ProgramEnds, TellExit, cellVars
<1>9. CASE \/ PressStop \/ PressKey \/ ExitShown \/ TimerFires
           \/ HandleResize \/ HandleDelayed \/ UNCHANGED vars
           \/ \E s \in Sizes : PressStart(s) \/ ResizePage(s)
  BY <1>1, <1>9
     DEF PressStop, PressKey, PressStart, ResizePage, ExitShown, TimerFires,
         HandleResize, HandleDelayed, vars, cellVars, termVars
<1>10. QED
  BY <1>3, <1>4, <1>5, <1>6, <1>7, <1>8, <1>9 DEF Next, CellStep

-----------------------------------------------------------------------------
(* The size of the program's terminal.                                     *)

LEMMA SizeStarts == Init => SpawnSized /\ PageSized
<1> HAVE Init
<1>1. Tagged(mailbox, "resize") = {}
  BY DEF Init, Tagged
<1>2. LastResize(mailbox, pageSize)
  BY <1>1 DEF LastResize
<1>3. QED BY <1>2 DEF Init, SpawnSized, PageSized

LEMMA SpawnSizedStep == TypeOK /\ OrderInv /\ SpawnSized /\ [Next]_vars => SpawnSized'
<1> SUFFICES ASSUME TypeOK, OrderInv, SpawnSized, [Next]_vars PROVE SpawnSized'
  OBVIOUS
<1>1. ASSUME UNCHANGED <<size, sizedBy>>, setup' \in {setup, 0},
             \A t \in Terminals : term'[t] = "none" => term[t] = "none"
      PROVE  SpawnSized'
  <2>1. \A t \in Terminals : t # 0
    BY CellAssumption DEF Terminals
  <2>2. QED BY <1>1, <2>1 DEF SpawnSized
\* The terminal held has been started, and none is being set up.
<1>2. ASSUME NEW how \in {"event", "timer"}, Resized(how), pty # 0,
             UNCHANGED <<setup, term>>
      PROVE  SpawnSized'
  <2>1. pty \in Terminals /\ term[pty] # "none" /\ setup = 0
    BY <1>2, CellAssumption DEF TypeOK, OrderInv, Terminals
  <2>2. /\ sizedBy'[pty] # "spawn"
        /\ \A t \in Terminals \ {pty} : sizedBy'[t] = sizedBy[t] /\ size'[t] = size[t]
    BY <1>2, <2>1 DEF Resized, TypeOK
  <2>3. \A t \in Terminals : t # 0
    BY CellAssumption DEF Terminals
  <2>4. QED BY <1>2, <2>1, <2>2, <2>3 DEF SpawnSized
<1>3. CASE HandleStart
  <2>1. CASE UNCHANGED <<setup, term>>
    BY <1>1, <1>3, <2>1 DEF HandleStart
  <2>2. ASSUME NEW t \in Unborn, term' = [term EXCEPT ![t] = "running"], setup' = t
        PROVE  SpawnSized'
    BY <1>3, <2>2 DEF HandleStart, SpawnSized, Unborn, TypeOK
  <2>3. QED BY <1>3, <2>1, <2>2 DEF HandleStart
<1>4. CASE HandleStop \/ HandleKey \/ Terminate
  BY <1>1, <1>4, StoppedTypes DEF HandleStop, HandleKey, Terminate
<1>5. CASE HandleResize
  BY <1>1, <1>2, <1>5 DEF HandleResize
<1>6. CASE HandleDelayed
  BY <1>1, <1>2, <1>6 DEF HandleDelayed
<1>7. ASSUME NEW t \in Terminals, ProgramEnds(t) \/ TellExit(t)
      PROVE  SpawnSized'
  <2>1. \E x \in {"dead", "told", "unheard"} : term' = [term EXCEPT ![t] = x]
    BY <1>7 DEF ProgramEnds, TellExit
  <2>2. \A u \in Terminals : term'[u] = "none" => term[u] = "none"
    BY <2>1 DEF TypeOK
  <2>3. QED BY <1>1, <1>7, <2>2 DEF ProgramEnds, TellExit, cellVars
<1>8. CASE \/ PressStop \/ PressKey \/ ExitShown \/ TimerFires
           \/ FinishStart \/ HandleExited \/ UNCHANGED vars
           \/ \E s \in Sizes : PressStart(s) \/ ResizePage(s)
  BY <1>1, <1>8
     DEF PressStop, PressKey, PressStart, ResizePage, ExitShown, TimerFires,
         FinishStart, HandleExited, vars, cellVars, termVars
<1>9. QED
  BY <1>3, <1>4, <1>5, <1>6, <1>7, <1>8 DEF Next, CellStep

\* The resizes end in the size of the page after every step; only a step that
\* takes one leaves none where there was one.
LEMMA ResizesStep ==
  ASSUME TypeOK, LastResize(mailbox, pageSize), [Next]_vars
  PROVE  /\ LastResize(mailbox, pageSize)'
         /\ NoResize(mailbox)' =>
              \/ NoResize(mailbox) /\ pageSize' = pageSize
              \/ HandleResize /\ (pty # 0 => Argument = pageSize')
<1> DEFINE Ends == LastResize(mailbox, pageSize)'
           Kept == NoResize(mailbox)' => NoResize(mailbox) /\ pageSize' = pageSize
<1>t. mailbox \in Seq(Messages)
  BY DEF TypeOK
<1>1. ASSUME NEW m \in Messages, m.tag # "resize", mailbox' = Append(mailbox, m),
             UNCHANGED pageSize
      PROVE  Ends /\ Kept
  BY <1>t, <1>1, OthersEnter
\* The page sends its new size.
<1>2. ASSUME NEW q \in Seq(Messages), NEW s \in Sizes,
             mailbox' = Append(q, Msg("resize", s)), pageSize' = s
      PROVE  Ends /\ Kept
  BY <1>2, ResizeEnters
<1>3. CASE PressStop \/ PressKey
  <2>1. Msg("stop", 0) \in Messages /\ Msg("stop", 0).tag # "resize"
        /\ Msg("key", 0) \in Messages /\ Msg("key", 0).tag # "resize"
    BY DEF Msg, Messages
  <2>2. QED BY <1>1, <1>3, <2>1 DEF PressStop, PressKey, pageVars
<1>4. ASSUME NEW s \in Sizes, PressStart(s)
      PROVE  Ends /\ Kept
  <2> DEFINE a == Msg("start", 0)
  <2>1. a \in Messages /\ a.tag # "resize" /\ Append(mailbox, a) \in Seq(Messages)
    BY <1>t DEF Msg, Messages
  <2>2. IF s = pageSize THEN mailbox' = Append(mailbox, a)
        ELSE mailbox' = Append(Append(mailbox, a), Msg("resize", s))
    BY <1>t, <1>4, StartSent DEF PressStart
  <2>3. pageSize' = s
    BY <1>4 DEF PressStart
  <2> HIDE DEF a
  <2>4. QED BY <1>1, <1>2, <2>1, <2>2, <2>3
<1>5. ASSUME NEW s \in Sizes, ResizePage(s)
      PROVE  Ends /\ Kept
  BY <1>t, <1>2, <1>5 DEF ResizePage
<1>6. CASE TimerFires
  <2>1. PICK s \in Sizes : s = Head(timers)
    BY <1>6 DEF TimerFires, TypeOK
  <2>2. Msg("delayed", s) \in Messages /\ Msg("delayed", s).tag # "resize"
    BY DEF Msg, Messages
  <2>3. QED BY <1>1, <1>6, <2>1, <2>2 DEF TimerFires, pageVars
<1>7. ASSUME NEW t \in Terminals, TellExit(t)
      PROVE  Ends /\ Kept
  <2>1. Msg("exited", t) \in Messages /\ Msg("exited", t).tag # "resize"
    BY DEF Msg, Messages
  <2>2. pageSize' = pageSize /\ mailbox' \in {mailbox, Append(mailbox, Msg("exited", t))}
    BY <1>7 DEF TellExit, Notified, pageVars
  <2>3. QED BY <1>1, <2>1, <2>2
\* The cell takes its first message.
<1>8. ASSUME NEW tag, Message(tag), UNCHANGED pageSize
      PROVE  /\ Ends
             /\ tag # "resize" => Kept
             /\ tag = "resize" /\ NoResize(mailbox)' => Argument = pageSize
  <2>1. mailbox # <<>> /\ Head(mailbox).tag = tag /\ mailbox' = Tail(mailbox)
    BY <1>8 DEF Message
  <2>2. Shifted(mailbox, mailbox', "resize")
    BY <1>t, <2>1, Left
  <2>3. QED BY <1>8, <2>1, <2>2, ResizesLeave DEF Argument
<1>9. CASE HandleStart \/ HandleStop \/ HandleKey \/ HandleDelayed \/ HandleExited
  BY <1>8, <1>9
     DEF HandleStart, HandleStop, HandleKey, HandleDelayed, HandleExited, pageVars
<1>10. CASE HandleResize
  BY <1>8, <1>10 DEF HandleResize, pageVars
<1>11. CASE \/ ExitShown \/ FinishStart \/ Terminate \/ UNCHANGED vars
            \/ \E t \in Terminals : ProgramEnds(t)
  BY <1>11 DEF ExitShown, FinishStart, Terminate, ProgramEnds, vars, pageVars, cellVars
<1>12. QED
  BY <1>3, <1>4, <1>5, <1>6, <1>7, <1>9, <1>10, <1>11 DEF Next, CellStep

LEMMA PageSizedStep ==
  TypeOK /\ OrderInv /\ SpawnSized /\ PageSized /\ [Next]_vars => PageSized'
<1> SUFFICES ASSUME TypeOK, OrderInv, SpawnSized, PageSized, [Next]_vars
             PROVE  PageSized'
  OBVIOUS
<1>1. /\ LastResize(mailbox, pageSize)'
      /\ NoResize(mailbox)' =>
           \/ NoResize(mailbox) /\ pageSize' = pageSize
           \/ HandleResize /\ (pty # 0 => Argument = pageSize')
  BY ResizesStep DEF PageSized
<1>2. SUFFICES ASSUME NoResize(mailbox)', pty' # 0, sizedBy'[pty'] = "event"
               PROVE  size'[pty'] = pageSize'
  BY <1>1 DEF PageSized
<1>3. CASE HandleResize
  <2>1. pty' = pty /\ Resized("event") /\ pty \in Terminals
    BY <1>2, <1>3, CellAssumption DEF HandleResize, TypeOK, Terminals
  <2>2. size'[pty] = Argument
    BY <2>1 DEF Resized, TypeOK
  <2>3. CASE Argument = pageSize'
    BY <2>1, <2>2, <2>3
  <2>4. CASE NoResize(mailbox) /\ pageSize' = pageSize
    <3>1. mailbox \in Seq(Messages) /\ mailbox # <<>> /\ Head(mailbox).tag = "resize"
      BY <1>3 DEF HandleResize, Message, TypeOK
    <3>2. 1 \in Tagged(mailbox, "resize")
      BY <3>1, Left DEF Shifted
    <3>3. QED BY <2>4, <3>2 DEF NoResize
  <2>5. QED BY <1>1, <1>2, <2>1, <2>3, <2>4
\* Otherwise no resize was there either.
<1>4. ASSUME NoResize(mailbox), pageSize' = pageSize, UNCHANGED <<size, sizedBy>>,
             pty' \in {pty, 0}
      PROVE  size'[pty'] = pageSize'
  BY <1>2, <1>4 DEF PageSized
<1>5. CASE HandleDelayed
  <2>1. ~HandleResize
    BY <1>5 DEF HandleDelayed, HandleResize, Message
  <2>2. CASE Resized("timer")
    <3>1. sizedBy'[pty'] # "event"
      BY <1>2, <1>5, <2>2, CellAssumption DEF HandleDelayed, Resized, TypeOK, Terminals
    <3>2. QED BY <1>2, <3>1
  <2>3. QED BY <1>1, <1>2, <1>4, <1>5, <2>1, <2>2 DEF HandleDelayed
<1>6. CASE FinishStart
  <2>1. pty' \in Terminals /\ pty' = setup /\ sizedBy' = sizedBy
    BY <1>6, CellAssumption DEF FinishStart, TypeOK, Terminals
  <2>2. sizedBy'[pty'] = "spawn"
    BY <2>1 DEF SpawnSized
  <2>3. QED BY <1>2, <2>2
<1>7. CASE /\ ~HandleResize
           /\ \/ PressStop \/ PressKey \/ ExitShown \/ TimerFires
              \/ HandleStart \/ HandleStop \/ HandleKey \/ HandleExited
              \/ Terminate \/ UNCHANGED vars
              \/ \E s \in Sizes : PressStart(s) \/ ResizePage(s)
              \/ \E t \in Terminals : ProgramEnds(t) \/ TellExit(t)
  <2>1. UNCHANGED <<size, sizedBy>> /\ pty' \in {pty, 0}
    BY <1>7
       DEF PressStop, PressKey, PressStart, ResizePage, ExitShown, TimerFires,
           HandleStart, HandleStop, HandleKey, HandleExited, Terminate,
           ProgramEnds, TellExit, vars, cellVars, termVars
  <2>2. QED BY <1>1, <1>2, <1>4, <1>7, <2>1
<1>8. QED
  BY <1>3, <1>5, <1>6, <1>7 DEF Next, CellStep

-----------------------------------------------------------------------------
(* Theorems.                                                               *)

CellInv == TypeOK /\ NoticeInv /\ OrderInv /\ SpawnSized /\ PageSized

LEMMA CellInvCorrect == Spec => []CellInv
<1>1. Init => CellInv
  BY TypeStarts, NoticeStarts, OrderStarts, SizeStarts DEF CellInv
<1>2. CellInv /\ [Next]_vars => CellInv'
  BY TypeStep, NoticeStep, OrderStep, SpawnSizedStep, PageSizedStep DEF CellInv
<1>3. QED BY <1>1, <1>2, PTL DEF Spec

\* The types: among them, no more exits are on their way to the page than
\* there are terminals, however exits, stops and starts cross
\* (expty_smartcell.ex:58-60, 117-125).
THEOREM CellTypeCorrect == Spec => []TypeOK
<1>1. CellInv => TypeOK
  BY DEF CellInv
<1>2. QED BY <1>1, CellInvCorrect, PTL

\* When nothing is under way the terminal held has the size of the page, but
\* for the two exceptions SizeAgrees names (expty_smartcell.ex:93-115).
THEOREM SizeAgreesTheorem == Spec => []SizeAgrees
<1>1. CellInv => SizeAgrees
  <2> SUFFICES ASSUME CellInv, Quiet, pty # 0
               PROVE  \/ size[pty] = pageSize
                      \/ sizedBy[pty] = "spawn" /\ size[pty] = DefaultSize
                      \/ sizedBy[pty] = "timer"
    BY DEF SizeAgrees
  <2>1. pty \in Terminals /\ sizedBy[pty] \in {"spawn", "event", "timer"}
    BY CellAssumption DEF CellInv, TypeOK, Terminals
  <2>2. NoResize(mailbox)
    BY DEF Quiet, NoResize, Tagged
  <2>3. QED BY <2>1, <2>2 DEF CellInv, SpawnSized, PageSized
<1>2. QED BY <1>1, CellInvCorrect, PTL

\* A program that runs on is let go only for the exit notice of an earlier
\* terminal, where ExPTY.kill is implemented (expty_smartcell.ex:73-77,
\* 117-120).
THEOREM LetsGoTheorem ==
  ASSUME KillWorks = TRUE
  PROVE  Spec => LetsGoOnlyForStaleExit
<1> DEFINE Lets(t) == pty = t /\ pty' # t /\ term'[t] = "running" =>
                        Head(mailbox).tag = "exited" /\ Head(mailbox).arg < t
<1>1. CellInv /\ [Next]_vars => [\A t \in Terminals : Lets(t)]_vars
  <2>1. SUFFICES ASSUME CellInv, Next, NEW t \in Terminals,
                        pty = t, pty' # t, term'[t] = "running"
                 PROVE  Head(mailbox).tag = "exited" /\ Head(mailbox).arg < t
    OBVIOUS
  <2>2. TypeOK /\ NoticeInv /\ OrderInv /\ t # 0
    BY <2>1, CellAssumption DEF CellInv, Terminals
  <2>3. CASE HandleExited
    <3>1. /\ Message("exited") /\ term' = term
          /\ Head(mailbox).tag = "exited"
      BY <2>3 DEF HandleExited, Message, termVars
    <3>2. Head(mailbox).arg \in Told
      BY <2>2, <3>1, NoticeFits DEF NoticeInv, Argument
    <3>3. PICK u \in Terminals : u = Head(mailbox).arg /\ term[u] = "told"
      BY <3>2 DEF Told
    <3>4. u # t /\ ~(t < u)
      BY <2>1, <2>2, <3>1, <3>3 DEF OrderInv
    <3>5. u \in Nat /\ t \in Nat
      BY DEF Terminals
    <3>6. QED BY <3>1, <3>3, <3>4, <3>5
  \* A stop has killed it.
  <2>4. CASE HandleStop
    <3>1. term'[t] = Stopped[t]
      BY <2>4 DEF HandleStop
    <3>2. Stopped[t] # "running"
      BY <2>1 DEF Stopped
    <3>3. QED BY <2>1, <3>1, <3>2
  <2>5. CASE FinishStart
    BY <2>1, <2>2, <2>5 DEF FinishStart, OrderInv
  <2>6. QED
    BY <2>1, <2>3, <2>4, <2>5
       DEF Next, CellStep, PressStop, PressKey, PressStart, ResizePage, ExitShown,
           TimerFires, HandleStart, HandleKey, HandleResize, HandleDelayed,
           Terminate, ProgramEnds, TellExit, cellVars
<1>2. QED BY <1>1, CellInvCorrect, PTL DEF Spec, LetsGoOnlyForStaleExit
=============================================================================
