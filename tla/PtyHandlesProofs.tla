-------------------------- MODULE PtyHandlesProofs --------------------------
(***************************************************************************)
(* The searches of any number of terminals are safe while no insertion     *)
(* overlaps another use of the vector that it disturbs.                    *)
(***************************************************************************)
EXTENDS PtyHandles, SequenceTheorems, TLAPS

-----------------------------------------------------------------------------
(* The invariant: what holds until an overlap.                             *)

\* A place counted in the size before the baton is stored there.
Late(i) == \E t \in Terminals : at[t] = "late" /\ address[t][2] + 1 = i

\* While no block is being replaced the three pointers are of one block,
\* which holds every terminal that was inserted, and nothing but terminals
\* except at such a place.
Whole ==
  (\A t \in Terminals : at[t] \notin {"first", "last"}) =>
    /\ last[1] = first /\ end = <<first, Len(slots[first])>>
    /\ first \notin freed
    /\ last[2] <= Len(slots[first])
    /\ \A u \in Terminals : at[u] \in Inserted =>
         \E i \in 1..last[2] : slots[first][i] = u /\ ~Late(i)
    /\ \A i \in 1..last[2] : slots[first][i] \in Terminals \/ Late(i)

\* A block in use, or freed, is of a terminal that has made it.
Owners ==
  /\ \A t \in Terminals :
       t \in freed \/ first = t => at[t] \in Inserted \cup {"last"}
  /\ \A t \in Terminals : at[t] = "last" => first = t

\* The new block holds the terminals, and the new one.
CopyMade ==
  \A t \in Terminals : at[t] \in {"free", "first", "last"} =>
    /\ t \notin freed
    /\ index[t] \in 1..Len(slots[t])
    /\ \A i \in 1..index[t] : slots[t][i] \in Terminals
    /\ \A u \in Terminals : at[u] \in Inserted \/ u = t =>
         \E i \in 1..index[t] : slots[t][i] = u

\* The place of a new baton is the one behind the last.
Placed ==
  \A t \in Terminals :
    /\ at[t] \in {"store", "bump", "early"} =>
         address[t] = last /\ last[2] < Len(slots[first])
    /\ at[t] = "bump" => slots[first][last[2] + 1] = t
    /\ at[t] = "late" => address[t][1] = first /\ address[t][2] + 1 = last[2]
    /\ at[t] \in {"early", "late"} => ~inOrder

\* A search has not come past its baton.
Ahead ==
  \A t \in Terminals : at[t] \in Search =>
    /\ index[t] >= 1
    /\ \E i \in index[t]..last[2] : slots[first][i] = t
    /\ at[t] = "get" => index[t] <= last[2]

Sound == Whole /\ Owners /\ CopyMade /\ Placed /\ Ahead

HandlesInv ==
  /\ TypeOK
  /\ ~overlapped => Sound /\ ~crashed /\ ~denied /\ ~Overlap(at)

LEMMA InitSafe == Init => HandlesInv
<1> SUFFICES ASSUME Init PROVE HandlesInv
  OBVIOUS
<1> USE HandlesAssumption DEF Init, Blocks
<1>1. TypeOK
  <2>1. <<>> \in Seq(Blocks)
    OBVIOUS
  <2>2. slots \in [Blocks -> Seq(Blocks)]
    BY <2>1
  <2>3. QED
    BY <2>2 DEF TypeOK
<1>2. Whole
  BY DEF Whole, Late, Inserted, Search
<1>3. Owners
  BY DEF Owners
<1>4. CopyMade
  BY DEF CopyMade
<1>5. Placed
  BY DEF Placed
<1>6. Ahead
  BY DEF Ahead, Search
<1>7. ~Overlap(at)
  BY DEF Overlap, Placing, Moving, Search
<1>8. QED
  BY <1>1, <1>2, <1>3, <1>4, <1>5, <1>6, <1>7 DEF HandlesInv, Sound

-----------------------------------------------------------------------------
(* Steps of one terminal.                                                  *)

Steps == {"new"} \cup Placing \cup Moving \cup Inserted

LEMMA GotoShape ==
  ASSUME TypeOK, NEW t \in Terminals, NEW from, NEW to \in Steps, Goto(t, from, to)
  PROVE  /\ at[t] = from /\ at'[t] = to /\ ~crashed
         /\ \A u \in Terminals : u # t => at'[u] = at[u]
         /\ at' \in [Terminals -> Steps]
         /\ overlapped' \in BOOLEAN
         /\ ~overlapped' => ~overlapped /\ ~Overlap(at')
BY DEF TypeOK, Goto, Steps

\* Who works on the vector while another terminal does.
LEMMA Alone ==
  ASSUME NEW steps, ~Overlap(steps),
         NEW t \in Terminals, NEW u \in Terminals, t # u
  PROVE  /\ steps[t] \in Placing \cup Moving => steps[u] \notin Placing \cup Moving
         /\ steps[t] \in Moving => steps[u] \notin Search
         /\ steps[t] \in Placing /\ ~inOrder => steps[u] \notin Search
BY DEF Overlap

LEMMA SlotType ==
  ASSUME TypeOK, NEW b \in Blocks, NEW i
  PROVE  Slot(b, i) \in Blocks
BY DEF TypeOK, Slot, Blocks

LEMMA FunctionSeq ==
  ASSUME NEW S, NEW n \in Nat, NEW f \in [1..n -> S]
  PROVE  f \in Seq(S) /\ Len(f) = n
OBVIOUS

LEMMA StoredSeq ==
  ASSUME NEW S, NEW s \in Seq(S), NEW i \in DOMAIN s, NEW x \in S
  PROVE  /\ [s EXCEPT ![i] = x] \in Seq(S)
         /\ Len([s EXCEPT ![i] = x]) = Len(s)
<1>1. i \in 1..Len(s)
  BY LenProperties
<1>2. QED
  BY <1>1, ExceptSeq

LEMMA TypeStep ==
  ASSUME TypeOK, NEW t \in Terminals,
         \/ Insert(t) \/ Store(t) \/ Bump(t)
         \/ Grow(t) \/ Free(t) \/ SetFirst(t) \/ SetLast(t)
         \/ Begin(t) \/ Test(t) \/ Miss(t) \/ Get(t)
  PROVE  TypeOK'
<1> USE DEF vectorVars, memoryVars, threadVars, resultVars
<1>0. /\ {"store", "bump", "early", "late", "grow", "free", "first", "last",
          "listed", "test", "get"} \subseteq Steps
      /\ t \in Blocks
  BY DEF Steps, Placing, Moving, Inserted, Search, Blocks
<1>1. at' \in [Terminals -> Steps] /\ overlapped' \in BOOLEAN
  BY <1>0, GotoShape DEF Insert, Store, Bump, Grow, Free, SetFirst, SetLast,
                         Begin, Test, Miss, Get
<1>2. CASE Insert(t)
  BY <1>1, <1>2 DEF Insert, TypeOK, Steps
<1>3. CASE Store(t)
  <2>1. slots' \in [Blocks -> Seq(Blocks)] /\ crashed' \in BOOLEAN
    <3> DEFINE b == address[t][1]
               i == address[t][2] + 1
    <3>1. CASE b \notin freed /\ i \in DOMAIN slots[b]
      <4>1. slots' = [slots EXCEPT ![b] = [slots[b] EXCEPT ![i] = t]]
        BY <1>3, <3>1 DEF Store
      <4>2. b \in Blocks /\ slots[b] \in Seq(Blocks)
        BY DEF TypeOK
      <4>3. [slots[b] EXCEPT ![i] = t] \in Seq(Blocks)
        <5> HIDE DEF b, i
        <5>1. QED
          BY <1>0, <3>1, <4>2, StoredSeq
      <4>4. QED
        BY <1>3, <3>1, <4>1, <4>2, <4>3 DEF Store, TypeOK
    <3>2. CASE ~(b \notin freed /\ i \in DOMAIN slots[b])
      BY <1>3, <3>2 DEF Store, TypeOK
    <3>3. QED
      BY <3>1, <3>2
  <2>2. QED
    BY <1>1, <1>3, <2>1 DEF Store, TypeOK, Steps
<1>4. CASE Bump(t)
  BY <1>1, <1>4 DEF Bump, TypeOK, Steps
<1>5. CASE Grow(t)
  <2>1. PICK size \in last[2] + 1..2 * last[2] + 1 :
          slots' = [slots EXCEPT ![t] = Copied(t, size)]
    BY <1>5 DEF Grow
  <2>2. size \in Nat /\ last[2] \in Nat /\ first \in Blocks
    BY DEF TypeOK
  <2>3. Copied(t, size) \in Seq(Blocks)
    <3> DEFINE copy == Copied(t, size)
    <3>1. \A i \in 1..size : Slot(first, i) \in Blocks
      BY <2>2, SlotType
    <3>2. copy \in [1..size -> Blocks]
      BY <1>0, <3>1 DEF Copied, Blocks
    <3> HIDE DEF copy
    <3>3. copy \in Seq(Blocks)
      BY <2>2, <3>2, FunctionSeq
    <3>4. QED
      BY <3>3 DEF copy
  <2>4. slots' \in [Blocks -> Seq(Blocks)]
    BY <2>1, <2>3 DEF TypeOK
  <2>5. index' \in [Terminals -> Nat] /\ crashed' \in BOOLEAN
    BY <1>5, <2>2 DEF Grow, TypeOK
  <2>6. QED
    BY <1>1, <1>5, <2>4, <2>5 DEF Grow, TypeOK, Steps
<1>6. CASE Free(t)
  BY <1>1, <1>6 DEF Free, TypeOK, Steps, Blocks
<1>7. CASE SetFirst(t)
  BY <1>0, <1>1, <1>7 DEF SetFirst, TypeOK, Steps
<1>8. CASE SetLast(t)
  <2>1. Len(slots[t]) \in Nat
    BY <1>0 DEF TypeOK
  <2>2. QED
    BY <1>0, <1>1, <1>8, <2>1 DEF SetLast, TypeOK, Steps
<1>9. CASE Begin(t)
  BY <1>1, <1>9 DEF Begin, TypeOK, Steps
<1>10. CASE Test(t)
  BY <1>1, <1>10 DEF Test, TypeOK, Steps
<1>11. CASE Miss(t)
  BY <1>1, <1>11 DEF Miss, TypeOK, Steps
<1>12. CASE Get(t)
  <2>1. index' = index \/ index' = [index EXCEPT ![t] = index[t] + 1]
    BY <1>12 DEF Get
  <2>2. index' \in [Terminals -> Nat]
    BY <2>1 DEF TypeOK
  <2>3. crashed' \in BOOLEAN /\ denied' \in BOOLEAN
    <3>1. \/ UNCHANGED <<crashed, denied>>
          \/ crashed' \in BOOLEAN /\ denied' \in {denied, TRUE}
      BY <1>12 DEF Get
    <3>2. crashed \in BOOLEAN /\ denied \in BOOLEAN
      BY DEF TypeOK
    <3>3. QED
      BY <3>1, <3>2
  <2>4. UNCHANGED <<vectorVars, memoryVars, address>>
    BY <1>12 DEF Get
  <2>5. QED
    BY <1>1, <2>2, <2>3, <2>4 DEF TypeOK, Steps
<1>13. QED
  BY <1>2, <1>3, <1>4, <1>5, <1>6, <1>7, <1>8, <1>9, <1>10, <1>11, <1>12

-----------------------------------------------------------------------------
(* The insertion.                                                          *)

\* What every step may use.
Calm ==
  /\ TypeOK /\ TypeOK' /\ Sound
  /\ ~crashed /\ ~denied
  /\ ~Overlap(at) /\ ~Overlap(at')

Safe == Sound /\ ~crashed /\ ~denied

\* While t inserts, or begins to, no other terminal does.
LEMMA OnlyOne ==
  ASSUME Calm, NEW t \in Terminals,
         at[t] \in Placing \cup Moving \/ at'[t] \in Placing \cup Moving,
         \A u \in Terminals : u # t => at'[u] = at[u]
  PROVE  \A u \in Terminals : u # t =>
           at[u] \in {"new"} \cup Inserted /\ at'[u] \in {"new"} \cup Inserted
<1> SUFFICES ASSUME NEW u \in Terminals, u # t
             PROVE  at[u] \in {"new"} \cup Inserted
  OBVIOUS
<1>1. at[u] \notin Placing \cup Moving
  BY Alone DEF Calm
<1>2. QED
  BY <1>1 DEF Calm, TypeOK

LEMMA InsertSafe ==
  ASSUME Calm, NEW t \in Terminals, Insert(t)
  PROVE  Safe'
<1> USE DEF vectorVars, memoryVars, threadVars, resultVars
<1>1. {"store", "early", "grow"} \subseteq Steps
  BY DEF Steps, Placing, Moving
<1>2. /\ at[t] = "new" /\ at'[t] \in {"store", "early", "grow"}
      /\ \A u \in Terminals : u # t => at'[u] = at[u]
  BY <1>1, GotoShape DEF Insert, Calm
<1>3. \A u \in Terminals : u # t =>
        at[u] \in {"new"} \cup Inserted /\ at'[u] \in {"new"} \cup Inserted
  BY <1>2, OnlyOne DEF Placing, Moving
<1>4. UNCHANGED <<inOrder, first, last, end, slots, freed, index, crashed, denied>>
  BY DEF Insert
<1>5. /\ last[1] = first /\ end = <<first, Len(slots[first])>>
      /\ first \notin freed /\ last[2] <= Len(slots[first])
      /\ \A u \in Terminals : at[u] \in Inserted =>
           \E i \in 1..last[2] : slots[first][i] = u
      /\ \A i \in 1..last[2] : slots[first][i] \in Terminals
  <2>1. \A u \in Terminals : at[u] \notin {"first", "last", "late"}
    BY <1>2, <1>3 DEF Inserted, Search
  <2>2. \A i : ~Late(i)
    BY <2>1 DEF Late
  <2>3. QED
    BY <2>1, <2>2 DEF Calm, Sound, Whole
<1>6. Whole'
  <2>1. \A i : ~Late(i)'
    BY <1>2, <1>3 DEF Late, Inserted, Search
  <2>2. QED
    BY <1>2, <1>4, <1>5, <2>1 DEF Whole, Inserted, Search
<1>7. Owners'
  BY <1>2, <1>4 DEF Calm, Sound, Owners, Inserted, Search
<1>8. CopyMade'
  BY <1>2, <1>3 DEF CopyMade, Inserted, Search
<1>9. Placed'
  <2>1. address' = [address EXCEPT ![t] = last]
    BY DEF Insert
  <2>2. address'[t] = last
    BY <2>1 DEF Calm, TypeOK
  <2>3. at'[t] \in {"store", "early"} => last # end
    BY <1>2 DEF Insert, Goto, Calm, TypeOK
  <2>4. last = <<last[1], last[2]>> /\ last[2] \in Nat /\ Len(slots[first]) \in Nat
    BY DEF Calm, TypeOK
  <2>5. last # end => last[2] < Len(slots[first])
    BY <1>5, <2>4
  <2>6. at'[t] = "early" => ~inOrder
    BY <1>2 DEF Insert, Goto, Calm, TypeOK
  <2>7. QED
    BY <1>2, <1>3, <1>4, <2>2, <2>3, <2>5, <2>6 DEF Placed, Inserted, Search
<1>10. Ahead'
  BY <1>2, <1>4 DEF Calm, Sound, Ahead, Search
<1>11. QED
  BY <1>4, <1>6, <1>7, <1>8, <1>9, <1>10 DEF Safe, Sound, Calm

\* While t places its baton the vector is whole.
LEMMA WhilePlacing ==
  ASSUME Calm, NEW t \in Terminals, at[t] \in Placing \cup {"grow", "free"},
         \A u \in Terminals : u # t => at[u] \in {"new"} \cup Inserted
  PROVE  /\ last[1] = first /\ end = <<first, Len(slots[first])>>
         /\ first \notin freed /\ first # t
         /\ last[2] \in Nat /\ Len(slots[first]) \in Nat
         /\ last[2] <= Len(slots[first])
         /\ \A u \in Terminals : at[u] \in Inserted =>
              \E i \in 1..last[2] :
                slots[first][i] = u /\ ~(at[t] = "late" /\ address[t][2] + 1 = i)
         /\ \A i \in 1..last[2] :
              \/ slots[first][i] \in Terminals
              \/ at[t] = "late" /\ address[t][2] + 1 = i
<1>1. \A u \in Terminals : at[u] \notin {"first", "last"}
  BY DEF Placing, Inserted, Search
<1>2. first # t
  BY DEF Calm, Sound, Owners, Placing, Inserted, Search
<1>3. \A i : Late(i) <=> at[t] = "late" /\ address[t][2] + 1 = i
  BY DEF Late, Inserted, Search
<1>4. last[2] \in Nat /\ Len(slots[first]) \in Nat
  BY DEF Calm, TypeOK
<1>5. QED
  BY <1>1, <1>2, <1>3, <1>4 DEF Calm, Sound, Whole

LEMMA StoreSafe ==
  ASSUME Calm, NEW t \in Terminals, Store(t)
  PROVE  Safe'
<1> USE DEF vectorVars, memoryVars, threadVars, resultVars
<1>1. {"bump", "listed"} \subseteq Steps
  BY DEF Steps, Placing, Inserted
<1>2. /\ \/ at[t] = "store" /\ at'[t] = "bump"
         \/ at[t] = "late" /\ at'[t] = "listed"
      /\ \A u \in Terminals : u # t => at'[u] = at[u]
  BY <1>1, GotoShape DEF Store, Calm
<1>3. \A u \in Terminals : u # t =>
        at[u] \in {"new"} \cup Inserted /\ at'[u] \in {"new"} \cup Inserted
  BY <1>2, OnlyOne DEF Placing
<1>4. UNCHANGED <<inOrder, first, last, end, freed, address, index, denied>>
  BY DEF Store
<1> DEFINE place == address[t][2] + 1
<1>5. /\ last[1] = first /\ end = <<first, Len(slots[first])>>
      /\ first \notin freed /\ first # t
      /\ last[2] \in Nat /\ Len(slots[first]) \in Nat
      /\ last[2] <= Len(slots[first])
      /\ \A u \in Terminals : at[u] \in Inserted =>
           \E i \in 1..last[2] :
             slots[first][i] = u /\ ~(at[t] = "late" /\ address[t][2] + 1 = i)
      /\ \A i \in 1..last[2] :
           \/ slots[first][i] \in Terminals
           \/ at[t] = "late" /\ address[t][2] + 1 = i
  BY <1>2, <1>3, WhilePlacing DEF Placing
<1>6. /\ address[t][1] = first
      /\ at[t] = "store" => place = last[2] + 1 /\ last[2] < Len(slots[first])
      /\ at[t] = "late" => place = last[2] /\ ~inOrder
  BY <1>2, <1>5 DEF Calm, Sound, Placed
<1>7. address[t][2] \in Nat
  BY DEF Calm, TypeOK
<1>8. place \in 1..Len(slots[first])
  BY <1>2, <1>5, <1>6, <1>7
<1> HIDE DEF place
<1>9. first \in Blocks /\ slots[first] \in Seq(Blocks)
  BY DEF Calm, TypeOK
<1>10. place \in DOMAIN slots[first]
  BY <1>8, <1>9, LenProperties
<1>11. slots' = [slots EXCEPT ![first] = [slots[first] EXCEPT ![place] = t]]
       /\ crashed' = crashed
  <2>1. address[t][1] \notin freed /\ address[t][2] + 1 \in DOMAIN slots[address[t][1]]
    BY <1>5, <1>6, <1>10 DEF place
  <2>2. /\ slots' = [slots EXCEPT ![address[t][1]][address[t][2] + 1] = t]
        /\ crashed' = crashed
    BY <2>1 DEF Store
  <2>3. QED
    BY <1>6, <2>2 DEF place
<1>12. /\ slots'[first][place] = t
       /\ \A i \in 1..Len(slots[first]) : i # place =>
            slots'[first][i] = slots[first][i]
       /\ Len(slots'[first]) = Len(slots[first])
       /\ \A b \in Blocks : b # first => slots'[b] = slots[b]
  <2>1. slots'[first] = [slots[first] EXCEPT ![place] = t]
    BY <1>9, <1>11 DEF Calm, TypeOK
  <2>2. Len([slots[first] EXCEPT ![place] = t]) = Len(slots[first])
    BY <1>9, <1>10, StoredSeq DEF Blocks
  <2>3. \A i \in 1..Len(slots[first]) :
          [slots[first] EXCEPT ![place] = t][i] =
            IF i = place THEN t ELSE slots[first][i]
    BY <1>8, <1>9, ExceptSeq DEF Blocks
  <2>4. \A b \in Blocks : b # first => slots'[b] = slots[b]
    BY <1>11 DEF Calm, TypeOK
  <2>5. QED
    BY <1>8, <2>1, <2>2, <2>3, <2>4
<1>13. \A i \in 1..last[2] : i \in 1..Len(slots[first])
  BY <1>5
\* The other terminals' batons are not at the place.
<1>14. \A u \in Terminals : u # t /\ at[u] \in Search => place > last[2]
  <2>1. at[t] = "late" => \A u \in Terminals : u # t => at[u] \notin Search
    BY <1>6, Alone DEF Calm, Placing
  <2>2. QED
    BY <1>2, <1>5, <1>6, <2>1
<1>15. Whole'
  <2>1. \A i : ~Late(i)'
    BY <1>2, <1>3 DEF Late, Inserted, Search
  <2>2. \A i \in 1..last[2] : slots'[first][i] \in Terminals
    BY <1>2, <1>5, <1>12, <1>13 DEF place
  <2>3. ASSUME NEW u \in Terminals, at'[u] \in Inserted
        PROVE  \E i \in 1..last[2] : slots'[first][i] = u
    <3>1. CASE u = t
      <4>1. place = last[2] /\ place \in 1..last[2]
        BY <1>2, <1>6, <1>8, <2>3, <3>1 DEF Inserted, Search
      <4>2. QED
        BY <1>12, <3>1, <4>1
    <3>2. CASE u # t
      <4>1. PICK i \in 1..last[2] :
              slots[first][i] = u /\ ~(at[t] = "late" /\ i = place)
        BY <1>2, <1>5, <2>3, <3>2 DEF place
      <4>2. i # place
        BY <1>2, <1>5, <1>6, <4>1
      <4>3. QED
        BY <1>12, <1>13, <4>1, <4>2
    <3>3. QED
      BY <3>1, <3>2
  <2>4. QED
    BY <1>4, <1>5, <1>12, <2>1, <2>2, <2>3 DEF Whole
<1>16. Owners'
  BY <1>2, <1>4 DEF Calm, Sound, Owners, Inserted, Search
<1>17. CopyMade'
  BY <1>2, <1>3 DEF CopyMade, Inserted, Search
<1>18. Placed'
  <2>1. at'[t] = "bump" => /\ address'[t] = last' /\ last'[2] < Len(slots'[first'])
                           /\ slots'[first'][last'[2] + 1] = t
    <3>1. address[t] = last \/ at[t] # "store"
      BY DEF Calm, Sound, Placed
    <3>2. QED
      BY <1>2, <1>4, <1>6, <1>12, <3>1
  <2>2. QED
    BY <1>2, <1>3, <2>1 DEF Placed, Inserted, Search
<1>19. Ahead'
  <2> SUFFICES ASSUME NEW u \in Terminals, at'[u] \in Search
               PROVE  /\ index[u] >= 1
                      /\ \E i \in index[u]..last[2] : slots'[first][i] = u
                      /\ at'[u] = "get" => index[u] <= last[2]
    BY <1>4 DEF Ahead
  <2>1. u # t /\ at[u] \in Search
    BY <1>2 DEF Search
  <2>2. index[u] >= 1 /\ (at'[u] = "get" => index[u] <= last[2])
    BY <1>2, <2>1 DEF Calm, Sound, Ahead
  <2>3. PICK i \in index[u]..last[2] : slots[first][i] = u
    BY <2>1 DEF Calm, Sound, Ahead
  <2>4. i \in 1..last[2] /\ i # place
    <3>1. place > last[2] /\ place \in Nat /\ index[u] \in Nat
      BY <1>2, <1>8, <1>14, <2>1 DEF Calm, TypeOK
    <3>2. QED
      BY <1>5, <2>2, <2>3, <3>1
  <2>5. slots'[first][i] = u
    BY <1>12, <1>13, <2>3, <2>4
  <2>6. QED
    BY <2>2, <2>3, <2>5
<1>20. QED
  BY <1>4, <1>11, <1>15, <1>16, <1>17, <1>18, <1>19 DEF Safe, Sound, Calm

LEMMA BumpSafe ==
  ASSUME Calm, NEW t \in Terminals, Bump(t)
  PROVE  Safe'
<1> USE DEF vectorVars, memoryVars, threadVars, resultVars
<1>1. {"listed", "late"} \subseteq Steps
  BY DEF Steps, Placing, Inserted
<1>2. /\ \/ at[t] = "bump" /\ at'[t] = "listed"
         \/ at[t] = "early" /\ at'[t] = "late"
      /\ \A u \in Terminals : u # t => at'[u] = at[u]
  BY <1>1, GotoShape DEF Bump, Calm
<1>3. \A u \in Terminals : u # t =>
        at[u] \in {"new"} \cup Inserted /\ at'[u] \in {"new"} \cup Inserted
  BY <1>2, OnlyOne DEF Placing
<1>4. UNCHANGED <<inOrder, first, end, slots, freed, address, index, crashed,
                  denied>>
  BY DEF Bump
<1>5. /\ last[1] = first /\ end = <<first, Len(slots[first])>>
      /\ first \notin freed /\ first # t
      /\ last[2] \in Nat /\ Len(slots[first]) \in Nat
      /\ \A u \in Terminals : at[u] \in Inserted =>
           \E i \in 1..last[2] : slots[first][i] = u
      /\ \A i \in 1..last[2] : slots[first][i] \in Terminals
  BY <1>2, <1>3, WhilePlacing DEF Placing
<1>6. /\ address[t] = last /\ last[2] < Len(slots[first])
      /\ at[t] = "bump" => slots[first][last[2] + 1] = t
      /\ at[t] = "early" => ~inOrder
  BY <1>2 DEF Calm, Sound, Placed
<1>7. last'[1] = first /\ last'[2] = last[2] + 1
  BY <1>5 DEF Bump
<1>8. Whole'
  <2>1. \A i : Late(i)' <=> at'[t] = "late" /\ last[2] + 1 = i
    BY <1>2, <1>3, <1>4, <1>6 DEF Late, Inserted, Search
  <2>2. \A i \in 1..last'[2] : slots[first][i] \in Terminals \/ Late(i)'
    BY <1>2, <1>5, <1>6, <1>7, <2>1
  <2>3. ASSUME NEW u \in Terminals, at'[u] \in Inserted
        PROVE  \E i \in 1..last'[2] : slots[first][i] = u /\ ~Late(i)'
    <3>1. CASE u = t
      BY <1>2, <1>5, <1>6, <1>7, <2>1, <2>3, <3>1 DEF Inserted, Search
    <3>2. CASE u # t
      <4>1. PICK i \in 1..last[2] : slots[first][i] = u
        BY <1>2, <1>5, <2>3, <3>2
      <4>2. i \in 1..last'[2] /\ ~Late(i)'
        BY <1>5, <1>7, <2>1
      <4>3. QED
        BY <4>1, <4>2
    <3>3. QED
      BY <3>1, <3>2
  <2>4. QED
    BY <1>4, <1>5, <1>6, <1>7, <2>2, <2>3 DEF Whole
<1>9. Owners'
  BY <1>2, <1>4 DEF Calm, Sound, Owners, Inserted, Search
<1>10. CopyMade'
  BY <1>2, <1>3 DEF CopyMade, Inserted, Search
<1>11. Placed'
  BY <1>2, <1>3, <1>4, <1>5, <1>6, <1>7 DEF Placed, Inserted, Search
<1>12. Ahead'
  <2> SUFFICES ASSUME NEW u \in Terminals, at'[u] \in Search
               PROVE  /\ index[u] >= 1
                      /\ \E i \in index[u]..last'[2] : slots[first][i] = u
                      /\ at'[u] = "get" => index[u] <= last'[2]
    BY <1>4 DEF Ahead
  <2>1. u # t /\ at[u] \in Search /\ at'[u] = at[u] /\ index[u] \in Nat
    BY <1>2 DEF Search, Calm, TypeOK
  <2>2. QED
    BY <1>5, <1>7, <2>1 DEF Calm, Sound, Ahead
<1>13. QED
  BY <1>4, <1>8, <1>9, <1>10, <1>11, <1>12 DEF Safe, Sound, Calm

LEMMA GrowSafe ==
  ASSUME Calm, NEW t \in Terminals, Grow(t)
  PROVE  Safe'
<1> USE DEF vectorVars, memoryVars, threadVars, resultVars
<1>1. "free" \in Steps
  BY DEF Steps, Moving
<1>2. /\ at[t] = "grow" /\ at'[t] = "free"
      /\ \A u \in Terminals : u # t => at'[u] = at[u]
  BY <1>1, GotoShape DEF Grow, Calm
<1>3. \A u \in Terminals : u # t =>
        at[u] \in {"new"} \cup Inserted /\ at'[u] \in {"new"} \cup Inserted
  BY <1>2, OnlyOne DEF Moving
<1>4. UNCHANGED <<inOrder, first, last, end, freed, address, denied>>
  BY DEF Grow
<1>5. /\ last[1] = first /\ end = <<first, Len(slots[first])>>
      /\ first \notin freed /\ first # t
      /\ last[2] \in Nat /\ Len(slots[first]) \in Nat
      /\ last[2] <= Len(slots[first])
      /\ \A u \in Terminals : at[u] \in Inserted =>
           \E i \in 1..last[2] : slots[first][i] = u
      /\ \A i \in 1..last[2] : slots[first][i] \in Terminals
  BY <1>2, <1>3, WhilePlacing
<1>6. PICK size \in last[2] + 1..2 * last[2] + 1 :
        slots' = [slots EXCEPT ![t] = Copied(t, size)]
  BY DEF Grow
<1>7. slots'[first] = slots[first] /\ slots'[t] = Copied(t, size)
  BY <1>5, <1>6 DEF Calm, TypeOK, Blocks
<1>8. /\ index'[t] = last[2] + 1 /\ crashed' = FALSE
      /\ \A u \in Terminals : u # t => index'[u] = index[u]
  BY <1>5 DEF Grow, Calm, TypeOK
<1>9. /\ Len(slots'[t]) = size /\ size >= last[2] + 1
      /\ \A i \in 1..last[2] : slots'[t][i] = slots[first][i]
      /\ slots'[t][last[2] + 1] = t
  <2>1. size \in Nat /\ size >= last[2] + 1
    BY <1>5, <1>6
  <2>2. \A i \in 1..last[2] : Slot(first, i) = slots[first][i]
    <3>1. slots[first] \in Seq(Blocks)
      BY DEF Calm, TypeOK
    <3>2. \A i \in 1..last[2] : i \in DOMAIN slots[first]
      BY <1>5, <3>1, LenProperties
    <3>3. QED
      BY <1>5, <3>2 DEF Slot
  <2>3. DOMAIN slots'[t] = 1..size
    BY <1>7 DEF Copied
  <2>4. slots'[t] \in Seq(Blocks)
    BY DEF Calm, TypeOK, Blocks
  <2>5. Len(slots'[t]) = size
    <3>1. Len(slots'[t]) \in Nat /\ 1..Len(slots'[t]) = 1..size
      BY <2>3, <2>4, LenProperties
    <3>2. QED
      BY <2>1, <3>1
  <2>6. QED
    BY <1>5, <1>7, <2>1, <2>2, <2>5 DEF Copied
<1>10. Whole'
  <2>1. \A i : ~Late(i) /\ ~Late(i)'
    BY <1>2, <1>3 DEF Late, Inserted, Search
  <2>2. \A u \in Terminals : at'[u] \in Inserted => at[u] \in Inserted
    BY <1>2 DEF Inserted, Search
  <2>3. QED
    BY <1>4, <1>5, <1>7, <2>1, <2>2 DEF Whole
<1>11. Owners'
  BY <1>2, <1>4 DEF Calm, Sound, Owners, Inserted, Search
<1>12. CopyMade'
  <2>1. t \notin freed
    BY <1>2 DEF Calm, Sound, Owners, Inserted, Search
  <2>2. index'[t] \in 1..Len(slots'[t])
    BY <1>5, <1>8, <1>9
  <2>3. \A i \in 1..index'[t] : slots'[t][i] \in Terminals
    <3> SUFFICES ASSUME NEW i \in 1..index'[t]
                 PROVE  slots'[t][i] \in Terminals
      OBVIOUS
    <3>1. CASE i \in 1..last[2]
      BY <1>5, <1>9, <3>1
    <3>2. CASE i = last[2] + 1
      BY <1>9, <3>2
    <3>3. i \in 1..last[2] \/ i = last[2] + 1
      BY <1>5, <1>8
    <3>4. QED
      BY <3>1, <3>2, <3>3
  <2>4. ASSUME NEW u \in Terminals, at'[u] \in Inserted \/ u = t
        PROVE  \E i \in 1..index'[t] : slots'[t][i] = u
    <3>1. CASE u = t
      BY <1>5, <1>8, <1>9, <3>1
    <3>2. CASE u # t
      <4>1. PICK i \in 1..last[2] : slots[first][i] = u
        BY <1>2, <1>5, <2>4, <3>2
      <4>2. i \in 1..index'[t] /\ slots'[t][i] = u
        BY <1>5, <1>8, <1>9, <4>1
      <4>3. QED
        BY <4>2
    <3>3. QED
      BY <3>1, <3>2
  <2>5. \A u \in Terminals : u # t => at'[u] \notin {"free", "first", "last"}
    BY <1>3 DEF Inserted, Search
  <2>6. QED
    BY <1>4, <2>1, <2>2, <2>3, <2>4, <2>5 DEF CopyMade
<1>13. Placed'
  BY <1>2, <1>3 DEF Placed, Inserted, Search
<1>14. Ahead'
  <2>1. \A u \in Terminals : at'[u] \notin Search
    BY <1>2, Alone DEF Calm, Moving, Search
  <2>2. QED
    BY <2>1 DEF Ahead
<1>15. QED
  BY <1>4, <1>8, <1>10, <1>11, <1>12, <1>13, <1>14 DEF Safe, Sound, Calm

LEMMA FreeSafe ==
  ASSUME Calm, NEW t \in Terminals, Free(t)
  PROVE  Safe'
<1> USE DEF vectorVars, memoryVars, threadVars, resultVars
<1>1. "first" \in Steps
  BY DEF Steps, Moving
<1>2. /\ at[t] = "free" /\ at'[t] = "first"
      /\ \A u \in Terminals : u # t => at'[u] = at[u]
  BY <1>1, GotoShape DEF Free, Calm
<1>3. \A u \in Terminals : u # t =>
        at[u] \in {"new"} \cup Inserted /\ at'[u] \in {"new"} \cup Inserted
  BY <1>2, OnlyOne DEF Moving
<1>4. /\ UNCHANGED <<inOrder, first, last, end, slots, address, index, denied>>
      /\ freed' = freed \cup ({first} \ {None}) /\ crashed' = (first \in freed)
  BY DEF Free
<1>5. first \notin freed /\ first # t
  BY <1>2, <1>3, WhilePlacing
<1>6. Whole'
  BY <1>2 DEF Whole
<1>7. Owners'
  BY <1>2, <1>4, <1>5 DEF Calm, Sound, Owners, Inserted, Search
<1>8. CopyMade'
  <2>1. \A u \in Terminals : at'[u] \in Inserted => at[u] \in Inserted
    BY <1>2 DEF Inserted, Search
  <2>2. \A u \in Terminals : u # t => at'[u] \notin {"free", "first", "last"}
    BY <1>3 DEF Inserted, Search
  <2>3. QED
    BY <1>2, <1>4, <1>5, <2>1, <2>2 DEF Calm, Sound, CopyMade
<1>9. Placed'
  BY <1>2, <1>3 DEF Placed, Inserted, Search
<1>10. Ahead'
  <2>1. \A u \in Terminals : at'[u] \notin Search
    BY <1>2, Alone DEF Calm, Moving, Search
  <2>2. QED
    BY <2>1 DEF Ahead
<1>11. QED
  BY <1>4, <1>5, <1>6, <1>7, <1>8, <1>9, <1>10 DEF Safe, Sound, Calm

LEMMA SetFirstSafe ==
  ASSUME Calm, NEW t \in Terminals, SetFirst(t)
  PROVE  Safe'
<1> USE DEF vectorVars, memoryVars, threadVars, resultVars
<1>1. "last" \in Steps
  BY DEF Steps, Moving
<1>2. /\ at[t] = "first" /\ at'[t] = "last"
      /\ \A u \in Terminals : u # t => at'[u] = at[u]
  BY <1>1, GotoShape DEF SetFirst, Calm
<1>3. \A u \in Terminals : u # t =>
        at[u] \in {"new"} \cup Inserted /\ at'[u] \in {"new"} \cup Inserted
  BY <1>2, OnlyOne DEF Moving
<1>4. /\ UNCHANGED <<inOrder, last, end, slots, freed, address, index, crashed,
                     denied>>
      /\ first' = t
  BY DEF SetFirst
<1>5. Whole'
  BY <1>2 DEF Whole
<1>6. Owners'
  <2>1. \A u \in Terminals : u # t => at'[u] # "last"
    BY <1>3 DEF Inserted, Search
  <2>2. QED
    BY <1>2, <1>4, <2>1 DEF Calm, Sound, Owners
<1>7. CopyMade'
  <2>1. \A u \in Terminals : at'[u] \in Inserted => at[u] \in Inserted
    BY <1>2 DEF Inserted, Search
  <2>2. \A u \in Terminals : u # t => at'[u] \notin {"free", "first", "last"}
    BY <1>3 DEF Inserted, Search
  <2>3. QED
    BY <1>2, <1>4, <2>1, <2>2 DEF Calm, Sound, CopyMade
<1>8. Placed'
  BY <1>2, <1>3 DEF Placed, Inserted, Search
<1>9. Ahead'
  <2>1. \A u \in Terminals : at'[u] \notin Search
    BY <1>2, Alone DEF Calm, Moving, Search
  <2>2. QED
    BY <2>1 DEF Ahead
<1>10. QED
  BY <1>4, <1>5, <1>6, <1>7, <1>8, <1>9 DEF Safe, Sound, Calm

LEMMA SetLastSafe ==
  ASSUME Calm, NEW t \in Terminals, SetLast(t)
  PROVE  Safe'
<1> USE DEF vectorVars, memoryVars, threadVars, resultVars
<1>1. "listed" \in Steps
  BY DEF Steps, Inserted
<1>2. /\ at[t] = "last" /\ at'[t] = "listed"
      /\ \A u \in Terminals : u # t => at'[u] = at[u]
  BY <1>1, GotoShape DEF SetLast, Calm
<1>3. \A u \in Terminals : u # t =>
        at[u] \in {"new"} \cup Inserted /\ at'[u] \in {"new"} \cup Inserted
  BY <1>2, OnlyOne DEF Moving
<1>4. /\ UNCHANGED <<inOrder, first, slots, freed, address, index, crashed,
                     denied>>
      /\ last' = <<t, index[t]>> /\ end' = <<t, Len(slots[t])>>
  BY DEF SetLast
<1>5. first = t
  BY <1>2 DEF Calm, Sound, Owners
<1>6. /\ t \notin freed
      /\ index[t] \in 1..Len(slots[t]) /\ index[t] \in Nat
      /\ \A i \in 1..index[t] : slots[t][i] \in Terminals
      /\ \A u \in Terminals : at[u] \in Inserted \/ u = t =>
           \E i \in 1..index[t] : slots[t][i] = u
  BY <1>2 DEF Calm, TypeOK, Sound, CopyMade
<1>7. Len(slots[t]) \in Nat
  BY DEF Calm, TypeOK, Blocks
<1>8. Whole'
  <2>1. \A i : ~Late(i)'
    BY <1>2, <1>3 DEF Late, Inserted, Search
  <2>2. \A u \in Terminals : at'[u] \in Inserted => at[u] \in Inserted \/ u = t
    BY <1>2
  <2>3. index[t] <= Len(slots[t])
    BY <1>6, <1>7
  <2>4. QED
    BY <1>4, <1>5, <1>6, <2>1, <2>2, <2>3 DEF Whole
<1>9. Owners'
  <2>1. \A u \in Terminals : u # t => at'[u] # "last"
    BY <1>3 DEF Inserted, Search
  <2>2. QED
    BY <1>2, <1>4, <2>1 DEF Calm, Sound, Owners, Inserted
<1>10. CopyMade'
  BY <1>2, <1>3 DEF CopyMade, Inserted, Search
<1>11. Placed'
  BY <1>2, <1>3 DEF Placed, Inserted, Search
<1>12. Ahead'
  <2>1. \A u \in Terminals : at'[u] \notin Search
    BY <1>2, Alone DEF Calm, Moving, Search
  <2>2. QED
    BY <2>1 DEF Ahead
<1>13. QED
  BY <1>4, <1>8, <1>9, <1>10, <1>11, <1>12 DEF Safe, Sound, Calm

-----------------------------------------------------------------------------
(* The search.                                                             *)

\* No block is replaced during a search, and none of the places is late.
LEMMA WhileSearching ==
  ASSUME Calm, NEW t \in Terminals,
         \/ at[t] \in Search
         \/ at[t] = "listed" /\ at'[t] \in Search,
         \A u \in Terminals : u # t => at'[u] = at[u]
  PROVE  /\ \A u \in Terminals : at[u] \notin Moving
         /\ last[1] = first /\ first \notin freed
         /\ last[2] \in Nat /\ Len(slots[first]) \in Nat
         /\ last[2] <= Len(slots[first])
         /\ \E i \in 1..last[2] : slots[first][i] = t
         /\ \A i \in 1..last[2] : slots[first][i] \in Terminals
<1>1. \A u \in Terminals : u # t => at[u] \notin Moving
  BY Alone DEF Calm
<1>2. at[t] \notin Placing \cup Moving /\ at[t] \in Inserted
  BY DEF Placing, Moving, Inserted, Search
<1>3. \A i : ~Late(i)
  <2> SUFFICES ASSUME NEW u \in Terminals, at[u] = "late"
               PROVE  FALSE
    BY DEF Late
  <2>1. ~inOrder /\ u # t /\ at[u] \in Placing /\ at'[u] = at[u]
    BY <1>2 DEF Calm, Sound, Placed, Placing
  <2>2. QED
    BY <2>1, Alone DEF Calm
<1>4. \A u \in Terminals : at[u] \notin {"first", "last"}
  BY <1>1, <1>2 DEF Moving
<1>5. last[2] \in Nat /\ Len(slots[first]) \in Nat
  BY DEF Calm, TypeOK
<1>6. QED
  BY <1>1, <1>2, <1>3, <1>4, <1>5 DEF Calm, Sound, Whole

\* A step of a search changes nothing of the vector.
LEMMA SearchFrame ==
  ASSUME Calm, NEW t \in Terminals,
         at[t] \in Inserted, at'[t] \in Inserted,
         \A u \in Terminals : u # t => at'[u] = at[u] /\ index'[u] = index[u],
         UNCHANGED <<inOrder, first, last, end, slots, freed, address>>,
         at'[t] \in Search =>
           /\ index'[t] >= 1
           /\ \E i \in index'[t]..last[2] : slots[first][i] = t
           /\ at'[t] = "get" => index'[t] <= last[2]
  PROVE  Sound'
<1>1. /\ \A u \in Terminals : at'[u] \in Inserted <=> at[u] \in Inserted
      /\ \A u \in Terminals : \A a \in Placing \cup Moving :
           at'[u] = a <=> at[u] = a
  BY DEF Placing, Moving, Inserted, Search
<1>2. at[t] \notin Placing \cup Moving
  BY DEF Placing, Moving, Inserted, Search
<1>3. \A i : Late(i)' <=> Late(i)
  BY <1>1 DEF Late, Placing
<1>4. Whole'
  BY <1>1, <1>3 DEF Calm, Sound, Whole, Moving
<1>5. Owners'
  BY <1>1 DEF Calm, Sound, Owners, Moving
<1>6. CopyMade'
  <2> SUFFICES ASSUME NEW v \in Terminals, at'[v] \in {"free", "first", "last"}
               PROVE  /\ v \notin freed
                      /\ index'[v] \in 1..Len(slots[v])
                      /\ \A i \in 1..index'[v] : slots[v][i] \in Terminals
                      /\ \A u \in Terminals : at'[u] \in Inserted \/ u = v =>
                           \E i \in 1..index'[v] : slots[v][i] = u
    BY DEF CopyMade
  <2>1. v # t /\ at[v] \in {"free", "first", "last"} /\ index'[v] = index[v]
    BY DEF Inserted, Search
  <2>2. QED
    BY <1>1, <2>1 DEF Calm, Sound, CopyMade
<1>7. Placed'
  BY <1>1 DEF Calm, Sound, Placed, Placing
<1>8. Ahead'
  BY DEF Calm, Sound, Ahead
<1>9. QED
  BY <1>4, <1>5, <1>6, <1>7, <1>8 DEF Sound

LEMMA SearchSafe ==
  ASSUME Calm, NEW t \in Terminals, Begin(t) \/ Test(t) \/ Miss(t) \/ Get(t)
  PROVE  Safe'
<1> USE DEF vectorVars, memoryVars, threadVars, resultVars
<1>1. {"listed", "test", "get"} \subseteq Steps
  BY DEF Steps, Inserted, Search
<1>2. CASE Begin(t)
  <2>1. /\ at[t] = "listed" /\ at'[t] = "test"
        /\ \A u \in Terminals : u # t => at'[u] = at[u]
    BY <1>1, <1>2, GotoShape DEF Begin, Calm
  <2>2. index'[t] = 1 /\ \A u \in Terminals : u # t => index'[u] = index[u]
    BY <1>2 DEF Begin, Calm, TypeOK
  <2>3. \E i \in 1..last[2] : slots[first][i] = t
    BY <2>1, WhileSearching DEF Search
  <2>4. UNCHANGED <<inOrder, first, last, end, slots, freed, address, crashed,
                    denied>>
    BY <1>2 DEF Begin
  <2>5. Sound'
    BY <2>1, <2>2, <2>3, <2>4, SearchFrame DEF Inserted, Search
  <2>6. QED
    BY <2>4, <2>5 DEF Safe, Calm
<1>3. CASE Test(t)
  <2>1. /\ at[t] = "test" /\ at'[t] = "get"
        /\ \A u \in Terminals : u # t => at'[u] = at[u]
    BY <1>1, <1>3, GotoShape DEF Test, Calm
  <2>2. last[1] = first
    BY <2>1, WhileSearching DEF Search
  <2>3. index[t] <= last[2]
    BY <1>3, <2>2 DEF Test, InRange
  <2>4. index[t] >= 1 /\ \E i \in index[t]..last[2] : slots[first][i] = t
    BY <2>1 DEF Calm, Sound, Ahead, Search
  <2>5. UNCHANGED <<inOrder, first, last, end, slots, freed, address, index,
                    crashed, denied>>
    BY <1>3 DEF Test
  <2>6. Sound'
    BY <2>1, <2>3, <2>4, <2>5, SearchFrame DEF Inserted, Search
  <2>7. QED
    BY <2>5, <2>6 DEF Safe, Calm
<1>4. CASE Miss(t)
  <2>1. /\ at[t] = "test" /\ at'[t] = "listed"
        /\ \A u \in Terminals : u # t => at'[u] = at[u]
    BY <1>1, <1>4, GotoShape DEF Miss, Calm
  <2>2. last[1] = first /\ last[2] \in Nat
    BY <2>1, WhileSearching DEF Search
  <2>3. index[t] \in Nat /\ \E i \in index[t]..last[2] : slots[first][i] = t
    BY <2>1 DEF Calm, TypeOK, Sound, Ahead, Search
  <2>4. index[t] <= last[2]
    BY <2>2, <2>3
  <2>5. QED
    BY <1>4, <2>2, <2>4 DEF Miss, InRange
<1>5. CASE Get(t)
  <2>1. /\ at[t] = "get" /\ at'[t] \in {"listed", "test"}
        /\ \A u \in Terminals : u # t => at'[u] = at[u]
    BY <1>1, <1>5, GotoShape DEF Get, Calm
  <2>2. /\ first \notin freed /\ last[2] <= Len(slots[first])
        /\ last[2] \in Nat /\ Len(slots[first]) \in Nat
        /\ \A i \in 1..last[2] : slots[first][i] \in Terminals
    BY <2>1, WhileSearching DEF Search
  <2>3. /\ index[t] >= 1 /\ index[t] <= last[2] /\ index[t] \in Nat
        /\ \E i \in index[t]..last[2] : slots[first][i] = t
    BY <2>1 DEF Calm, TypeOK, Sound, Ahead, Search
  <2>4. Slot(first, index[t]) = slots[first][index[t]]
    <3>1. slots[first] \in Seq(Blocks)
      BY DEF Calm, TypeOK
    <3>2. index[t] \in DOMAIN slots[first]
      BY <2>2, <2>3, <3>1, LenProperties
    <3>3. QED
      BY <2>2, <3>2 DEF Slot
  <2>5. Slot(first, index[t]) \in Terminals
    BY <2>2, <2>3, <2>4
  <2>6. Slot(first, index[t]) # None
    BY <2>5, HandlesAssumption
  <2>7. UNCHANGED <<inOrder, first, last, end, slots, freed, address, crashed,
                    denied>>
    BY <1>5, <2>6 DEF Get
  <2>8. CASE Slot(first, index[t]) = t
    <3>1. at'[t] = "listed" /\ index' = index
      <4>1. Goto(t, "get", "listed") /\ index' = index
        BY <1>5, <2>6, <2>8 DEF Get
      <4>2. QED
        BY <1>1, <4>1, GotoShape DEF Calm
    <3>2. Sound'
      BY <2>1, <2>7, <3>1, SearchFrame DEF Inserted, Search
    <3>3. QED
      BY <2>7, <3>2 DEF Safe, Calm
  <2>9. CASE Slot(first, index[t]) # t
    <3>1. /\ Goto(t, "get", "test")
          /\ index' = [index EXCEPT ![t] = index[t] + 1]
      BY <1>5, <2>6, <2>9 DEF Get
    <3>2. /\ at'[t] = "test" /\ index'[t] = index[t] + 1
          /\ \A u \in Terminals : u # t => index'[u] = index[u]
      BY <1>1, <3>1, GotoShape DEF Calm, TypeOK
    <3>3. \E i \in index'[t]..last[2] : slots[first][i] = t
      BY <2>2, <2>3, <2>4, <2>9, <3>2
    <3>4. Sound'
      BY <2>1, <2>3, <2>7, <3>2, <3>3, SearchFrame DEF Inserted, Search
    <3>5. QED
      BY <2>7, <3>4 DEF Safe, Calm
  <2>10. QED
    BY <2>8, <2>9
<1>6. QED
  BY <1>2, <1>3, <1>4, <1>5

-----------------------------------------------------------------------------
(* The theorems.                                                           *)

LEMMA HandlesInvCorrect == Spec => []HandlesInv
<1>1. Init => HandlesInv
  BY InitSafe
<1>2. HandlesInv /\ [Next]_vars => HandlesInv'
  <2> SUFFICES ASSUME HandlesInv, [Next]_vars
               PROVE  HandlesInv'
    OBVIOUS
  <2>1. CASE Next
    <3> PICK t \in Terminals :
          \/ Insert(t) \/ Store(t) \/ Bump(t)
          \/ Grow(t) \/ Free(t) \/ SetFirst(t) \/ SetLast(t)
          \/ Begin(t) \/ Test(t) \/ Miss(t) \/ Get(t)
      BY <2>1 DEF Next
    <3>1. TypeOK'
      BY TypeStep DEF HandlesInv
    <3>2. PICK from, to \in Steps : Goto(t, from, to)
      <4>1. {"new", "store", "bump", "early", "late", "grow", "free", "first",
             "last", "listed", "test", "get"} \subseteq Steps
        BY DEF Steps, Placing, Moving, Inserted, Search
      <4>2. QED
        BY <4>1 DEF Insert, Store, Bump, Grow, Free, SetFirst, SetLast, Begin,
                    Test, Miss, Get
    <3>3. ~overlapped' => ~overlapped /\ ~Overlap(at')
      BY <3>2, GotoShape DEF HandlesInv
    <3>4. ASSUME ~overlapped'
          PROVE  Safe'
      <4>1. Calm
        BY <3>1, <3>3, <3>4 DEF HandlesInv, Calm
      <4>2. QED
        BY <4>1, InsertSafe, StoreSafe, BumpSafe, GrowSafe, FreeSafe,
           SetFirstSafe, SetLastSafe, SearchSafe
    <3>5. ~overlapped' => ~Overlap(at)'
      <4>1. inOrder' = inOrder
        BY DEF Insert, Store, Bump, Grow, Free, SetFirst, SetLast, Begin, Test,
               Miss, Get, vectorVars
      <4>2. QED
        BY <3>3, <4>1 DEF Overlap
    <3>6. QED
      BY <3>1, <3>4, <3>5 DEF HandlesInv, Safe
  <2>2. CASE UNCHANGED vars
    BY <2>2 DEF vars, vectorVars, memoryVars, threadVars, resultVars, HandlesInv,
                TypeOK, Sound, Whole, Late, Owners, CopyMade, Placed, Ahead,
                Overlap
  <2>3. QED
    BY <2>1, <2>2
<1>3. QED
  BY <1>1, <1>2, PTL DEF Spec

\* However many terminals share the vector, each one that was inserted is
\* found, and no search reads freed or unwritten memory, until two insertions
\* are made at once or one moves the vector during a search; where stores
\* may change places, until an insertion meets a search (conpty.cc:163-175,
\* 325).
THEOREM SafeUnlessMovedTheorem == Spec => []SafeUnlessMoved
<1>1. HandlesInv => SafeUnlessMoved
  BY DEF HandlesInv, SafeUnlessMoved
<1>2. QED
  BY <1>1, HandlesInvCorrect, PTL
=============================================================================
