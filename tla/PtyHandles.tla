----------------------------- MODULE PtyHandles -----------------------------
(***************************************************************************)
(* ptyHandles, the vector in which expty_spawn of Windows inserts the      *)
(* batons of all terminals and get_pty_baton searches for them, on several *)
(* scheduler threads and without a lock (conpty.cc:163-175, 325).          *)
(*                                                                         *)
(* The vector is three pointers into a block of memory, as std::vector     *)
(* keeps them: an insertion into a full one copies it to a larger block,   *)
(* frees the old block and then sets the pointers.  A pointer is a block   *)
(* and a number of slots, a block is named for the terminal whose          *)
(* insertion allocated it.  What the program finds in memory that it has   *)
(* freed or never written is chosen: it crashes, or goes on with it.       *)
(***************************************************************************)
EXTENDS Naturals, Sequences

CONSTANT
  Terminals   \* the servers, which insert once and search any number of times

None == "none"   \* the null pointer; as a slot: nothing written

ASSUME HandlesAssumption == None \notin Terminals

Blocks == Terminals \cup {None}

VARIABLES
  inOrder,           \* stores of a thread are seen in its order (as on x86)
  first, last, end,  \* the vector
  slots,             \* the memory of each block
  freed,             \* blocks given back
  at,                \* the step of each terminal
  address,           \* where it stores its baton
  index,             \* i of its search; the size of the block it made
  crashed,           \* the Erlang VM has died
  denied,            \* has a terminal been told "Invalid pty handle"?
  overlapped         \* has an insertion overlapped another use? (Overlap)

vectorVars == <<inOrder, first, last, end>>
memoryVars == <<slots, freed>>
threadVars == <<address, index>>
resultVars == <<crashed, denied>>
vars == <<vectorVars, memoryVars, at, threadVars, resultVars, overlapped>>

Placing  == {"store", "bump", "early", "late"}
Moving   == {"grow", "free", "first", "last"}
Search   == {"test", "get"}
Inserted == {"listed"} \cup Search

TypeOK ==
  /\ inOrder \in BOOLEAN
  /\ first \in Blocks
  /\ last \in Blocks \X Nat /\ end \in Blocks \X Nat
  /\ slots \in [Blocks -> Seq(Blocks)]
  /\ freed \subseteq Terminals
  /\ at \in [Terminals -> {"new"} \cup Placing \cup Moving \cup Inserted]
  /\ address \in [Terminals -> Blocks \X Nat]
  /\ index \in [Terminals -> Nat]
  /\ crashed \in BOOLEAN /\ denied \in BOOLEAN /\ overlapped \in BOOLEAN

Init ==
  /\ inOrder \in BOOLEAN
  /\ first = None
  /\ last = <<None, 0>> /\ end = <<None, 0>>
  /\ slots = [b \in Blocks |-> <<>>]
  /\ freed = {}
  /\ at = [t \in Terminals |-> "new"]
  /\ address = [t \in Terminals |-> <<None, 0>>]
  /\ index = [t \in Terminals |-> 0]
  /\ crashed = FALSE /\ denied = FALSE /\ overlapped = FALSE

\* Two insertions at once, or one that moves the vector during a search;
\* if stores may change places, any insertion during a search.
Overlap(steps) ==
  \E t, u \in Terminals : t # u /\
    \/ steps[t] \in Placing \cup Moving /\ steps[u] \in Placing \cup Moving
    \/ steps[t] \in Moving /\ steps[u] \in Search
    \/ steps[t] \in Placing /\ steps[u] \in Search /\ ~inOrder

Goto(t, from, to) ==
  /\ ~crashed
  /\ at[t] = from
  /\ at' = [at EXCEPT ![t] = to]
  /\ overlapped' = (overlapped \/ Overlap(at'))

\* Nothing written is found outside a block and in one that was freed.
Slot(b, i) ==
  IF b \notin freed /\ i \in DOMAIN slots[b] THEN slots[b][i] ELSE None

-----------------------------------------------------------------------------
(* ptyHandles.insert(ptyHandles.end(), ...)                                *)

\* Is there room behind the last baton?  The two stores that place the new
\* one may be seen in the other order.
Insert(t) ==
  /\ \/ last # end /\ Goto(t, "new", "store")
     \/ last # end /\ ~inOrder /\ Goto(t, "new", "early")
     \/ last = end /\ Goto(t, "new", "grow")
  /\ address' = [address EXCEPT ![t] = last]
  /\ UNCHANGED <<vectorVars, memoryVars, index, resultVars>>

Store(t) ==
  /\ Goto(t, "store", "bump") \/ Goto(t, "late", "listed")
  /\ LET b == address[t][1]
         i == address[t][2] + 1
     IN  IF b \notin freed /\ i \in DOMAIN slots[b]
         THEN slots' = [slots EXCEPT ![b][i] = t] /\ UNCHANGED crashed
         ELSE UNCHANGED slots /\ crashed' \in BOOLEAN
  /\ UNCHANGED <<vectorVars, freed, threadVars, denied>>

Bump(t) ==
  /\ Goto(t, "bump", "listed") \/ Goto(t, "early", "late")
  /\ last' = <<last[1], last[2] + 1>>
  /\ UNCHANGED <<inOrder, first, end, memoryVars, threadVars, resultVars>>

\* A full vector is copied, with the new baton, to a block of up to twice
\* its size.
Copied(t, size) ==
  [i \in 1..size |-> IF i <= last[2] THEN Slot(first, i)
                     ELSE IF i = last[2] + 1 THEN t ELSE None]

Grow(t) ==
  /\ Goto(t, "grow", "free")
  /\ \E size \in last[2] + 1..2 * last[2] + 1 :
       slots' = [slots EXCEPT ![t] = Copied(t, size)]
  /\ index' = [index EXCEPT ![t] = last[2] + 1]
  /\ crashed' \in BOOLEAN
  /\ crashed' => first \in freed \/ last[1] # first
  /\ UNCHANGED <<vectorVars, freed, address, denied>>

\* A block freed twice ends the program.
Free(t) ==
  /\ Goto(t, "free", "first")
  /\ freed' = freed \cup ({first} \ {None})
  /\ crashed' = (first \in freed)
  /\ UNCHANGED <<vectorVars, slots, threadVars, denied>>

SetFirst(t) ==
  /\ Goto(t, "first", "last")
  /\ first' = t
  /\ UNCHANGED <<inOrder, last, end, memoryVars, threadVars, resultVars>>

SetLast(t) ==
  /\ Goto(t, "last", "listed")
  /\ last' = <<t, index[t]>>
  /\ end' = <<t, Len(slots[t])>>
  /\ UNCHANGED <<inOrder, first, memoryVars, threadVars, resultVars>>

-----------------------------------------------------------------------------
(* get_pty_baton, called by connect, write and resize.                     *)

Begin(t) ==
  /\ Goto(t, "listed", "test")
  /\ index' = [index EXCEPT ![t] = 1]
  /\ UNCHANGED <<vectorVars, memoryVars, address, resultVars>>

\* Slip: the loop leaves the last one out.
InRangeShort(t) == index[t] < last[2]

\* i < ptyHandles.size()
InRange(t) == index[t] <= last[2]

\* The size means nothing while the pointers are of different blocks.
Test(t) ==
  /\ Goto(t, "test", "get")
  /\ InRange(t) \/ first # last[1]
  /\ UNCHANGED <<vectorVars, memoryVars, threadVars, resultVars>>

Miss(t) ==
  /\ Goto(t, "test", "listed")
  /\ ~InRange(t) \/ first # last[1]
  /\ denied' = TRUE
  /\ UNCHANGED <<vectorVars, memoryVars, threadVars, crashed>>

\* ptyHandle->id == id; a stale baton may still be the right one.
Get(t) ==
  LET baton == Slot(first, index[t])
  IN  /\ \/ /\ baton = t
            /\ Goto(t, "get", "listed")
            /\ UNCHANGED <<index, resultVars>>
         \/ /\ baton \in Terminals \ {t}
            /\ Goto(t, "get", "test")
            /\ index' = [index EXCEPT ![t] = @ + 1]
            /\ UNCHANGED resultVars
         \/ /\ baton = None
            /\ Goto(t, "get", "listed")
            /\ crashed' \in BOOLEAN /\ denied' \in {denied, TRUE}
            /\ UNCHANGED index
      /\ UNCHANGED <<vectorVars, memoryVars, address>>

-----------------------------------------------------------------------------
Next ==
  \E t \in Terminals :
    \/ Insert(t) \/ Store(t) \/ Bump(t)
    \/ Grow(t) \/ Free(t) \/ SetFirst(t) \/ SetLast(t)
    \/ Begin(t) \/ Test(t) \/ Miss(t) \/ Get(t)

Spec == Init /\ [][Next]_vars

-----------------------------------------------------------------------------
(* Properties.                                                             *)

\* A terminal that was inserted is found, and the search reads only batons,
\* also while another one is placed behind them; unless two insertions were
\* made at once, or one moved the vector during a search (conpty.cc:163-175,
\* 325).
SafeUnlessMoved == crashed \/ denied => overlapped

\* "Fetch pty handle from ID" (conpty.cc:364, 472): the baton of a terminal that
\* was spawned is found.
HandleFetched == ~denied
=============================================================================
