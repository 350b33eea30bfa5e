------------------------------ MODULE BuildSlots ------------------------------
(***************************************************************************)
(* What the build gate promises, without its atomics: at most Slots calls  *)
(* run, at most Places calls wait, in the order in which they began to     *)
(* wait, nobody waits beside a free slot, and a slot that comes free while *)
(* somebody waits passes to the first in line in the same instant.         *)
(***************************************************************************)
EXTENDS Naturals, FiniteSets, Sequences, SequencesExt

CONSTANTS Calls,   \* who may ask for a slot
          Slots,   \* how many may run at once, at least one
          Places   \* how many may wait

VARIABLES running,  \* the calls that own a slot
          line      \* the calls that wait, first come first

slotVars == <<running, line>>

Init == running = {} /\ line = <<>>

\* A free slot, and nobody before us.
Start(c) ==
  /\ c \notin running
  /\ line = <<>>
  /\ Cardinality(running) < Slots
  /\ running' = running \cup {c}
  /\ UNCHANGED line

\* All slots taken, a place left.
Join(c) ==
  /\ c \notin running
  /\ \A i \in 1..Len(line) : line[i] # c
  /\ Cardinality(running) = Slots
  /\ Len(line) < Places
  /\ line' = Append(line, c)
  /\ UNCHANGED running

\* A waiter gives up.
Quit(c) ==
  /\ \E i \in 1..Len(line) : line[i] = c /\ line' = RemoveAt(line, i)
  /\ UNCHANGED running

\* A slot comes free.
Finish(c) ==
  /\ c \in running
  /\ \/ /\ line = <<>>
        /\ running' = running \ {c}
        /\ UNCHANGED line
     \/ /\ line # <<>>
        /\ running' = (running \ {c}) \cup {Head(line)}
        /\ line' = Tail(line)

Next == \E c \in Calls : Start(c) \/ Join(c) \/ Quit(c) \/ Finish(c)

Spec == Init /\ [][Next]_slotVars
=============================================================================
