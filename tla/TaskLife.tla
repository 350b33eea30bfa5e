------------------------------- MODULE TaskLife -------------------------------
(***************************************************************************)
(* The life of a task as an MCP client may rely on it: a task is admitted  *)
(* while there is room, settles once and for good in one of three ways,    *)
(* and is forgotten only after it has settled.                             *)
(***************************************************************************)
EXTENDS Naturals, FiniteSets

CONSTANTS TaskIds,   \* the ids tasks may have
          Capacity   \* how many tasks may be known at once

VARIABLE phase       \* of each id

Settled == {"Completed", "Failed", "Cancelled"}

Known == {t \in TaskIds : phase[t] # "absent"}

\* A set of tasks that may be forgotten.
Forgettable == SUBSET {t \in TaskIds : phase[t] \in Settled}

Without(gone) == [t \in TaskIds |-> IF t \in gone THEN "absent" ELSE phase[t]]

Init == phase = [t \in TaskIds |-> "absent"]

\* A new task is let in; settled ones may be forgotten to make room for it.
Admit(t) ==
  /\ phase[t] = "absent"
  /\ \E gone \in Forgettable :
       /\ Cardinality(Known \ gone) < Capacity
       /\ phase' = [Without(gone) EXCEPT ![t] = "Working"]

Settle(t) ==
  /\ phase[t] = "Working"
  /\ \E how \in Settled : phase' = [phase EXCEPT ![t] = how]

Forget == \E gone \in Forgettable : phase' = Without(gone)

Next == Forget \/ \E t \in TaskIds : Admit(t) \/ Settle(t)

Spec == Init /\ [][Next]_phase
=============================================================================
