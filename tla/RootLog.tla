------------------------------ MODULE RootLog ------------------------------
(***************************************************************************)
(* What a durable record of Merkle roots promises, without saying how it   *)
(* is laid out: roots are recorded before they become current, records     *)
(* only go when nothing is current, and a crash takes the record back to a *)
(* state it really was in and never past what is already safe on disk.     *)
(***************************************************************************)
EXTENDS Naturals, Sequences

CONSTANTS Roots, NoRoot

VARIABLE states
  \* The states of the record that a crash may still fall back to, oldest first.

Latest == states[Len(states)]
Becomes(state) == states' = Append(states, state)

Init == states = <<[recorded |-> {}, current |-> NoRoot]>>

Record(r) == Becomes([Latest EXCEPT !.recorded = @ \cup {r}])
Adopt(r)  == r \in Latest.recorded /\ Becomes([Latest EXCEPT !.current = r])
Retire    == Becomes([Latest EXCEPT !.current = NoRoot])
Purge     == Latest.current = NoRoot /\ Becomes([Latest EXCEPT !.recorded = {}])
Persist   == Len(states) > 1 /\ states' = Tail(states)
Recover   == \E n \in DOMAIN states : states' = <<states[n]>>

Next ==
  \/ \E r \in Roots : Record(r) \/ Adopt(r)
  \/ Retire
  \/ Purge
  \/ Persist
  \/ Recover

Spec == Init /\ [][Next]_states
=============================================================================
