--------------------------- MODULE ProverService ---------------------------
(***************************************************************************)
(* What a Groth16 prover promises its callers, without saying how its keys *)
(* are stored or guarded: there is one pair of keys at a time, every call  *)
(* uses it as a whole, and a proof is valid under the keys it was made     *)
(* with and under no other.                                                *)
(***************************************************************************)
EXTENDS Naturals

VARIABLES
  key,           \* the pair of keys in use, by the number of its setup
  proofs,        \* the setups whose proofs are about
  exported,      \* the setups whose verification keys are about
  answer         \* what the last verification said

vars == <<key, proofs, exported, answer>>

Init ==
  /\ key = 1
  /\ proofs = {} /\ exported = {}
  /\ answer = [by |-> "nobody", proof |-> 0, valid |-> FALSE]

Rekey    == key' \in Nat /\ key' > key /\ UNCHANGED <<proofs, exported, answer>>
Prove    == proofs' = proofs \cup {key} /\ UNCHANGED <<key, exported, answer>>
Export   == exported' = exported \cup {key} /\ UNCHANGED <<key, proofs, answer>>
Says(who, p, k) ==
  /\ answer' = [by |-> who, proof |-> p, valid |-> p = k]
  /\ UNCHANGED <<key, proofs, exported>>

Next ==
  \/ Rekey \/ Prove \/ Export
  \/ \E p \in proofs : Says("prover", p, key) \/ (\E k \in exported : Says("verifier", p, k))

Spec == Init /\ [][Next]_vars
=============================================================================
