---------------------------- MODULE PoseidonHash ----------------------------
(***************************************************************************)
(* pkg/merkle/poseidon.go: MiMC behind a Poseidon name.                     *)
(*                                                                         *)
(* MiMC compresses a state and a field element into a new state.  It is    *)
(* taken to be free of collisions, so the compression is a constructor and *)
(* a digest is the term that built it.                                     *)
(***************************************************************************)
EXTENDS Sequences

CONSTANTS
  Strings,       \* byte strings members hash, beside the 32 zero bytes
  Malformed      \* those MiMC's Write refuses: not whole canonical 32-byte blocks

(* The field element 0, which is also the state after Reset, and its 32 bytes.  It
   is the term without parts: no digest is 0. *)
Zero == << >>

Secrets == Strings \cup {Zero}

ASSUME MalformedAssumption == Malformed \subseteq Strings /\ Zero \notin Malformed

(* A big.Int is a field element or not reduced: x plus multiples of the modulus, for
   an element x, one such number standing for all. *)
Unreduced(x) == <<x>>
Numbers(elements) == elements \cup {Unreduced(x) : x \in elements}

(* SetBigInt: the field element a big.Int is congruent to. *)
Element(number) == IF Len(number) = 1 THEN number[1] ELSE number

(* MiMC's state after one more block. *)
Absorb(state, block) == <<state, block>>

(* hasher.Write: a refused block leaves the state alone, and every caller in
   poseidon.go ignores the error. *)
Write(state, data) == IF data \in Malformed THEN state ELSE Absorb(state, data)

(* HashElements of two: Reset, two Writes, Sum.  The blocks are the canonical bytes
   of the reduced numbers, so Write takes them. *)
HashElements(left, right) == Absorb(Absorb(Zero, Element(left)), Element(right))

(* HashToField, HashToBigInt: the leaf of a secret. *)
HashToField(data) == Write(Zero, data)

(* EmptyLeaf: the digest of the element 0, which is also the leaf of the secret
   of 32 zero bytes. *)
EmptyLeaf == HashToField(Zero)
=============================================================================
