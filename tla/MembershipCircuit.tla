-------------------------- MODULE MembershipCircuit --------------------------
(***************************************************************************)
(* pkg/circuit and the part of pkg/prover that assigns it: the constraints *)
(* of the membership circuit, next to the native tree whose roots and      *)
(* proofs it is given.  The two hash the same things in two ways: natively *)
(* bytes, with PoseidonHash; in the circuit field elements, with a gadget  *)
(* that keeps its state between two Sums until it is Reset.                *)
(***************************************************************************)
EXTENDS MerkleTree

(* Values of a direction wire that differ for somebody: 0, 1 and the rest. *)
Directions == {0, 1, 2}

(* gnark's MiMC gadget, which a Sum leaves in the state of its digest: the state
   after Reset, and the digest of blocks written from a given state. *)
Reset(state) == Zero
Sum2(state, left, right) == Absorb(Absorb(state, left), right)

(* Mutation: the gadget is not reset between two hashes. *)
ClimbOnOldState(h, sibling, direction) ==
  LET left   == IF direction = 1 THEN sibling ELSE h.current
      right  == IF direction = 1 THEN h.current ELSE sibling
      digest == Sum2(h.state, left, right)
  IN  [state |-> digest, current |-> digest]

(* One level of the loop of Define and of MerkleVerifier.VerifyProof: state is
   the gadget's, current the running hash.  Select(d, a, b) is a if d = 1. *)
Climb(h, sibling, direction) ==
  LET left   == IF direction = 1 THEN sibling ELSE h.current
      right  == IF direction = 1 THEN h.current ELSE sibling
      digest == Sum2(Reset(h.state), left, right)
  IN  [state |-> digest, current |-> digest]

(* MerkleVerifier.VerifyProof: the hashes it goes through, and the root it returns. *)
Hashes(state, leaf, elements, directions) ==
  LET level[n \in 0..Len(elements)] ==
        IF n = 0 THEN [state |-> state, current |-> leaf]
        ELSE Climb(level[n-1], elements[n], directions[n])
  IN  level
CircuitRoot(state, leaf, elements, directions) ==
  Hashes(state, leaf, elements, directions)[Len(elements)].current

(* Define: an assignment w satisfies every constraint.  The secret is a field
   element here, so no secret is refused. *)
Satisfied(w) ==
  LET computedLeaf == Absorb(Zero, w.Secret)
  IN  /\ computedLeaf = w.LeafHash
      /\ \A n \in DOMAIN w.PathIndices : w.PathIndices[n] \in {0, 1}
      /\ CircuitRoot(computedLeaf, computedLeaf, w.PathElements, w.PathIndices) = w.Root

(* Mutation: a path longer than the circuit is not cut. *)
FitUncut(path, zero, depth) ==
  [n \in 1..(IF depth < Len(path) THEN Len(path) ELSE depth) |->
     IF n <= Len(path) THEN path[n] ELSE zero]

(* Prove: the path is padded with zeros, or cut, to the circuit's depth, ... *)
Fit(path, zero, depth) == [n \in 1..depth |-> IF n <= Len(path) THEN path[n] ELSE zero]

(* ... and NewWitness makes field elements of the numbers. *)
Assignment(w, depth) ==
  LET fitted == Fit(w.PathElements, Zero, depth)
  IN  [ Secret |-> w.Secret,
        PathElements |-> [n \in DOMAIN fitted |-> Element(fitted[n])],
        PathIndices  |-> Fit(w.PathIndices, 0, depth),
        Root |-> Element(w.Root), LeafHash |-> Element(w.LeafHash) ]

(* Prove returns a proof exactly if the assignment satisfies the circuit. *)
Proves(w, depth) == Satisfied(Assignment(w, depth))

(* The witness cmd/demo and the tests put together for the member at index i. *)
MemberWitness(secret, i) ==
  LET proof == GetProof(leaves, i)
  IN  [ Secret |-> secret, PathElements |-> proof.PathElements,
        PathIndices |-> proof.PathIndices,
        Root |-> GetRoot, LeafHash |-> HashToField(secret) ]

-----------------------------------------------------------------------------
(* The circuit accepts exactly what the native verifier accepts, for secrets the
   native hash accepts and binary directions; any other direction satisfies no
   assignment, although VerifyMerkleProof reads it as "right".  Numbers that are
   not reduced are the same to both, but for the root: VerifyMerkleProof compares
   the number, the circuit the element. *)
CircuitMatchesNative ==
  LET nodes == Numbers(AllNodes)
      roots == Numbers({GetRoot})
  IN  \A s \in Secrets \ Malformed, leafHash \in Numbers(Leaves), root \in roots,
         elements \in [1..Depth -> nodes], directions \in [1..Depth -> Directions] :
        Proves([Secret |-> s, LeafHash |-> leafHash, Root |-> root,
                PathElements |-> elements, PathIndices |-> directions], Depth)
          <=> /\ Element(leafHash) = HashToField(s)
              /\ \A n \in 1..Depth : directions[n] \in {0, 1}
              /\ VerifyMerkleProof(leafHash, Element(root),
                   [PathElements |-> elements, PathIndices |-> directions])

(* A member whose secret the native hash accepts gets a proof from a prover of
   the tree's depth, and from no prover of another depth: the zeros Prove fills
   a short path with, and the levels it drops, lead to another root. *)
MembersProveAtTreeDepth ==
  \A s \in Secrets \ Malformed, i \in 0..nextLeaf-1, depth \in 1..Depth+1 :
    leaves[i] = HashToField(s) => (Proves(MemberWitness(s, i), depth) <=> depth = Depth)

(* What the tests of pkg/circuit, pkg/prover and pkg/e2e and the demo expect of
   every member: InsertSecret, GetProof and Prove with the same secret succeed. *)
MembersProve ==
  \A s \in Secrets, i \in 0..nextLeaf-1 :
    leaves[i] = HashToField(s) => Proves(MemberWitness(s, i), Depth)
=============================================================================
