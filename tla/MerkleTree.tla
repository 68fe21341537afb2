----------------------------- MODULE MerkleTree -----------------------------
(***************************************************************************)
(* pkg/merkle/tree.go: an append-only sparse Merkle tree of fixed depth.   *)
(* Only the nodes above inserted leaves are computed, every other node is  *)
(* the precomputed hash of an empty subtree of its height.                 *)
(***************************************************************************)
EXTENDS Integers, Sequences, PoseidonHash

CONSTANT Depth   \* the depth NewMerkleTree was called with

ASSUME DepthAssumption == Depth \in Nat \ {0}

VARIABLES
  leaves,        \* MerkleTree.leaves: index -> leaf hash
  nextLeaf,      \* MerkleTree.nextLeaf
  inserted       \* what the last Insert returned, -1 with an error

vars == <<leaves, nextLeaf, inserted>>

(* Width[n] is 1 << n. *)
Width[n \in 0..Depth] == IF n = 0 THEN 1 ELSE 2 * Width[n-1]
Capacity == Width[Depth]
Leaves == {HashToField(s) : s \in Secrets}

(* zeros[n]: the hash of an empty subtree of height n. *)
zeros[n \in 0..Depth] == IF n = 0 THEN EmptyLeaf ELSE HashElements(zeros[n-1], zeros[n-1])

(* Mutation: the empty leaf stands for every missing node. *)
GetNodeOrEmptyLeaf(nodes, i, level) == IF i \in DOMAIN nodes THEN nodes[i] ELSE zeros[0]

(* getNodeOrZero *)
GetNodeOrZero(nodes, i, level) == IF i \in DOMAIN nodes THEN nodes[i] ELSE zeros[level]

(* One round of the loops of computeRoot and buildLevels: the parents of the
   nodes of a level, and no others. *)
Parents(nodes, level) ==
  [p \in {i \div 2 : i \in DOMAIN nodes} |->
     HashElements(GetNodeOrZero(nodes, 2 * p, level), GetNodeOrZero(nodes, 2 * p + 1, level))]

(* buildLevels of a tree whose leaves are row, which is level 0. *)
BuildLevels(row) ==
  LET levels[n \in 0..Depth] == IF n = 0 THEN row ELSE Parents(levels[n-1], n - 1)
  IN  levels

(* computeRoot repeats that loop and keeps only the last level. *)
ComputeRoot(row) ==
  LET top == BuildLevels(row)[Depth] IN IF 0 \in DOMAIN top THEN top[0] ELSE zeros[Depth]

GetRoot == IF nextLeaf = 0 THEN zeros[Depth] ELSE ComputeRoot(leaves)

(* Mutation: the sibling is always on the right. *)
RightNeighbour(i) == i + 1

(* idx ^ 1 *)
Sibling(i) == IF i % 2 = 0 THEN i + 1 ELSE i - 1

(* The values of currentIdx in GetProof. *)
Ancestors(index) ==
  LET at[n \in 0..Depth] == IF n = 0 THEN index ELSE at[n-1] \div 2
  IN  at

(* GetProof of a tree whose leaves are row, for an index in it. *)
GetProof(row, index) ==
  LET levels == BuildLevels(row)
      at == Ancestors(index)
  IN  [ PathElements |-> [n \in 1..Depth |-> GetNodeOrZero(levels[n-1], Sibling(at[n-1]), n - 1)],
        PathIndices  |-> [n \in 1..Depth |-> at[n-1] % 2] ]

(* Mutation: the direction bits are not looked at. *)
PathDigestLeft(leafHash, proof) ==
  LET current[n \in 0..Len(proof.PathElements)] ==
        IF n = 0 THEN leafHash ELSE HashElements(current[n-1], proof.PathElements[n])
  IN  current[Len(proof.PathElements)]

(* The values of current in VerifyMerkleProof, and the last one. *)
Digests(leafHash, proof) ==
  LET current[n \in 0..Len(proof.PathElements)] ==
        IF n = 0 THEN leafHash
        ELSE IF proof.PathIndices[n] = 0 THEN HashElements(current[n-1], proof.PathElements[n])
        ELSE HashElements(proof.PathElements[n], current[n-1])
  IN  current
PathDigest(leafHash, proof) == Digests(leafHash, proof)[Len(proof.PathElements)]

VerifyMerkleProof(leafHash, root, proof) == PathDigest(leafHash, proof) = root

-----------------------------------------------------------------------------
(* NewMerkleTree *)
Init ==
  /\ leaves = << >>
  /\ nextLeaf = 0
  /\ inserted = -1

(* Mutation: one leaf too many. *)
InsertOneTooMany(leafHash) ==
  /\ nextLeaf <= Capacity
  /\ leaves' = [i \in DOMAIN leaves \cup {nextLeaf} |->
                  IF i = nextLeaf THEN leafHash ELSE leaves[i]]
  /\ nextLeaf' = nextLeaf + 1
  /\ inserted' = nextLeaf

(* Insert, which InsertBytes and InsertSecret end with. *)
Insert(leafHash) ==
  /\ nextLeaf < Capacity
  /\ leaves' = [i \in DOMAIN leaves \cup {nextLeaf} |->
                  IF i = nextLeaf THEN leafHash ELSE leaves[i]]
  /\ nextLeaf' = nextLeaf + 1
  /\ inserted' = nextLeaf

(* Mutation: a full tree starts over at the first leaf. *)
InsertWrapped ==
  /\ nextLeaf >= Capacity
  /\ inserted' = 0
  /\ leaves' = [leaves EXCEPT ![0] = EmptyLeaf]
  /\ UNCHANGED nextLeaf

(* Insert into a full tree returns an error. *)
InsertFull ==
  /\ nextLeaf >= Capacity
  /\ inserted' = -1
  /\ UNCHANGED <<leaves, nextLeaf>>

Next == (\E leafHash \in Leaves : Insert(leafHash)) \/ InsertFull

Spec == Init /\ [][Next]_vars

-----------------------------------------------------------------------------
(* The full tree, as a textbook defines it: every leaf is there, an inserted
   one or an empty one, and every node is the hash of its two children. *)
Padded(row) == [i \in 0..Capacity-1 |-> IF i \in DOMAIN row THEN row[i] ELSE EmptyLeaf]
FullTree(bottom) ==
  LET level[n \in 0..Depth] ==
        IF n = 0 THEN bottom
        ELSE [i \in 0..Width[Depth-n]-1 |-> HashElements(level[n-1][2 * i], level[n-1][2 * i + 1])]
  IN  level
FullRoot == FullTree(Padded(leaves))[Depth][0]

(* Every proof somebody could put together from hashes that occur in the tree. *)
AllNodes ==
  LET levels == BuildLevels(leaves)
  IN  {zeros[n] : n \in 0..Depth}
        \cup (UNION {{levels[n][i] : i \in DOMAIN levels[n]} : n \in 0..Depth})
Bits == [1..Depth -> {0, 1}]

(* The places on the way from the root down, if the bits of a proof say where to
   go, and the place of the leaf one gets to. *)
Descent(bits) ==
  LET place[n \in 0..Depth] == IF n = 0 THEN 0 ELSE 2 * place[n-1] + bits[Depth - n + 1]
  IN  place
IndexOf(bits) == Descent(bits)[Depth]

(* Leaves are stored without gaps and the counter says how many. *)
TypeOK ==
  /\ nextLeaf \in 0..Capacity
  /\ leaves \in [0..nextLeaf-1 -> Leaves]
  /\ inserted \in -1..Capacity-1

(* The root of the sparse computation is the root of the full tree, at every
   fill level from the empty tree to the full one. *)
SparseRootIsFullRoot == GetRoot = FullRoot

(* Completeness: the proof GetProof gives for an inserted leaf verifies against
   GetRoot, whatever its place and however full the tree is. *)
InsertedLeavesVerify ==
  \A i \in 0..nextLeaf-1 : VerifyMerkleProof(leaves[i], GetRoot, GetProof(leaves, i))

(* Soundness up to the modulus: a full-depth proof that VerifyMerkleProof accepts is
   the proof of the leaf at the place its bits name, an inserted leaf or the
   padding, or of a number congruent to it, for HashElements reduces what it
   hashes and VerifyMerkleProof compares nothing but the root.  Two leaves, two
   places or two siblings are never confused. *)
OnlyTreeLeavesVerify ==
  LET root == GetRoot
      nodes == Numbers(AllNodes)
  IN  \A l \in Numbers(Leaves \cup {Zero}), bits \in Bits, elements \in [1..Depth -> nodes] :
        VerifyMerkleProof(l, root, [PathElements |-> elements, PathIndices |-> bits])
          => Element(l) = Padded(leaves)[IndexOf(bits)]

(* A proof taken before an Insert verifies against the root after it exactly if
   the root is the same one, and the root is the same one exactly if the insert
   failed or the new leaf is the empty leaf, which no root tells from a free
   place. *)
StaleProofsFail ==
  [][LET same == GetRoot' = GetRoot
     IN  /\ same <=> (nextLeaf' = nextLeaf \/ leaves'[nextLeaf] = EmptyLeaf)
         /\ \A i \in 0..nextLeaf-1 :
              VerifyMerkleProof(leaves[i], GetRoot', GetProof(leaves, i)) <=> same]_vars
=============================================================================
