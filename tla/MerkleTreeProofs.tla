-------------------------- MODULE MerkleTreeProofs --------------------------
(***************************************************************************)
(* Proofs about MerkleTree, for trees of every depth and any leaves.  The  *)
(* definitions recur over the levels, so the proofs are by induction over  *)
(* the levels.                                                             *)
(***************************************************************************)
EXTENDS MerkleTree, WellFoundedInduction, TLAPS

-----------------------------------------------------------------------------
(* Induction.                                                                *)

(* Induction up to N, for a set of numbers in the place of a property of them: a
   least number of 0..N that is not in T would have its predecessor in T. *)
LEMMA Induction ==
  ASSUME NEW N \in Nat, NEW T, 0 \in T, \A n \in 0..N-1 : n \in T => n + 1 \in T
  PROVE  0..N \subseteq T
<1> DEFINE Less == {ss \in Nat \X Nat : ss[1] < ss[2]}
           Rest == {n \in 0..N : n \notin T}
<1>1. IsWellFoundedOn(Less, Nat)
  BY NatLessThanWellFounded DEF OpToRel
<1>2. \A x, y \in Nat : y < x => <<y, x>> \in Less
  OBVIOUS
<1>3. Rest \subseteq Nat
  OBVIOUS
<1> HIDE DEF Less
<1> SUFFICES ASSUME Rest # {} PROVE FALSE
  OBVIOUS
<1>4. PICK x \in Rest : \A y \in Rest : ~ (<<y, x>> \in Less)
  <2> HIDE DEF Rest
  <2> QED
    BY <1>1, <1>3, WFMin
<1>5. x \in 1..N /\ x \notin T
  OBVIOUS
<1>6. x - 1 \in 0..N-1 /\ (x - 1) + 1 = x
  BY <1>5
<1>7. x - 1 \in Rest
  BY <1>5, <1>6
<1>8. <<x - 1, x>> \in Less
  BY <1>2, <1>5, <1>6
<1>9. QED
  BY <1>4, <1>7, <1>8

-----------------------------------------------------------------------------
(* Each recursive function is the one its equation describes: there is one for  *)
(* every number of levels, as it can be extended by a level.                    *)

LEMMA WidthEquation ==
  Width = [n \in 0..Depth |-> IF n = 0 THEN 1 ELSE 2 * Width[n-1]]
<1> DEFINE Step(x, n) == 2 * x
           Fits(m, f) == f = [n \in 0..m |-> IF n = 0 THEN 1 ELSE Step(f[n-1], n)]
<1> HIDE DEF Step
<1>1. \E f : Fits(0, f)
  <2>1. Fits(0, [n \in 0..0 |-> 1])
    OBVIOUS
  <2>2. QED
    BY <2>1
<1>2. ASSUME NEW m \in Nat, NEW f, Fits(m, f)
      PROVE  \E g : Fits(m + 1, g)
  <2> DEFINE g == [n \in 0..m+1 |-> IF n = m + 1 THEN Step(f[m], m + 1) ELSE f[n]]
  <2>1. Fits(m + 1, g)
    BY <1>2
  <2> HIDE DEF g, Fits
  <2>2. QED
    BY <2>1
<1> HIDE DEF Fits
<1>3. \E f : Fits(Depth, f)
  <2> DEFINE T == {m \in Nat : \E f : Fits(m, f)}
  <2>1. 0 \in T /\ \A m \in 0..Depth-1 : m \in T => m + 1 \in T
    BY <1>1, <1>2
  <2> HIDE DEF T
  <2>2. 0..Depth \subseteq T
    BY <2>1, Induction, DepthAssumption
  <2>3. Depth \in T
    BY <2>2, DepthAssumption
  <2>4. QED
    BY <2>3 DEF T
<1>4. Width = CHOOSE f : Fits(Depth, f)
  BY DEF Width, Fits, Step
<1>5. Fits(Depth, Width)
  BY <1>3, <1>4
<1>6. QED
  BY <1>5 DEF Fits, Step

LEMMA ZerosEquation ==
  zeros = [n \in 0..Depth |-> IF n = 0 THEN EmptyLeaf ELSE HashElements(zeros[n-1], zeros[n-1])]
<1> DEFINE Step(x, n) == HashElements(x, x)
           Fits(m, f) == f = [n \in 0..m |-> IF n = 0 THEN EmptyLeaf ELSE Step(f[n-1], n)]
<1> HIDE DEF Step
<1>1. \E f : Fits(0, f)
  <2>1. Fits(0, [n \in 0..0 |-> EmptyLeaf])
    OBVIOUS
  <2>2. QED
    BY <2>1
<1>2. ASSUME NEW m \in Nat, NEW f, Fits(m, f)
      PROVE  \E g : Fits(m + 1, g)
  <2> DEFINE g == [n \in 0..m+1 |-> IF n = m + 1 THEN Step(f[m], m + 1) ELSE f[n]]
  <2>1. Fits(m + 1, g)
    BY <1>2
  <2> HIDE DEF g, Fits
  <2>2. QED
    BY <2>1
<1> HIDE DEF Fits
<1>3. \E f : Fits(Depth, f)
  <2> DEFINE T == {m \in Nat : \E f : Fits(m, f)}
  <2>1. 0 \in T /\ \A m \in 0..Depth-1 : m \in T => m + 1 \in T
    BY <1>1, <1>2
  <2> HIDE DEF T
  <2>2. 0..Depth \subseteq T
    BY <2>1, Induction, DepthAssumption
  <2>3. Depth \in T
    BY <2>2, DepthAssumption
  <2>4. QED
    BY <2>3 DEF T
<1>4. zeros = CHOOSE f : Fits(Depth, f)
  BY DEF zeros, Fits, Step
<1>5. Fits(Depth, zeros)
  BY <1>3, <1>4
<1>6. QED
  BY <1>5 DEF Fits, Step

LEMMA LevelsEquation ==
  ASSUME NEW row
  PROVE  LET levels == BuildLevels(row)
         IN  levels = [n \in 0..Depth |-> IF n = 0 THEN row ELSE Parents(levels[n-1], n - 1)]
<1> DEFINE Step(x, n) == Parents(x, n - 1)
           Fits(m, f) == f = [n \in 0..m |-> IF n = 0 THEN row ELSE Step(f[n-1], n)]
<1> HIDE DEF Step
<1>1. \E f : Fits(0, f)
  <2>1. Fits(0, [n \in 0..0 |-> row])
    OBVIOUS
  <2>2. QED
    BY <2>1
<1>2. ASSUME NEW m \in Nat, NEW f, Fits(m, f)
      PROVE  \E g : Fits(m + 1, g)
  <2> DEFINE g == [n \in 0..m+1 |-> IF n = m + 1 THEN Step(f[m], m + 1) ELSE f[n]]
  <2>1. Fits(m + 1, g)
    BY <1>2
  <2> HIDE DEF g, Fits
  <2>2. QED
    BY <2>1
<1> HIDE DEF Fits
<1>3. \E f : Fits(Depth, f)
  <2> DEFINE T == {m \in Nat : \E f : Fits(m, f)}
  <2>1. 0 \in T /\ \A m \in 0..Depth-1 : m \in T => m + 1 \in T
    BY <1>1, <1>2
  <2> HIDE DEF T
  <2>2. 0..Depth \subseteq T
    BY <2>1, Induction, DepthAssumption
  <2>3. Depth \in T
    BY <2>2, DepthAssumption
  <2>4. QED
    BY <2>3 DEF T
<1>4. BuildLevels(row) = CHOOSE f : Fits(Depth, f)
  BY DEF BuildLevels, Fits, Step
<1>5. Fits(Depth, BuildLevels(row))
  BY <1>3, <1>4
<1>6. QED
  BY <1>5 DEF Fits, Step

LEMMA AncestorsEquation ==
  ASSUME NEW index
  PROVE  Ancestors(index) = [n \in 0..Depth |-> IF n = 0 THEN index ELSE Ancestors(index)[n-1] \div 2]
<1> DEFINE Step(x, n) == x \div 2
           Fits(m, f) == f = [n \in 0..m |-> IF n = 0 THEN index ELSE Step(f[n-1], n)]
<1> HIDE DEF Step
<1>1. \E f : Fits(0, f)
  <2>1. Fits(0, [n \in 0..0 |-> index])
    OBVIOUS
  <2>2. QED
    BY <2>1
<1>2. ASSUME NEW m \in Nat, NEW f, Fits(m, f)
      PROVE  \E g : Fits(m + 1, g)
  <2> DEFINE g == [n \in 0..m+1 |-> IF n = m + 1 THEN Step(f[m], m + 1) ELSE f[n]]
  <2>1. Fits(m + 1, g)
    BY <1>2
  <2> HIDE DEF g, Fits
  <2>2. QED
    BY <2>1
<1> HIDE DEF Fits
<1>3. \E f : Fits(Depth, f)
  <2> DEFINE T == {m \in Nat : \E f : Fits(m, f)}
  <2>1. 0 \in T /\ \A m \in 0..Depth-1 : m \in T => m + 1 \in T
    BY <1>1, <1>2
  <2> HIDE DEF T
  <2>2. 0..Depth \subseteq T
    BY <2>1, Induction, DepthAssumption
  <2>3. Depth \in T
    BY <2>2, DepthAssumption
  <2>4. QED
    BY <2>3 DEF T
<1>4. Ancestors(index) = CHOOSE f : Fits(Depth, f)
  BY DEF Ancestors, Fits, Step
<1>5. Fits(Depth, Ancestors(index))
  BY <1>3, <1>4
<1>6. QED
  BY <1>5 DEF Fits, Step

LEMMA DescentEquation ==
  ASSUME NEW bits
  PROVE  LET place == Descent(bits)
         IN  place = [n \in 0..Depth |-> IF n = 0 THEN 0 ELSE 2 * place[n-1] + bits[Depth - n + 1]]
<1> DEFINE Step(x, n) == 2 * x + bits[Depth - n + 1]
           Fits(m, f) == f = [n \in 0..m |-> IF n = 0 THEN 0 ELSE Step(f[n-1], n)]
<1> HIDE DEF Step
<1>1. \E f : Fits(0, f)
  <2>1. Fits(0, [n \in 0..0 |-> 0])
    OBVIOUS
  <2>2. QED
    BY <2>1
<1>2. ASSUME NEW m \in Nat, NEW f, Fits(m, f)
      PROVE  \E g : Fits(m + 1, g)
  <2> DEFINE g == [n \in 0..m+1 |-> IF n = m + 1 THEN Step(f[m], m + 1) ELSE f[n]]
  <2>1. Fits(m + 1, g)
    BY <1>2
  <2> HIDE DEF g, Fits
  <2>2. QED
    BY <2>1
<1> HIDE DEF Fits
<1>3. \E f : Fits(Depth, f)
  <2> DEFINE T == {m \in Nat : \E f : Fits(m, f)}
  <2>1. 0 \in T /\ \A m \in 0..Depth-1 : m \in T => m + 1 \in T
    BY <1>1, <1>2
  <2> HIDE DEF T
  <2>2. 0..Depth \subseteq T
    BY <2>1, Induction, DepthAssumption
  <2>3. Depth \in T
    BY <2>2, DepthAssumption
  <2>4. QED
    BY <2>3 DEF T
<1>4. Descent(bits) = CHOOSE f : Fits(Depth, f)
  BY DEF Descent, Fits, Step
<1>5. Fits(Depth, Descent(bits))
  BY <1>3, <1>4
<1>6. QED
  BY <1>5 DEF Fits, Step

LEMMA FullTreeEquation ==
  ASSUME NEW bottom
  PROVE  LET F == FullTree(bottom)
         IN  F = [n \in 0..Depth |-> IF n = 0 THEN bottom
                                     ELSE [i \in 0..Width[Depth-n]-1 |->
                                             HashElements(F[n-1][2 * i], F[n-1][2 * i + 1])]]
<1> DEFINE Step(x, n) == [i \in 0..Width[Depth-n]-1 |-> HashElements(x[2 * i], x[2 * i + 1])]
           Fits(m, f) == f = [n \in 0..m |-> IF n = 0 THEN bottom ELSE Step(f[n-1], n)]
<1> HIDE DEF Step
<1>1. \E f : Fits(0, f)
  <2>1. Fits(0, [n \in 0..0 |-> bottom])
    OBVIOUS
  <2>2. QED
    BY <2>1
<1>2. ASSUME NEW m \in Nat, NEW f, Fits(m, f)
      PROVE  \E g : Fits(m + 1, g)
  <2> DEFINE g == [n \in 0..m+1 |-> IF n = m + 1 THEN Step(f[m], m + 1) ELSE f[n]]
  <2>1. Fits(m + 1, g)
    BY <1>2
  <2> HIDE DEF g, Fits
  <2>2. QED
    BY <2>1
<1> HIDE DEF Fits
<1>3. \E f : Fits(Depth, f)
  <2> DEFINE T == {m \in Nat : \E f : Fits(m, f)}
  <2>1. 0 \in T /\ \A m \in 0..Depth-1 : m \in T => m + 1 \in T
    BY <1>1, <1>2
  <2> HIDE DEF T
  <2>2. 0..Depth \subseteq T
    BY <2>1, Induction, DepthAssumption
  <2>3. Depth \in T
    BY <2>2, DepthAssumption
  <2>4. QED
    BY <2>3 DEF T
<1>4. FullTree(bottom) = CHOOSE f : Fits(Depth, f)
  BY DEF FullTree, Fits, Step
<1>5. Fits(Depth, FullTree(bottom))
  BY <1>3, <1>4
<1>6. QED
  BY <1>5 DEF Fits, Step

LEMMA DigestsEquation ==
  ASSUME NEW leafHash, NEW proof, Len(proof.PathElements) \in Nat
  PROVE  LET d == Digests(leafHash, proof)
         IN  d = [n \in 0..Len(proof.PathElements) |->
                    IF n = 0 THEN leafHash
                    ELSE IF proof.PathIndices[n] = 0 THEN HashElements(d[n-1], proof.PathElements[n])
                    ELSE HashElements(proof.PathElements[n], d[n-1])]
<1> DEFINE Step(x, n) == IF proof.PathIndices[n] = 0 THEN HashElements(x, proof.PathElements[n])
                                                     ELSE HashElements(proof.PathElements[n], x)
           Fits(m, f) == f = [n \in 0..m |-> IF n = 0 THEN leafHash ELSE Step(f[n-1], n)]
<1> HIDE DEF Step
<1>1. \E f : Fits(0, f)
  <2>1. Fits(0, [n \in 0..0 |-> leafHash])
    OBVIOUS
  <2>2. QED
    BY <2>1
<1>2. ASSUME NEW m \in Nat, NEW f, Fits(m, f)
      PROVE  \E g : Fits(m + 1, g)
  <2> DEFINE g == [n \in 0..m+1 |-> IF n = m + 1 THEN Step(f[m], m + 1) ELSE f[n]]
  <2>1. Fits(m + 1, g)
    BY <1>2
  <2> HIDE DEF g, Fits
  <2>2. QED
    BY <2>1
<1> HIDE DEF Fits
<1>3. \E f : Fits(Len(proof.PathElements), f)
  <2> DEFINE T == {m \in Nat : \E f : Fits(m, f)}
  <2>1. 0 \in T /\ \A m \in 0..Len(proof.PathElements)-1 : m \in T => m + 1 \in T
    BY <1>1, <1>2
  <2> HIDE DEF T
  <2>2. 0..Len(proof.PathElements) \subseteq T
    BY <2>1, Induction
  <2>3. Len(proof.PathElements) \in T
    BY <2>2
  <2>4. QED
    BY <2>3 DEF T
<1>4. Digests(leafHash, proof) = CHOOSE f : Fits(Len(proof.PathElements), f)
  BY DEF Digests, Fits, Step
<1>5. Fits(Len(proof.PathElements), Digests(leafHash, proof))
  BY <1>3, <1>4
<1>6. QED
  BY <1>5 DEF Fits, Step

-----------------------------------------------------------------------------
(* Arithmetic of places.                                                     *)

LEMMA WidthFacts ==
  /\ Width[0] = 1
  /\ \A n \in 0..Depth : Width[n] \in Nat \ {0}
  /\ \A n \in 0..Depth-1 : Width[Depth-n] = 2 * Width[Depth-(n+1)]
<1> DEFINE T == {n \in 0..Depth : Width[n] \in Nat \ {0}}
<1>1. Width[0] = 1 /\ \A n \in 1..Depth : Width[n] = 2 * Width[n-1]
  BY WidthEquation, DepthAssumption
<1>2. 0..Depth \subseteq T
  <2>1. 0 \in T /\ \A n \in 0..Depth-1 : n \in T => n + 1 \in T
    BY <1>1, DepthAssumption
  <2> HIDE DEF T
  <2>2. QED
    BY <2>1, Induction, DepthAssumption
<1>3. ASSUME NEW n \in 0..Depth-1
      PROVE  Width[Depth-n] = 2 * Width[Depth-(n+1)]
  <2>1. Depth - n \in 1..Depth /\ (Depth - n) - 1 = Depth - (n + 1)
    BY DepthAssumption
  <2>2. QED
    BY <1>1, <2>1
<1>4. QED
  BY <1>1, <1>2, <1>3

(* The two children of a place, and their parent. *)
LEMMA Family ==
  ASSUME NEW n \in 0..Depth-1, NEW i \in 0..Width[Depth-(n+1)]-1
  PROVE  /\ 2 * i \in 0..Width[Depth-n]-1 /\ 2 * i + 1 \in 0..Width[Depth-n]-1
         /\ (2 * i) \div 2 = i /\ (2 * i + 1) \div 2 = i
<1>1. Depth - (n + 1) \in 0..Depth
  BY DepthAssumption
<1>2. QED
  BY <1>1, WidthFacts

LEMMA Ancestry ==
  ASSUME NEW n \in 0..Depth-1, NEW i \in 0..Width[Depth-n]-1
  PROVE  /\ i \div 2 \in 0..Width[Depth-(n+1)]-1
         /\ Sibling(i) \in 0..Width[Depth-n]-1
         /\ i % 2 \in {0, 1}
         /\ i % 2 = 0 => i = 2 * (i \div 2) /\ Sibling(i) = 2 * (i \div 2) + 1
         /\ i % 2 = 1 => i = 2 * (i \div 2) + 1 /\ Sibling(i) = 2 * (i \div 2)
<1>1. Depth - (n + 1) \in 0..Depth
  BY DepthAssumption
<1>2. Width[Depth-(n+1)] \in Nat \ {0} /\ Width[Depth-n] = 2 * Width[Depth-(n+1)]
  BY <1>1, WidthFacts
<1> DEFINE w == Width[Depth-(n+1)]
           p == i \div 2
<1>3. i = 2 * p + (i % 2) /\ i % 2 \in {0, 1} /\ p \in Nat
  BY <1>2
<1>4. Sibling(i) = IF i % 2 = 0 THEN 2 * p + 1 ELSE 2 * p
  BY <1>3 DEF Sibling
<1>5. p <= w - 1
  BY <1>2, <1>3
<1>6. QED
  BY <1>2, <1>3, <1>4, <1>5

LEMMA FullLevels ==
  ASSUME NEW bottom
  PROVE  /\ FullTree(bottom)[0] = bottom
         /\ \A n \in 0..Depth-1 : \A i \in 0..Width[Depth-(n+1)]-1 :
              FullTree(bottom)[n+1][i]
                = HashElements(FullTree(bottom)[n][2 * i], FullTree(bottom)[n][2 * i + 1])
<1> DEFINE F == FullTree(bottom)
<1>1. F = [n \in 0..Depth |-> IF n = 0 THEN bottom ELSE
             [i \in 0..Width[Depth-n]-1 |-> HashElements(F[n-1][2 * i], F[n-1][2 * i + 1])]]
  BY FullTreeEquation
<1> HIDE DEF F
<1>2. F[0] = bottom
  BY <1>1, DepthAssumption
<1>3. ASSUME NEW n \in 0..Depth-1, NEW i \in 0..Width[Depth-(n+1)]-1
      PROVE  F[n+1][i] = HashElements(F[n][2 * i], F[n][2 * i + 1])
  <2>1. n + 1 \in 0..Depth /\ n + 1 # 0 /\ (n + 1) - 1 = n
    BY DepthAssumption
  <2>2. F[n+1] = [j \in 0..Width[Depth-(n+1)]-1 |-> HashElements(F[n][2 * j], F[n][2 * j + 1])]
    BY <1>1, <2>1
  <2>3. QED
    BY <2>2
<1>4. QED
  BY <1>2, <1>3 DEF F

-----------------------------------------------------------------------------
(* The sparse tree is the full tree.                                         *)

LEMMA SparseLevels ==
  ASSUME NEW row
  PROVE  /\ BuildLevels(row)[0] = row
         /\ \A n \in 0..Depth-1 : BuildLevels(row)[n+1] = Parents(BuildLevels(row)[n], n)
<1> DEFINE L == BuildLevels(row)
<1>1. L = [n \in 0..Depth |-> IF n = 0 THEN row ELSE Parents(L[n-1], n - 1)]
  BY LevelsEquation
<1> HIDE DEF L
<1>2. L[0] = row
  BY <1>1, DepthAssumption
<1>3. ASSUME NEW n \in 0..Depth-1
      PROVE  L[n+1] = Parents(L[n], n)
  <2>1. n + 1 \in 0..Depth /\ n + 1 # 0 /\ (n + 1) - 1 = n
    BY DepthAssumption
  <2>2. QED
    BY <1>1, <2>1
<1>4. QED
  BY <1>2, <1>3 DEF L

(* getNodeOrZero answers what the full tree has at the place. *)
LEMMA SparseNodes ==
  ASSUME NEW row
  PROVE  \A n \in 0..Depth : \A i \in 0..Width[Depth-n]-1 :
           GetNodeOrZero(BuildLevels(row)[n], i, n) = FullTree(Padded(row))[n][i]
<1> DEFINE L == BuildLevels(row)
           F == FullTree(Padded(row))
           T == {n \in 0..Depth : \A i \in 0..Width[Depth-n]-1 : GetNodeOrZero(L[n], i, n) = F[n][i]}
<1>1. zeros[0] = EmptyLeaf /\ \A n \in 0..Depth-1 : zeros[n+1] = HashElements(zeros[n], zeros[n])
  BY ZerosEquation, DepthAssumption
<1>2. L[0] = row /\ F[0] = Padded(row)
  BY SparseLevels, FullLevels
<1>3. 0 \in T
  <2>1. \A i \in 0..Capacity-1 : GetNodeOrZero(row, i, 0) = Padded(row)[i]
    BY <1>1 DEF Padded, GetNodeOrZero
  <2>2. Width[Depth-0] = Capacity
    BY DepthAssumption DEF Capacity
  <2>3. QED
    BY <1>2, <2>1, <2>2, DepthAssumption
<1>4. ASSUME NEW n \in 0..Depth-1, n \in T
      PROVE  n + 1 \in T
  <2>1. L[n+1] = Parents(L[n], n)
    BY SparseLevels
  <2>2. ASSUME NEW i \in 0..Width[Depth-(n+1)]-1
        PROVE  GetNodeOrZero(L[n+1], i, n + 1) = F[n+1][i]
    <3>1. F[n+1][i] = HashElements(GetNodeOrZero(L[n], 2 * i, n), GetNodeOrZero(L[n], 2 * i + 1, n))
      BY <1>4, Family, FullLevels
    <3>2. CASE i \in DOMAIN L[n+1]
      BY <2>1, <3>1, <3>2 DEF Parents, GetNodeOrZero
    <3>3. CASE i \notin DOMAIN L[n+1]
      <4>1. 2 * i \notin DOMAIN L[n] /\ 2 * i + 1 \notin DOMAIN L[n]
        BY <2>1, <3>3, Family DEF Parents
      <4>2. QED
        BY <1>1, <3>1, <3>3, <4>1 DEF GetNodeOrZero
    <3>4. QED
      BY <3>2, <3>3
  <2>3. QED
    BY <2>2, DepthAssumption
<1>5. 0..Depth \subseteq T
  <2> HIDE DEF T
  <2>1. QED
    BY <1>3, <1>4, Induction, DepthAssumption
<1>6. QED
  BY <1>5

LEMMA SparseRoot ==
  ASSUME NEW row
  PROVE  ComputeRoot(row) = FullTree(Padded(row))[Depth][0]
<1>1. Depth \in 0..Depth /\ 0 \in 0..Width[Depth-Depth]-1
  BY WidthFacts, DepthAssumption
<1>2. QED
  BY <1>1, SparseNodes DEF ComputeRoot, GetNodeOrZero

(* The root of an empty tree needs no case of its own. *)
LEMMA EmptyRoot ==
  ASSUME NEW row, DOMAIN row = {}
  PROVE  ComputeRoot(row) = zeros[Depth]
<1> DEFINE L == BuildLevels(row)
           T == {n \in 0..Depth : DOMAIN L[n] = {}}
<1>1. 0 \in T
  BY SparseLevels, DepthAssumption
<1>2. ASSUME NEW n \in 0..Depth-1, n \in T
      PROVE  n + 1 \in T
  <2>1. L[n+1] = Parents(L[n], n)
    BY SparseLevels
  <2>2. QED
    BY <1>2, <2>1, DepthAssumption DEF Parents
<1>3. 0..Depth \subseteq T
  <2> HIDE DEF T
  <2>1. QED
    BY <1>1, <1>2, Induction, DepthAssumption
<1>4. QED
  BY <1>3, DepthAssumption DEF ComputeRoot

LEMMA TypeInit == Init => TypeOK
<1> SUFFICES ASSUME Init PROVE TypeOK
  OBVIOUS
<1>1. Capacity \in Nat \ {0}
  BY WidthFacts, DepthAssumption DEF Capacity
<1>2. leaves \in [0..nextLeaf-1 -> Leaves]
  BY DEF Init
<1>3. QED
  BY <1>1, <1>2 DEF Init, TypeOK

LEMMA TypeStep == TypeOK /\ [Next]_vars => TypeOK'
<1> SUFFICES ASSUME TypeOK, [Next]_vars PROVE TypeOK'
  OBVIOUS
<1> USE DEF TypeOK
<1>1. Capacity \in Nat \ {0}
  BY WidthFacts, DepthAssumption DEF Capacity
<1>2. ASSUME NEW leafHash \in Leaves, Insert(leafHash)
      PROVE  TypeOK'
  <2>1. 0..nextLeaf'-1 = (DOMAIN leaves) \cup {nextLeaf}
    BY <1>2 DEF Insert
  <2>2. leaves' \in [0..nextLeaf'-1 -> Leaves]
    BY <1>2, <2>1 DEF Insert
  <2>3. QED
    BY <1>1, <1>2, <2>2 DEF Insert
<1>3. CASE InsertFull
  BY <1>1, <1>3 DEF InsertFull
<1>4. CASE UNCHANGED vars
  BY <1>4 DEF vars
<1>5. QED
  BY <1>2, <1>3, <1>4 DEF Next

(* Leaves are stored without gaps up to the counter, which never passes the capacity,
   in a tree of any depth. *)
THEOREM TreeTypeCorrect == Spec => []TypeOK
BY TypeInit, TypeStep, PTL DEF Spec

LEMMA RootIsComputed == TypeOK => GetRoot = ComputeRoot(leaves)
<1> SUFFICES ASSUME TypeOK PROVE GetRoot = ComputeRoot(leaves)
  OBVIOUS
<1>1. nextLeaf = 0 => DOMAIN leaves = {}
  BY DEF TypeOK
<1>2. QED
  BY <1>1, EmptyRoot DEF GetRoot

(* The root of the sparse computation is the root of the full tree, at every fill
   level of a tree of any depth. *)
THEOREM RootSafety == Spec => []SparseRootIsFullRoot
<1>1. TypeOK => SparseRootIsFullRoot
  BY RootIsComputed, SparseRoot DEF SparseRootIsFullRoot, FullRoot
<1>2. QED
  BY <1>1, TreeTypeCorrect, PTL

-----------------------------------------------------------------------------
(* Completeness.                                                             *)

(* A function on 1..n is a sequence of length n. *)
LEMMA Lengths ==
  ASSUME NEW n \in Nat, NEW path, DOMAIN path = 1..n, path = [i \in 1..n |-> path[i]]
  PROVE  Len(path) = n
<1>1. path \in [1..n -> {path[i] : i \in 1..n}]
  OBVIOUS
<1>2. QED
  BY <1>1

LEMMA PlacesAbove ==
  ASSUME NEW index \in 0..Capacity-1
  PROVE  /\ Ancestors(index)[0] = index
         /\ \A n \in 0..Depth-1 : Ancestors(index)[n+1] = Ancestors(index)[n] \div 2
         /\ \A n \in 0..Depth : Ancestors(index)[n] \in 0..Width[Depth-n]-1
<1> DEFINE at == Ancestors(index)
           T == {n \in 0..Depth : at[n] \in 0..Width[Depth-n]-1}
<1>1. at = [n \in 0..Depth |-> IF n = 0 THEN index ELSE at[n-1] \div 2]
  BY AncestorsEquation
<1> HIDE DEF at
<1>2. at[0] = index /\ \A n \in 0..Depth-1 : at[n+1] = at[n] \div 2
  BY <1>1, DepthAssumption
<1>3. 0 \in T
  BY <1>2, DepthAssumption DEF Capacity
<1>4. ASSUME NEW n \in 0..Depth-1, n \in T
      PROVE  n + 1 \in T
  BY <1>2, <1>4, Ancestry, DepthAssumption
<1>5. 0..Depth \subseteq T
  <2> HIDE DEF T
  <2>1. QED
    BY <1>3, <1>4, Induction, DepthAssumption
<1>6. QED
  BY <1>2, <1>5 DEF at

(* One round of VerifyMerkleProof. *)
LEMMA DigestSteps ==
  ASSUME NEW leafHash, NEW proof, Len(proof.PathElements) \in Nat
  PROVE  LET digests == Digests(leafHash, proof) IN
         /\ digests[0] = leafHash
         /\ \A n \in 0..Len(proof.PathElements)-1 :
              digests[n+1] = IF proof.PathIndices[n+1] = 0
                               THEN HashElements(digests[n], proof.PathElements[n+1])
                               ELSE HashElements(proof.PathElements[n+1], digests[n])
<1> DEFINE d == Digests(leafHash, proof)
           N == Len(proof.PathElements)
<1>1. d = [n \in 0..N |-> IF n = 0 THEN leafHash ELSE
             IF proof.PathIndices[n] = 0 THEN HashElements(d[n-1], proof.PathElements[n])
                                         ELSE HashElements(proof.PathElements[n], d[n-1])]
  BY DigestsEquation
<1> HIDE DEF d, N
<1>2. N \in Nat
  BY DEF N
<1>3. d[0] = leafHash
  BY <1>1, <1>2
<1>4. ASSUME NEW n \in 0..N-1
      PROVE  d[n+1] = IF proof.PathIndices[n+1] = 0
                        THEN HashElements(d[n], proof.PathElements[n+1])
                        ELSE HashElements(proof.PathElements[n+1], d[n])
  <2>1. n + 1 \in 0..N /\ n + 1 # 0 /\ (n + 1) - 1 = n
    BY <1>2
  <2>2. QED
    BY <1>1, <2>1
<1>5. QED
  BY <1>3, <1>4 DEF d, N

LEMMA ProofShape ==
  ASSUME NEW row, NEW index
  PROVE  /\ Len(GetProof(row, index).PathElements) = Depth
         /\ Len(GetProof(row, index).PathIndices) = Depth
<1> DEFINE elements == GetProof(row, index).PathElements
           indices == GetProof(row, index).PathIndices
<1>1. /\ DOMAIN elements = 1..Depth /\ elements = [n \in 1..Depth |-> elements[n]]
      /\ DOMAIN indices = 1..Depth /\ indices = [n \in 1..Depth |-> indices[n]]
  BY DEF GetProof
<1> HIDE DEF elements, indices
<1>2. Len(elements) = Depth /\ Len(indices) = Depth
  BY <1>1, Lengths, DepthAssumption
<1>3. QED
  BY <1>2 DEF elements, indices

(* The digests on the way up from a leaf are the nodes above it. *)
LEMMA ProofClimbs ==
  ASSUME NEW row, NEW index \in 0..Capacity-1
  PROVE  \A n \in 0..Depth :
           Digests(Padded(row)[index], GetProof(row, index))[n]
             = FullTree(Padded(row))[n][Ancestors(index)[n]]
<1> DEFINE proof == GetProof(row, index)
           d == Digests(Padded(row)[index], proof)
           F == FullTree(Padded(row))
           at == Ancestors(index)
           T == {n \in 0..Depth : d[n] = F[n][at[n]]}
<1>1. /\ d[0] = Padded(row)[index]
      /\ \A n \in 0..Depth-1 :
           d[n+1] = IF proof.PathIndices[n+1] = 0
                      THEN HashElements(d[n], proof.PathElements[n+1])
                      ELSE HashElements(proof.PathElements[n+1], d[n])
  BY ProofShape, DigestSteps, DepthAssumption
<1>2. /\ at[0] = index
      /\ \A n \in 0..Depth-1 : at[n+1] = at[n] \div 2
      /\ \A n \in 0..Depth : at[n] \in 0..Width[Depth-n]-1
  BY PlacesAbove
<1>3. 0 \in T
  BY <1>1, <1>2, FullLevels, DepthAssumption
<1>4. ASSUME NEW n \in 0..Depth-1, n \in T
      PROVE  n + 1 \in T
  <2> DEFINE i == at[n]
  <2>1. i \in 0..Width[Depth-n]-1 /\ at[n+1] = i \div 2 /\ n \in 0..Depth
    BY <1>2, DepthAssumption
  <2>2. /\ proof.PathIndices[n+1] = i % 2
        /\ proof.PathElements[n+1] = GetNodeOrZero(BuildLevels(row)[n], Sibling(i), n)
    BY DepthAssumption DEF GetProof
  <2>3. proof.PathElements[n+1] = F[n][Sibling(i)]
    BY <2>1, <2>2, Ancestry, SparseNodes
  <2>4. F[n+1][i \div 2] = HashElements(F[n][2 * (i \div 2)], F[n][2 * (i \div 2) + 1])
    BY <2>1, Ancestry, FullLevels
  <2> HIDE DEF proof, d, F, i
  <2>5. d[n] = F[n][i]
    BY <1>4 DEF i
  <2>6. CASE i % 2 = 0
    <3>1. d[n+1] = HashElements(F[n][i], F[n][Sibling(i)])
      BY <1>1, <2>2, <2>3, <2>5, <2>6
    <3>2. d[n+1] = F[n+1][i \div 2]
      BY <2>1, <2>4, <2>6, <3>1, Ancestry
    <3>3. QED
      BY <2>1, <3>2, DepthAssumption
  <2>7. CASE i % 2 = 1
    <3>1. d[n+1] = HashElements(F[n][Sibling(i)], F[n][i])
      BY <1>1, <2>2, <2>3, <2>5, <2>7
    <3>2. d[n+1] = F[n+1][i \div 2]
      BY <2>1, <2>4, <2>7, <3>1, Ancestry
    <3>3. QED
      BY <2>1, <3>2, DepthAssumption
  <2>8. QED
    BY <2>1, <2>6, <2>7, Ancestry
<1>5. 0..Depth \subseteq T
  <2> HIDE DEF T
  <2>1. QED
    BY <1>3, <1>4, Induction, DepthAssumption
<1>6. QED
  BY <1>5

LEMMA TopPlace ==
  ASSUME NEW index \in 0..Capacity-1
  PROVE  Ancestors(index)[Depth] = 0
<1>1. Ancestors(index)[Depth] \in 0..Width[Depth-Depth]-1
  BY PlacesAbove, DepthAssumption
<1>2. QED
  BY <1>1, WidthFacts, DepthAssumption

LEMMA ProofVerifies ==
  ASSUME NEW row, NEW index \in 0..Capacity-1
  PROVE  PathDigest(Padded(row)[index], GetProof(row, index)) = ComputeRoot(row)
BY ProofClimbs, ProofShape, TopPlace, SparseRoot, DepthAssumption DEF PathDigest

LEMMA InsertedAre ==
  ASSUME TypeOK, NEW i \in 0..nextLeaf-1
  PROVE  i \in 0..Capacity-1 /\ Padded(leaves)[i] = leaves[i]
<1>1. Capacity \in Nat /\ i \in 0..Capacity-1
  BY WidthFacts, DepthAssumption DEF Capacity, TypeOK
<1>2. QED
  BY <1>1 DEF Padded, TypeOK

(* The proof of an inserted leaf verifies, in trees of any depth and fill level. *)
THEOREM CompletenessSafety == Spec => []InsertedLeavesVerify
<1>1. TypeOK => InsertedLeavesVerify
  BY InsertedAre, ProofVerifies, RootIsComputed DEF InsertedLeavesVerify, VerifyMerkleProof
<1>2. QED
  BY <1>1, TreeTypeCorrect, PTL

-----------------------------------------------------------------------------
(* Soundness.                                                                *)

LEMMA Elements ==
  /\ Element(Zero) = Zero
  /\ \A x : Element(Unreduced(x)) = x
  /\ \A x, y : Element(Absorb(x, y)) = Absorb(x, y)
<1>1. Len(Zero) = 0
  BY DEF Zero
<1>2. \A x : Len(<<x>>) = 1 /\ <<x>>[1] = x
  OBVIOUS
<1>3. \A x, y : Len(<<x, y>>) = 2
  OBVIOUS
<1>4. QED
  BY <1>1, <1>2, <1>3 DEF Element, Unreduced, Absorb

(* Digests are field elements, those of leaves too. *)
LEMMA DigestsAreElements ==
  /\ \A x, y : Element(HashElements(x, y)) = HashElements(x, y)
  /\ \A s : Element(HashToField(s)) = HashToField(s)
<1>1. \A x, y : Element(HashElements(x, y)) = HashElements(x, y)
  BY Elements DEF HashElements
<1>2. ASSUME NEW s
      PROVE  Element(HashToField(s)) = HashToField(s)
  BY Elements DEF HashToField, Write
<1>3. QED
  BY <1>1, <1>2

LEMMA NoCollisions ==
  ASSUME NEW a, NEW b, NEW c, NEW d, HashElements(a, b) = HashElements(c, d)
  PROVE  Element(a) = Element(c) /\ Element(b) = Element(d)
BY DEF HashElements, Absorb

(* If the leaves are field elements every node is. *)
LEMMA NodesAreElements ==
  ASSUME NEW bottom, \A i \in 0..Capacity-1 : Element(bottom[i]) = bottom[i]
  PROVE  \A n \in 0..Depth : \A i \in 0..Width[Depth-n]-1 :
           Element(FullTree(bottom)[n][i]) = FullTree(bottom)[n][i]
<1> DEFINE F == FullTree(bottom)
<1> SUFFICES ASSUME NEW n \in 0..Depth, NEW i \in 0..Width[Depth-n]-1
             PROVE  Element(F[n][i]) = F[n][i]
  OBVIOUS
<1>1. CASE n = 0
  BY <1>1, FullLevels, DepthAssumption DEF Capacity
<1>2. CASE n # 0
  <2> DEFINE m == n - 1
  <2>1. m \in 0..Depth-1 /\ m + 1 = n
    BY <1>2, DepthAssumption
  <2> HIDE DEF m
  <2>2. i \in 0..Width[Depth-(m+1)]-1
    BY <2>1
  <2>3. F[m+1][i] = HashElements(F[m][2 * i], F[m][2 * i + 1])
    BY <2>1, <2>2, FullLevels
  <2> HIDE DEF F
  <2>4. QED
    BY <2>1, <2>3, DigestsAreElements
<1>3. QED
  BY <1>1, <1>2

LEMMA LeavesAreElements ==
  ASSUME TypeOK
  PROVE  \A i \in 0..Capacity-1 : Padded(leaves)[i] \in Leaves
                                 /\ Element(Padded(leaves)[i]) = Padded(leaves)[i]
<1>1. \A i \in 0..Capacity-1 : Padded(leaves)[i] \in Leaves
  BY DEF Padded, Leaves, EmptyLeaf, Secrets, TypeOK
<1>2. QED
  BY <1>1, DigestsAreElements DEF Leaves

LEMMA PlacesBelow ==
  ASSUME NEW bits \in Bits
  PROVE  /\ Descent(bits)[0] = 0
         /\ \A m \in 0..Depth-1 : Descent(bits)[m+1] = 2 * Descent(bits)[m] + bits[Depth-m]
         /\ \A m \in 0..Depth : Descent(bits)[m] \in 0..Width[m]-1
<1> DEFINE place == Descent(bits)
           T == {m \in 0..Depth : place[m] \in 0..Width[m]-1}
<1>1. place = [n \in 0..Depth |-> IF n = 0 THEN 0 ELSE 2 * place[n-1] + bits[Depth - n + 1]]
  BY DescentEquation
<1> HIDE DEF place
<1>2. place[0] = 0
  BY <1>1, DepthAssumption
<1>3. ASSUME NEW m \in 0..Depth-1
      PROVE  place[m+1] = 2 * place[m] + bits[Depth-m]
  <2>1. m + 1 \in 0..Depth /\ m + 1 # 0 /\ (m + 1) - 1 = m /\ Depth - (m + 1) + 1 = Depth - m
    BY DepthAssumption
  <2>2. QED
    BY <1>1, <2>1
<1>4. 0 \in T
  BY <1>2, WidthFacts, DepthAssumption
<1>5. ASSUME NEW m \in 0..Depth-1, m \in T
      PROVE  m + 1 \in T
  <2>1. Width[m] \in Nat \ {0} /\ Width[m+1] = 2 * Width[m]
    BY WidthEquation, WidthFacts, DepthAssumption
  <2>2. bits[Depth-m] \in {0, 1}
    BY DepthAssumption DEF Bits
  <2>3. QED
    BY <1>3, <1>5, <2>1, <2>2, DepthAssumption
<1>6. 0..Depth \subseteq T
  <2> HIDE DEF T
  <2>1. QED
    BY <1>4, <1>5, Induction, DepthAssumption
<1>7. QED
  BY <1>2, <1>3, <1>6 DEF place

(* A full-depth path that leads to the root went through the nodes of the full tree:
   down from the root, equal digests have equal parts. *)
LEMMA PathIsInTree ==
  ASSUME NEW bottom, \A i \in 0..Capacity-1 : Element(bottom[i]) = bottom[i],
         NEW l, NEW elements, NEW bits \in Bits, Len(elements) = Depth,
         PathDigest(l, [PathElements |-> elements, PathIndices |-> bits]) = FullTree(bottom)[Depth][0]
  PROVE  Element(l) = bottom[IndexOf(bits)]
<1> DEFINE proof == [PathElements |-> elements, PathIndices |-> bits]
           d == Digests(l, proof)
           F == FullTree(bottom)
           place == Descent(bits)
           T == {m \in 0..Depth : Element(d[Depth-m]) = F[Depth-m][place[m]]}
<1>1. /\ d[0] = l
      /\ \A n \in 0..Depth-1 :
           d[n+1] = IF bits[n+1] = 0 THEN HashElements(d[n], elements[n+1])
                                     ELSE HashElements(elements[n+1], d[n])
  BY DigestSteps, DepthAssumption
<1>2. d[Depth] = F[Depth][0]
  BY DEF PathDigest
<1>3. \A n \in 0..Depth : \A i \in 0..Width[Depth-n]-1 : Element(F[n][i]) = F[n][i]
  BY NodesAreElements
<1>4. 0 \in T
  <2>1. place[0] = 0 /\ 0 \in 0..Width[Depth-Depth]-1
    BY PlacesBelow, WidthFacts, DepthAssumption
  <2> HIDE DEF d, F, place
  <2>2. Element(d[Depth]) = F[Depth][0]
    BY <1>2, <1>3, <2>1, DepthAssumption
  <2>3. QED
    BY <2>1, <2>2, DepthAssumption
<1>5. ASSUME NEW m \in 0..Depth-1, m \in T
      PROVE  m + 1 \in T
  <2> DEFINE n == Depth - (m + 1)
             p == place[m]
  <2>1. n \in 0..Depth-1 /\ n + 1 = Depth - m /\ Depth - (n + 1) = m /\ m \in 0..Depth
    BY DepthAssumption
  <2>2. p \in 0..Width[Depth-(n+1)]-1 /\ place[m+1] = 2 * p + bits[n+1]
    BY <2>1, PlacesBelow
  <2>3. F[n+1][p] = HashElements(F[n][2 * p], F[n][2 * p + 1])
    BY <2>1, <2>2, FullLevels
  <2>4. bits[n+1] \in {0, 1}
    BY <2>1, DepthAssumption DEF Bits
  <2>5. Element(d[n+1]) = F[n+1][p]
    BY <1>5, <2>1
  <2>6. /\ Element(F[n][2 * p]) = F[n][2 * p]
        /\ Element(F[n][2 * p + 1]) = F[n][2 * p + 1]
    <3> HIDE DEF F, n, p
    <3>1. 2 * p \in 0..Width[Depth-n]-1 /\ 2 * p + 1 \in 0..Width[Depth-n]-1
      BY <2>1, <2>2, Family
    <3>2. n \in 0..Depth
      BY <2>1, DepthAssumption
    <3>3. QED
      BY <1>3, <3>1, <3>2
  <2> HIDE DEF d, F, n, p, place
  <2>7. CASE bits[n+1] = 0
    <3>1. d[n+1] = HashElements(d[n], elements[n+1])
      BY <1>1, <2>1, <2>7
    <3>2. HashElements(d[n], elements[n+1]) = HashElements(F[n][2 * p], F[n][2 * p + 1])
      BY <2>3, <2>5, <3>1, DigestsAreElements
    <3>3. place[m+1] = 2 * p
      BY <2>2, <2>7, <2>1, WidthFacts, DepthAssumption
    <3>4. Element(d[n]) = F[n][place[m+1]]
      BY <2>6, <3>2, <3>3, NoCollisions
    <3>5. QED
      BY <3>4, DepthAssumption DEF n
  <2>8. CASE bits[n+1] = 1
    <3>0. ~ (bits[n+1] = 0)
      BY <2>8
    <3>1. d[n+1] = HashElements(elements[n+1], d[n])
      BY <1>1, <2>1, <3>0
    <3>2. HashElements(elements[n+1], d[n]) = HashElements(F[n][2 * p], F[n][2 * p + 1])
      BY <2>3, <2>5, <3>1, DigestsAreElements
    <3>3. place[m+1] = 2 * p + 1
      BY <2>2, <2>8
    <3>4. Element(d[n]) = F[n][place[m+1]]
      BY <2>6, <3>2, <3>3, NoCollisions
    <3>5. QED
      BY <3>4, DepthAssumption DEF n
  <2>9. QED
    BY <2>4, <2>7, <2>8
<1>6. 0..Depth \subseteq T
  <2> HIDE DEF T
  <2>1. QED
    BY <1>4, <1>5, Induction, DepthAssumption
<1>7. Element(d[0]) = F[0][place[Depth]]
  BY <1>6, DepthAssumption
<1>8. QED
  BY <1>1, <1>7, FullLevels DEF IndexOf

(* What VerifyMerkleProof accepts against the root of a tree is, up to multiples of the
   modulus, a leaf of the tree, or the padding, at the place the bits name: for trees of
   any depth, and more than the property asks, for path elements of any origin. *)
THEOREM SoundnessSafety == Spec => []OnlyTreeLeavesVerify
<1>1. TypeOK => OnlyTreeLeavesVerify
  <2> SUFFICES ASSUME TypeOK, NEW l \in Numbers(Leaves \cup {Zero}), NEW bits \in Bits,
                      NEW elements \in [1..Depth -> Numbers(AllNodes)],
                      VerifyMerkleProof(l, GetRoot, [PathElements |-> elements, PathIndices |-> bits])
               PROVE  Element(l) = Padded(leaves)[IndexOf(bits)]
    BY DEF OnlyTreeLeavesVerify
  <2>1. Len(elements) = Depth
    BY Lengths, DepthAssumption
  <2>2. GetRoot = FullTree(Padded(leaves))[Depth][0]
    BY RootIsComputed, SparseRoot
  <2>3. QED
    BY <2>1, <2>2, LeavesAreElements, PathIsInTree DEF VerifyMerkleProof
<1>2. QED
  BY <1>1, TreeTypeCorrect, PTL

-----------------------------------------------------------------------------
(* A proof is bound to its root.                                             *)

LEMMA RootTellsLeaves ==
  ASSUME NEW b, \A i \in 0..Capacity-1 : Element(b[i]) = b[i],
         NEW c, \A i \in 0..Capacity-1 : Element(c[i]) = c[i],
         FullTree(b)[Depth][0] = FullTree(c)[Depth][0]
  PROVE  \A i \in 0..Capacity-1 : b[i] = c[i]
<1> DEFINE F == FullTree(b)
           G == FullTree(c)
           T == {m \in 0..Depth : \A i \in 0..Width[m]-1 : F[Depth-m][i] = G[Depth-m][i]}
<1>0. \A n \in 0..Depth : \A i \in 0..Width[Depth-n]-1 :
        Element(F[n][i]) = F[n][i] /\ Element(G[n][i]) = G[n][i]
  BY NodesAreElements
<1>1. 0 \in T
  BY WidthFacts, DepthAssumption
<1>2. ASSUME NEW m \in 0..Depth-1, m \in T
      PROVE  m + 1 \in T
  <2> DEFINE n == Depth - (m + 1)
  <2>1. n \in 0..Depth-1 /\ n + 1 = Depth - m /\ Depth - (n + 1) = m /\ Depth - n = m + 1
    BY DepthAssumption
  <2>2. ASSUME NEW i \in 0..Width[m+1]-1
        PROVE  F[n][i] = G[n][i]
    <3> DEFINE p == i \div 2
    <3>1. p \in 0..Width[Depth-(n+1)]-1 /\ (i = 2 * p \/ i = 2 * p + 1)
      BY <2>1, Ancestry
    <3>2. F[n+1][p] = G[n+1][p]
      BY <1>2, <2>1, <3>1
    <3> HIDE DEF p, n
    <3>3. HashElements(F[n][2 * p], F[n][2 * p + 1]) = HashElements(G[n][2 * p], G[n][2 * p + 1])
      BY <2>1, <3>1, <3>2, FullLevels
    <3>4. Element(F[n][i]) = Element(G[n][i])
      BY <3>1, <3>3, NoCollisions
    <3>5. QED
      BY <1>0, <2>1, <3>4, DepthAssumption
  <2>3. QED
    BY <2>2, DepthAssumption
<1>3. 0..Depth \subseteq T
  <2> HIDE DEF T
  <2>1. QED
    BY <1>1, <1>2, Induction, DepthAssumption
<1>4. \A i \in 0..Width[Depth]-1 : F[0][i] = G[0][i]
  BY <1>3, DepthAssumption
<1>5. QED
  BY <1>4, FullLevels DEF Capacity

LEMMA InsertedChanges ==
  ASSUME TypeOK, TypeOK', NEW leafHash \in Leaves, Insert(leafHash)
  PROVE  ComputeRoot(leaves') = ComputeRoot(leaves) <=> leafHash = EmptyLeaf
<1>1. /\ nextLeaf \in 0..Capacity-1 /\ nextLeaf \notin DOMAIN leaves
      /\ DOMAIN leaves' = (DOMAIN leaves) \cup {nextLeaf}
      /\ leaves'[nextLeaf] = leafHash
      /\ \A i \in DOMAIN leaves : leaves'[i] = leaves[i]
  BY WidthFacts, DepthAssumption DEF Insert, TypeOK, Capacity
<1>2. Padded(leaves)[nextLeaf] = EmptyLeaf /\ Padded(leaves')[nextLeaf] = leafHash
  BY <1>1 DEF Padded
<1>3. ASSUME ComputeRoot(leaves') = ComputeRoot(leaves)
      PROVE  leafHash = EmptyLeaf
  <2>1. \A i \in 0..Capacity-1 : Element(Padded(leaves)[i]) = Padded(leaves)[i]
    BY LeavesAreElements
  <2>2. \A i \in 0..Capacity-1 : Element(Padded(leaves')[i]) = Padded(leaves')[i]
    <3>1. \A i \in 0..Capacity-1 : Padded(leaves')[i] \in Leaves
      BY DEF Padded, Leaves, EmptyLeaf, Secrets, TypeOK
    <3>2. QED
      BY <3>1, DigestsAreElements DEF Leaves
  <2>3. FullTree(Padded(leaves))[Depth][0] = FullTree(Padded(leaves'))[Depth][0]
    BY <1>3, SparseRoot
  <2>4. Padded(leaves)[nextLeaf] = Padded(leaves')[nextLeaf]
    BY <1>1, <2>1, <2>2, <2>3, RootTellsLeaves
  <2>5. QED
    BY <1>2, <2>4
<1>4. ASSUME leafHash = EmptyLeaf
      PROVE  ComputeRoot(leaves') = ComputeRoot(leaves)
  <2>1. Padded(leaves') = Padded(leaves)
    BY <1>1, <1>4 DEF Padded
  <2>2. QED
    BY <2>1, SparseRoot
<1>5. QED
  BY <1>3, <1>4

LEMMA StaleStep == TypeOK /\ TypeOK' /\ [Next]_vars => [
     LET same == GetRoot' = GetRoot
     IN  /\ same <=> (nextLeaf' = nextLeaf \/ leaves'[nextLeaf] = EmptyLeaf)
         /\ \A i \in 0..nextLeaf-1 :
              VerifyMerkleProof(leaves[i], GetRoot', GetProof(leaves, i)) <=> same]_vars
<1> SUFFICES ASSUME TypeOK, TypeOK', Next
             PROVE  /\ GetRoot' = GetRoot <=> (nextLeaf' = nextLeaf \/ leaves'[nextLeaf] = EmptyLeaf)
                    /\ \A i \in 0..nextLeaf-1 :
                         VerifyMerkleProof(leaves[i], GetRoot', GetProof(leaves, i)) <=> GetRoot' = GetRoot
  OBVIOUS
<1>1. GetRoot = ComputeRoot(leaves)
  BY RootIsComputed
<1>2. GetRoot' = ComputeRoot(leaves')
  <2>1. (TypeOK => GetRoot = ComputeRoot(leaves))'
    BY RootIsComputed, PTL
  <2>2. QED
    BY <2>1
<1>3. ASSUME NEW i \in 0..nextLeaf-1
      PROVE  VerifyMerkleProof(leaves[i], GetRoot', GetProof(leaves, i)) <=> GetRoot' = GetRoot
  <2>1. PathDigest(leaves[i], GetProof(leaves, i)) = GetRoot
    BY <1>1, InsertedAre, ProofVerifies
  <2>2. QED
    BY <2>1 DEF VerifyMerkleProof
<1>4. ASSUME NEW leafHash \in Leaves, Insert(leafHash)
      PROVE  GetRoot' = GetRoot <=> (nextLeaf' = nextLeaf \/ leaves'[nextLeaf] = EmptyLeaf)
  <2>1. nextLeaf' # nextLeaf /\ leaves'[nextLeaf] = leafHash
    BY <1>4 DEF Insert, TypeOK
  <2>2. QED
    BY <1>1, <1>2, <1>4, <2>1, InsertedChanges
<1>5. ASSUME InsertFull
      PROVE  GetRoot' = GetRoot <=> (nextLeaf' = nextLeaf \/ leaves'[nextLeaf] = EmptyLeaf)
  BY <1>1, <1>2, <1>5 DEF InsertFull
<1>6. QED
  BY <1>3, <1>4, <1>5 DEF Next

(* A proof holds against a later root exactly if no leaf but an empty one came in
   between, in a tree of any depth. *)
THEOREM StaleSafety == Spec => StaleProofsFail
BY TypeInit, TypeStep, StaleStep, PTL DEF Spec, StaleProofsFail
=============================================================================
