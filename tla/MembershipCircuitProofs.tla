----------------------- MODULE MembershipCircuitProofs -----------------------
(***************************************************************************)
(* Proofs about MembershipCircuit, for trees of every depth and paths of   *)
(* any origin, by induction over the levels as in MerkleTreeProofs.        *)
(***************************************************************************)
EXTENDS MembershipCircuit, MerkleTreeProofs

-----------------------------------------------------------------------------
(* The circuit hashes as the native verifier does.                           *)

LEMMA HashesEquation ==
  ASSUME NEW state, NEW leaf, NEW elements, NEW directions, Len(elements) \in Nat
  PROVE  LET h == Hashes(state, leaf, elements, directions)
         IN  h = [n \in 0..Len(elements) |-> IF n = 0 THEN [state |-> state, current |-> leaf]
                                             ELSE Climb(h[n-1], elements[n], directions[n])]
<1> DEFINE Step(x, n) == Climb(x, elements[n], directions[n])
           Fits(m, f) == f = [n \in 0..m |-> IF n = 0 THEN [state |-> state, current |-> leaf]
                                             ELSE Step(f[n-1], n)]
<1> HIDE DEF Step
<1>1. \E f : Fits(0, f)
  <2>1. Fits(0, [n \in 0..0 |-> [state |-> state, current |-> leaf]])
    OBVIOUS
  <2>2. QED
    BY <2>1
<1>2. ASSUME NEW m \in Nat, NEW f, Fits(m, f)
      PROVE  \E g : Fits(m + 1, g)
  <2> DEFINE g == [n \in 0..m+1 |-> IF n = m + 1 THEN Step(f[m], m + 1) ELSE f[n]]
  <2>1. Fits(m + 1, g)
    BY <1>2
  <2> HIDE DEF g, Fits
  <2>2. QED
    BY <2>1
<1> HIDE DEF Fits
<1>3. \E f : Fits(Len(elements), f)
  <2> DEFINE T == {m \in Nat : \E f : Fits(m, f)}
  <2>1. 0 \in T /\ \A m \in 0..Len(elements)-1 : m \in T => m + 1 \in T
    BY <1>1, <1>2
  <2> HIDE DEF T
  <2>2. 0..Len(elements) \subseteq T
    BY <2>1, Induction
  <2>3. Len(elements) \in T
    BY <2>2
  <2>4. QED
    BY <2>3 DEF T
<1>4. Hashes(state, leaf, elements, directions) = CHOOSE f : Fits(Len(elements), f)
  BY DEF Hashes, Fits, Step
<1>5. Fits(Len(elements), Hashes(state, leaf, elements, directions))
  BY <1>3, <1>4
<1>6. QED
  BY <1>5 DEF Fits, Step

(* On a path of field elements whose directions are bits the gadget, reset before each
   hash, goes through the digests of VerifyMerkleProof. *)
OfElements(path) == \A n \in 1..Len(path.PathElements) :
                      Element(path.PathElements[n]) = path.PathElements[n]
OfBits(path) == \A n \in 1..Len(path.PathElements) : path.PathIndices[n] \in {0, 1}

LEMMA CircuitClimbs ==
  ASSUME NEW state, NEW leaf, Element(leaf) = leaf,
         NEW path, Len(path.PathElements) \in Nat, OfElements(path), OfBits(path)
  PROVE  CircuitRoot(state, leaf, path.PathElements, path.PathIndices) = PathDigest(leaf, path)
<1> DEFINE elements == path.PathElements
           directions == path.PathIndices
           N == Len(elements)
           h == Hashes(state, leaf, elements, directions)
           d == Digests(leaf, path)
           T == {n \in 0..N : h[n].current = d[n] /\ Element(d[n]) = d[n]}
<1>1. /\ d[0] = leaf
      /\ \A n \in 0..N-1 :
           d[n+1] = IF directions[n+1] = 0 THEN HashElements(d[n], elements[n+1])
                                           ELSE HashElements(elements[n+1], d[n])
  BY DigestSteps
<1>2. h = [n \in 0..N |-> IF n = 0 THEN [state |-> state, current |-> leaf]
                          ELSE Climb(h[n-1], elements[n], directions[n])]
  <2>1. Len(elements) \in Nat
    OBVIOUS
  <2> HIDE DEF elements, directions
  <2>2. QED
    BY <2>1, HashesEquation
<1> HIDE DEF h, d
<1>3. h[0].current = leaf
  BY <1>2
<1>4. ASSUME NEW n \in 0..N-1
      PROVE  h[n+1].current =
               IF directions[n+1] = 0 THEN Absorb(Absorb(Zero, h[n].current), elements[n+1])
                                      ELSE Absorb(Absorb(Zero, elements[n+1]), h[n].current)
  <2>1. n + 1 \in 0..N /\ n + 1 # 0 /\ (n + 1) - 1 = n /\ directions[n+1] \in {0, 1}
    BY DEF OfBits
  <2>2. h[n+1] = Climb(h[n], elements[n+1], directions[n+1])
    BY <1>2, <2>1
  <2>3. QED
    BY <2>1, <2>2 DEF Climb, Sum2, Reset
<1>5. 0 \in T /\ \A n \in 0..N-1 : n \in T => n + 1 \in T
  <2>1. N \in Nat /\ \A n \in 1..N : Element(elements[n]) = elements[n]
    BY DEF OfElements
  <2> HIDE DEF N, elements, directions
  <2>2. 0 \in T
    BY <1>1, <1>3, <2>1
  <2>3. ASSUME NEW n \in 0..N-1, n \in T
        PROVE  n + 1 \in T
    <3>1. n + 1 \in 0..N /\ Element(elements[n+1]) = elements[n+1]
      BY <2>1
    <3>2. h[n].current = d[n] /\ Element(d[n]) = d[n]
      BY <2>3
    <3>3. d[n+1] = IF directions[n+1] = 0 THEN Absorb(Absorb(Zero, d[n]), elements[n+1])
                                          ELSE Absorb(Absorb(Zero, elements[n+1]), d[n])
      BY <1>1, <3>1, <3>2 DEF HashElements
    <3>4. h[n+1].current = d[n+1]
      BY <1>4, <3>2, <3>3
    <3>5. Element(d[n+1]) = d[n+1]
      BY <3>3, Elements
    <3>6. QED
      BY <3>1, <3>4, <3>5
  <2>4. QED
    BY <2>2, <2>3
<1>6. 0..N \subseteq T
  <2> HIDE DEF T, N
  <2>1. N \in Nat
    BY DEF N
  <2>2. QED
    BY <1>5, <2>1, Induction
<1>7. h[N].current = d[N]
  BY <1>6
<1>8. QED
  BY <1>7 DEF CircuitRoot, PathDigest, h, d

(* The assignment of a witness satisfies the circuit exactly if the leaf is that of the
   secret, the directions are bits and the path leads to the root. *)
LEMMA SatisfiedMeans ==
  ASSUME NEW w, NEW path, w.Secret \in Secrets \ Malformed,
         w.PathElements = path.PathElements, w.PathIndices = path.PathIndices,
         Len(path.PathElements) \in Nat, DOMAIN path.PathIndices = 1..Len(path.PathElements),
         OfElements(path)
  PROVE  Satisfied(w) <=> /\ w.LeafHash = HashToField(w.Secret)
                          /\ OfBits(path)
                          /\ PathDigest(w.LeafHash, path) = w.Root
<1> DEFINE leaf == HashToField(w.Secret)
<1>1. Absorb(Zero, w.Secret) = leaf
  BY DEF HashToField, Write
<1>2. OfBits(path) => CircuitRoot(leaf, leaf, w.PathElements, w.PathIndices) = PathDigest(leaf, path)
  <2>1. Element(leaf) = leaf
    BY DigestsAreElements
  <2> HIDE DEF leaf
  <2>2. OfBits(path) => CircuitRoot(leaf, leaf, path.PathElements, path.PathIndices) = PathDigest(leaf, path)
    BY <2>1, CircuitClimbs, Zenon
  <2>3. QED
    BY <2>2
<1>3. Satisfied(w) <=> /\ leaf = w.LeafHash
                       /\ OfBits(path)
                       /\ CircuitRoot(leaf, leaf, w.PathElements, w.PathIndices) = w.Root
  BY <1>1 DEF Satisfied, OfBits
<1> HIDE DEF leaf
<1>4. QED
  BY <1>2, <1>3 DEF leaf

(* A path of the prover's depth is assigned as it is. *)
LEMMA FitSame ==
  ASSUME NEW n \in Nat, NEW path, NEW zero, DOMAIN path = 1..n, path = [i \in 1..n |-> path[i]]
  PROVE  Fit(path, zero, n) = path /\ Len(path) = n
<1>1. Len(path) = n
  BY Lengths
<1>2. QED
  BY <1>1 DEF Fit

(* What Prove assigns: the witness with its path fitted to the circuit's depth, in
   field elements. *)
Reduced(numbers) == [n \in DOMAIN numbers |-> Element(numbers[n])]

LEMMA Assigned ==
  ASSUME NEW s, NEW l, NEW r, NEW e, NEW d, NEW depth
  PROVE  Assignment([Secret |-> s, PathElements |-> e, PathIndices |-> d,
                     Root |-> r, LeafHash |-> l], depth)
           = [Secret |-> s, PathElements |-> Reduced(Fit(e, Zero, depth)),
              PathIndices |-> Fit(d, 0, depth), Root |-> Element(r), LeafHash |-> Element(l)]
BY DEF Assignment, Reduced

LEMMA ReducedParts ==
  ASSUME NEW numbers, NEW n \in Nat, DOMAIN numbers = 1..n
  PROVE  Len(Reduced(numbers)) = n /\ \A i \in 1..n : Reduced(numbers)[i] = Element(numbers[i])
<1> DEFINE reduced == Reduced(numbers)
<1>1. DOMAIN reduced = 1..n /\ reduced = [i \in 1..n |-> reduced[i]]
  BY DEF Reduced
<1>2. Len(reduced) = n
  <2> HIDE DEF reduced
  <2>1. QED
    BY <1>1, Lengths
<1>3. QED
  BY <1>2 DEF Reduced

(* The digest of a path is a field element, and that of the reduced path. *)
LEMMA DigestIsElement ==
  ASSUME NEW l, NEW path, Len(path.PathElements) \in Nat,
         Element(l) = l \/ Len(path.PathElements) # 0
  PROVE  Element(PathDigest(l, path)) = PathDigest(l, path)
<1> DEFINE d == Digests(l, path)
           N == Len(path.PathElements)
<1>1. /\ d[0] = l
      /\ \A n \in 0..N-1 :
           d[n+1] = IF path.PathIndices[n+1] = 0 THEN HashElements(d[n], path.PathElements[n+1])
                                                 ELSE HashElements(path.PathElements[n+1], d[n])
  BY DigestSteps
<1>2. N \in Nat /\ (Element(l) = l \/ N # 0)
  OBVIOUS
<1> HIDE DEF d, N
<1>3. CASE N = 0
  BY <1>1, <1>2, <1>3 DEF PathDigest, d, N
<1>4. CASE N # 0
  <2>1. N - 1 \in 0..N-1 /\ (N - 1) + 1 = N
    BY <1>2, <1>4
  <2>2. Element(d[N]) = d[N]
    BY <1>1, <2>1, DigestsAreElements
  <2>3. QED
    BY <2>2 DEF PathDigest, d, N
<1>5. QED
  BY <1>3, <1>4

LEMMA ReductionIsInvisible ==
  ASSUME NEW l, Element(Element(l)) = Element(l),
         NEW path, NEW reduced, Len(path.PathElements) \in Nat,
         Len(reduced.PathElements) = Len(path.PathElements),
         \A n \in 1..Len(path.PathElements) :
           /\ reduced.PathElements[n] = Element(path.PathElements[n])
           /\ Element(reduced.PathElements[n]) = reduced.PathElements[n]
           /\ reduced.PathIndices[n] = path.PathIndices[n]
  PROVE  PathDigest(Element(l), reduced) = Element(PathDigest(l, path))
<1> DEFINE N == Len(path.PathElements)
           d == Digests(l, path)
           e == Digests(Element(l), reduced)
           T == {n \in 0..N : e[n] = Element(d[n]) /\ Element(e[n]) = e[n]}
<1>1. /\ d[0] = l
      /\ \A n \in 0..N-1 :
           d[n+1] = IF path.PathIndices[n+1] = 0 THEN HashElements(d[n], path.PathElements[n+1])
                                                 ELSE HashElements(path.PathElements[n+1], d[n])
  BY DigestSteps
<1>2. /\ e[0] = Element(l)
      /\ \A n \in 0..N-1 :
           e[n+1] = IF reduced.PathIndices[n+1] = 0
                      THEN HashElements(e[n], reduced.PathElements[n+1])
                      ELSE HashElements(reduced.PathElements[n+1], e[n])
  BY DigestSteps
<1>3. /\ N \in Nat
      /\ \A n \in 1..N : /\ reduced.PathElements[n] = Element(path.PathElements[n])
                         /\ Element(reduced.PathElements[n]) = reduced.PathElements[n]
                         /\ reduced.PathIndices[n] = path.PathIndices[n]
  OBVIOUS
<1>4. 0 \in T
  <2> HIDE DEF d, e, N
  <2>1. QED
    BY <1>1, <1>2, <1>3
<1>5. ASSUME NEW n \in 0..N-1, n \in T
      PROVE  n + 1 \in T
  <2> DEFINE x == path.PathElements[n+1]
             y == reduced.PathElements[n+1]
  <2> HIDE DEF d, e, N
  <2>1. n + 1 \in 1..N /\ e[n] = Element(d[n]) /\ Element(e[n]) = e[n]
    BY <1>3, <1>5
  <2>2. Element(y) = Element(x) /\ reduced.PathIndices[n+1] = path.PathIndices[n+1]
    BY <1>3, <2>1
  <2>3. HashElements(e[n], y) = HashElements(d[n], x) /\ HashElements(y, e[n]) = HashElements(x, d[n])
    BY <2>1, <2>2 DEF HashElements
  <2>4. e[n+1] = d[n+1]
    BY <1>1, <1>2, <2>2, <2>3
  <2>5. Element(e[n+1]) = e[n+1]
    BY <1>2, DigestsAreElements
  <2>6. QED
    BY <1>3, <2>1, <2>4, <2>5
<1>6. 0..N \subseteq T
  <2> HIDE DEF T, N
  <2>1. QED
    BY <1>3, <1>4, <1>5, Induction
<1>7. e[N] = Element(d[N])
  BY <1>6
<1>8. QED
  BY <1>7 DEF PathDigest

(* The nodes of a tree are field elements, and its root is. *)
LEMMA AllNodesAreElements ==
  ASSUME TypeOK
  PROVE  /\ \A x \in AllNodes : Element(x) = x
         /\ Element(GetRoot) = GetRoot
<1> DEFINE levels == BuildLevels(leaves)
<1>1. ASSUME NEW n \in 0..Depth, NEW i \in DOMAIN levels[n]
      PROVE  Element(levels[n][i]) = levels[n][i]
  <2>1. CASE n = 0
    <3>1. levels[n] = leaves
      BY <2>1, SparseLevels
    <3>2. levels[n][i] \in Leaves
      BY <1>1, <3>1 DEF TypeOK
    <3>3. QED
      BY <3>2, DigestsAreElements DEF Leaves
  <2>2. CASE n # 0
    <3> DEFINE m == n - 1
    <3>1. m \in 0..Depth-1 /\ m + 1 = n
      BY <2>2, DepthAssumption
    <3> HIDE DEF m
    <3>2. levels[n] = Parents(levels[m], m)
      BY <3>1, SparseLevels
    <3> HIDE DEF levels
    <3>3. \E x, y : levels[n][i] = HashElements(x, y)
      BY <1>1, <3>2 DEF Parents
    <3>4. QED
      BY <3>3, DigestsAreElements
  <2>3. QED
    BY <2>1, <2>2
<1>2. \A n \in 0..Depth : Element(zeros[n]) = zeros[n]
  <2>1. \A n \in 0..Depth : zeros[n] = EmptyLeaf \/ \E x, y : zeros[n] = HashElements(x, y)
    BY ZerosEquation
  <2>2. QED
    BY <2>1, DigestsAreElements DEF EmptyLeaf
<1>3. \A x \in AllNodes : Element(x) = x
  <2> SUFFICES ASSUME NEW x \in AllNodes PROVE Element(x) = x
    OBVIOUS
  <2>1. \/ \E n \in 0..Depth : \E i \in DOMAIN levels[n] : x = levels[n][i]
        \/ \E n \in 0..Depth : x = zeros[n]
    BY DEF AllNodes
  <2> HIDE DEF levels
  <2>2. QED
    BY <1>1, <1>2, <2>1
<1>4. Element(GetRoot) = GetRoot
  <2>1. GetRoot = FullTree(Padded(leaves))[Depth][0] /\ 0 \in 0..Width[Depth-Depth]-1
    BY RootIsComputed, SparseRoot, WidthFacts, DepthAssumption
  <2>2. QED
    BY <2>1, LeavesAreElements, NodesAreElements, DepthAssumption
<1>5. QED
  BY <1>3, <1>4

LEMMA NumbersReduce ==
  ASSUME NEW S, \A x \in S : Element(x) = x, NEW y \in Numbers(S)
  PROVE  Element(y) \in S /\ Element(Element(y)) = Element(y)
BY Elements DEF Numbers

(* The circuit accepts what the native verifier accepts, at every depth. *)
THEOREM CircuitSafety == Spec => []CircuitMatchesNative
<1>1. TypeOK => CircuitMatchesNative
  <2> SUFFICES ASSUME TypeOK, NEW s \in Secrets \ Malformed, NEW leafHash \in Numbers(Leaves),
                      NEW root \in Numbers({GetRoot}),
                      NEW elements \in [1..Depth -> Numbers(AllNodes)],
                      NEW directions \in [1..Depth -> Directions]
               PROVE  Proves([Secret |-> s, LeafHash |-> leafHash, Root |-> root,
                              PathElements |-> elements, PathIndices |-> directions], Depth)
                        <=> /\ Element(leafHash) = HashToField(s)
                            /\ \A n \in 1..Depth : directions[n] \in {0, 1}
                            /\ VerifyMerkleProof(leafHash, Element(root),
                                 [PathElements |-> elements, PathIndices |-> directions])
    BY DEF CircuitMatchesNative
  <2> DEFINE path == [PathElements |-> elements, PathIndices |-> directions]
             fitted == [PathElements |-> Reduced(elements), PathIndices |-> directions]
             given == [Secret |-> s, PathElements |-> elements,
                       PathIndices |-> directions, Root |-> root, LeafHash |-> leafHash]
             w == [Secret |-> s, PathElements |-> fitted.PathElements,
                   PathIndices |-> fitted.PathIndices, Root |-> GetRoot,
                   LeafHash |-> Element(leafHash)]
             binary == \A n \in 1..Depth : directions[n] \in {0, 1}
  <2>0. Depth \in Nat \ {0}
    BY DepthAssumption
  <2>1. /\ path.PathElements = elements /\ path.PathIndices = directions
        /\ fitted.PathElements = Reduced(elements) /\ fitted.PathIndices = directions
    OBVIOUS
  <2>2. /\ Fit(elements, Zero, Depth) = elements /\ Len(elements) = Depth
        /\ Fit(directions, 0, Depth) = directions
    BY FitSame, DepthAssumption
  <2>3. Element(root) = GetRoot
    BY AllNodesAreElements, NumbersReduce
  <2>4. Element(Element(leafHash)) = Element(leafHash)
    BY DigestsAreElements, NumbersReduce DEF Leaves
  <2>5. /\ Len(Reduced(elements)) = Depth
        /\ \A n \in 1..Depth : /\ Reduced(elements)[n] = Element(elements[n])
                              /\ Element(Reduced(elements)[n]) = Reduced(elements)[n]
    <3>1. \A n \in 1..Depth : Element(Element(elements[n])) = Element(elements[n])
      BY AllNodesAreElements, NumbersReduce
    <3>2. QED
      BY <2>0, <3>1, ReducedParts
  <2> HIDE DEF path, fitted, binary
  <2>6. Assignment(given, Depth) = w
    BY <2>1, <2>2, <2>3, Assigned
  <2>7. PathDigest(Element(leafHash), fitted) = PathDigest(leafHash, path)
    <3>1. PathDigest(Element(leafHash), fitted) = Element(PathDigest(leafHash, path))
      BY <2>0, <2>1, <2>2, <2>4, <2>5, ReductionIsInvisible
    <3>2. Element(PathDigest(leafHash, path)) = PathDigest(leafHash, path)
      BY <2>0, <2>1, <2>2, DigestIsElement
    <3>3. QED
      BY <3>1, <3>2
  <2>8. Satisfied(w) <=> /\ Element(leafHash) = HashToField(s)
                         /\ binary
                         /\ PathDigest(Element(leafHash), fitted) = GetRoot
    <3>1. /\ w.Secret = s /\ w.LeafHash = Element(leafHash) /\ w.Root = GetRoot
          /\ w.PathElements = fitted.PathElements /\ w.PathIndices = fitted.PathIndices
      OBVIOUS
    <3> HIDE DEF w
    <3>2. /\ Len(fitted.PathElements) = Depth /\ DOMAIN fitted.PathIndices = 1..Depth
          /\ OfElements(fitted) /\ (OfBits(fitted) <=> binary)
      BY <2>1, <2>5 DEF OfElements, OfBits, binary
    <3>3. Satisfied(w) <=> /\ w.LeafHash = HashToField(w.Secret)
                           /\ OfBits(fitted)
                           /\ PathDigest(w.LeafHash, fitted) = w.Root
      BY <2>0, <3>1, <3>2, SatisfiedMeans
    <3>4. QED
      BY <3>1, <3>2, <3>3
  <2>9. given = [Secret |-> s, LeafHash |-> leafHash, Root |-> root,
                 PathElements |-> elements, PathIndices |-> directions]
    OBVIOUS
  <2>10. Proves(given, Depth) <=> /\ Element(leafHash) = HashToField(s)
                                  /\ binary
                                  /\ PathDigest(leafHash, path) = GetRoot
    <3> HIDE DEF w, given
    <3>1. QED
      BY <2>6, <2>7, <2>8 DEF Proves
  <2> HIDE DEF w, given
  <2>11. QED
    BY <2>3, <2>9, <2>10 DEF VerifyMerkleProof, path, binary
<1>2. QED
  BY <1>1, TreeTypeCorrect, PTL

-----------------------------------------------------------------------------
(* Paths of another length.                                                  *)

(* No leaf is the hash of two field elements. *)
LEMMA LeafIsNoNode ==
  ASSUME NEW s, NEW x, NEW y
  PROVE  HashToField(s) # HashElements(x, y)
<1> DEFINE part == <<Zero, Element(x)>>
           last == Element(y)
<1>1. Zero # part
  BY Len(Zero) = 0, Len(part) = 2 DEF Zero
<1>2. HashElements(x, y) = <<part, last>>
  BY DEF HashElements, Absorb
<1>3. HashToField(s) = Zero \/ HashToField(s) = <<Zero, s>>
  BY DEF HashToField, Write, Absorb
<1> HIDE DEF part, last
<1>4. Zero # <<part, last>>
  BY Len(Zero) = 0, Len(<<part, last>>) = 2 DEF Zero
<1>5. <<Zero, s>> # <<part, last>>
  BY <1>1
<1>6. QED
  BY <1>2, <1>3, <1>4, <1>5

LEMMA NodesOverLeaves ==
  ASSUME NEW bottom, \A i \in 0..Capacity-1 : bottom[i] \in Leaves
  PROVE  \A n \in 0..Depth : \A i \in 0..Width[Depth-n]-1 :
           Element(FullTree(bottom)[n][i]) = FullTree(bottom)[n][i]
<1>1. \A i \in 0..Capacity-1 : Element(bottom[i]) = bottom[i]
  BY DigestsAreElements DEF Leaves
<1>2. QED
  BY <1>1, NodesAreElements

(* Nodes of different levels are different: their terms have different heights. *)
LEMMA LevelsDiffer ==
  ASSUME NEW bottom, \A i \in 0..Capacity-1 : bottom[i] \in Leaves
  PROVE  \A a, b \in 0..Depth : a < b =>
           \A i \in 0..Width[Depth-a]-1, j \in 0..Width[Depth-b]-1 :
             FullTree(bottom)[a][i] # FullTree(bottom)[b][j]
<1> DEFINE F == FullTree(bottom)
           Above(a) == \A b \in 0..Depth : a < b =>
                         \A i \in 0..Width[Depth-a]-1, j \in 0..Width[Depth-b]-1 : F[a][i] # F[b][j]
           T == {a \in 0..Depth : Above(a)}
<1>0. \A n \in 0..Depth : \A i \in 0..Width[Depth-n]-1 : Element(F[n][i]) = F[n][i]
  BY NodesOverLeaves
<1>1. ASSUME NEW b \in 1..Depth, NEW j \in 0..Width[Depth-b]-1
      PROVE  /\ b - 1 \in 0..Depth-1
             /\ 2 * j \in 0..Width[Depth-(b-1)]-1
             /\ F[b][j] = HashElements(F[b-1][2 * j], F[b-1][2 * j + 1])
  <2> DEFINE n == b - 1
  <2>1. n \in 0..Depth-1 /\ n + 1 = b
    BY DepthAssumption
  <2> HIDE DEF n
  <2>2. j \in 0..Width[Depth-(n+1)]-1
    BY <2>1
  <2>3. 2 * j \in 0..Width[Depth-n]-1 /\ F[n+1][j] = HashElements(F[n][2 * j], F[n][2 * j + 1])
    BY <2>1, <2>2, Family, FullLevels
  <2>4. QED
    BY <2>1, <2>3 DEF n
<1>2. Above(0)
  <2> SUFFICES ASSUME NEW b \in 1..Depth, NEW i \in 0..Capacity-1, NEW j \in 0..Width[Depth-b]-1
               PROVE  F[0][i] # F[b][j]
    BY DepthAssumption DEF Capacity
  <2>1. PICK s \in Secrets : F[0][i] = HashToField(s)
    BY FullLevels DEF Leaves
  <2>2. PICK x, y : F[b][j] = HashElements(x, y)
    BY <1>1
  <2>3. QED
    BY <2>1, <2>2, LeafIsNoNode
<1>3. ASSUME NEW a \in 0..Depth-1, Above(a)
      PROVE  Above(a + 1)
  <2> SUFFICES ASSUME NEW b \in 0..Depth, a + 1 < b,
                      NEW i \in 0..Width[Depth-(a+1)]-1, NEW j \in 0..Width[Depth-b]-1,
                      F[a+1][i] = F[b][j]
               PROVE  FALSE
    OBVIOUS
  <2>1. b \in 1..Depth /\ a + 1 \in 1..Depth /\ (a + 1) - 1 = a /\ a < b - 1
    BY DepthAssumption
  <2>2. /\ F[a+1][i] = HashElements(F[a][2 * i], F[a][2 * i + 1])
        /\ 2 * i \in 0..Width[Depth-a]-1
    BY FullLevels, Family
  <2>3. /\ F[b][j] = HashElements(F[b-1][2 * j], F[b-1][2 * j + 1])
        /\ 2 * j \in 0..Width[Depth-(b-1)]-1 /\ b - 1 \in 0..Depth
    BY <1>1, <2>1, DepthAssumption
  <2>4. F[a][2 * i] = F[b-1][2 * j]
    <3> HIDE DEF F
    <3>1. HashElements(F[a][2 * i], F[a][2 * i + 1]) = HashElements(F[b-1][2 * j], F[b-1][2 * j + 1])
      BY <2>2, <2>3
    <3>2. /\ Element(F[a][2 * i]) = F[a][2 * i]
          /\ Element(F[b-1][2 * j]) = F[b-1][2 * j]
      BY <1>0, <2>2, <2>3, DepthAssumption
    <3>3. QED
      BY <3>1, <3>2, NoCollisions
  <2>5. QED
    BY <1>3, <2>1, <2>2, <2>3, <2>4
<1>4. 0 \in T /\ \A a \in 0..Depth-1 : a \in T => a + 1 \in T
  <2> HIDE DEF Above
  <2>1. QED
    BY <1>2, <1>3, DepthAssumption
<1>5. 0..Depth \subseteq T
  <2> HIDE DEF T
  <2>1. QED
    BY <1>4, Induction, DepthAssumption
<1>6. QED
  BY <1>5

(* What Prove makes of a path. *)
FittedPath(proof, depth) == [ PathElements |-> Fit(proof.PathElements, Zero, depth),
                              PathIndices  |-> Fit(proof.PathIndices, 0, depth) ]

LEMMA FittedParts ==
  ASSUME NEW proof, NEW depth \in Nat
  PROVE  /\ Len(FittedPath(proof, depth).PathElements) = depth
         /\ DOMAIN FittedPath(proof, depth).PathIndices = 1..depth
         /\ \A n \in 1..depth :
              /\ FittedPath(proof, depth).PathElements[n] =
                   IF n <= Len(proof.PathElements) THEN proof.PathElements[n] ELSE Zero
              /\ FittedPath(proof, depth).PathIndices[n] =
                   IF n <= Len(proof.PathIndices) THEN proof.PathIndices[n] ELSE 0
<1> DEFINE elements == Fit(proof.PathElements, Zero, depth)
<1>1. Len(elements) = depth
  <2>1. DOMAIN elements = 1..depth /\ elements = [n \in 1..depth |-> elements[n]]
    BY DEF Fit
  <2> HIDE DEF elements
  <2>2. QED
    BY <2>1, Lengths
<1>2. /\ FittedPath(proof, depth).PathElements = elements
      /\ FittedPath(proof, depth).PathIndices = Fit(proof.PathIndices, 0, depth)
  BY DEF FittedPath
<1>3. QED
  BY <1>1, <1>2 DEF Fit

(* Up to the shorter of the two lengths the path of a member, padded or cut to a
   prover's depth, goes through the nodes above the member. *)
LEMMA FittedClimbs ==
  ASSUME NEW row, NEW index \in 0..Capacity-1, NEW depth \in Nat
  PROVE  \A n \in 0..depth : n <= Depth =>
           Digests(Padded(row)[index], FittedPath(GetProof(row, index), depth))[n]
             = FullTree(Padded(row))[n][Ancestors(index)[n]]
<1> DEFINE proof == GetProof(row, index)
           fitted == FittedPath(proof, depth)
           leaf == Padded(row)[index]
           d == Digests(leaf, fitted)
           e == Digests(leaf, proof)
           T == {n \in 0..depth : n <= Depth => d[n] = e[n]}
<1>1. Len(proof.PathElements) = Depth /\ Len(proof.PathIndices) = Depth
  BY ProofShape
<1>2. /\ Len(fitted.PathElements) = depth
      /\ \A n \in 1..depth : n <= Depth =>
           /\ fitted.PathElements[n] = proof.PathElements[n]
           /\ fitted.PathIndices[n] = proof.PathIndices[n]
  BY <1>1, FittedParts
<1> HIDE DEF fitted, proof
<1>3. /\ d[0] = leaf
      /\ \A n \in 0..depth-1 :
           d[n+1] = IF fitted.PathIndices[n+1] = 0 THEN HashElements(d[n], fitted.PathElements[n+1])
                                                   ELSE HashElements(fitted.PathElements[n+1], d[n])
  BY <1>2, DigestSteps
<1>4. /\ e[0] = leaf
      /\ \A n \in 0..Depth-1 :
           e[n+1] = IF proof.PathIndices[n+1] = 0 THEN HashElements(e[n], proof.PathElements[n+1])
                                                  ELSE HashElements(proof.PathElements[n+1], e[n])
  BY <1>1, DigestSteps, DepthAssumption
<1>5. 0 \in T /\ \A n \in 0..depth-1 : n \in T => n + 1 \in T
  <2> HIDE DEF d, e
  <2>1. 0 \in T
    BY <1>3, <1>4
  <2>2. ASSUME NEW n \in 0..depth-1, n \in T, n + 1 <= Depth
        PROVE  d[n+1] = e[n+1]
    <3>1. n \in 0..Depth-1 /\ n + 1 \in 1..depth /\ d[n] = e[n]
      BY <2>2, DepthAssumption
    <3>2. QED
      BY <1>2, <1>3, <1>4, <2>2, <3>1
  <2>3. QED
    BY <2>1, <2>2
<1>6. 0..depth \subseteq T
  <2> HIDE DEF T
  <2>1. QED
    BY <1>5, Induction
<1>7. \A n \in 0..depth : n <= Depth => e[n] = FullTree(Padded(row))[n][Ancestors(index)[n]]
  BY ProofClimbs, DepthAssumption DEF proof
<1>8. QED
  BY <1>6, <1>7 DEF fitted, proof

(* Above the root a padded path goes on hashing with zero. *)
LEMMA FittedAbove ==
  ASSUME NEW row, NEW index \in 0..Capacity-1, NEW depth \in Nat
  PROVE  LET d == Digests(Padded(row)[index], FittedPath(GetProof(row, index), depth))
         IN  \A n \in Depth..depth-1 : d[n+1] = HashElements(d[n], Zero)
<1> DEFINE proof == GetProof(row, index)
           fitted == FittedPath(proof, depth)
           d == Digests(Padded(row)[index], fitted)
<1>1. Len(proof.PathElements) = Depth /\ Len(proof.PathIndices) = Depth
  BY ProofShape
<1>2. /\ Len(fitted.PathElements) = depth
      /\ \A n \in Depth+1..depth : fitted.PathElements[n] = Zero /\ fitted.PathIndices[n] = 0
  <2> HIDE DEF proof
  <2>1. QED
    BY <1>1, FittedParts, DepthAssumption
<1> HIDE DEF fitted
<1>3. \A n \in 0..depth-1 :
        d[n+1] = IF fitted.PathIndices[n+1] = 0 THEN HashElements(d[n], fitted.PathElements[n+1])
                                                ELSE HashElements(fitted.PathElements[n+1], d[n])
  BY <1>2, DigestSteps
<1>4. \A n \in Depth..depth-1 : d[n+1] = HashElements(d[n], Zero)
  BY <1>2, <1>3, DepthAssumption
<1>5. QED
  BY <1>4 DEF fitted

(* What it comes to is no node of the tree that is not above it. *)
LEMMA AboveDiffers ==
  ASSUME NEW bottom, \A i \in 0..Capacity-1 : bottom[i] \in Leaves,
         NEW depth \in Nat, NEW d, d[Depth] = FullTree(bottom)[Depth][0],
         \A n \in Depth..depth-1 : d[n+1] = HashElements(d[n], Zero)
  PROVE  \A n \in Depth+1..depth : d[n] # FullTree(bottom)[Depth][0]
<1> DEFINE F == FullTree(bottom)
           Apart(m) == \A n \in Depth..depth, j \in 0..Width[Depth-m]-1 : m < n => d[n] # F[m][j]
           T == {m \in 0..Depth : Apart(m)}
<1>0. Depth \in Nat \ {0}
  BY DepthAssumption
<1>1. 0 \in 0..Width[Depth-Depth]-1
  BY <1>0, WidthFacts
<1>2. \A k \in 0..Depth-1 : \A j \in 0..Width[Depth-k]-1 : d[Depth] # F[k][j]
  BY <1>0, <1>1, LevelsDiffer
<1>3. \A n \in Depth+1..depth : n - 1 \in Depth..depth-1 /\ d[n] = HashElements(d[n-1], Zero)
  <2> SUFFICES ASSUME NEW n \in Depth+1..depth
               PROVE  n - 1 \in Depth..depth-1 /\ d[n] = HashElements(d[n-1], Zero)
    OBVIOUS
  <2>1. n - 1 \in Depth..depth-1 /\ (n - 1) + 1 = n
    BY <1>0
  <2>2. QED
    BY <2>1
<1>4. Apart(0)
  <2> SUFFICES ASSUME NEW n \in Depth..depth, NEW j \in 0..Capacity-1
               PROVE  d[n] # F[0][j]
    BY <1>0 DEF Capacity
  <2>1. CASE n = Depth
    BY <1>0, <1>2, <2>1 DEF Capacity
  <2>2. CASE n # Depth
    <3>1. d[n] = HashElements(d[n-1], Zero)
      BY <1>0, <1>3, <2>2
    <3>2. PICK s \in Secrets : F[0][j] = HashToField(s)
      BY FullLevels DEF Leaves
    <3>3. QED
      BY <3>1, <3>2, LeafIsNoNode
  <2>3. QED
    BY <2>1, <2>2
<1>5. ASSUME NEW k \in 0..Depth-1, Apart(k)
      PROVE  Apart(k + 1)
  <2> SUFFICES ASSUME NEW n \in Depth..depth, NEW j \in 0..Width[Depth-(k+1)]-1, k + 1 < n
               PROVE  d[n] # F[k+1][j]
    OBVIOUS
  <2>1. CASE n = Depth
    <3>1. k + 1 \in 0..Depth-1
      BY <1>0, <2>1
    <3>2. QED
      BY <1>2, <2>1, <3>1
  <2>2. CASE n # Depth
    <3>1. d[n] = HashElements(d[n-1], Zero) /\ n - 1 \in Depth..depth /\ k < n - 1
      BY <1>0, <1>3, <2>2
    <3>2. /\ F[k+1][j] = HashElements(F[k][2 * j], F[k][2 * j + 1])
          /\ 2 * j \in 0..Width[Depth-k]-1
      BY FullLevels, Family
    <3> HIDE DEF F
    <3>3. d[n-1] # F[k][2 * j]
      BY <1>5, <3>1, <3>2
    <3>4. Element(F[k][2 * j]) = F[k][2 * j] /\ Element(F[Depth][0]) = F[Depth][0]
      BY <1>0, <1>1, <3>2, NodesOverLeaves DEF F
    <3>5. Element(d[n-1]) = d[n-1]
      <4>1. CASE n - 1 = Depth
        BY <3>4, <4>1 DEF F
      <4>2. CASE n - 1 # Depth
        <5>1. n - 1 \in Depth+1..depth
          BY <1>0, <3>1, <4>2
        <5>2. d[n-1] = HashElements(d[(n-1)-1], Zero)
          BY <1>3, <5>1
        <5>3. QED
          BY <5>2, DigestsAreElements
      <4>3. QED
        BY <4>1, <4>2
    <3>6. QED
      BY <3>1, <3>2, <3>3, <3>4, <3>5, NoCollisions
  <2>3. QED
    BY <2>1, <2>2
<1>6. 0 \in T /\ \A k \in 0..Depth-1 : k \in T => k + 1 \in T
  <2> HIDE DEF Apart
  <2>1. QED
    BY <1>0, <1>4, <1>5
<1>7. 0..Depth \subseteq T
  <2> HIDE DEF T
  <2>1. QED
    BY <1>0, <1>6, Induction
<1>8. Apart(Depth)
  <2> HIDE DEF Apart
  <2>1. QED
    BY <1>0, <1>7
<1>9. QED
  BY <1>0, <1>1, <1>8

(* The directions of a fitted path are bits. *)
LEMMA FittedBits ==
  ASSUME NEW row, NEW index \in 0..Capacity-1, NEW depth \in Nat
  PROVE  \A n \in 1..depth : FittedPath(GetProof(row, index), depth).PathIndices[n] \in {0, 1}
<1> DEFINE proof == GetProof(row, index)
           at == Ancestors(index)
<1>1. \A n \in 1..Depth : proof.PathIndices[n] \in {0, 1}
  <2>1. ASSUME NEW n \in 1..Depth
        PROVE  at[n-1] % 2 \in {0, 1}
    <3>1. n - 1 \in 0..Depth-1
      BY DepthAssumption
    <3>2. at[n-1] \in 0..Width[Depth-(n-1)]-1
      BY <3>1, PlacesAbove, DepthAssumption
    <3>3. QED
      BY <3>1, <3>2, Ancestry
  <2>2. QED
    BY <2>1 DEF GetProof
<1>2. Len(proof.PathIndices) = Depth
  BY ProofShape
<1> HIDE DEF proof
<1>3. QED
  BY <1>1, <1>2, FittedParts, DepthAssumption DEF proof

(* The numbers on it are field elements. *)
LEMMA FittedElements ==
  ASSUME NEW row, NEW index \in 0..Capacity-1, NEW depth \in Nat,
         \A i \in 0..Capacity-1 : Padded(row)[i] \in Leaves
  PROVE  \A n \in 1..depth :
           Element(FittedPath(GetProof(row, index), depth).PathElements[n])
             = FittedPath(GetProof(row, index), depth).PathElements[n]
<1> DEFINE proof == GetProof(row, index)
           at == Ancestors(index)
<1>1. ASSUME NEW n \in 1..Depth
      PROVE  Element(proof.PathElements[n]) = proof.PathElements[n]
  <2> DEFINE m == n - 1
  <2>1. m \in 0..Depth-1 /\ m \in 0..Depth
    BY DepthAssumption
  <2>2. proof.PathElements[n] = GetNodeOrZero(BuildLevels(row)[m], Sibling(at[m]), m)
    BY DEF GetProof
  <2>3. Sibling(at[m]) \in 0..Width[Depth-m]-1
    <3> HIDE DEF m
    <3>1. at[m] \in 0..Width[Depth-m]-1
      BY <2>1, PlacesAbove
    <3>2. QED
      BY <2>1, <3>1, Ancestry
  <2> HIDE DEF m
  <2>4. proof.PathElements[n] = FullTree(Padded(row))[m][Sibling(at[m])]
    BY <2>1, <2>2, <2>3, SparseNodes
  <2>5. QED
    BY <2>1, <2>3, <2>4, NodesOverLeaves
<1>2. Len(proof.PathElements) = Depth
  BY ProofShape
<1> HIDE DEF proof
<1>3. QED
  BY <1>1, <1>2, FittedParts, Elements, DepthAssumption DEF proof

(* Where the path of a member leads in a prover of some depth. *)
LEMMA FittedRoot ==
  ASSUME NEW row, NEW index \in 0..Capacity-1, NEW depth \in Nat,
         \A i \in 0..Capacity-1 : Padded(row)[i] \in Leaves
  PROVE  PathDigest(Padded(row)[index], FittedPath(GetProof(row, index), depth)) = ComputeRoot(row)
           <=> depth = Depth
<1> DEFINE fitted == FittedPath(GetProof(row, index), depth)
           leaf == Padded(row)[index]
           d == Digests(leaf, fitted)
           F == FullTree(Padded(row))
           at == Ancestors(index)
<1>0. Depth \in Nat \ {0}
  BY DepthAssumption
<1>1. PathDigest(leaf, fitted) = d[depth]
  BY <1>0, FittedParts DEF PathDigest
<1>2. \A n \in 0..depth : n <= Depth => d[n] = F[n][at[n]]
  BY <1>0, FittedClimbs
<1>3. ComputeRoot(row) = F[Depth][0] /\ at[Depth] = 0
  BY SparseRoot, TopPlace
<1>4. ASSUME depth = Depth
      PROVE  d[depth] = F[Depth][0]
  <2> HIDE DEF d, F, at
  <2>1. QED
    BY <1>0, <1>2, <1>3, <1>4
<1>5. ASSUME depth < Depth
      PROVE  d[depth] # F[Depth][0]
  <2>1. d[depth] = F[depth][at[depth]] /\ at[depth] \in 0..Width[Depth-depth]-1
    BY <1>0, <1>2, <1>5, PlacesAbove
  <2>2. 0 \in 0..Width[Depth-Depth]-1
    BY <1>0, WidthFacts
  <2>3. F[depth][at[depth]] # F[Depth][0]
    BY <1>0, <1>5, <2>1, <2>2, LevelsDiffer
  <2>4. QED
    BY <2>1, <2>3
<1>6. ASSUME depth > Depth
      PROVE  d[depth] # F[Depth][0]
  <2>1. \A n \in Depth..depth-1 : d[n+1] = HashElements(d[n], Zero)
    BY FittedAbove
  <2>2. d[Depth] = F[Depth][0]
    <3> HIDE DEF d, F, at
    <3>1. QED
      BY <1>0, <1>2, <1>3, <1>6
  <2>3. \A i \in 0..Capacity-1 : Padded(row)[i] \in Leaves
    OBVIOUS
  <2> HIDE DEF d
  <2>4. \A n \in Depth+1..depth : d[n] # F[Depth][0]
    BY <2>1, <2>2, <2>3, AboveDiffers
  <2>5. QED
    BY <1>0, <1>6, <2>4
<1>7. depth = Depth \/ depth < Depth \/ depth > Depth
  BY <1>0
<1> HIDE DEF d, F, fitted
<1>8. QED
  BY <1>0, <1>1, <1>3, <1>4, <1>5, <1>6, <1>7 DEF fitted

(* MembersProveAtTreeDepth, of provers of every depth. *)
MembersProveAtNoOther ==
  \A s \in Secrets \ Malformed, i \in 0..nextLeaf-1, depth \in Nat :
    leaves[i] = HashToField(s) => (Proves(MemberWitness(s, i), depth) <=> depth = Depth)

LEMMA OneDepth == TypeOK => MembersProveAtNoOther
<1> SUFFICES ASSUME TypeOK, NEW s \in Secrets \ Malformed, NEW i \in 0..nextLeaf-1,
                    NEW depth \in Nat, leaves[i] = HashToField(s)
             PROVE  Proves(MemberWitness(s, i), depth) <=> depth = Depth
  BY DEF MembersProveAtNoOther
<1> DEFINE proof == GetProof(leaves, i)
           fitted == FittedPath(proof, depth)
           elements == fitted.PathElements
           path == [PathElements |-> Reduced(elements), PathIndices |-> fitted.PathIndices]
           leaf == HashToField(s)
           assigned == [Secret |-> s, PathElements |-> path.PathElements,
                        PathIndices |-> path.PathIndices, Root |-> GetRoot, LeafHash |-> leaf]
<1>1. i \in 0..Capacity-1 /\ Padded(leaves)[i] = leaf
  BY InsertedAre
<1>2. \A j \in 0..Capacity-1 : Padded(leaves)[j] \in Leaves
  BY LeavesAreElements
<1>3. Element(leaf) = leaf /\ Element(GetRoot) = GetRoot
  BY DigestsAreElements, AllNodesAreElements
<1>4. PathDigest(leaf, fitted) = GetRoot <=> depth = Depth
  BY <1>1, <1>2, FittedRoot, RootIsComputed
<1>5. /\ Len(elements) = depth
      /\ DOMAIN elements = 1..depth
      /\ DOMAIN fitted.PathIndices = 1..depth
      /\ \A n \in 1..depth : fitted.PathIndices[n] \in {0, 1}
      /\ \A n \in 1..depth : Element(elements[n]) = elements[n]
  <2>1. DOMAIN elements = 1..depth
    BY DEF FittedPath, Fit
  <2>2. /\ Len(elements) = depth
        /\ DOMAIN fitted.PathIndices = 1..depth
    BY FittedParts
  <2>3. \A n \in 1..depth : fitted.PathIndices[n] \in {0, 1}
    BY <1>1, FittedBits
  <2>4. \A n \in 1..depth : Element(elements[n]) = elements[n]
    BY <1>1, <1>2, FittedElements
  <2>5. QED
    BY <2>1, <2>2, <2>3, <2>4
<1>6. Assignment(MemberWitness(s, i), depth) = assigned
  <2>1. MemberWitness(s, i) = [Secret |-> s, PathElements |-> proof.PathElements,
                               PathIndices |-> proof.PathIndices, Root |-> GetRoot,
                               LeafHash |-> leaf]
    BY DEF MemberWitness
  <2> HIDE DEF proof, leaf
  <2>2. QED
    BY <1>3, <2>1, Assigned DEF FittedPath
<1> HIDE DEF fitted, elements
<1>7. /\ Len(path.PathElements) = depth
      /\ DOMAIN path.PathIndices = 1..depth
      /\ path.PathIndices = fitted.PathIndices
      /\ \A n \in 1..depth : /\ path.PathElements[n] = Element(elements[n])
                            /\ Element(path.PathElements[n]) = path.PathElements[n]
  BY <1>5, ReducedParts
<1> HIDE DEF path, leaf
<1>8. PathDigest(leaf, path) = PathDigest(leaf, fitted)
  <2>1. PathDigest(leaf, path) = Element(PathDigest(leaf, fitted))
    BY <1>3, <1>5, <1>7, ReductionIsInvisible DEF elements
  <2>2. Element(PathDigest(leaf, fitted)) = PathDigest(leaf, fitted)
    BY <1>3, <1>5, DigestIsElement DEF elements
  <2>3. QED
    BY <2>1, <2>2
<1>9. Satisfied(assigned) <=> depth = Depth
  <2>1. /\ assigned.Secret = s /\ assigned.LeafHash = leaf /\ assigned.Root = GetRoot
        /\ assigned.PathElements = path.PathElements
        /\ assigned.PathIndices = path.PathIndices
    OBVIOUS
  <2> HIDE DEF assigned
  <2>2. OfBits(path) /\ OfElements(path)
    BY <1>5, <1>7 DEF OfBits, OfElements
  <2>3. Satisfied(assigned) <=> /\ leaf = HashToField(s)
                                /\ OfBits(path)
                                /\ PathDigest(leaf, path) = GetRoot
    BY <1>7, <2>1, <2>2, SatisfiedMeans
  <2>4. QED
    BY <1>4, <1>8, <2>2, <2>3 DEF leaf
<1> HIDE DEF assigned
<1>10. QED
  BY <1>6, <1>9 DEF Proves

(* A member with a whole canonical secret proves with a prover of the tree's depth and of
   no other, whatever the two depths, the place and the fill level. *)
THEOREM DepthSafety == Spec => []MembersProveAtNoOther
BY OneDepth, TreeTypeCorrect, PTL

(* In particular with none that is shallower or one level deeper, those a run can check. *)
THEOREM MemberSafety == Spec => []MembersProveAtTreeDepth
<1>1. MembersProveAtNoOther => MembersProveAtTreeDepth
  BY DepthAssumption DEF MembersProveAtNoOther, MembersProveAtTreeDepth
<1>2. QED
  BY <1>1, DepthSafety, PTL
=============================================================================
