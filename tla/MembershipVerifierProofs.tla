---------------------- MODULE MembershipVerifierProofs ----------------------
(***************************************************************************)
(* Proofs about MembershipVerifier, for every size of the ring and any     *)
(* number of updates, nullifiers and verifications.                        *)
(***************************************************************************)
EXTENDS MembershipVerifier, TLAPS

-----------------------------------------------------------------------------
(* Type correctness. *)

LEMMA Wrap ==
  ASSUME NEW i \in Slots
  PROVE  (i + 1) % HistorySize = IF i + 1 = HistorySize THEN 0 ELSE i + 1
BY HistorySizeAssumption DEF Slots

LEMMA NextIndex ==
  ASSUME NEW i \in Slots
  PROVE  (i + 1) % HistorySize \in Slots
BY HistorySizeAssumption, Wrap DEF Slots

LEMMA TypeInit == Init => TypeOK
BY HistorySizeAssumption, BoundsAssumption DEF Init, TypeOK, Slots

LEMMA TypeStep == TypeOK /\ [Next]_vars => TypeOK'
<1> SUFFICES ASSUME TypeOK, [Next]_vars PROVE TypeOK'
  OBVIOUS
<1> USE DEF TypeOK
<1>1. CASE DeployedNext
  BY <1>1 DEF DeployedNext, verify_membership, vars
<1>2. ASSUME NEW caller \in Callers, NEW root \in Roots, update_merkle_root(caller, root)
      PROVE  TypeOK'
  <2>1. (root_history_index + 1) % HistorySize \in Slots
    BY NextIndex
  <2>2. root_history' \in [Slots -> Roots \cup {0}] /\ root_history_index' \in Slots
    BY <1>2, <2>1 DEF update_merkle_root
  <2>3. [updater |-> caller, old_root |-> current_root, new_root |-> root]
          \in [updater : Callers, old_root : Roots, new_root : Roots]
    OBVIOUS
  <2>4. QED
    BY <1>2, <2>2, <2>3 DEF update_merkle_root
<1>3. ASSUME NEW leaf \in Leaves, use_nullifier(leaf)
      PROVE  TypeOK'
  BY <1>3 DEF use_nullifier
<1>4. CASE record_verification
  BY <1>4, BoundsAssumption DEF record_verification
<1>5. CASE UNCHANGED vars
  BY <1>5 DEF vars
<1>6. QED
  BY <1>1, <1>2, <1>3, <1>4, <1>5 DEF Next

(* Every variable has its type; the index stays within the ring, whatever its size. *)
THEOREM ContractTypeCorrect == Spec => []TypeOK
BY TypeInit, TypeStep, PTL DEF Spec

-----------------------------------------------------------------------------
(* Nullifiers. *)

LEMMA NullifierInit == Init => NullifiersAreUsedOnce
BY DEF Init, NullifiersAreUsedOnce, ToSet

LEMMA NullifierStep == TypeOK /\ NullifiersAreUsedOnce /\ [Next]_vars => NullifiersAreUsedOnce'
<1> SUFFICES ASSUME TypeOK, NullifiersAreUsedOnce, [Next]_vars PROVE NullifiersAreUsedOnce'
  OBVIOUS
<1>1. ASSUME NEW leaf \in Leaves, use_nullifier(leaf)
      PROVE  NullifiersAreUsedOnce'
  <2>1. /\ uses \in Seq(Leaves) /\ uses' = Append(uses, leaf)
        /\ leaf \notin nullifiers /\ nullifiers' = nullifiers \cup {leaf}
    BY <1>1 DEF use_nullifier, TypeOK
  <2>2. /\ DOMAIN uses = 1..Len(uses) /\ DOMAIN uses' = 1..Len(uses) + 1 /\ Len(uses) \in Nat
        /\ \A n \in DOMAIN uses : uses'[n] = uses[n]
        /\ uses'[Len(uses) + 1] = leaf
    BY <2>1
  <2>3. \A n \in DOMAIN uses : uses[n] \in nullifiers
    BY DEF NullifiersAreUsedOnce, ToSet
  <2>4. ToSet(uses') = nullifiers'
    BY <2>1, <2>2 DEF NullifiersAreUsedOnce, ToSet
  <2>5. ASSUME NEW m \in DOMAIN uses', NEW n \in DOMAIN uses', uses'[m] = uses'[n]
        PROVE  m = n
    <3>1. CASE m \in DOMAIN uses /\ n \in DOMAIN uses
      BY <2>2, <2>5, <3>1 DEF NullifiersAreUsedOnce
    <3>2. CASE m \notin DOMAIN uses \/ n \notin DOMAIN uses
      BY <2>1, <2>2, <2>3, <2>5, <3>2
    <3>3. QED
      BY <3>1, <3>2
  <2>6. QED
    BY <2>4, <2>5 DEF NullifiersAreUsedOnce
<1>2. CASE UNCHANGED <<nullifiers, uses>>
  BY <1>2 DEF NullifiersAreUsedOnce
<1>3. QED
  BY <1>1, <1>2
     DEF Next, DeployedNext, verify_membership, update_merkle_root, record_verification, vars

(* However long the contract lives, a nullifier is announced once at most. *)
THEOREM NullifierSafety == Spec => []NullifiersAreUsedOnce
<1>1. TypeOK /\ NullifiersAreUsedOnce /\ [Next]_vars => (TypeOK /\ NullifiersAreUsedOnce)'
  BY TypeStep, NullifierStep
<1>2. QED
  BY <1>1, TypeInit, NullifierInit, PTL DEF Spec

-----------------------------------------------------------------------------
(* Events. *)

(* The events of a contract with current root cur, told as a list of roots. *)
Update == [updater : Callers, old_root : Roots, new_root : Roots]
Story(cur, ups) ==
  <<IF ups = << >> THEN cur ELSE ups[1].old_root>> \o [n \in DOMAIN ups |-> ups[n].new_root]

LEMMA StoryType ==
  ASSUME NEW cur \in Roots, NEW ups \in Seq(Update)
  PROVE  /\ Story(cur, ups) \in Seq(Roots) /\ Len(Story(cur, ups)) = Len(ups) + 1
         /\ Story(cur, ups)[1] = IF ups = << >> THEN cur ELSE ups[1].old_root
         /\ \A n \in 1..Len(ups) : Story(cur, ups)[n + 1] = ups[n].new_root
<1> DEFINE first == IF ups = << >> THEN cur ELSE ups[1].old_root
           rest == [n \in DOMAIN ups |-> ups[n].new_root]
<1>1. /\ Len(ups) \in Nat /\ DOMAIN ups = 1..Len(ups)
      /\ \A n \in 1..Len(ups) : ups[n] \in Update
      /\ ups # << >> => 1 \in 1..Len(ups)
  OBVIOUS
<1>2. first \in Roots /\ \A n \in 1..Len(ups) : ups[n].new_root \in Roots
  BY <1>1 DEF Update
<1>3. rest \in Seq(Roots) /\ Len(rest) = Len(ups)
      /\ \A n \in 1..Len(ups) : rest[n] = ups[n].new_root
  BY <1>1, <1>2
<1>4. Story(cur, ups) = <<first>> \o rest
  BY DEF Story
<1> HIDE DEF first, rest
<1>5. /\ Story(cur, ups) \in Seq(Roots) /\ Len(Story(cur, ups)) = Len(ups) + 1
      /\ Story(cur, ups)[1] = first
      /\ \A n \in 1..Len(ups) : Story(cur, ups)[n + 1] = rest[n]
  BY <1>1, <1>2, <1>3, <1>4
<1>6. QED
  BY <1>3, <1>5 DEF first

(* An update adds its root to the story and changes nothing of what was told. *)
LEMMA StoryGrows ==
  ASSUME NEW cur \in Roots, NEW ups \in Seq(Update), NEW e \in Update, e.old_root = cur,
         NEW new \in Roots, e.new_root = new
  PROVE  /\ Story(new, Append(ups, e))[Len(ups) + 2] = new
         /\ \A k \in 1..Len(ups) + 1 : Story(new, Append(ups, e))[k] = Story(cur, ups)[k]
<1> DEFINE all == Append(ups, e)
<1>1. /\ all \in Seq(Update) /\ Len(all) = Len(ups) + 1 /\ Len(ups) \in Nat
      /\ all[Len(ups) + 1] = e
      /\ \A n \in 1..Len(ups) : all[n] = ups[n]
      /\ all # << >> /\ (ups = << >> <=> Len(ups) = 0)
  OBVIOUS
<1> HIDE DEF all
<1>2. /\ Story(cur, ups)[1] = IF ups = << >> THEN cur ELSE ups[1].old_root
      /\ \A n \in 1..Len(ups) : Story(cur, ups)[n + 1] = ups[n].new_root
  BY StoryType
<1>3. /\ Story(new, all)[1] = all[1].old_root
      /\ \A n \in 1..Len(all) : Story(new, all)[n + 1] = all[n].new_root
  BY <1>1, StoryType
<1>4. Story(new, all)[1] = Story(cur, ups)[1]
  BY <1>1, <1>2, <1>3
<1>5. ASSUME NEW k \in 1..Len(ups) + 1, k # 1
      PROVE  Story(new, all)[k] = Story(cur, ups)[k]
  <2>1. k - 1 \in 1..Len(ups) /\ k - 1 \in 1..Len(all) /\ (k - 1) + 1 = k
    BY <1>1, <1>5
  <2>2. Story(new, all)[k] = all[k - 1].new_root /\ Story(cur, ups)[k] = ups[k - 1].new_root
    BY <1>2, <1>3, <2>1
  <2>3. QED
    BY <1>1, <2>1, <2>2
<1>6. Story(new, all)[Len(ups) + 2] = new
  <2>1. Len(ups) + 1 \in 1..Len(all) /\ (Len(ups) + 1) + 1 = Len(ups) + 2
    BY <1>1
  <2>2. QED
    BY <1>1, <1>3, <2>1
<1>7. QED
  BY <1>4, <1>5, <1>6 DEF all

(* The same of the contract's story. *)
LEMMA RootsSoFarType ==
  ASSUME TypeOK
  PROVE  /\ Len(updates) \in Nat
         /\ RootsSoFar \in Seq(Roots) /\ Len(RootsSoFar) = Len(updates) + 1
<1>1. updates \in Seq(Update) /\ current_root \in Roots
  BY DEF TypeOK, Update
<1>2. RootsSoFar = Story(current_root, updates)
  BY DEF RootsSoFar, Story
<1>3. QED
  BY <1>1, <1>2, StoryType

LEMMA RootsSoFarGrows ==
  ASSUME TypeOK, NEW caller \in Callers, NEW root \in Roots, update_merkle_root(caller, root)
  PROVE  /\ Len(updates') = Len(updates) + 1
         /\ RootsSoFar'[Len(updates) + 2] = root
         /\ \A k \in 1..Len(updates) + 1 : RootsSoFar'[k] = RootsSoFar[k]
<1> DEFINE e == [updater |-> caller, old_root |-> current_root, new_root |-> root]
<1>1. /\ updates \in Seq(Update) /\ current_root \in Roots
      /\ updates' = Append(updates, e) /\ current_root' = root
  BY DEF TypeOK, update_merkle_root, Update
<1>2. e \in Update /\ e.old_root = current_root /\ e.new_root = root
  BY <1>1 DEF Update
<1> HIDE DEF e
<1>3. RootsSoFar = Story(current_root, updates) /\ RootsSoFar' = Story(root, Append(updates, e))
  BY <1>1 DEF RootsSoFar, Story
<1>4. Len(updates') = Len(updates) + 1
  BY <1>1, <1>2
<1>5. QED
  BY <1>1, <1>2, <1>3, <1>4, StoryGrows

LEMMA EventsInit == Init => EventsTellTheRoot
<1> SUFFICES ASSUME Init PROVE EventsTellTheRoot
  OBVIOUS
<1>1. updates = << >> /\ DOMAIN updates = {} /\ Len(updates) = 0 /\ TypeOK
  BY TypeInit DEF Init
<1>2. RootsSoFar[1] = current_root
  <2>1. RootsSoFar = Story(current_root, << >>) /\ << >> \in Seq(Update) /\ current_root \in Roots
    BY <1>1 DEF RootsSoFar, Story, TypeOK
  <2>2. QED
    BY <2>1, StoryType
<1>3. Last(RootsSoFar) = RootsSoFar[1]
  <2>1. Len(RootsSoFar) = 1
    BY <1>1, RootsSoFarType
  <2>2. QED
    BY <2>1 DEF Last
<1>4. QED
  BY <1>1, <1>2, <1>3 DEF EventsTellTheRoot

LEMMA EventsStep == TypeOK /\ EventsTellTheRoot /\ [Next]_vars => EventsTellTheRoot'
<1> SUFFICES ASSUME TypeOK, EventsTellTheRoot, [Next]_vars PROVE EventsTellTheRoot'
  OBVIOUS
<1>1. ASSUME NEW caller \in Callers, NEW root \in Roots, update_merkle_root(caller, root)
      PROVE  EventsTellTheRoot'
  <2> DEFINE e == [updater |-> caller, old_root |-> current_root, new_root |-> root]
  <2>1. /\ updates \in Seq(Update) /\ e \in Update /\ updates' = Append(updates, e)
        /\ caller = Owner /\ current_root' = root /\ current_root \in Roots
        /\ e.updater = caller /\ e.old_root = current_root
    BY <1>1 DEF TypeOK, update_merkle_root, Update
  <2> HIDE DEF e
  <2>2. /\ Len(updates') = Len(updates) + 1 /\ Len(updates) \in Nat
        /\ DOMAIN updates = 1..Len(updates) /\ DOMAIN updates' = 1..Len(updates) + 1
        /\ updates'[Len(updates) + 1] = e
        /\ \A n \in 1..Len(updates) : updates'[n] = updates[n]
        /\ updates' \in Seq(Update)
    BY <2>1
  <2>3. Last(RootsSoFar') = root
    <3>1. RootsSoFar' = Story(root, updates')
      BY <2>1 DEF RootsSoFar, Story
    <3>2. Len(RootsSoFar') = Len(updates) + 2
      BY <1>1, <2>2, <3>1, StoryType
    <3>3. QED
      BY <1>1, <3>2, RootsSoFarGrows DEF Last
  <2>4. Len(updates) > 0 => updates[Len(updates)].new_root = current_root
    <3>1. RootsSoFar = Story(current_root, updates) /\ Len(RootsSoFar) = Len(updates) + 1
      BY RootsSoFarType DEF RootsSoFar, Story
    <3>2. Len(updates) > 0 => RootsSoFar[Len(updates) + 1] = updates[Len(updates)].new_root
      BY <2>1, <2>2, <3>1, StoryType
    <3>3. QED
      BY <3>1, <3>2 DEF EventsTellTheRoot, Last
  <2>5. ASSUME NEW n \in DOMAIN updates'
        PROVE  updates'[n].updater = Owner /\ (n > 1 => updates'[n].old_root = updates'[n-1].new_root)
    <3>1. CASE n \in 1..Len(updates)
      <4>1. n > 1 => n - 1 \in 1..Len(updates)
        BY <2>2, <3>1
      <4>2. QED
        BY <2>2, <3>1, <4>1 DEF EventsTellTheRoot
    <3>2. CASE n = Len(updates) + 1
      <4>1. updates'[n] = e /\ n - 1 = Len(updates)
        BY <2>2, <3>2
      <4>2. n > 1 => updates'[n - 1] = updates[Len(updates)]
        BY <2>2, <3>2, <4>1
      <4>3. n > 1 => updates[Len(updates)].new_root = current_root
        BY <2>2, <2>4, <3>2
      <4>4. QED
        BY <2>1, <4>1, <4>2, <4>3
    <3>3. QED
      BY <2>2, <3>1, <3>2
  <2>6. QED
    BY <2>1, <2>3, <2>5 DEF EventsTellTheRoot
<1>2. CASE UNCHANGED <<current_root, updates>>
  BY <1>2 DEF EventsTellTheRoot, RootsSoFar
<1>3. QED
  BY <1>1, <1>2
     DEF Next, DeployedNext, verify_membership, use_nullifier, record_verification, vars

(* For any number of updates the events are one chain of roots, from the
   constructor's to the current one, and all of them are the owner's. *)
THEOREM EventSafety == Spec => []EventsTellTheRoot
<1>1. TypeOK /\ EventsTellTheRoot /\ [Next]_vars => (TypeOK /\ EventsTellTheRoot)'
  BY TypeStep, EventsStep
<1>2. QED
  BY <1>1, TypeInit, EventsInit, PTL DEF Spec

-----------------------------------------------------------------------------
(* The ring of roots. *)

(* The slot that was written d updates ago, counted backwards around the ring. *)
SlotOfAge(d) ==
  IF d <= root_history_index THEN root_history_index - d
                             ELSE root_history_index - d + HistorySize

(* AcceptedRootsAreTheWindow is not inductive: it says nothing of where in the ring
   a root is, so nothing of which one the next update overwrites.  RingOK does: the
   slot of age d has the root of d updates ago, and the slots that no update has
   reached are those after the index in the first round, which are zero. *)
RingOK ==
  /\ \A d \in Slots : d <= Len(updates) =>
       root_history[SlotOfAge(d)] = RootsSoFar[Len(updates) + 1 - d]
  /\ Len(updates) < HistorySize =>
       /\ root_history_index = Len(updates)
       /\ \A i \in Slots : i > Len(updates) => root_history[i] = 0

LEMMA Ages ==
  ASSUME TypeOK
  PROVE  /\ \A d \in Slots : SlotOfAge(d) \in Slots
         /\ \A i \in Slots : \E d \in Slots : SlotOfAge(d) = i
         /\ 0 \in Slots /\ SlotOfAge(0) = root_history_index
<1>1. root_history_index \in Slots /\ HistorySize \in Nat \ {0}
  BY HistorySizeAssumption DEF TypeOK
<1>2. ASSUME NEW i \in Slots
      PROVE  \E d \in Slots : SlotOfAge(d) = i
  <2>1. CASE i <= root_history_index
    <3>1. root_history_index - i \in Slots /\ SlotOfAge(root_history_index - i) = i
      BY <1>1, <2>1 DEF Slots, SlotOfAge
    <3>2. QED
      BY <3>1
  <2>2. CASE i > root_history_index
    <3> DEFINE d == root_history_index - i + HistorySize
    <3>1. d \in Slots /\ SlotOfAge(d) = i
      BY <1>1, <2>2 DEF Slots, SlotOfAge
    <3>2. QED
      BY <3>1
  <2>3. QED
    BY <1>1, <2>1, <2>2 DEF Slots
<1>3. QED
  BY <1>1, <1>2 DEF Slots, SlotOfAge

(* An update makes every root one update older, wherever the index stands. *)
LEMMA AgesGrow ==
  ASSUME TypeOK, root_history_index' = (root_history_index + 1) % HistorySize
  PROVE  /\ SlotOfAge(0)' = root_history_index'
         /\ \A d \in Slots : d > 0 =>
              /\ d - 1 \in Slots
              /\ SlotOfAge(d)' = SlotOfAge(d - 1)
              /\ SlotOfAge(d)' # root_history_index'
<1>1. /\ root_history_index \in Slots /\ HistorySize \in Nat \ {0}
      /\ root_history_index' = IF root_history_index + 1 = HistorySize
                                 THEN 0 ELSE root_history_index + 1
  BY HistorySizeAssumption, Wrap DEF TypeOK
<1>2. QED
  BY <1>1 DEF Slots, SlotOfAge

LEMMA RingInit == Init => RingOK
<1> SUFFICES ASSUME Init PROVE RingOK
  OBVIOUS
<1>1. /\ TypeOK /\ EventsTellTheRoot /\ updates = << >> /\ Len(updates) = 0
      /\ root_history_index = 0
      /\ root_history = [i \in Slots |-> IF i = 0 THEN current_root ELSE 0]
  BY TypeInit, EventsInit DEF Init
<1>2. Len(RootsSoFar) = 1
  BY <1>1, RootsSoFarType
<1>3. RootsSoFar[1] = current_root
  BY <1>1, <1>2 DEF EventsTellTheRoot, Last
<1>4. root_history[SlotOfAge(0)] = current_root /\ 0 \in Slots
  BY <1>1, Ages
<1>5. \A d \in Slots : d <= Len(updates) => d = 0
  BY <1>1, HistorySizeAssumption DEF Slots
<1>6. QED
  BY <1>1, <1>3, <1>4, <1>5, HistorySizeAssumption DEF RingOK, Slots

LEMMA RingStep == TypeOK /\ TypeOK' /\ RingOK /\ [Next]_vars => RingOK'
<1> SUFFICES ASSUME TypeOK, TypeOK', RingOK, [Next]_vars PROVE RingOK'
  OBVIOUS
<1>1. ASSUME NEW caller \in Callers, NEW root \in Roots, update_merkle_root(caller, root)
      PROVE  RingOK'
  <2>1. /\ root_history_index' = (root_history_index + 1) % HistorySize
        /\ root_history' = [root_history EXCEPT ![root_history_index'] = root]
        /\ root_history \in [Slots -> Roots \cup {0}]
        /\ root_history_index \in Slots /\ root_history_index' \in Slots
        /\ HistorySize \in Nat \ {0}
    BY <1>1, HistorySizeAssumption DEF update_merkle_root, TypeOK
  <2>2. /\ Len(updates) \in Nat /\ Len(updates') = Len(updates) + 1
        /\ RootsSoFar'[Len(updates) + 2] = root
        /\ \A k \in 1..Len(updates) + 1 : RootsSoFar'[k] = RootsSoFar[k]
    BY <1>1, RootsSoFarType, RootsSoFarGrows
  <2>3. ASSUME NEW d \in Slots, d <= Len(updates')
        PROVE  root_history'[SlotOfAge(d)'] = RootsSoFar'[Len(updates') + 1 - d]
    <3>1. CASE d = 0
      <4>1. root_history'[SlotOfAge(d)'] = root
        BY <2>1, <3>1, AgesGrow
      <4>2. Len(updates') + 1 - d = Len(updates) + 2
        BY <2>2, <3>1
      <4>3. QED
        BY <2>2, <4>1, <4>2
    <3>2. CASE d > 0
      <4>1. /\ d - 1 \in Slots /\ d - 1 <= Len(updates)
            /\ SlotOfAge(d)' = SlotOfAge(d - 1) /\ SlotOfAge(d)' # root_history_index'
        BY <2>1, <2>2, <2>3, <3>2, AgesGrow DEF Slots
      <4>2. SlotOfAge(d - 1) \in Slots
        BY <4>1, Ages
      <4>3. root_history'[SlotOfAge(d)'] = root_history[SlotOfAge(d - 1)]
        BY <2>1, <4>1, <4>2
      <4>4. root_history[SlotOfAge(d - 1)] = RootsSoFar[Len(updates) + 1 - (d - 1)]
        BY <4>1 DEF RingOK
      <4>5. /\ Len(updates) + 1 - (d - 1) \in 1..Len(updates) + 1
            /\ Len(updates) + 1 - (d - 1) = Len(updates') + 1 - d
        BY <2>2, <2>3, <3>2 DEF Slots
      <4>6. QED
        BY <2>2, <4>3, <4>4, <4>5
    <3>3. QED
      BY <3>1, <3>2 DEF Slots
  <2>4. ASSUME Len(updates') < HistorySize
        PROVE  /\ root_history_index' = Len(updates')
               /\ \A i \in Slots : i > Len(updates') => root_history'[i] = 0
    <3>1. /\ Len(updates) < HistorySize /\ root_history_index = Len(updates)
          /\ \A i \in Slots : i > Len(updates) => root_history[i] = 0
      BY <2>1, <2>2, <2>4 DEF RingOK
    <3>2. root_history_index' = Len(updates')
      BY <2>1, <2>2, <2>4, <3>1, Wrap
    <3>3. \A i \in Slots : i > Len(updates') => root_history'[i] = root_history[i]
      BY <2>1, <2>2, <3>2 DEF Slots
    <3>4. QED
      BY <2>2, <3>1, <3>2, <3>3 DEF Slots
  <2>5. QED
    BY <2>3, <2>4 DEF RingOK
<1>2. CASE UNCHANGED <<current_root, root_history, root_history_index, updates>>
  BY <1>2 DEF RingOK, RootsSoFar, SlotOfAge
<1>3. QED
  BY <1>1, <1>2
     DEF Next, DeployedNext, verify_membership, use_nullifier, record_verification, vars

LEMMA RingIsWindow ==
  ASSUME TypeOK, EventsTellTheRoot, RingOK
  PROVE  AcceptedRootsAreTheWindow
<1> DEFINE U == Len(updates)
<1>1. /\ U \in Nat /\ HistorySize \in Nat \ {0}
      /\ RootsSoFar \in Seq(Roots) /\ Len(RootsSoFar) = U + 1
      /\ RootsSoFar[U + 1] = current_root
  <2>1. U \in Nat /\ RootsSoFar \in Seq(Roots) /\ Len(RootsSoFar) = U + 1
    BY RootsSoFarType
  <2>2. QED
    BY <2>1, HistorySizeAssumption DEF EventsTellTheRoot, Last
<1> HIDE DEF U
<1>2. Window = {RootsSoFar[k] : k \in {j \in 1..U+1 : j + HistorySize > U + 1}}
  BY <1>1 DEF Window
<1>3. /\ \A d \in Slots : d <= U => root_history[SlotOfAge(d)] = RootsSoFar[U + 1 - d]
      /\ U < HistorySize => /\ root_history_index = U
                            /\ \A i \in Slots : i > U => root_history[i] = 0
  BY DEF RingOK, U
(* What is accepted has been a root in the window, or is the zero of an empty slot. *)
<1>4. ASSUME NEW i \in Slots
      PROVE  root_history[i] \in Window \/ (U + 1 < HistorySize /\ root_history[i] = 0)
  <2>1. PICK d \in Slots : SlotOfAge(d) = i
    BY Ages
  <2>2. CASE d <= U
    <3>1. U + 1 - d \in {j \in 1..U+1 : j + HistorySize > U + 1}
      BY <1>1, <2>2 DEF Slots
    <3>2. root_history[i] = RootsSoFar[U + 1 - d]
      BY <1>3, <2>1, <2>2
    <3>3. QED
      BY <1>2, <3>1, <3>2
  <2>3. CASE d > U
    <3>1. U + 1 < HistorySize /\ root_history_index = U
      BY <1>1, <1>3, <2>3 DEF Slots
    <3>2. i > U
      BY <1>1, <2>1, <2>3, <3>1 DEF SlotOfAge, Slots
    <3>3. QED
      BY <1>1, <1>3, <3>1, <3>2
  <2>4. QED
    BY <1>1, <2>2, <2>3 DEF Slots
<1>5. current_root \in Window
  <2>1. U + 1 \in {j \in 1..U+1 : j + HistorySize > U + 1}
    BY <1>1
  <2>2. QED
    BY <1>1, <1>2, <2>1
(* What has been a root in the window is still in its slot. *)
<1>6. ASSUME NEW r \in Window
      PROVE  r \in Roots /\ is_valid_root(r)
  <2>1. PICK k \in 1..U+1 : k + HistorySize > U + 1 /\ r = RootsSoFar[k]
    BY <1>2
  <2>2. U + 1 - k \in Slots /\ U + 1 - k <= U /\ U + 1 - (U + 1 - k) = k
    BY <1>1, <2>1 DEF Slots
  <2>3. root_history[SlotOfAge(U + 1 - k)] = r /\ SlotOfAge(U + 1 - k) \in Slots
    BY <1>3, <2>1, <2>2, Ages
  <2>4. r \in Roots
    BY <1>1, <2>1
  <2>5. QED
    BY <2>3, <2>4 DEF is_valid_root
<1>7. \A r : is_valid_root(r) => r \in Window \/ (U + 1 < HistorySize /\ r = 0)
  BY <1>4, <1>5 DEF is_valid_root
<1>8. QED
  BY <1>1, <1>6, <1>7 DEF AcceptedRootsAreTheWindow

(* Whatever the size of the ring and however often it has wrapped, exactly the
   last HistorySize roots are accepted, 0 apart while a slot is still unwritten. *)
THEOREM WindowSafety == Spec => []AcceptedRootsAreTheWindow
<1>1. Init => TypeOK /\ EventsTellTheRoot /\ RingOK
  BY TypeInit, EventsInit, RingInit
<1>2. TypeOK /\ EventsTellTheRoot /\ RingOK /\ [Next]_vars
        => (TypeOK /\ EventsTellTheRoot /\ RingOK)'
  BY TypeStep, EventsStep, RingStep
<1>3. TypeOK /\ EventsTellTheRoot /\ RingOK => AcceptedRootsAreTheWindow
  BY RingIsWindow
<1>4. QED
  BY <1>1, <1>2, <1>3, PTL DEF Spec
=============================================================================
