------------------------ MODULE Groth16VerifierProofs ------------------------
(***************************************************************************)
(* Proofs about Groth16Verifier, for every word and prime, all points and  *)
(* keys of any length.                                                     *)
(***************************************************************************)
EXTENDS Groth16Verifier, TLAPS

LEMMA KeysAreSequences ==
  ASSUME NEW k \in Keys
  PROVE  /\ k \in Seq(KeyPoints) /\ Len(k) \in 0..MaxInputs+1
         /\ \A i \in 1..Len(k) : k[i] \in KeyPoints
<1>1. PICK m \in 0..MaxInputs+1 : k \in [1..m -> KeyPoints]
  BY DEF Keys, SeqOf
<1>2. k \in Seq(KeyPoints) /\ Len(k) = m
  BY <1>1, MaxInputsAssumption
<1>3. QED
  BY <1>1, <1>2

LEMMA InputsAreSequences == \A inputs \in PublicInputs : Len(inputs) \in Nat
<1> SUFFICES ASSUME NEW inputs \in PublicInputs PROVE Len(inputs) \in Nat
  OBVIOUS
<1>1. PICK m \in 0..MaxInputs+1 : inputs \in [1..m -> Inputs]
  BY DEF PublicInputs, SeqOf
<1>2. QED
  BY <1>1, MaxInputsAssumption

-----------------------------------------------------------------------------
(* Type correctness. *)

LEMMA TypeInit == Init => TypeOK
<1> SUFFICES ASSUME Init PROVE TypeOK
  OBVIOUS
<1>1. << >> \in Keys
  <2>1. << >> \in [1..0 -> KeyPoints]
    OBVIOUS
  <2>2. 0 \in 0..MaxInputs+1
    BY MaxInputsAssumption
  <2>3. QED
    BY <2>1, <2>2 DEF Keys, SeqOf
<1>2. ic_points \in [Slots -> KeyPoints \cup {Origin}]
  BY DEF Init
<1>3. 0 \in 0..MaxInputs+1
  BY MaxInputsAssumption
<1>4. QED
  BY <1>1, <1>2, <1>3 DEF Init, TypeOK

LEMMA TypeStep == TypeOK /\ [Next]_vars => TypeOK'
<1> SUFFICES ASSUME TypeOK, [Next]_vars PROVE TypeOK'
  OBVIOUS
<1> USE DEF TypeOK
<1>1. ASSUME NEW caller \in Callers, NEW length \in 0..MaxInputs+1, NEW points \in Keys,
             set_verification_key(caller, length, points)
      PROVE  TypeOK'
  <2>1. \A i \in Slots : i < length => points[i + 1] \in KeyPoints
    BY <1>1, KeysAreSequences, MaxInputsAssumption DEF set_verification_key, Slots
  <2>2. ic_points' \in [Slots -> KeyPoints \cup {Origin}]
    BY <1>1, <2>1 DEF set_verification_key
  <2>3. QED
    BY <1>1, <2>2 DEF set_verification_key
<1>2. ASSUME NEW proof \in Proofs, NEW inputs \in PublicInputs, verify_proof(proof, inputs)
      PROVE  TypeOK'
  BY <1>2 DEF verify_proof, Verdict, verify_pairing
<1>3. CASE UNCHANGED vars
  BY <1>3 DEF vars
<1>4. QED
  BY <1>1, <1>2, <1>3 DEF Next

(* Every variable has its type, and the slots hold nothing but points of keys. *)
THEOREM KeyTypeCorrect == Spec => []TypeOK
BY TypeInit, TypeStep, PTL DEF Spec

-----------------------------------------------------------------------------
(* Verdicts depend on the last key alone. *)

(* The slots up to ic_length hold the last key.  What is in the slots after them is
   left open: it may come from any longer key before. *)
KeyIsStored ==
  /\ initialized => /\ ic_length = Len(key)
                    /\ \A i \in 0..Len(key)-1 : ic_points[i] = key[i + 1]
  /\ ~initialized => key = << >>

LEMMA KeyStep == TypeOK /\ KeyIsStored /\ [Next]_vars => KeyIsStored'
<1> SUFFICES ASSUME TypeOK, KeyIsStored, [Next]_vars PROVE KeyIsStored'
  OBVIOUS
<1>1. ASSUME NEW caller \in Callers, NEW length \in 0..MaxInputs+1, NEW points \in Keys,
             set_verification_key(caller, length, points)
      PROVE  KeyIsStored'
  <2>1. Len(points) = length /\ key' = points /\ initialized' = TRUE /\ ic_length' = length
        /\ \A i \in Slots : i < length => ic_points'[i] = points[i + 1]
    BY <1>1 DEF set_verification_key
  <2>2. 0..Len(points)-1 \subseteq Slots /\ \A i \in 0..Len(points)-1 : i < length
    BY <2>1, MaxInputsAssumption DEF Slots
  <2>3. QED
    BY <2>1, <2>2 DEF KeyIsStored
<1>2. CASE UNCHANGED <<initialized, ic_length, ic_points, key>>
  BY <1>2 DEF KeyIsStored
<1>3. QED
  BY <1>1, <1>2 DEF Next, verify_proof, vars

(* The linear combination looks at no slot beyond the number of inputs. *)
LEMMA CombinationIsLocal ==
  ASSUME NEW inputs, Len(inputs) \in Nat, NEW s, NEW u, \A i \in 0..Len(inputs) : s[i] = u[i]
  PROVE  compute_linear_combination(s, inputs) = compute_linear_combination(u, inputs)
<1>1. \A f : [n \in 0..Len(inputs) |->
                IF n = 0 THEN s[0] ELSE scalar_mul_and_add(f[n-1], s[n], inputs[n])]
           = [n \in 0..Len(inputs) |->
                IF n = 0 THEN u[0] ELSE scalar_mul_and_add(f[n-1], u[n], inputs[n])]
  OBVIOUS
<1>2. (CHOOSE f : f = [n \in 0..Len(inputs) |->
                IF n = 0 THEN s[0] ELSE scalar_mul_and_add(f[n-1], s[n], inputs[n])])
      = (CHOOSE f : f = [n \in 0..Len(inputs) |->
                IF n = 0 THEN u[0] ELSE scalar_mul_and_add(f[n-1], u[n], inputs[n])])
  BY <1>1
<1>3. QED
  BY <1>2 DEF compute_linear_combination

LEMMA StoredKeyDecides == TypeOK /\ KeyIsStored => VerdictsUseTheLastKey
<1> SUFFICES ASSUME TypeOK, KeyIsStored, NEW proof \in Proofs, NEW inputs \in PublicInputs
             PROVE  Verdict(proof, inputs) =
                      IF key = << >> \/ Len(inputs) # Len(key) - 1 THEN "refused"
                      ELSE verify_pairing(proof, compute_linear_combination(
                             [i \in 0..Len(key)-1 |-> key[i + 1]], inputs))
  BY DEF VerdictsUseTheLastKey
<1>1. Len(inputs) \in Nat /\ Len(key) \in Nat /\ (Len(key) = 0 <=> key = << >>)
  <2>1. key \in Seq(KeyPoints)
    BY KeysAreSequences DEF TypeOK
  <2>2. QED
    BY <2>1, InputsAreSequences
<1>2. CASE key = << >> \/ Len(inputs) # Len(key) - 1
  BY <1>1, <1>2 DEF Verdict, KeyIsStored
<1>3. CASE key # << >> /\ Len(inputs) = Len(key) - 1
  <2>1. initialized /\ ic_length = Len(inputs) + 1
        /\ \A i \in 0..Len(inputs) : ic_points[i] = [j \in 0..Len(key)-1 |-> key[j + 1]][i]
    BY <1>1, <1>3 DEF KeyIsStored
  <2>2. compute_linear_combination(ic_points, inputs)
          = compute_linear_combination([i \in 0..Len(key)-1 |-> key[i + 1]], inputs)
    BY <1>1, <2>1, CombinationIsLocal
  <2>3. QED
    BY <1>3, <2>1, <2>2 DEF Verdict
<1>4. QED
  BY <1>2, <1>3

(* For keys of any length, set in any order: no point of an earlier key has a part
   in a verdict, and only lists of inputs that fit the last key get one. *)
THEOREM VerdictSafety == Spec => []VerdictsUseTheLastKey
<1>1. Init => KeyIsStored
  BY DEF Init, KeyIsStored
<1>2. TypeOK /\ KeyIsStored /\ [Next]_vars => (TypeOK /\ KeyIsStored)'
  BY TypeStep, KeyStep
<1>3. QED
  BY <1>1, <1>2, TypeInit, StoredKeyDecides, PTL DEF Spec
=============================================================================
