-------------------------- MODULE Groth16Verifier --------------------------
(***************************************************************************)
(* contracts/src/groth16_verifier.cairo: the verification key, its IC      *)
(* points in a map of storage slots, and verify_proof with its placeholder *)
(* for the pairing.  Arithmetic on u256 is checked: an operation whose     *)
(* result does not fit panics and the transaction is reverted.  It is      *)
(* modelled with a small word and a small prime.                           *)
(*                                                                         *)
(* set_verification_key is a function of the contract that its interface   *)
(* does not list; Spec has it as the operation it is written to be.        *)
(***************************************************************************)
EXTENDS Integers, Sequences, SequencesExt

CONSTANTS
  Callers, Owner,    \* contract addresses, and the one the constructor was given
  Word,              \* 2^256
  Prime,             \* BN254_FIELD_PRIME()
  KeyPoints,         \* G1 points that occur in verification keys
  ProofPoints,       \* G1 points that occur in proofs
  Inputs,            \* u256 values that occur as public inputs
  MaxInputs          \* bound on the number of public inputs

ASSUME OwnerAssumption == Owner \in Callers
ASSUME PrimeAssumption == Prime \in Nat /\ Word \in Nat /\ 3 < Prime /\ Prime < Word
ASSUME MaxInputsAssumption == MaxInputs \in Nat

VARIABLES
  initialized,
  ic_length,         \* vk.ic_length; the other parts of vk are stored and read whole
  ic_points,         \* the map, over all the slots that can be written
  key,               \* the IC points of the last key that was set
  reply              \* what the last verify_proof did

vars == <<initialized, ic_length, ic_points, key, reply>>

Slots == 0..MaxInputs
Origin == [x |-> 0, y |-> 0]
Keys == SeqOf(KeyPoints, MaxInputs + 1)
Proofs == [a : ProofPoints, c : ProofPoints]
PublicInputs == SeqOf(Inputs, MaxInputs + 1)

-----------------------------------------------------------------------------
(* Checked u256 arithmetic: a result that does not fit is a panic, and so is
   whatever is computed from one. *)
Panic == -1
Fits(n) == IF n < Word THEN n ELSE Panic
Mul(a, b) == IF Panic \in {a, b} THEN Panic ELSE Fits(a * b)
Plus(a, b) == IF Panic \in {a, b} THEN Panic ELSE Fits(a + b)
ModPrime(a) == IF a = Panic THEN Panic ELSE a % Prime

is_on_curve_g1(point) ==
  LET y_squared == ModPrime(Mul(point.y, point.y))
      x_cubed == ModPrime(Mul(Mul(point.x, point.x), point.x))
      rhs == ModPrime(Plus(x_cubed, 3))
  IN  IF point = Origin THEN "true"
      ELSE IF Panic \in {point.x, point.y, y_squared, rhs} THEN "panics"
      ELSE IF y_squared = rhs THEN "true" ELSE "false"

scalar_mul_and_add(base, point, scalar) ==
  IF scalar = 0 THEN base
  ELSE [x |-> Plus(base.x, ModPrime(Mul(point.x, scalar))),
        y |-> Plus(base.y, ModPrime(Mul(point.y, scalar)))]

(* IC[0] + sum of inputs[i] * IC[i+1]; Cairo counts the inputs from 0. *)
compute_linear_combination(slots, inputs) ==
  LET sum[n \in 0..Len(inputs)] ==
        IF n = 0 THEN slots[0] ELSE scalar_mul_and_add(sum[n-1], slots[n], inputs[n])
  IN  sum[Len(inputs)]

(* The placeholder: three points on the curve.  The key has no part in it. *)
verify_pairing(proof, vk_x) ==
  LET valid == {is_on_curve_g1(proof.a), is_on_curve_g1(proof.c), is_on_curve_g1(vk_x)}
  IN  IF "panics" \in valid THEN "panics" ELSE IF "false" \in valid THEN "false" ELSE "true"

-----------------------------------------------------------------------------
(* constructor *)
Init ==
  /\ initialized = FALSE
  /\ ic_length = 0
  /\ ic_points = [i \in Slots |-> Origin]
  /\ key = << >>
  /\ reply = "none"

(* Mutation: the loop that stores the points ends one point early. *)
SetAllButOne(caller, length, points) ==
  /\ caller = Owner
  /\ Len(points) = length
  /\ ic_length' = length
  /\ ic_points' = [i \in Slots |-> IF i + 1 < length THEN points[i + 1] ELSE ic_points[i]]
  /\ initialized' = TRUE
  /\ key' = points
  /\ UNCHANGED reply

set_verification_key(caller, length, points) ==
  /\ caller = Owner
  /\ Len(points) = length
  /\ ic_length' = length
  /\ ic_points' = [i \in Slots |-> IF i < length THEN points[i + 1] ELSE ic_points[i]]
  /\ initialized' = TRUE
  /\ key' = points
  /\ UNCHANGED reply

(* Reverted by an assertion, by a panic, or answered. *)
Verdict(proof, inputs) ==
  IF ~initialized \/ Len(inputs) + 1 # ic_length THEN "refused"
  ELSE verify_pairing(proof, compute_linear_combination(ic_points, inputs))

(* Mutation: the sum is accumulated in the slot of IC[0]. *)
VerifyInPlace(proof, inputs) ==
  /\ reply' = Verdict(proof, inputs)
  /\ ic_points' = IF reply' = "refused" THEN ic_points
                  ELSE [ic_points EXCEPT ![0] = compute_linear_combination(ic_points, inputs)]
  /\ UNCHANGED <<initialized, ic_length, key>>

verify_proof(proof, inputs) ==
  /\ reply' = Verdict(proof, inputs)
  /\ UNCHANGED <<initialized, ic_length, ic_points, key>>

Next ==
  \/ \E caller \in Callers, length \in 0..MaxInputs+1, points \in Keys :
       set_verification_key(caller, length, points)
  \/ \E proof \in Proofs, inputs \in PublicInputs : verify_proof(proof, inputs)

Spec == Init /\ [][Next]_vars

-----------------------------------------------------------------------------
(* Every variable has its type; no call stores a point no key holds. *)
TypeOK ==
  /\ initialized \in BOOLEAN
  /\ ic_length \in 0..MaxInputs+1
  /\ ic_points \in [Slots -> KeyPoints \cup {Origin}]
  /\ key \in Keys
  /\ reply \in {"none", "refused", "panics", "true", "false"}

(* A verdict depends on the last key alone.  A key shorter than the one before
   leaves the points of the longer one in the map; no list of inputs that
   verify_proof lets through reaches them, and none it lets through is longer or
   shorter than the key asks for. *)
VerdictsUseTheLastKey ==
  \A proof \in Proofs, inputs \in PublicInputs :
    Verdict(proof, inputs) =
      IF key = << >> \/ Len(inputs) # Len(key) - 1 THEN "refused"
      ELSE verify_pairing(proof,
             compute_linear_combination([i \in 0..Len(key)-1 |-> key[i + 1]], inputs))

(* The comment in verify_pairing: "return true if the proof structure is valid".
   With points that lie on the curve, and no input to combine with the key, the
   answer is to be true; the checked products of the curve test overflow first. *)
PointsOnTheCurveAreAccepted ==
  \A proof \in Proofs :
    /\ Len(key) = 1
    /\ \A p \in {proof.a, proof.c, key[1]} : (p.y * p.y - p.x * p.x * p.x - 3) % Prime = 0
    => Verdict(proof, << >>) = "true"
=============================================================================
