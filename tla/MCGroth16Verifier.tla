------------------------- MODULE MCGroth16Verifier -------------------------
(* Groth16Verifier over a word of 6 bits and the curve y^2 = x^3 + 3 over the
   field of 13 elements: as with BN254, a field element needs most of the word
   and the product of two seldom fits. *)
EXTENDS Groth16Verifier

Point(x, y) == [x |-> x, y |-> y]

(* (0,4), (1,2) and (9,2) lie on the curve, (1,3) does not. *)
MCKeyPoints == {Point(0, 4), Point(1, 2)}
MCProofPoints == {Point(0, 4), Point(1, 2), Point(1, 3), Point(9, 2)}
=============================================================================
