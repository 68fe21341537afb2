CONSTANTS
  Callers = {owner, user}
  Owner = owner
  Word = 64
  Prime = 13
  KeyPoints <- MCKeyPoints
  ProofPoints <- MCProofPoints
  Inputs = {0, 1, 9}
  MaxInputs = 2
SPECIFICATION Spec
INVARIANT
  PointsOnTheCurveAreAccepted
