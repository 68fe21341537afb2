CONSTANTS
  Strings = {s1, short}
  Malformed = {short}
  Depth = 2
SPECIFICATION Spec
INVARIANTS
  TypeOK
  SparseRootIsFullRoot
  InsertedLeavesVerify
  OnlyTreeLeavesVerify
  CircuitMatchesNative
  MembersProveAtTreeDepth
PROPERTY StaleProofsFail
