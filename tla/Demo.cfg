CONSTANTS
  Roots = {r1, r2}
  NoRoot = NoRoot
  MaxTime = 4
  StrictClock = TRUE
  NoProof = NoProof
  MaxRuns = 2
  MaxSecond = 1
  Commitments = {c1}
SPECIFICATION DemoSpec
INVARIANTS
  DemoTypeOK
  ProvenRootsAreRecorded
  NoMoreProofsThanEntries
  CurrentRootHasProof
PROPERTIES
  ProofsStay
  ImplementsRootLog
