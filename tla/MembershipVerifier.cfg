CONSTANTS
  Callers = {owner, user}
  Owner = owner
  Roots = {0, 1, 2}
  Leaves = {7, 8}
  HistorySize = 3
  MaxUpdates = 5
  MaxUses = 3
  MaxVerifications = 1
SPECIFICATION Spec
INVARIANTS
  TypeOK
  AcceptedRootsAreTheWindow
  EventsTellTheRoot
  NullifiersAreUsedOnce
CHECK_DEADLOCK FALSE
