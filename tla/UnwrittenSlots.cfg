CONSTANTS
  Callers = {owner}
  Owner = owner
  Roots = {1, 2}
  Leaves = {7}
  HistorySize = 3
  MaxUpdates = 3
  MaxUses = 1
  MaxVerifications = 1
SPECIFICATION Spec
INVARIANT AcceptedRootsAreCurrentOrHistorical
CHECK_DEADLOCK FALSE
