CONSTANTS
  Callers = {c1, c2, c3}
  NoCaller = NoCaller
  MaxSetups = 2
SPECIFICATION FairSpec
INVARIANTS
  TypeOK
  CallsSeeOneSetup
PROPERTIES
  ImplementsProverService
  EveryCallReturns
