SPECIFICATION AccessSpec
CONSTANTS
  Addresses = {a1}
  NoAddress = NoAddress
  NoHash = NoHash
  NoResult = NoResult
  MembershipVerifiers = {}
  MaxHeight = 2
  Keys = {k1, k2}
  MaxBlock = 3
  MaxRequests = 3
INVARIANTS
  AnswersAreTheContracts
  MockTellsWhatItTold
PROPERTY StatusesAdvance
