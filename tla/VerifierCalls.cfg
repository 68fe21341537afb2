SPECIFICATION Spec
CONSTANTS
  Addresses = {a1}
  NoAddress = NoAddress
  NoHash = NoHash
  NoResult = NoResult
  MembershipVerifiers = {a1}
  MaxHeight = 2
INVARIANT VerifiersAreAsked
