CONSTANTS
  Strings = {s1, s2, short}
  Malformed = {short}
  Depth = 2
SPECIFICATION Spec
INVARIANT
  MembersProve
