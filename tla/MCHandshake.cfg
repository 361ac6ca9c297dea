\* An invite, a room that may change hands or close, right and wrong codes.
SPECIFICATION Spec
CONSTANTS
  j1 = j1
  k1 = k1
  k2 = k2
  m1 = m1
  m2 = m2
  None = None
  Order = 7
  M = 2
  N = 3
  Mhf <- MhfTable
  Invite = {j1}
  Member = {m1, m2}
  Creator = m1
INVARIANTS
  CodeDecides
  UsableOnArrival
PROPERTY JoinResolves
CHECK_DEADLOCK FALSE
