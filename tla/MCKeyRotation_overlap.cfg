\* Two joins that overlap leave a member with an old key.
SPECIFICATION Spec
CONSTANTS
  None = None
  Client = {a, b, c}
  Creator = a
  MaxKeptKeys = 2
  MaxRoomSize = 3
  MaxRequests = 0
INVARIANT EveryMemberRekeyed
SYMMETRY Sym
CHECK_DEADLOCK FALSE
