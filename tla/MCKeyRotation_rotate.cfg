\* Two joiners, and a kick or transfer request; or three, for two places.
SPECIFICATION Spec
CONSTANTS
  None = None
  Client = {a, b, c, d}
  Creator = a
  MaxKeptKeys = 2
  MaxRoomSize = 3
  MaxRequests = 1
CONSTRAINT LastPlace
INVARIANTS
  TypeInv
  NoPreJoinKey
  SettledAgreement
  SettledForwardSecrecy
  SettledRoster
SYMMETRY Sym
CHECK_DEADLOCK FALSE
