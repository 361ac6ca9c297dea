\* A tab that opens up to three sockets, and a user without patience.
SPECIFICATION Spec
CONSTANTS
  None = None
  MaxSockets = 3
INVARIANTS
  OldSessionsEnded
  JoinArmed
PROPERTY DeadRoomEnds
CHECK_DEADLOCK FALSE
