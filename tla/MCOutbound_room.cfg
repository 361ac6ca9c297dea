\* Queues of two frames that overflow; and a third client under a new owner.
SPECIFICATION Spec
CONSTANTS
  None = None
  a = a
  b = b
  c = c
  Client = {a, b, c}
  Creator = a
  Buffer = 2
  MaxFrames = 4
CONSTRAINT PairOrSuccession
INVARIANTS
  TypeInv
  NoGap
  ByeIsLast
  ViewConverges
PROPERTY DrainedAtEnd
CHECK_DEADLOCK FALSE
