\* Two senders with two transfers each against a cap that one of them can fill.
SPECIFICATION Spec
CONSTANTS
  None = None
  Conn = {a, b}
  Transfer = {x1, x2}
  ChunkSize = {1, 2}
  MaxFileBytes = 3
  MaxInflightBytes = 4
INVARIANTS
  TypeInv
  ExactAccounting
  AcceptedWithinCap
PROPERTY ChunkInsideTransfer
SYMMETRY Sym
