\* A file of two chunks for two receivers; two rotations wipe the key of an upload.
SPECIFICATION Spec
CONSTANTS
  Receiver = {r1, r2}
  Sender = s
  Transfer = {x1}
  Chunks = 2
  MaxKeptKeys = 2
  MaxKey = 3
  None = None
INVARIANTS
  WholeOrNothing
  OneEpoch
PROPERTY TransfersSettle
CHECK_DEADLOCK FALSE
