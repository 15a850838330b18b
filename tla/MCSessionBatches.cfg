SPECIFICATION Spec
CONSTANTS
  BatchSize = 2
  MaxMessages = 4
  MaxLost = 0
  None = None
INVARIANTS EveryMessageReported
CHECK_DEADLOCK FALSE
