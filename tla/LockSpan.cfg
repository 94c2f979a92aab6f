\* An access of three elements around a region of one.
CONSTANTS
  NElem = 3
  CheckPeriod = 3
  MaxExtent = 3
  QueueDepth = 1
SPECIFICATION Spec
INVARIANTS YieldedRefused
CHECK_DEADLOCK FALSE
