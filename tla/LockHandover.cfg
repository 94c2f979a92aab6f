\* Accesses as long as the memory, so that the owner's can go around a region:
\* regions of every legal shape and some that are refused.
CONSTANTS
  NElem = 4
  CheckPeriod = 4
  MaxExtent = 4
  QueueDepth = 1
SPECIFICATION Spec
INVARIANTS TypeOK HeldIsYielded OnlyAroundOverlaps NeverClash WaitBounded
PROPERTIES AcquireAnswered
CHECK_DEADLOCK FALSE
