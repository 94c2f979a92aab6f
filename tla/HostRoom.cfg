\* A packet one word longer than the queue, and packets that fit.
CONSTANTS
  Depth = 4
  MaxBurst = 2
  KernelBurst = 1
  Packets = {1, 5}
  Reads = {1}
  MaxWords = 7
SPECIFICATION Spec
INVARIANTS FittingNeverStalls
CHECK_DEADLOCK FALSE
