\* Queues of four words: a packet that fills one, the words that are left beside it, and
\* a pull longer than the queue.
CONSTANTS
  Depth = 4
  MaxBurst = 2
  KernelBurst = 2
  Packets = {1, 4}
  Reads = {2, 5}
  MaxWords = 6
SPECIFICATION Spec
INVARIANTS TypeOK FittingNeverStalls PopsFindWords NoLostWakeup
PROPERTIES CallsReturn
CHECK_DEADLOCK FALSE
