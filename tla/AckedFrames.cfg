\* Four frames in flight, an ack FIFO of exactly that many statuses, frames
\* that fit the forward FIFO and frames that do not.
CONSTANTS
  MaxInFlight = 4
  AckDepth = 4
  Depth = 2
  MaxLen = 3
  MaxHarvest = 2
  MaxFrames = 9
SPECIFICATION Spec
INVARIANTS TypeOK NoMispairing NoStatusDropped
PROPERTIES EveryFrameResolves
CHECK_DEADLOCK FALSE
