\* Two producers that write or offer, bursts up to one word over the depth.
CONSTANTS
  Producers = {p1, p2}
  Kinds = {"write", "offer"}
  Cap = 2
  MaxLen = 3
  MaxBursts = 4
SPECIFICATION Spec
INVARIANTS TypeOK LevelsExact NeverFails OfferNeverWaits WritesFitDepth
PROPERTIES IsBurstFifo EveryBurstSettles
CHECK_DEADLOCK FALSE
