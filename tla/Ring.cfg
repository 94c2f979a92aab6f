\* Both bus protocols; writes and reads longer than the two usable slots, and
\* enough words to go round the ring several times.
CONSTANTS
  Cap = 3
  MaxWrite = 3
  MaxGet = 3
  MaxWords = 9
SPECIFICATION Spec
INVARIANTS TypeOK RoomIsThere SlotsDisjoint NoLostWakeup
PROPERTIES WriteEnds IsBoundedFifo
CHECK_DEADLOCK FALSE
