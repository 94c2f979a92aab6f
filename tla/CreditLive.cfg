\* Batched credit over a reverse FIFO deep enough for it: (2 + 1) * 2 > 5.
CONSTANTS
  Depth = 5
  RespWords = 1
  CrdEvery = 2
  CreditDepth = 2
  CreditDrain = 1
  Modulus = 8
  Truncates = FALSE
  MaxWords = 11
SPECIFICATION Spec
INVARIANTS NoCreditLost
PROPERTIES WaitEnds
