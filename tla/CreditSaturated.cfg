\* The defaults of CreditStreamIF, and a counter wide enough for its depth.
CONSTANTS
  Depth = 8
  RespWords = 1
  CrdEvery = 1
  CreditDepth = 4
  CreditDrain = 4
  Modulus = 16
  Truncates = FALSE
  MaxWords = 12
SPECIFICATION Spec
PROPERTIES WaitEnds
CHECK_DEADLOCK FALSE
