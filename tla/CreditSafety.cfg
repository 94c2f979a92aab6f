\* Undersized reverse FIFO, a consumer that may truncate, responses.
CONSTANTS
  Depth = 4
  RespWords = 1
  CrdEvery = 1
  CreditDepth = 2
  CreditDrain = 1
  Modulus = 5
  Truncates = TRUE
  MaxWords = 11
SPECIFICATION Spec
INVARIANTS TypeOK CreditExact NeverStalls
PROPERTIES CreditMonotone
CHECK_DEADLOCK FALSE
