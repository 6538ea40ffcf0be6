SPECIFICATION Spec
CONSTANTS
  FloatOf <- MCFloatOf
  ExactInts = 2
  Numbers <- MCNumbers
  Vocabularies <- MCAgents
INVARIANT NoInventedBound
CHECK_DEADLOCK FALSE
