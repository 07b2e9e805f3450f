SPECIFICATION Spec
CONSTANTS
  Size = 2
  WordBytes = 1
  Data = {6, 87}
  MaxLen = 2
  MaxFaults = 2
  MaxBlind = 1
INVARIANTS TypeOK ExactCalls FailureExplained
PROPERTY CallEnds
