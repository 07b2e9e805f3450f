SPECIFICATION Spec
CONSTANTS
  N = 3
  Slots = 2
  MaxSeq = 9
  MaxCuts = 2
INVARIANTS TypeOK NewestFirst KeptUntilWrap
