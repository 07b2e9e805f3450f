SPECIFICATION Spec
CONSTANTS
  NSectors = 3
  States <- MCStates
  Unit = 2
  Tears = {"fill", "mix"}
  MaxCuts = 3
INVARIANT TypeOK
PROPERTY OneTrailer
