\* Image 2 never confirms itself, images 1 and 3 do; three power cuts.
CONSTANTS
  N = 3
  Versions = {1, 2, 3, 4}
  Size <- MCSize
  Acceptable = {1, 2, 3}
  Confirms = {1, 3}
  EraseFirst = TRUE
  MaxCuts = 3
  MaxErrors = 0
  Blank = Blank
SPECIFICATION ResetSpec
INVARIANTS
  SwapSafe
  VersionSafe
PROPERTY RollbackHappens
