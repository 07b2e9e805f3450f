\* One power cut: a resumed patch that makes a smaller image.
CONSTANTS
  N = 5
  Versions = {1, 2, 3}
  Size <- MCSize
  Acceptable = {1, 2, 3}
  Confirms = {1, 2, 3}
  EraseFirst = TRUE
  MaxCuts = 1
  MaxErrors = 0
  Blank = Blank
  ESC = 12
  SectorSize = 6
  BlockSize = 3
  Base = 1
  Target = 2
  Pairs <- MCPairs
SPECIFICATION DeltaSpec
INVARIANT PatchApplies
CHECK_DEADLOCK FALSE
