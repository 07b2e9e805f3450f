\* Delta updates and their fallback, with power cuts anywhere, on flash that
\* clears bits in place and on write-once flash.
CONSTANTS
  N = 5
  Versions = {1, 2, 3}
  Size <- MCSize
  Acceptable = {1, 2, 3}
  Confirms = {1, 2, 3}
  EraseFirst = TRUE
  MaxCuts = 2
  MaxErrors = 0
  Blank = Blank
  ESC = 12
  SectorSize = 6
  BlockSize = 3
  Base = 1
  Target = 2
  Pairs <- MCPairs
SPECIFICATION DeltaSpec
INVARIANTS
  DeltaTypeOK
  PatchExact
  DeltaPanicJustified
  AntiRollback
PROPERTIES
  UpdateKept
  FitsUnlessShrinking
CHECK_DEADLOCK FALSE
