\* Image 2 never confirms itself, and two power cuts keep it in BOOT for good.
CONSTANTS
  N = 3
  Versions = {1, 2}
  Size <- MCSize
  Acceptable = {1, 2}
  Confirms = {1}
  EraseFirst = TRUE
  MaxCuts = 2
  MaxErrors = 0
  Blank = Blank
SPECIFICATION ResetSpec
PROPERTY RolledBack
