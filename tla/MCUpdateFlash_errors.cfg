\* Two copies of a sector fail, and two power cuts; wolfBoot_panic stops for good.
CONSTANTS
  N = 3
  Versions = {1, 2, 3}
  Size <- MCSize
  Acceptable = {1, 2}
  Confirms = {1, 2}
  EraseFirst = TRUE
  MaxCuts = 2
  MaxErrors = 2
  Blank = Blank
SPECIFICATION BootSpec
INVARIANT PanicJustified
PROPERTY BootCompletes
CHECK_DEADLOCK FALSE
