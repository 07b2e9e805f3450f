\* Power cuts anywhere, with a sector between the first one and the staging sector;
\* the application erases UPDATE before a download.
CONSTANTS
  N = 4
  Versions = {1, 2, 3, 4}
  Size <- MCSize
  Acceptable = {1, 2, 3}
  Confirms = {1, 2, 3}
  EraseFirst = TRUE
  MaxCuts = 3
  MaxErrors = 0
  Blank = Blank
SPECIFICATION Spec
INVARIANTS
  TypeOK
  NoPanic
  AntiRollback
  FinalFlagsCleared
  SwapResumedOrLost
  BothImagesKept
PROPERTY TestedOnce
