SPECIFICATION BootSpec
CONSTANTS
  Builds <- Build
  Versions = {1, 2, 3}
  Good = {TRUE, FALSE}
  MaxCuts = 2
  MaxDecays = 2
  MaxFaults = 2
INVARIANTS TypeOK PanicJustified ConfirmedKept
PROPERTIES NewestBoots NoDowngrade BootEnds
