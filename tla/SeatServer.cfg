CONSTANTS
  ChronometerTime = 30
  ChronometerTime2 = 30
  PirWaits <- MCSeconds
  OccupiedThreshold = 7
  FreeThreshold = 10

SPECIFICATION FairSpec

INVARIANTS
  TypeOK
  ResourceMirrorsSeat
  TimersKept
  MovementsWithinMode

PROPERTIES
  WindowKept
  ButtonFrees
  OccupancyIsRevised
