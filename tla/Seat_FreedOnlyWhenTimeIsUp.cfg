CONSTANTS
  ChronometerTime = 3
  ChronometerTime2 = 2
  PirWaits <- MCCoarse
  OccupiedThreshold = 2
  FreeThreshold = 3

SPECIFICATION Spec

PROPERTY FreedOnlyWhenTimeIsUp
