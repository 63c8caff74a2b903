CONSTANTS
  MaxTime = 2
  MaxStarts = 2

SPECIFICATION SyncFairSpec

CHECK_DEADLOCK FALSE

INVARIANTS
  SyncTypeOK
  OwnRowsDatedInTime

PROPERTY
  SynchSettles
