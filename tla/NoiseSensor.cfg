CONSTANTS
  PeriodicInterval = 2
  SamplingInterval = 8
  SendInterval = 60
  CounterSize = 65536
  Faults <- AllFaults

SPECIFICATION FairSpec

INVARIANTS
  TypeOK
  NoLostWakeUp
  MeanIsDefined

PROPERTIES
  FollowsSession
  OnlineOrSilentlyLost
  KeepsPublishing
