CONSTANTS
  PeriodicInterval = 2
  SamplingInterval = 20
  BufferLength = 6
  MinTemperature = 22
  MaxTemperature = 24
  FirstTemperature = 24
  LedThreshold = 23
  MaxVariation = 1
  Commands <- RoomCommands
  Faults <- AllFaults

SPECIFICATION FairSpec

INVARIANTS
  TypeOK
  NoLostWakeUp
  RoomConsistent

PROPERTIES
  FollowsSession
  OnlineOrSilentlyLost
  KeepsPublishing
