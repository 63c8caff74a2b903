CONSTANTS
  PeriodicInterval = 1
  SamplingInterval = 3
  BufferLength = 2
  MinTemperature = 24
  MaxTemperature = 24
  FirstTemperature = 24
  LedThreshold = 23
  MaxVariation = 0
  Commands <- NoCommands
  Faults <- TcpFaults

SPECIFICATION FairSpec

PROPERTY Recovers
