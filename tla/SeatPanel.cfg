CONSTANTS
  Seats <- CodeSeats
  Tests <- CodeTests
  MaxLoads = 4

SPECIFICATION Spec

CHECK_DEADLOCK FALSE

INVARIANTS
  TypeOK
  TableShown
  LoneRedrawRepairs
