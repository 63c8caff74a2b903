CONSTANTS
  Seats <- TwoSeats
  Tests <- TwoSeatTests
  MaxLoads = 3

SPECIFICATION Spec

CHECK_DEADLOCK FALSE

INVARIANT
  TableIsCurrent
