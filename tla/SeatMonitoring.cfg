CONSTANTS
  NumSeats = 2
  MaxChanges = 3

SPECIFICATION FairSpec

CHECK_DEADLOCK FALSE

INVARIANTS
  TypeOK
  StaleOnlyAfterLoss

PROPERTY
  ShownUnlessLost
