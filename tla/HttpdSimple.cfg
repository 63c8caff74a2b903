CONSTANTS
  Conns = {1, 2, 3}
  CONNS = 2
  Requests <- SomeRequests
  Lists = 2
  MostRows = 1
  Tables <- SomeTables
  Room = 2

SPECIFICATION FairSpec
CHECK_DEADLOCK FALSE

INVARIANTS
  TypeOK
  PoolAccounts
  NeverCallsNull
  LonePageIsWhole
  TextHasOrigin
  BufferHolds

PROPERTY
  BlocksReturned
