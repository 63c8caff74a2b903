CONSTANTS
  MaxTime = 1
  MaxStarts = 2

SPECIFICATION SyncSpec

INVARIANT
  RowsNotDatedAhead
