CONSTANTS
  VotesNeeded = 2
  Lowest = 18
  Highest = 21
  Measured <- SomeReadings
  MaxVotes = 3

SPECIFICATION FairSpec

INVARIANTS
  TypeOK
  ClickCountsItsNumber
  SuggestionsFitRoom
  CommandCountsVotes

PROPERTY
  ScreenCatchesUp
