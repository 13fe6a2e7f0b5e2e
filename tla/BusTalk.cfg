SPECIFICATION FairSpec
CONSTANTS
  MaxLate <- MCMaxLate
  NumRelays = 2
  Speeds = {0, 1}
  MaxCommands = 1
  MaxFaults = 3
INVARIANTS
  TypeOK
  CleanRelaysInPlace
  CleanFeedbackTrue
  CleanPumpHalfInPlace
  ReadingsOneBehind
PROPERTIES
  FeedbackSettles
  ReadingsSettle
