SPECIFICATION FairSpec
CONSTANTS
  MaxChanges = 2
  MaxFaults = 2
  QueueBound = 2
INVARIANTS
  TypeOK
  OnlineListens
  HintedPublished
PROPERTY TruthInTheEnd
CHECK_DEADLOCK FALSE
