SPECIFICATION FairSpec
CONSTANTS
  Raws <- MCRaws
  SampleCount = 3
  RawMin = 80
  RawMax = 32600
  FullScale = 32767
  HottestRaw = 6784
  ColdestRaw = 30051
  Settle = 2
  MaxFlips = 3
INVARIANTS
  TypeOK
  SettledLongEnough
  FaultBlanks
  AverageOfSamples
  ValidityShown
PROPERTIES
  OtherLoopKept
  ReadingReturns
