SPECIFICATION Spec
CONSTANTS
  Raws <- MCRaws
  SampleCount = 3
  RawMin = 80
  RawMax = 32600
  FullScale = 32767
  HottestRaw = 6784
  ColdestRaw = 30051
  Settle = 2
  MaxFlips = 4
INVARIANT NullAfterChange
