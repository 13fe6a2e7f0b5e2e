SPECIFICATION FairSpec
CONSTANTS
  NumRelays = 2
  SpdMax = 35
  DefaultSetting = 70
  Commands <- MCWholeCommands
  MaxCommands = 2
  MaxFaults = 2
PROPERTIES
  RelaysSettle
  PumpSettles
