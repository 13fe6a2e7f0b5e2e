SPECIFICATION Spec
CONSTANTS
  NumRelays = 1
  SpdMax = 40
  DefaultSetting = 70
  Commands <- MCCommands1
  MaxCommands = 2
  MaxFaults = 1
INVARIANT CommandsSurvive
