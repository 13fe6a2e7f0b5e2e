SPECIFICATION Spec
CONSTANTS
  NumRelays = 2
  SpdMax = 35
  DefaultSetting = 70
  Commands <- MCCommands
  MaxCommands = 3
  MaxFaults = 2
INVARIANTS
  TypeOK
  CleanRelaysInPlace
  CleanFeedbackTrue
  CleanPumpHalfInPlace
  CommandsSurvive
  NoWakeLost
PROPERTIES
  ImplementsRegister
