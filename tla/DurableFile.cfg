SPECIFICATION Spec
CONSTANTS
  default = default
  other = other
  legacy = legacy
  Documents <- MCDocuments
  Migrate <- MCMigrate
  Default = default
  Missing = Missing
  Torn = Torn
  MaxSaves = 3
INVARIANTS
  TypeOK
  KillLosesNothing
  PowerCutOneBack
PROPERTIES
  ImplementsAtomic
