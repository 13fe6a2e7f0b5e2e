SPECIFICATION Spec
CONSTANTS
  RelayKeys <- MCRelayKeys
  SpdMax = 20
  IntMin <- MCIntMin
  IntMax = 127
  FirstCapacity = 3
  MaxLogged = 4
  Objects <- MCObjects
  Capacities = {0, 2, 4}
  Limits = {0, 1, 5}
INVARIANTS
  TypeOK
  NewestLines
  WholeOrNothing
  CoreAgrees
  EchoNeutral
  LogsNewest
