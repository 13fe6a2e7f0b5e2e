SPECIFICATION FairSpec
CONSTANTS
  Watchers = {mqtt, heartbeat, temp, modbus, http}
  Always = {heartbeat}
  Default = {heartbeat, temp, modbus, http}
  Dashboard = {http}
  Signal = signal
  MaxPanics = 2
INVARIANT NoneLeftBehind
PROPERTY SignalEndsRun
CHECK_DEADLOCK FALSE
