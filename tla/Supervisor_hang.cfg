SPECIFICATION FairSpec
CONSTANTS
  Watchers = {mqtt, heartbeat, temp, modbus, http}
  Always = {heartbeat}
  Default = {heartbeat, temp, modbus, http}
  Dashboard = {http}
  Signal = signal
  MaxPanics = 1
PROPERTY ShutdownEndsRun
CHECK_DEADLOCK FALSE
