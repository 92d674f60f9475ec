\* One region the device refuses.
CONSTANTS
  Regions <- WithRefused
  Priorities = {1, 3}
  Devices = {d1}
  NoDevice = NoDevice
  BadRegions <- Refused
  MayTruncate = FALSE
  Gap = 0
  Budgets = {2}
  GcPeriod = 256
  MaxId = 2
  MaxRequest = 4
  MaxCycle = 4
  MaxErrors = 0
SPECIFICATION BusySpec
INVARIANTS
  PendingStreams
CHECK_DEADLOCK FALSE
