\* Requests under fair scheduling: three watches, realtime and low, one read
\* per batch.
CONSTANTS
  Regions <- Row
  Priorities = {0, 3}
  Devices = {d1}
  NoDevice = NoDevice
  BadRegions = {}
  MayTruncate = FALSE
  Gap = 0
  Budgets = {2}
  GcPeriod = 256
  MaxId = 3
  MaxRequest = 4
  MaxCycle = 5
  MaxErrors = 1
SPECIFICATION FairBusySpec
INVARIANTS
  BoundedWait
PROPERTIES
  RequestsAnswered
CHECK_DEADLOCK FALSE
