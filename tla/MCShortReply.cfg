\* The device answers fewer bytes than asked.
CONSTANTS
  Regions <- Neighbours
  Priorities = {0, 3}
  Devices = {d1}
  NoDevice = NoDevice
  BadRegions = {}
  MayTruncate = TRUE
  Gap = 0
  Budgets = {2, 4}
  GcPeriod = 2
  MaxId = 2
  MaxRequest = 3
  MaxCycle = 3
  MaxErrors = 1
SPECIFICATION BusySpec
INVARIANTS
  AnsweredAfterAsked
CHECK_DEADLOCK FALSE
