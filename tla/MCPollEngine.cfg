\* Two watches, realtime and low tiers, one transient error, every script call.
CONSTANTS
  Regions <- Neighbours
  Priorities = {0, 3}
  Devices = {d1}
  NoDevice = NoDevice
  BadRegions = {}
  MayTruncate = FALSE
  Gap = 0
  Budgets = {4}
  GcPeriod = 2
  MaxId = 2
  MaxRequest = 3
  MaxCycle = 3
  MaxErrors = 1
SPECIFICATION Spec
INVARIANTS
  TypeOK
  AnsweredAfterAsked
  OwnBytes
  AgeHonest
PROPERTIES
  ImplementsCache
CHECK_DEADLOCK FALSE
