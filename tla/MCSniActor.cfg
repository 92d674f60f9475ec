\* Two services, two devices of which one may not be detected, four commands.
CONSTANTS
  Endpoints = {e1, e2}
  Devices = {d1, d2}
  None = None
  Undetectable = {d2}
  MaxCmds = 4
SPECIFICATION FairSpec
INVARIANTS
  TypeOK
  EngineFollows
  WritesReachWhatWasSeen
  MappingOfTarget
PROPERTIES
  CommandsEnd
CHECK_DEADLOCK FALSE
