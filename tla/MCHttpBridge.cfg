\* Two slots, four requests, a reload; the worker may fail to start.
CONSTANTS
  MaxInFlight = 2
  MaxId = 4
  MaxScript = 2
SPECIFICATION FairSpec
INVARIANTS
  TypeOK
  SlotsHonest
  AnswerToAsker
  CallbackAwaited
PROPERTIES
  CallbackComes
CHECK_DEADLOCK FALSE
