\* Three watches, nineteen links, four gfx calls, three keys, all sizes.
CONSTANTS
  FrameBudgetMs = 16
  MinByteBudget = 256
  MaxByteBudget = 65536
  FirstBudget = 2048
  MinStep = 256
  Links <- MCLinks
  SmallBatch = 1
  MaxEvents = 1
  Points = {1}
  MaxCalls = 4
  PlanRegions <- SmallRegions
  PlanPriorities = {1, 3}
  PlanRefreshed = {0, 4}
  PlanCycle = 5
  PlanGaps = {1}
  PlanBudgets = {2, 4}
  MaxWatches = 3
  MCMaxKeys = 3
  Areas <- MCAreas
  Canvases <- MCCanvases
  Labels <- MCLabels
  Sizings <- MCSizings
  Pointers <- MCPointers
  Frames <- MCFrames
  Crops <- MCCrops
SPECIFICATION MCSpec
CHECK_DEADLOCK FALSE
INVARIANTS
  ClosedFormsAgree
  PlanCoversEveryWatchOnce
  SelectAdmitsStalest
  OnlyFirstOverruns
  FrameBoundLinkFlows
  FrameIsItsCalls
  UnmixedRoundTrip
  PointerHitsWhatIsPainted
  CropInFrame
PROPERTIES
  StallNotRepeated
