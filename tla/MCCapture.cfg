\* Two devices, two sources, two frames of each.
CONSTANTS
  Devices = {d1, d2}
  None = None
  MaxOpens = 2
  MaxFrames = 2
SPECIFICATION FairSpec
INVARIANTS
  NoLeakedReader
  TextureIsCurrent
PROPERTIES
  DropSettles
  FramesReachScreen
CHECK_DEADLOCK FALSE
