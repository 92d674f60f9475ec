\* Two canvases, two text sizings, two scales.
CONSTANTS
  c1 = c1
  c2 = c2
  s1 = s1
  s2 = s2
  Canvases = {c1, c2}
  Native = c1
  Overrides = {c1, c2}
  Sizings = {s1, s2}
  Scales = {1, 3}
  AutoScale <- MCAutoScale
  Script = Script
  AutoSize = AutoSize
  None = None
SPECIFICATION Spec
INVARIANTS
  PointerMatchesCanvas
  EdgesTellDown
PROPERTIES
  PaintsCanvasInForce
