\* on_unload writes when another script is loaded.
CONSTANTS
  Scripts = {s1, s2}
  Controls = {c1}
  None = None
  Behaviours = {{}}
  WritesElsewhere = TRUE
  MayCrash = FALSE
  MaxChanges = 3
  MaxItems = 1
  MaxLoads = 3
SPECIFICATION Spec
INVARIANTS
  OwnDocument
CHECK_DEADLOCK FALSE
