\* Two controls, one of which is declared when the panel was persisted already;
\* nothing fails, and nothing but the panel changes them.
CONSTANTS
  Scripts = {s1}
  Controls = {c1, c2}
  None = None
  Behaviours = {{}}
  WritesElsewhere = FALSE
  MayCrash = FALSE
  MaxChanges = 3
  MaxItems = 2
  MaxLoads = 4
SPECIFICATION Spec
INVARIANTS
  ControlsRestored
CHECK_DEADLOCK FALSE
