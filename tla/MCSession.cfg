\* Two scripts and two ids, declared at any time; crashes; and in turn failing
\* frames, all calls of scripts on their controls, and failing writes with
\* scripts that replace their documents.  on_unload writes if its own store is
\* still bound.
CONSTANTS
  Scripts = {s1, s2}
  Controls = {c1, c2}
  None = None
  Behaviours = {{"frame_error"}, {"ui_set", "same_id"}, {"store_save", "write_error"}}
  WritesElsewhere = FALSE
  MayCrash = TRUE
  MaxChanges = 2
  MaxItems = 2
  MaxLoads = 3
SYMMETRY Symmetry
SPECIFICATION Spec
INVARIANTS
  TypeOK
  SettingsRestored
  StoredIsSaved
  UnloadRuns
PROPERTIES
  SavedIsKept
  ImplementsStore
CHECK_DEADLOCK FALSE
