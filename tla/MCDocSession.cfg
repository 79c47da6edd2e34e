SPECIFICATION SessionSpec
CONSTANTS
  MaxEdits = 2
  MaxScenes = 1
  MaxDocs = 2
  MaxWrites = 2
INVARIANTS NothingResurfaces UnsavedIsDue
CHECK_DEADLOCK FALSE
