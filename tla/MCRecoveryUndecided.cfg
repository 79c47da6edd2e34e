SPECIFICATION Spec
CONSTANTS
  MaxLabel = 2
  MaxWork = 3
  MaxStarts = 3
INVARIANT UndecidedIsKept
CHECK_DEADLOCK FALSE
