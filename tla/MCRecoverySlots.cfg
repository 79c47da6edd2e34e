SPECIFICATION Spec
CONSTANTS
  MaxLabel = 4
  MaxWork = 4
  MaxStarts = 3
INVARIANTS TypeOK WorkHasOneHome
PROPERTIES SlotsAreKept
CHECK_DEADLOCK FALSE
