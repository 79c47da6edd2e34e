SPECIFICATION Spec
CONSTANTS
  Conns = {c1, c2}
  Paths = {p1, p2}
  NoPath = NoPath
  Nobody = Nobody
  User = User
  MaxWindow = 3
  MaxCalls = 1
  MaxActs = 1
  MaxReports = 2
INVARIANTS TypeOK FilesHaveOneWindow RefusedLeavesNothing
CHECK_DEADLOCK FALSE
