SPECIFICATION LiveSpec
CONSTANTS
  r1 = r1
  Reports = {r1}
  Size <- MCTwoPieces
  Followed = {r1}
  Ceiling = 2
  MaxFails = 2
INVARIANTS TypeOK CommittedIsWhole CommitsOnce
PROPERTIES NothingLingers
CHECK_DEADLOCK FALSE
