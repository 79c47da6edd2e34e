SPECIFICATION LiveSpec
CONSTANTS
  MaxCommits = 2
  Forgets = {f1}
  Posts = {p1}
  Replies = {m1}
  MaxPolls = 1
  MaxFails = 1
INVARIANTS TypeOK FollowingMeansThread ForgottenIsRefused
PROPERTIES NothingLingers
CHECK_DEADLOCK FALSE
