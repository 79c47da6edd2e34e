\* The launch check beside one more call of the host.  One message of four is the
\* maintainer's: a reopening has just room for its text and its line, and a
\* second text has none.
SPECIFICATION FollowLiveSpec
CONSTANTS
  Calls = {k1}
  Children = {a1}
  Earlier <- MCFixed
  MaxMessages = 4
  Reserve = 1
  MaxReplies = 1
  MaxStatuses = 2
INVARIANTS FollowTypeOK RecordIsThread ThreadIsFair
PROPERTIES MarkArrives
CHECK_DEADLOCK FALSE
