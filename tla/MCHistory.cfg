SPECIFICATION Spec
CONSTANTS
  a = a
  c = c
  d = d
  new = new
  outer = outer
  Objects = {a, c, d}
  Groups = {outer}
  Top = Top
  NoGroup = NoGroup
  Home <- OneGroup
  Drawn = {outer}
  Ops = {"draw", "delete", "session", "bracket", "refuse", "save", "forget"}
  RedoInBracket = FALSE
  MaxPushes = 7
SYMMETRY Symmetry
INVARIANTS StacksAreTrue SavedMarkIsTrue HistoryInverts
CHECK_DEADLOCK FALSE
