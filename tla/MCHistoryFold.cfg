SPECIFICATION Spec
CONSTANTS
  a = a
  c = c
  d = d
  new = new
  outer = outer
  Objects = {a, c}
  Groups = {outer, new}
  Top = Top
  NoGroup = NoGroup
  Home <- OneGroup
  Drawn = {}
  Ops = {"draw", "group", "delete", "ungroup", "reparent", "session"}
  RedoInBracket = FALSE
  MaxPushes = 9
INVARIANTS TreeAgrees HistoryInverts
PROPERTIES SessionKeepsItsOwn
CHECK_DEADLOCK FALSE
