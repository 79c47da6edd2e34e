SPECIFICATION ShellSpec
CONSTANTS
  Conns = {c1}
  Windows = {w1, w2}
  NoWindow = NoWindow
  MaxProbes = 2
  MaxFrames = 6
INVARIANTS TypeOK RightAnswer SessionsAgree
PROPERTIES EverythingEnds
CHECK_DEADLOCK FALSE
