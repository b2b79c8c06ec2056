SPECIFICATION Spec
CONSTANTS
  MaxProcess = 2
  Fd = {f1, f2}
  Dir = {home, root}
  Mask = {m1, m2}
  Signal = {HUP, TERM}
  SIGHUP = HUP
  None = None
INVARIANT CloseFdsIsHonoured
CHECK_DEADLOCK FALSE
