SPECIFICATION Spec
CONSTANTS
  MaxProcess = 4
  Fd = {f1}
  Dir = {home, root}
  Mask = {m1, m2}
  Signal = {HUP}
  SIGHUP = HUP
  None = None
SYMMETRY Interchangeable
INVARIANTS TypeOK OneContinuation DaemonIsDetached ChangedAsAsked RestoredOnThrow NobodyWaits
PROPERTY CallsAreAtomic
CHECK_DEADLOCK FALSE
