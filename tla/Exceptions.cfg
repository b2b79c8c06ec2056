SPECIFICATION Spec
CONSTANTS
  MaxObject = 6
  MaxHandler = 4
INVARIANTS TypeOK HistoryIsShown StringIsComplete
CHECK_DEADLOCK FALSE
