SPECIFICATION Spec
CONSTANTS
  Object = {o1, o2}
  Block = {b1, b2}
  Slot = {s1, s2}
  Connection = {c1, c2}
  MaxId = 2
  MainContext = MainContext
  Over = Over
  None = None
SYMMETRY Interchangeable
INVARIANTS TypeOK ReferencesAreOwned HandlerIsConnected OneDisconnects
