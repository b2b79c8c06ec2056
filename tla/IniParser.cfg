SPECIFICATION Spec
CONSTANTS
  Thread = {t1, t2}
  Parser = {p1, p2}
  Group = {g1}
  Key = {a}
  Value = {v1, v2}
  Absent = Absent
  Nobody = Nobody
SYMMETRY Interchangeable
INVARIANTS TypeOK SetsAreRemembered ClearedIsSaved LockedInside
PROPERTY SyncIsAtomic
