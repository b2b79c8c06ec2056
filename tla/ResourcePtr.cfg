SPECIFICATION FairSpec
CONSTANTS
  Thread = {t1, t2}
  Ptr = {p1, p2}
  Resource = {r1, r2}
  Deleter = {d1, d2}
  Nobody = Nobody
  Nothing = Nothing
INVARIANTS TypeOK OneOwner NeverLost NoDoubleDelete RightDeleter SnapshotHeld NoHoldAndWait
PROPERTIES OwnershipMoves MutexReleased OwnershipIsKept
