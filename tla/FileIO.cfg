SPECIFICATION FairSpec
CONSTANTS
  Thread = {t1, t2}
  Name = {n}
  Inode = {i1, i2}
  Fd = {f1, f2}
  Block = {a}
  MaxSize = 2
  None = None
  Elsewhere = Elsewhere
INVARIANTS TypeOK DescriptorsAreHeld ReturnsAVersion
PROPERTIES CallsAdvance CallEnds
