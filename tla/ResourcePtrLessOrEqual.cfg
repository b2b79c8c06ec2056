SPECIFICATION Spec
CONSTANTS
  Ptr = {p1, p2, p3}
  Resource = {0, 1, 2}
INVARIANT LessOrEqualAgrees
