SPECIFICATION Spec
CONSTANTS
  SrcDbs = {1, 2}
  k1 = k1
  k2 = k2
  a = a
  b = b
  none = none
  Keys = {k1, k2}
  Afters = {a, b}
  NoAfter = none
  Files <- AnyOrderFiles
INVARIANT
  CurrentIsLatest
