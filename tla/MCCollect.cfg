SPECIFICATION Spec
CONSTANTS
  SrcDbs = {1}
  Db = 1
  a = a
  b = b
  Keys = {1, 2}
  NoAfter = NoAfter
  Afters = {a, b}
  Procs = {p}
  Service = p
  Batch = 2
  RowCap = 1
  MinSeqs = {0, 2}
  WithoutRowid = FALSE
  Overlap = FALSE
  EmitMayFail = FALSE
  Missable = {}
  MaxSeq = 4
  MaxDeaths = 1
INVARIANTS
  TypeOK
  ClosedComplete
  NoEventLost
  PublishedInOrder
  SeqUnique
SYMMETRY ImageSymmetry
