SPECIFICATION Spec
CONSTANTS
  SrcDbs = {1}
  Db = 1
  a = a
  b = b
  Keys = {1}
  NoAfter = NoAfter
  Afters = {a}
  Procs = {p, q}
  Service = p
  Batch = 2
  RowCap = 1
  MinSeqs = {0}
  WithoutRowid = FALSE
  Overlap = TRUE
  EmitMayFail = FALSE
  Missable = {}
  MaxSeq = 3
  MaxDeaths = 0
INVARIANTS
  ClosedComplete
