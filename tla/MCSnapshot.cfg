SPECIFICATION Spec
CONSTANTS
  SrcDbs = {1}
  Db = 1
  a = a
  b = b
  Keys = {1, 2}
  NoAfter = NoAfter
  Afters = {a, b}
  Procs = {p}
  Service = p
  Batch = 1
  RowCap = 1
  MinSeqs = {0}
  WithoutRowid = FALSE
  Overlap = FALSE
  EmitMayFail = FALSE
  Missable = {"I", "U"}
  MaxSeq = 3
  MaxDeaths = 1
  Columns = {"id", "state", "due", "secret no."}
  Idents = {"id", "state", "due"}
  MaxCaptured = 3
INVARIANTS
  JournalRebuildsTable
  SnapshotAgreesWithTrigger
SYMMETRY ImageSymmetry
