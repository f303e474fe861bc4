SPECIFICATION FairDatedSpec
CONSTANTS
  SrcDbs = {1}
  Db = 1
  a = a
  Keys = {1, 2}
  NoAfter = NoAfter
  Afters = {a}
  Procs = {p}
  Service = p
  Batch = 2
  RowCap = 1
  MinSeqs = {0}
  WithoutRowid = FALSE
  Overlap = FALSE
  EmitMayFail = FALSE
  Missable = {}
  MaxSeq = 3
  MaxDeaths = 1
INVARIANTS
  PipelineTypeOK
  NeverLost
  GapsAreSpooled
  LiveButLate
  ShowsAPastTable
PROPERTIES
  RsyncCatchesUp
  Mirrors
  MiniConverges
