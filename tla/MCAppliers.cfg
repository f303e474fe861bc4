SPECIFICATION FairSpec
CONSTANTS
  SrcDbs = {1}
  k1 = k1
  a = a
  b = b
  none = none
  Keys = {k1}
  Afters = {a, b}
  NoAfter = none
  Files <- OverlappingFiles
  Procs = {pull, hand}
  Puller = pull
INVARIANTS
  TypeOK
  CurrentIsLatest
PROPERTIES
  AppliesSerially
  Replicates
  RemovedWasLogged
  EventuallyLogged
