SPECIFICATION FairSpec
CONSTANTS
  Dbs = {1, 2}
  Junk = 0
  Batch = 2
  QueueCap = 2
  MaxSeq <- RowBound
  MaxMishaps = 1
INVARIANTS
  TypeOK
  NoLostWakeup
  NoOvertaking
PROPERTIES
  TickDrainsAll
  SoundIsDrained
