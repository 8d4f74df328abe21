SPECIFICATION HungDiskSpec
CONSTANTS
  r1 = r1
  r2 = r2
  Recorders <- TwoRecorders
  LogBound = 2
  Chunk = 2
  MaxEvents = 3
  MaxRestarts = 1
INVARIANTS TypeOK LogAccounted DiskFollowsMemory
PROPERTIES Delivered LedgerKept AnsweredOnce OrderKept
CHECK_DEADLOCK FALSE
