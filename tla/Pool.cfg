SPECIFICATION PoolSpec
CONSTANTS
  p1 = p1
  p2 = p2
  w1 = w1
  w2 = w2
  Producer <- TwoProducers
  Worker <- OneWorker
  BindChunk = 2
  MaxMsgs = 2
  MaxErrs = 0
  Seeded = TRUE
  Staged = TRUE
  Stream = Stream
  Idle = Idle
  Exited = Exited
  NoItem = NoItem
SYMMETRY Symmetry
INVARIANTS PoolInv ParallelCap EndWitnessesTeardown EndIsComplete
