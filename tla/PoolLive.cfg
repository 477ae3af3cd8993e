SPECIFICATION PoolLiveSpec
CONSTANTS
  p1 = p1
  p2 = p2
  w1 = w1
  w2 = w2
  Producer <- OneProducer
  Worker <- OneWorker
  BindChunk = 1
  MaxMsgs = 2
  MaxErrs = 2
  Seeded = TRUE
  Staged = FALSE
  Stream = Stream
  Idle = Idle
  Exited = Exited
  NoItem = NoItem
INVARIANT ListenedTo
PROPERTIES ImplementsStream CancelEndsStream BreakReleasesWorkers FiniteStreamEnds
