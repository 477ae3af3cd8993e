SPECIFICATION RunLiveSpec
CONSTANTS
  p1 = p1
  Producer <- OneProducer
  Stream = Stream
  NoItem = NoItem
  Staged = TRUE
  Message <- MCMessage
  Pipelines <- FailFast
  MaxMsgs = 1
  MaxErrs = 0
  MaxSends = 2
  NumConsumers = 1
  MaxConsErrs = 0
  MaxTransformErrs = 0
PROPERTIES RunsTheStream RunsTheSink EndedRunReturns DirectRunReturns NothingOrphaned FiniteRunReturns
