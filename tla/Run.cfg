SPECIFICATION RunSpec
CONSTANTS
  p1 = p1
  Producer <- OneProducer
  Stream = Stream
  NoItem = NoItem
  Staged = TRUE
  Message <- MCMessage
  Pipelines <- MCPipelines
  MaxMsgs = 2
  MaxErrs = 0
  MaxSends = 4
  NumConsumers = 1
  MaxConsErrs = 1
  MaxTransformErrs = 1
INVARIANTS RunInv NilMeansDelivered DeliveryInv ErrorsAreJoined
