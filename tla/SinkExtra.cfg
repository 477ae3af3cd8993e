SPECIFICATION SinkLiveSpec
CONSTANTS
  a = a
  b = b
  NumConsumers = 1
  Message <- MCMessage
  MaxSends = 2
  MaxConsErrs = 0
PROPERTY OneExtraMessage
