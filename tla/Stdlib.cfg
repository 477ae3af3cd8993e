SPECIFICATION Spec
CONSTANTS
  MaxMade = 2
  MaxFails = 1
  MaxTicks = 2
  Chains <- MCChains
  MaxIn = 3
  Byte = {"x", "s"}
  MaxLen = 4
  MaxFaults = 1
  Delims <- MCDelims
INVARIANTS
  
  CleanFlush
  StageInv
  CopyInv
PROPERTIES
  InnerReleased
  ConsumerGateReturns
CHECK_DEADLOCK FALSE
