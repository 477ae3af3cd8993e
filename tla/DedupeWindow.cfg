SPECIFICATION Spec
CONSTANTS
  MaxMade = 1
  MaxFails = 1
  MaxTicks = 1
  Chains <- MCChains
  MaxIn = 3
  Byte = {"x", "s"}
  MaxLen = 2
  MaxFaults = 1
  Delims <- MCDelims
INVARIANT DedupeWindow
CHECK_DEADLOCK FALSE
