SPECIFICATION SeedLiveSpec
CONSTANTS
  ChunkSize = 2
  HasTimeout = TRUE
  MaxSeedMsgs = 2
  MaxSeedErrs = 1
  MaxDeclared = 3
PROPERTY LateErrorsAreDelivered
