SPECIFICATION Spec
CONSTANTS
  Plugin = {"p", "q"}
  Version = {"v1", "v2", "v3"}
  Short <- MCShort
  SpecLists <- MCSpecLists
  MaxInits = 3
  Pipe = {"x", "y"}
  MaxBinds = 1
  File = {"e", "f", "g"}
  EntryFile = "e"
  Contents <- MCContents
  Provides <- MCProvides
  MaxSeconds = 5
  ChunkSize = 2
  HasTimeout = TRUE
  MaxSeedMsgs = 2
  MaxSeedErrs = 1
  MaxDeclared = 3
  m1 = m1
  m2 = m2
  NumConsumers = 2
  Message <- MCMessage
  MaxSends = 2
  MaxConsErrs = 1
INVARIANTS
  StoreInv
  CommandInv
  ImportInv
  SeedInv
  OutcomeIsTrue
  TerminalJoins
  SinkInv
  FanOut
PROPERTIES
  CommandReturns
  CallsReturn
  SeedIsReleased
  PullAnswered
  FlushWaitsForAll
  SinkWindsDown
  SendTerminates
CHECK_DEADLOCK FALSE
