SPECIFICATION FairSpec
CONSTANTS
  kMaxIdleTimeout = 3
  kDefaultIdleTimeout = 2
  kMaxIoThreads = 2
  Configs <- MCConfigs
  AllowFailure = TRUE
  MaxSignals = 2
CHECK_DEADLOCK FALSE
INVARIANT TypeOK
INVARIANT HatchStaysArmed
INVARIANT ReturnIsClean
INVARIANT BooksReachTheirVenues
PROPERTY MainReturns
PROPERTY SecondSignalEnds
PROPERTY ForcedShutdownEnds
