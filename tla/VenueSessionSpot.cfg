SPECIFICATION FairSpec
CONSTANTS
  Symbols = {btc}
  Price = {p1, p2}
  NoBook = NoBook
  btc = btc
  p1 = p1
  p2 = p2
  ShouldDropBuffered <- SpotShouldDropBuffered
  BridgesSnapshot <- SpotBridgesSnapshot
  IsContiguous <- SpotIsContiguous
  kTrustsConnectionOrder <- SpotTrustsConnectionOrder
  ParseIds <- SpotParseIds
  kSnapshotViaRest <- SpotSnapshotViaRest
  IdSteps <- ConsecutiveIds
  AllowReset = FALSE
  AllowHeartbeat = FALSE
  InOrder = FALSE
  AllowLoss = TRUE
  AllowRejects = FALSE
  AllowBadBody = FALSE
  MaxChanges = 4
  MaxSpan = 2
  MaxWire = 2
  MaxPush = 1
  MaxConnects = 2
  MaxFetch = 3
CHECK_DEADLOCK FALSE
INVARIANT TypeOK
INVARIANT LiveBookIsExact
INVARIANT UnsyncedBookIsAbsent
INVARIANT FetchesBounded
INVARIANT DoneIsDrained
PROPERTY LiveBookNeverRewinds
PROPERTY StopCompletes
