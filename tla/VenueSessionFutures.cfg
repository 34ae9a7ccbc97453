SPECIFICATION Spec
CONSTANTS
  Symbols = {btc}
  Price = {p1, p2}
  NoBook = NoBook
  btc = btc
  p1 = p1
  p2 = p2
  ShouldDropBuffered <- FuturesShouldDropBuffered
  BridgesSnapshot <- FuturesBridgesSnapshot
  IsContiguous <- FuturesIsContiguous
  kTrustsConnectionOrder <- FuturesTrustsConnectionOrder
  ParseIds <- FuturesParseIds
  kSnapshotViaRest <- FuturesSnapshotViaRest
  IdSteps <- SkippingIds
  AllowReset = FALSE
  AllowHeartbeat = FALSE
  InOrder = FALSE
  AllowLoss = TRUE
  AllowRejects = TRUE
  AllowBadBody = FALSE
  MaxChanges = 4
  MaxSpan = 2
  MaxWire = 2
  MaxPush = 1
  MaxConnects = 2
  MaxFetch = 3
CHECK_DEADLOCK FALSE
SYMMETRY PriceSymmetry
INVARIANT LiveBookIsExact
INVARIANT BufferingHasSnapshotComing
