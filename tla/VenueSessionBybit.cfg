SPECIFICATION Spec
CONSTANTS
  Symbols = {btc, eth}
  Price = {p1, p2}
  NoBook = NoBook
  btc = btc
  eth = eth
  p1 = p1
  p2 = p2
  ShouldDropBuffered <- BybitShouldDropBuffered
  BridgesSnapshot <- BybitBridgesSnapshot
  IsContiguous <- BybitIsContiguous
  kTrustsConnectionOrder <- BybitTrustsConnectionOrder
  ParseIds <- BybitParseIds
  kSnapshotViaRest <- BybitSnapshotViaRest
  IdSteps <- ConsecutiveIds
  AllowReset = FALSE
  AllowHeartbeat = FALSE
  InOrder = FALSE
  AllowLoss = TRUE
  AllowRejects = FALSE
  AllowBadBody = FALSE
  MaxChanges = 3
  MaxSpan = 1
  MaxWire = 2
  MaxPush = 1
  MaxConnects = 2
  MaxFetch = 3
CHECK_DEADLOCK FALSE
SYMMETRY PriceSymmetry
INVARIANT LiveBookIsExact
INVARIANT OfflineBookIsAbsent
