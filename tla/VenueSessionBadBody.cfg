SPECIFICATION Spec
CONSTANTS
  Symbols = {btc}
  Price = {p1, p2}
  NoBook = NoBook
  btc = btc
  p1 = p1
  p2 = p2
  ShouldDropBuffered <- SpotShouldDropBuffered
  BridgesSnapshot <- SpotBridgesSnapshot
  IsContiguous <- SpotIsContiguous
  kTrustsConnectionOrder <- SpotTrustsConnectionOrder
  ParseIds <- SpotParseIds
  kSnapshotViaRest <- SpotSnapshotViaRest
  IdSteps <- ConsecutiveIds
  AllowReset = FALSE
  AllowHeartbeat = FALSE
  InOrder = FALSE
  AllowLoss = FALSE
  AllowRejects = FALSE
  AllowBadBody = TRUE
  MaxChanges = 2
  MaxSpan = 1
  MaxWire = 1
  MaxPush = 1
  MaxConnects = 2
  MaxFetch = 3
CHECK_DEADLOCK FALSE
SYMMETRY PriceSymmetry
INVARIANT BufferingHasSnapshotComing
