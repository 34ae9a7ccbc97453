SPECIFICATION Spec
CONSTANTS
  Symbols = {btc}
  Price = {p1, p2}
  NoBook = NoBook
  btc = btc
  p1 = p1
  p2 = p2
  ShouldDropBuffered <- OkxShouldDropBuffered
  BridgesSnapshot <- OkxBridgesSnapshot
  IsContiguous <- OkxIsContiguous
  kTrustsConnectionOrder <- OkxTrustsConnectionOrder
  ParseIds <- OkxParseIds
  kSnapshotViaRest <- OkxSnapshotViaRest
  IdSteps <- SparseIds
  AllowReset = TRUE
  AllowHeartbeat = TRUE
  InOrder = TRUE
  AllowLoss = FALSE
  AllowRejects = TRUE
  AllowBadBody = FALSE
  MaxChanges = 4
  MaxSpan = 2
  MaxWire = 2
  MaxPush = 2
  MaxConnects = 2
  MaxFetch = 3
CHECK_DEADLOCK FALSE
SYMMETRY PriceSymmetry
INVARIANT LiveBookIsExact
