SPECIFICATION Spec
CONSTANTS
  Venue = {binance}
  MaxPrice = 1
  L2Sub = {}
  BboSub = {bob}
  MaxSize = 1
  MaxSeq = 2
  MaxBeats = 2
  Capacity = 2
  BootstrapMultiplier = 1
  binance = binance
  bob = bob
INVARIANT TopIsComplete
