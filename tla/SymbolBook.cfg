SPECIFICATION FairSpec
CONSTANTS
  Venue = {binance, bybit}
  MaxPrice = 1
  L2Sub = {alice}
  BboSub = {bob}
  MaxSize = 1
  MaxSeq = 3
  MaxBeats = 3
  Capacity = 1
  BootstrapMultiplier = 3
  L2Beats = 1
  BboVenue = {binance}
  binance = binance
  bybit = bybit
  alice = alice
  bob = bob
ACTION_CONSTRAINT OneStream
INVARIANT AggregateIsSum
INVARIANT ReplicaIsExact
INVARIANT NoClientGap
INVARIANT UnbackedReplicaIsEmpty
INVARIANT QueuesAreBounded
INVARIANT TopIsExact
PROPERTY TopNeverGoesBack
PROPERTY TopIsLostOnlyToHeartbeats
PROPERTY ImplementsReplicatedBook
PROPERTY SubscriberCatchesUp
PROPERTY SubscriberSeesTop
