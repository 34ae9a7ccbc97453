SPECIFICATION ClientSpec
CONSTANTS
  RawMax = 31
  WideMax = 2047
  SizeScale = 10
  PriceDecimals = 1
  SizeDecimals = 1
  kBpsDenominator = 10
  Sides = {}
  Lists = {}
  Args <- MCArgs
  Messages <- MCMessages
  DefaultVolumeThresholds <- MCDefaultVolumeThresholds
  DefaultPriceBps <- MCDefaultPriceBps
CHECK_DEADLOCK FALSE
INVARIANT TypeOK
INVARIANT AssertsHold
INVARIANT WideNeverOverflows
INVARIANT AcceptedListIsUsable
INVARIANT ParsedIsNearest
INVARIANT PriceBandsAreExact
INVARIANT VolumeBandsAreExact
