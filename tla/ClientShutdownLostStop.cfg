SPECIFICATION FairSpec
CONSTANTS
  Stream = {s1}
  s1 = s1
  Timed = FALSE
  MaxSignals = 1
CHECK_DEADLOCK FALSE
PROPERTY StopReachesEveryStream
