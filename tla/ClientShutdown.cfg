SPECIFICATION FairSpec
CONSTANTS
  Stream = {s1, s2}
  s1 = s1
  s2 = s2
  Timed = TRUE
  MaxSignals = 2
CHECK_DEADLOCK FALSE
INVARIANT NotifiedIsAlive
PROPERTY StoppedStreamIsJoined
PROPERTY MainReturns
