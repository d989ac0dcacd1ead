SPECIFICATION FairSpec
CONSTANTS
  c1 = c1
  c2 = c2
  c3 = c3
  k1 = k1
  k2 = k2
  k3 = k3
  Call = {c1, c2, c3}
  Key = {k1, k2, k3}
  Asked <- ThreeCalls
  None = None
  MaxEntries = 1
  MaxPending = 2
  TTL = 1
  MaxTime = 3
  MaxVersion = 1
INVARIANTS Bounded MonotonicReads WritesBecomeVisible
PROPERTY EveryCallAnswered
CHECK_DEADLOCK FALSE
