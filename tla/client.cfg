SPECIFICATION FairSpec
CONSTANTS
  b1 = b1
  b2 = b2
  c1 = c1
  c2 = c2
  c3 = c3
  Tab = {b1, b2}
  Call = {c1, c2, c3}
  TabOf <- TwoTabs
  Token = {t1, t2, t3, t4}
  First = t1
  None = None
  Closed = Closed
  Modes = {"locks", "lease", "none"}
  Faults = {"unread", "lose", "close", "revoke"}
INVARIANTS IInv SessionSurvives
PROPERTIES EveryCallSettles
CHECK_DEADLOCK FALSE
