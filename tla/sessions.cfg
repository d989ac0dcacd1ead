SPECIFICATION Spec
CONSTANTS
  None = None
  Closed = Closed
  Staff = {p1}
  Session = {s1, s2}
  Token = {t1, t2, t3}
  Req = {r1, r2}
  Kinds <- Everything
  Passing = {s1}
  Unreliable = {r1, r2}
SYMMETRY Symmetry
INVARIANTS IInv OneUsableToken
PROPERTIES ChainSpec RevokedStaysOut EndingEndsAll ReplayCloses
CHECK_DEADLOCK FALSE
