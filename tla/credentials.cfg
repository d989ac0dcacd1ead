SPECIFICATION Spec
CONSTANTS
  None = None
  Req = {r1, r2}
  Row = {w1, w2}
  Passkey = {k1, k2}
  Workloads <- Mixes
  MaxAttempts = 2
  Window = 2
  MaxTime = 2
SYMMETRY Symmetry
INVARIANTS IInv
PROPERTIES BlockHolds ProvenOnce FactorRemains
CHECK_DEADLOCK FALSE
