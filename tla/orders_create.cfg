SPECIFICATION FairSpec
CONSTANTS
  s1 = s1
  s2 = s2
  p1 = p1
  p2 = p2
  k1 = k1
  k2 = k2
  v1 = v1
  None = None
  Sku = {s1, s2}
  Product = {p1, p2}
  Key = {k1, k2}
  Invoice = {v1}
  Req = {r1, r2, r3}
  Seed = {o1}
  Inputs <- CreateInputs
  SeedRows <- OpenSeed
  StockLevels = {2}
  Home <- TwoHomes
  SkuCode <- Ascending
  CatalogOps = {}
  Unreliable = {}
INVARIANTS KeyIdentifiesOrder ConstraintsHold
PROPERTIES LedgerSpec EveryRequestAnswered
CHECK_DEADLOCK FALSE
