SPECIFICATION Spec
CONSTANTS
  s1 = s1
  s2 = s2
  p1 = p1
  p2 = p2
  k1 = k1
  k2 = k2
  v1 = v1
  None = None
  Sku = {s1, s2}
  Product = {p1}
  Key = {k1}
  Invoice = {v1}
  Req = {r1, r2}
  Seed = {o1}
  Inputs <- ChangeInputs
  SeedRows <- OpenSeeds
  StockLevels = {1}
  Home <- OneHome
  SkuCode <- Ascending
  CatalogOps = {"setStock", "archiveSku", "restoreSku", "forceDeleteSku", "archiveProduct"}
  Unreliable = {r1, r2}
SYMMETRY ReqSymmetry
INVARIANTS IInv NoLostUpdate
PROPERTIES ComputedFromCurrent LifeCycleFollowed
CHECK_DEADLOCK FALSE
