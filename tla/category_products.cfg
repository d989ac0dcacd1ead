SPECIFICATION Spec
CONSTANTS
  c1 = c1
  c2 = c2
  c3 = c3
  r1 = r1
  r2 = r2
  p1 = p1
  None = None
  Keep = Keep
  Seed = {c1, c2, c3}
  Req = {r1, r2}
  Product = {p1}
  Inputs <- ProductInputs
  Trees <- SmallTrees
  Name <- Names
  ProductOps = {"archive", "restore"}
INVARIANT DeletedCategoriesAreEmpty
CHECK_DEADLOCK FALSE
