SPECIFICATION FairShopSpec
CONSTANTS
  c1 = c1
  c2 = c2
  c3 = c3
  r1 = r1
  r2 = r2
  p1 = p1
  None = None
  Keep = Keep
  NoRows = NoRows
  Seed = {c1, c2, c3}
  Req = {r1, r2}
  Product = {p1}
  Inputs <- TreeInputs
  Trees <- SmallTrees
  Name <- Names
  ProductOps = {"archive", "restore"}
INVARIANTS Forest AnswersAddUp
PROPERTIES Renumbered EveryRequestAnswered
CHECK_DEADLOCK FALSE
