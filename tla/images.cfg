SPECIFICATION FairSpec
CONSTANTS
  s1 = s1
  u1 = u1
  r1 = r1
  r2 = r2
  None = None
  Gallery = Gallery
  Req = {r1, r2}
  Pruner = {p1}
  Seed = {s1}
  Cover = s1
  Upload = {u1}
  Inputs <- AssetInputs
  MaxFaults = 1
INVARIANTS UploadUsedOnce LiveImagesKeepAssets RemovedImagesLeaveNothing ThumbnailIsLive
PROPERTIES EveryRequestAnswered LeftoversPruned
