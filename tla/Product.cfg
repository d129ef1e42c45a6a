CONSTANTS
  Images = {i1, i2, i3}
  Staged = {i1, i2}
  Requests = {r1, r2}
  MaxRequests = 2
  MaxFailures = 2
SPECIFICATION FairSpec
INVARIANTS PictureBehindRow NoOrphans HeldIsKept
PROPERTIES NoneForgotten
CHECK_DEADLOCK FALSE
