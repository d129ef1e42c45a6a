CONSTANTS
  Ids = {p1, p2}
  Variants = {1, 2}
  Requests = {r1, r2, r3}
  End = 3
  Drafts <- Sales
  Edits <- Changes
  Keep = Keep
  NoId = NoId
  NoRow = NoRow
  NoRequest = NoRequest
SPECIFICATION FairSpec
INVARIANTS OneEffectivePrice SnapshotsAgree
PROPERTIES RequestsEnd
CHECK_DEADLOCK FALSE
