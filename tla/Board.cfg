CONSTANTS
  Orders = {o1}
  Variants = {v1, v2}
  Refunds = {r1}
  Checklist = {"FINISH_PRODUCTION"}
  ManualTypes = {"SHIP_ORDER"}
  Sweepers = {s1, s2}
  PageSize = 1
  MaxClicks = 1
  MaxMoves = 2
  MaxFailures = 1
SPECIFICATION FairSpec
INVARIANTS ClosedMeansOver
PROPERTIES DecisionsStand BoardCatchesUp
CHECK_DEADLOCK FALSE
