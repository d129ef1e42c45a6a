CONSTANTS
  shirt = shirt
  gown = gown
  Requests = {c1, c2}
  Keys = {k1, k2}
  Bodies = {b1, b2}
  Orders = {o1, o2, o3}
  Items = {shirt}
  Stock <- TwoShirts
  MaxUnits = 2
  MaxWrites = 2
  MaxAttempts = 2
  KeysMayExpire = TRUE
  NoRequest = NoRequest
  NoOrder = NoOrder
  NoKey = NoKey
  NoBody = NoBody
SPECIFICATION Spec
SYMMETRY Symmetry
INVARIANTS OneOrderPerKey AnswersAgree
PROPERTIES OncePerKey HoldsAtOnce
CHECK_DEADLOCK FALSE
