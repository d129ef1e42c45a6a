CONSTANTS
  Calls = {c1, c2}
  Keys = {k1, k2}
  Refunds = {r1, r2}
  Amounts = {1, 2}
  Captured = 2
  Ordered = 1
  Answers <- SucceedOrFail
  StripeMayThrow = TRUE
  CallsMayDie = TRUE
  KeysMayExpire = FALSE
  NoCall = NoCall
  NoRefund = NoRefund
  NoKey = NoKey
SPECIFICATION Spec
SYMMETRY Symmetry
INVARIANTS NeverOverRefunded RestockedOnce StatusesConverge
PROPERTIES GivesBackAsPromised
CHECK_DEADLOCK FALSE
