CONSTANTS
  Calls = {c1, c2}
  Keys = {k1}
  Refunds = {r1, r2}
  Amounts = {1}
  Captured = 2
  Ordered = 1
  Answers <- AllAnswers
  StripeMayThrow = FALSE
  CallsMayDie = FALSE
  KeysMayExpire = TRUE
  NoCall = NoCall
  NoRefund = NoRefund
  NoKey = NoKey
SPECIFICATION FairSpec
PROPERTIES SuccessIsApplied
CHECK_DEADLOCK FALSE
