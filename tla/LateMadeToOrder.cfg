CONSTANTS
  Orders = {o1}
  Items = {i1}
  Sweepers = {s1}
  MaxQty = 1
  InitialOnHand <- OneOfEach
  Deltas <- NoAdjust
  MaxAdjust = 1
  EventKinds <- SucceedOnly
  HandlersMayFail = FALSE
SPECIFICATION Spec
INVARIANT PaidOrderNeverCanceled
CHECK_DEADLOCK FALSE
