CONSTANTS
  Orders = {o1}
  Items = {i1, i2}
  Sweepers = {s1, s2}
  MaxQty = 1
  InitialOnHand <- OneOfEach
  Deltas <- Restock
  MaxAdjust = 1
  EventKinds <- AllKinds
  HandlersMayFail = TRUE
SPECIFICATION Spec
SYMMETRY Symmetry
INVARIANTS StockMatchesSales ReservationsFollowOrder MoneyAndOrderAgree ConfirmationMailOnce
CHECK_DEADLOCK FALSE
