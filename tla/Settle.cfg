CONSTANTS
  Orders = {o1, o2}
  Items = {i1}
  Sweepers = {s1}
  MaxQty = 2
  InitialOnHand <- TwoOfEach
  Deltas <- NoAdjust
  MaxAdjust = 0
  EventKinds <- OneMayBeDeclined
  HandlersMayFail = FALSE
SPECIFICATION FairSpec
INVARIANTS ReservedMatchesPending NoOversell
PROPERTIES KeepsPromise AbandonedIsReleased ChargedIsSettled
CHECK_DEADLOCK FALSE
