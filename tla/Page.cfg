CONSTANTS
  home = home
  collect = collect
  stockholm = stockholm
  kiruna = kiruna
  Methods = {home, collect}
  PickupMethods = {collect}
  Places = {stockholm, kiruna}
  MethodsAt <- Offers
  NoMethod = NoMethod
  NoPlace = NoPlace
  NoPoint = NoPoint
  NoBody = NoBody
  MaxEdits = 3
  MaxSubmits = 2
  MaxPolls = 2
  MaxLosses = 1
SPECIFICATION FairSpec
INVARIANTS SettledFormIsRight PaysForWhatWasSent OutcomeIsTrue
PROPERTIES NothingSpins
CHECK_DEADLOCK FALSE
