SPECIFICATION StaysFairSpec
CONSTANTS
  Stays <- MCStays
  CarOf <- MCCarOf
  CarsHere = {"a"}
  PageSize = 1
  MaxPages = 2
  StoreRaises = TRUE
  MaxSeq = 2
  MaxStops = 1
INVARIANTS ListHonest
PROPERTIES ClosedStaysLeave
CHECK_DEADLOCK FALSE
