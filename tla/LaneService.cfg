SPECIFICATION Spec
CONSTANTS
  Depth = 2
  MaxArrivals <- Vehicles
  MaxRestarts = 1
INVARIANTS
  TypeOK
  FeedNoSilentGap
  FeeOfItsDecision
  IdentityIsACheck
PROPERTIES
  HoldEnds
