SPECIFICATION Spec
CONSTANTS
  Payloads <- Garages
  LaneReads <- FastReads
  MaxAge = 1
  OfflineMax = 2
  StoreRaises = TRUE
  MaxTime = 3
  MaxRestarts = 1
INVARIANT RefreshThreadLives
CHECK_DEADLOCK FALSE
