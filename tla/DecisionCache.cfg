SPECIFICATION Spec
CONSTANTS
  Payloads <- Garages
  LaneReads <- FastReads
  MaxAge = 1
  OfflineMax = 2
  StoreRaises = TRUE
  MaxTime = 3
  MaxRestarts = 1
INVARIANTS TypeOK RetentionBound SettingsOutlive DenyReaches UnsureIsUnread StaleOpensNothing
CHECK_DEADLOCK FALSE
