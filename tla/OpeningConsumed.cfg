SPECIFICATION Spec
CONSTANTS
  c1 = c1
  c2 = c2
  k1 = k1
  q1 = q1
  Calls <- OneCall
  Keys <- OneKey
  QRs <- OneQr
  RelayRaises = FALSE
  MaxDecisions = 2
INVARIANT CompletedMeansVended
CHECK_DEADLOCK FALSE
