SPECIFICATION Spec
CONSTANTS
  c1 = c1
  c2 = c2
  k1 = k1
  q1 = q1
  Calls <- TwoCalls
  Keys <- OneKey
  QRs <- OneQr
  RelayRaises = TRUE
  MaxDecisions = 2
INVARIANTS CaseEndsOnce OneClaim OpensForTheCarAtTheLane KeyVendsOnce
CHECK_DEADLOCK FALSE
