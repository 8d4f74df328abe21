SPECIFICATION Spec
CONSTANTS
  a1 = a1
  a2 = a2
  o1 = o1
  Assisted <- TwoAssisted
  Ordinary <- OneOrdinary
  At <- ClockStamps
  Direction = "entry"
  DriverRaises = TRUE
  MaxCrossings = 2
INVARIANTS TypeOK ReadsNeverOverlap CrossingRecordedOnce
PROPERTIES OneOutcome NoUnadmittedWhilePending
SYMMETRY AssistedSymmetry
