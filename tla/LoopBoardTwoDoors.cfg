SPECIFICATION Spec
CONSTANTS
  a1 = a1
  a2 = a2
  o1 = o1
  Assisted <- OneAssisted
  Ordinary <- OneOrdinary
  At <- ClockStamps
  Direction = "entry"
  DriverRaises = FALSE
  MaxCrossings = 2
PROPERTY NoUnadmittedWhileBeginning
