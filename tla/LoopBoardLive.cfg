SPECIFICATION ThreadSpec
CONSTANTS
  a1 = a1
  a2 = a2
  o1 = o1
  Assisted <- OneAssisted
  Ordinary <- OneOrdinary
  At <- ClockStamps
  Direction = "exit"
  DriverRaises = TRUE
  MaxCrossings = 2
PROPERTIES EveryCrossingRead
