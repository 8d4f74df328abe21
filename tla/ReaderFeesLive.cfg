SPECIFICATION FairSpec
CONSTANTS
  Stored = FALSE
  MaxCars = 2
  MaxRestarts = 0
PROPERTIES FeeComesOff
CHECK_DEADLOCK FALSE
