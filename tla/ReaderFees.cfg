SPECIFICATION Spec
CONSTANTS
  Stored = TRUE
  MaxCars = 2
  MaxRestarts = 1
INVARIANTS FeeAccounted
PROPERTIES FeeWaits
CHECK_DEADLOCK FALSE
