SPECIFICATION Spec
CONSTANTS
  Stored = TRUE
  MaxCars = 2
  MaxRestarts = 0
INVARIANT EveryFeeTakenOff
CHECK_DEADLOCK FALSE
