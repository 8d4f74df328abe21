SPECIFICATION Spec
CONSTANTS
  MaxEdits = 3
  MaxRestarts = 1
INVARIANTS
  ConsumedAtTheGaragesTax
