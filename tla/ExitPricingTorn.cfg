SPECIFICATION Spec
CONSTANTS
  MaxEdits = 1
  MaxRestarts = 0
INVARIANT TaxSetsTell
