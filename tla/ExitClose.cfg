SPECIFICATION FairSpec
CONSTANTS
  MaxCases = 3
  Retries = 1
  MaxQrs = 2
  MaxRestarts = 1
INVARIANTS
  ReachesTheCase
  AuthorityKept
PROPERTIES
  CloseSettles
CHECK_DEADLOCK FALSE
