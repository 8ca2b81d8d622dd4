CONSTANTS
  FirstId = 1
  ResetAbove = 2
  MaxCreated = 6
SPECIFICATION IdSpec
INVARIANTS
  IdInv
