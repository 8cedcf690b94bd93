SPECIFICATION Spec
CONSTANTS
  Limit = 3
  MaxLen = 5
INVARIANTS
  CutOffIs413
