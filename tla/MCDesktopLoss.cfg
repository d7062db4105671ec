SPECIFICATION Spec
CONSTANTS
  root = root
  Root = root
  Stack <- Unnamed
  Fallible = FALSE
  MaxBatches = 1
  MaxFiles = 2
INVARIANTS ZeroLoss
