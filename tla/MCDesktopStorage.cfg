SPECIFICATION Spec
CONSTANTS
  root = root
  Root = root
  Stack <- Unnamed
  Fallible = TRUE
  MaxBatches = 2
  MaxFiles = 4
INVARIANTS FiledRowsKept ReopensTheSame OneOwner
PROPERTIES StartsFresh
