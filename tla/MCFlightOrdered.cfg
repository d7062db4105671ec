SPECIFICATION Spec
CONSTANTS
  a1 = a1
  a2 = a2
  Aircraft = {a1}
  Gap = 1
  Ordered = TRUE
  Fallible = FALSE
  MaxTime = 4
  MaxBatches = 4
  MaxImports = 1
INVARIANTS TypeOK FlightsSeparated FlightsAreSegments TrackerNamesLatest
