SPECIFICATION Spec
SYMMETRY AircraftSymmetry
CONSTANTS
  a1 = a1
  a2 = a2
  Aircraft <- TwoAircraft
  Gap = 0
  Ordered = FALSE
  Fallible = TRUE
  MaxTime = 2
  MaxBatches = 3
  MaxImports = 0
INVARIANTS KeysNeverConflict
PROPERTIES FlightsOnlyGrow
