CONSTANTS
  Reports = {"idle", "fetching"}
  FirstReport = "idle"
  MaxSnapshots = 2
  SbsTopic = "sbs"
  None = None
  Foreign = Foreign
  Hours <- MCHours
  MaxChanges = 1
  MaxFaults = 1
SPECIFICATION LiveSpec
INVARIANTS AvailabilityHonest RecordedOnce
PROPERTIES Converges
