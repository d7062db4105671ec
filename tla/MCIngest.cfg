SPECIFICATION LiveSpec
CONSTANTS
  a1 = a1
  a2 = a2
  altitude = altitude
  callsign = callsign
  Aircraft <- TwoAircraft
  Field <- TwoFields
  Lines <- MCLines
  Capacity = 2
  Aborts = TRUE
  MaxLines = 3
  MaxCommands = 2
INVARIANTS BestKnown EveryLineCounted RawFollowsWindow DrainsOnClose
PROPERTIES EndsWhenClosed
