SPECIFICATION Spec
CONSTANTS
  NUM_GYROS = 2
  Flights <- SomeFlights
  Angles <- Tilts
  Codes <- AlarmCodes
  LeastFuel = 5
  Lives = 2
  Engines = 2
  TOP = 6
  CEILING = 8
INVARIANTS
  TypeOK
  MissedSignal
  GasKept
  
  
  
  AlarmSwallowed
CHECK_DEADLOCK FALSE
