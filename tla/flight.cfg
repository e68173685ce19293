SPECIFICATION Spec
CONSTANTS
  NUM_GYROS = 2
  RATE_GO_UP = 6
  INTERVALS = 1
  Distances <- NearGround
  Fuels <- LittleFuel
  Angles <- Tilts
  Shocks = 0
  Lives = 1
  LeastFuel = 8
INVARIANTS
  AbortPrompt
  
