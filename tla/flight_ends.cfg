SPECIFICATION FairSpec
CONSTANTS
  NUM_GYROS = 1
  RATE_GO_UP = 6
  INTERVALS = 1
  Distances <- NearGround
  Fuels <- LittleFuel
  Angles <- Tilts
  Shocks = 1
  Lives = 1
  LeastFuel = 9
PROPERTY
  FuelEnds
