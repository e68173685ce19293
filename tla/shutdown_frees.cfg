SPECIFICATION ShutdownSpec
CONSTANTS
  e1 = e1
  e2 = e2
  NUM_SCK_THREAD = 4
  Engine = 3
  Alarm = 2
  Lander = 1
  Exploder = 0
  EngineThreads <- TwoEngines
  FirstEngine = e1
  AlarmCodes <- Codes
  MAXTRY = 1
INVARIANT
  FreesResources
