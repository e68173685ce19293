SPECIFICATION FairSpec
CONSTANTS
  e1 = e1
  e2 = e2
  e3 = e3
  NUM_SCK_THREAD = 4
  Engine = 3
  Alarm = 2
  Lander = 1
  Exploder = 0
  EngineThreads <- OneEngine
  FirstEngine = e1
  AlarmCodes <- QuietCodes
  MAXTRY = 1
INVARIANTS
  RoundCount
PROPERTIES
  ImplementsBarrier
  
  
  
