SPECIFICATION Spec
CONSTANTS
  NUM_GYROS = 1
  EngineLives = 2
  GyroLives = 1
  AlarmWork <- AllAlarms
INVARIANTS
  TypeOK
  SemBalance
  OnlyEngineLeaks
  OnlyCutDeadlocks
CHECK_DEADLOCK FALSE
