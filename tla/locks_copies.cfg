SPECIFICATION Spec
CONSTANTS
  NUM_GYROS = 1
  EngineLives = 2
  GyroLives = 1
  AlarmWork <- AllAlarms
INVARIANT
  CorrectorAble
CHECK_DEADLOCK FALSE
