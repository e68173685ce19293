SPECIFICATION FairSpec
CONSTANTS
  Values <- ThreeValues
  MAXLENGTH = 4
  MAXTHREADS = 5
INVARIANTS
  PrintsSorted
  NoRace
  PrintsAsSequential
PROPERTIES
  Terminates
