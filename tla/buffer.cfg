SPECIFICATION FairSpec
CONSTANTS
  MAX = 50
INVARIANTS
  Exclusion
  NeverStuck
PROPERTIES
  ImplementsBuffer
  MealsGoOn
