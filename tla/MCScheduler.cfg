SPECIFICATION MCSpec
CONSTANTS
  NR_TASKS = 3
  DefPriority = 1
  MaxPriority = 2
  MaxDelay = 1
  Increments <- MCIncrements
  NONE = NONE
INVARIANTS
  CounterBounded
  CurrentIsRunnable
PROPERTIES
  NoStarvation
  
  SleepEnds
