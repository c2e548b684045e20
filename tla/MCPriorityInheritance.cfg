SPECIFICATION FairSpec
CONSTANTS
  t1 = t1
  t2 = t2
  t3 = t3
  Tasks = {t1, t2, t3}
  CreatedWith <- LowMiddleHigh
  Idle = Idle
  Null = Null
  Mutexes = {m}
  portMAX_DELAY = 3
  configMAX_PRIORITIES = 3
  NewPriorities = {1}
INVARIANTS
  InheritanceSound
PROPERTIES
  WaiterServed
