SPECIFICATION LifeSpec
CONSTANTS
  Tasks = {t1, t2}
  Idle = Idle
  Null = Null
  portMAX_DELAY = 2
  configMAX_PRIORITIES = 2
  RequestedPriorities = {0, 1}
  NumEvents = 0
  Delays = {}
  Calls = {"CreateBeforeStart", "vTaskPrioritySet", "vTaskSuspendAll", "vTaskList"}
  MaxSuspendDepth = 1
  MaxMissedTicks = 0
  SetsAboveUsed = TRUE
INVARIANTS
  ListedOnce
