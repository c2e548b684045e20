SPECIFICATION FairSpec
CONSTANTS
  Tasks = {t1, t2}
  Idle = Idle
  Null = Null
  portMAX_DELAY = 2
  configMAX_PRIORITIES = 2
  RequestedPriorities = {1}
  NumEvents = 0
  Delays = {1, 2}
  Calls = {"CreateBeforeStart", "vTaskDelay", "TickISR"}
  MaxSuspendDepth = 1
  MaxMissedTicks = 1
PROPERTIES
  DelayExpires
  TopTasksRun
