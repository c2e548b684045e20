SPECIFICATION LifeFairSpec
CONSTANTS
  Tasks = {t1, t2}
  Idle = Idle
  Null = Null
  portMAX_DELAY = 2
  configMAX_PRIORITIES = 2
  RequestedPriorities = {0, 1}
  NumEvents = 0
  Delays = {1}
  Calls = {"CreateBeforeStart", "DeleteBeforeStart", "SuspendBeforeStart", "xTaskCreate", "vTaskDelete",
           "vTaskSuspend", "vTaskDelay", "xTaskResumeFromISR", "vTaskPrioritySet", "vTaskSuspendAll", "vTaskList",
           "vTaskEndScheduler"}
  MaxSuspendDepth = 1
  MaxMissedTicks = 0
  SetsAboveUsed = FALSE
INVARIANTS
  HeapMatches
  ListedOnce
  CleanUpFrees
PROPERTIES
  MemoryIsFreed
CHECK_DEADLOCK FALSE
