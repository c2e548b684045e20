SPECIFICATION Spec
CONSTANTS
  Tasks = {t1, t2}
  Idle = Idle
  Null = Null
  portMAX_DELAY = 3
  configMAX_PRIORITIES = 3
  RequestedPriorities = {0, 3}
  NumEvents = 0
  Delays = {}
  Calls = {"CreateBeforeStart", "xTaskCreate", "vTaskDelete", "vTaskSuspend", "vTaskResume",
           "vTaskPrioritySet", "vTaskSuspendAll", "xTaskResumeFromISR", "TickISR"}
  MaxSuspendDepth = 1
  MaxMissedTicks = 1
SYMMETRY Symmetry
INVARIANTS
  ListsAgree
  TopReadyBound
  HighestRuns
  Accounting
  DeletedStopped
PROPERTIES
  FairShare
