SPECIFICATION Spec
CONSTANTS
  Tasks = {t1, t2}
  Idle = Idle
  Null = Null
  portMAX_DELAY = 2
  configMAX_PRIORITIES = 2
  RequestedPriorities = {0, 1}
  NumEvents = 1
  Delays = {1, 2}
  Calls = {"CreateBeforeStart", "vTaskPlaceOnEventList", "QueueSend", "EventISR", "vTaskDelete",
           "vTaskSuspend", "xTaskResumeFromISR", "TickISR"}
  MaxSuspendDepth = 1
  MaxMissedTicks = 1
SYMMETRY Symmetry
INVARIANTS
  Placement
  EventListsSorted
  NothingLeftBehind
  HighestRuns
PROPERTIES
  LockedListsHeld
