SPECIFICATION Spec
CONSTANTS
  Tasks = {t1, t2, t3}
  Idle = Idle
  Null = Null
  portMAX_DELAY = 3
  configMAX_PRIORITIES = 3
  RequestedPriorities = {0, 1, 2}
  NumEvents = 1
  Delays = {3}
  Calls = {"CreateBeforeStart", "vTaskPlaceOnEventList", "vTaskPrioritySet"}
  MaxSuspendDepth = 1
  MaxMissedTicks = 1
SYMMETRY Symmetry
INVARIANTS
  EventListsSorted
