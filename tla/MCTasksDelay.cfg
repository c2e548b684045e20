SPECIFICATION Spec
CONSTANTS
  Tasks = {t1, t2}
  Idle = Idle
  Null = Null
  portMAX_DELAY = 3
  configMAX_PRIORITIES = 2
  RequestedPriorities = {1}
  NumEvents = 0
  Delays = {1, 2, 3}
  Calls = {"CreateBeforeStart", "DeleteBeforeStart", "SuspendBeforeStart", "vTaskDelay",
           "vTaskDelayUntil", "vTaskSuspendAll", "TickISR"}
  MaxSuspendDepth = 2
  MaxMissedTicks = 2
SYMMETRY Symmetry
INVARIANTS
  TypeOK
  DelayedWindow
PROPERTIES
  SuspendAllHoldsCPU
  TicksKept
  ExactWake
CHECK_DEADLOCK FALSE
