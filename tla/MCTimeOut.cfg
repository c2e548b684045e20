SPECIFICATION Spec
CONSTANTS
  Tasks = {waiter, sleeper, idle}
  Waiters = {waiter}
  Sleepers = {sleeper}
  MaxNesting = 1
  MaxHeld = 1
  portMAX_DELAY = 3
  OverflowModulus = 2
  Waits = {2, 3}
  Increments = {1, 3}
  MaxMissedTicks = 2
  MaxGap = 6
INVARIANTS
  SuspensionExact
  MaskExact
  NoEarlyTimeOut
PROPERTIES
  CheckExact
  DelayUntilExact
  ImplementsSchedulerHold
