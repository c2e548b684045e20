------------------------------ MODULE TimeOut ------------------------------
(***************************************************************************)
(* Waiting with a timeout, on top of Locks: vTaskSetTimeOutState,          *)
(* xTaskCheckForTimeOut and vTaskDelayUntil, with a tick count and an      *)
(* overflow counter that both wrap.                                        *)
(*                                                                         *)
(* A waiter makes a queue call that blocks (external, as the comments of   *)
(* task.h and tasks.c use these functions): it captures the time inside a  *)
(* critical section, then, with the scheduler suspended, checks and blocks *)
(* for what is left, again and again.  A sleeper calls vTaskDelayUntil     *)
(* periodically.  Ghost variables count ticks without wrapping.            *)
(***************************************************************************)
EXTENDS Locks, Integers

CONSTANTS
  Waiters, Sleepers,    \* the tasks that make each kind of call
  portMAX_DELAY,
  OverflowModulus,      \* xNumOfOverflows is a word
  Waits,                \* xTicksToWait arguments
  Increments,           \* xTimeIncrement arguments
  MaxMissedTicks,       \* bound on uxMissedTicks
  MaxGap                \* bound on the ticks a task lets pass between two looks

TickType == 0 .. portMAX_DELAY
Period == portMAX_DELAY + 1

ASSUME TimeOutAssumption ==
  /\ Waiters \subseteq Tasks /\ Sleepers \subseteq Tasks
  /\ Waiters \cap Sleepers = {}
  /\ portMAX_DELAY \in Nat \ {0}
  /\ OverflowModulus \in Nat \ {0, 1}
  /\ Waits \subseteq TickType \ {0}
  /\ Increments \subseteq TickType \ {0}
  /\ MaxMissedTicks \in Nat /\ MaxGap \in Nat

VARIABLES
  xTickCount, xNumOfOverflows, uxMissedTicks,
  stage,               \* how far each task is in its blocking call
  xTimeOut,            \* the xTimeOutType of each waiter
  xTicksToWait,        \* its *pxTicksToWait
  xPreviousWakeTime,   \* of each sleeper
  left,                \* ticks until the delayed list wakes the task, 0: ready
  gap,                 \* ghost: ticks counted since a waiter's last capture
  due,                 \* ghost: ticks until its wait is over
  since                \* ghost: ticks since a sleeper's previous wake time

tickVars  == <<xTickCount, xNumOfOverflows, uxMissedTicks>>
waitVars  == <<xTimeOut, xTicksToWait, gap, due>>
sleepVars == <<xPreviousWakeTime, since>>
vars == <<lockVars, tickVars, stage, waitVars, sleepVars, left>>

Forever == portMAX_DELAY + 1   \* blocked on xSuspendedTaskList

Stages == {"idle", "capture", "captureTick", "leave", "hold", "check", "place",
           "expired", "periodic", "until", "release", "yield"}

\* The stages in which a waiter's captured time is in use.
Captured == {"leave", "hold", "check", "place", "expired", "release", "yield"}

Enter(t, s) == stage' = [stage EXCEPT ![t] = s]
Stage(t, s) == At(t, "run") /\ stage[t] = s

\* The ready tasks vTaskSwitchContext chooses from.
ReadyTasks == {t \in Tasks : left[t] = 0}

\* Where a call goes on once it has given the scheduler back.
Resumed(t) == IF t \in Waiters THEN "hold" ELSE "periodic"

-----------------------------------------------------------------------------
(* Ticks *)

\* vTaskIncrementTick with the scheduler not suspended: the count, the
\* overflow counter and the tasks whose time has come.
CountTick ==
  /\ xTickCount' = IF xTickCount = portMAX_DELAY THEN 0 ELSE xTickCount + 1
  /\ xNumOfOverflows' =
       IF xTickCount # portMAX_DELAY THEN xNumOfOverflows
       ELSE IF xNumOfOverflows = OverflowModulus - 1 THEN 0
       ELSE xNumOfOverflows + 1
  /\ left' = [t \in Tasks |-> IF left[t] \in {0, Forever} THEN left[t]
                              ELSE left[t] - 1]
  /\ gap' = [t \in Waiters |-> IF stage[t] \in Captured THEN gap[t] + 1 ELSE 0]
  /\ due' = [t \in Waiters |->
               IF stage[t] \in Captured /\ xTicksToWait[t] # portMAX_DELAY
               THEN due[t] - 1 ELSE due[t]]
  /\ since' = [t \in Sleepers |-> IF stage[t] = "idle" THEN 0 ELSE since[t] + 1]

\* The tick interrupt.
TickISR ==
  /\ InterruptYield
  /\ \A t \in Waiters : gap[t] + uxMissedTicks < MaxGap
  /\ \A t \in Sleepers : since[t] + uxMissedTicks < MaxGap
  /\ IF uxSchedulerSuspended = 0
     THEN CountTick /\ UNCHANGED uxMissedTicks
     ELSE /\ uxMissedTicks < MaxMissedTicks
          /\ uxMissedTicks' = uxMissedTicks + 1
          /\ UNCHANGED <<xTickCount, xNumOfOverflows, left, gap, due, since>>
  /\ UNCHANGED <<stage, xTimeOut, xTicksToWait, xPreviousWakeTime>>

\* xTaskResumeAll, one round of the loop over the missed ticks.
ReplayTick(t) ==
  /\ At(t, "resuming") /\ uxSchedulerSuspended = 0 /\ uxMissedTicks > 0
  /\ CountTick
  /\ uxMissedTicks' = uxMissedTicks - 1
  /\ UNCHANGED <<lockVars, stage, xTimeOut, xTicksToWait, xPreviousWakeTime>>

-----------------------------------------------------------------------------
(* A queue call that blocks *)

\* Mutant: the queue captures the time outside a critical section.
StartWaitUnmasked(t, ticks) ==
  /\ Stage(t, "idle") /\ held[t] = 0 /\ uxCriticalNesting[t] = 0
  /\ Enter(t, "capture")
  /\ xTicksToWait' = [xTicksToWait EXCEPT ![t] = ticks]
  /\ UNCHANGED <<lockVars, tickVars, xTimeOut, gap, due, sleepVars, left>>

StartWait(t, ticks) ==
  /\ stage[t] = "idle" /\ held[t] = 0 /\ uxCriticalNesting[t] = 0
  /\ vTaskEnterCritical(t)
  /\ Enter(t, "capture")
  /\ xTicksToWait' = [xTicksToWait EXCEPT ![t] = ticks]
  /\ UNCHANGED <<tickVars, xTimeOut, gap, due, sleepVars, left>>

\* vTaskSetTimeOutState reads the overflow counter ...
CaptureOverflow(t) ==
  /\ Stage(t, "capture")
  /\ Enter(t, "captureTick")
  /\ xTimeOut' = [xTimeOut EXCEPT ![t].xOverflowCount = xNumOfOverflows]
  /\ UNCHANGED <<lockVars, tickVars, xTicksToWait, gap, due, sleepVars, left>>

\* ... and then the tick count: from here the wait counts.
CaptureTick(t) ==
  /\ Stage(t, "captureTick")
  /\ Enter(t, "leave")
  /\ xTimeOut' = [xTimeOut EXCEPT ![t].xTimeOnEntering = xTickCount]
  /\ gap' = [gap EXCEPT ![t] = 0]
  /\ due' = [due EXCEPT ![t] = xTicksToWait[t]]
  /\ UNCHANGED <<lockVars, tickVars, xTicksToWait, sleepVars, left>>

LeaveCritical(t) ==
  /\ stage[t] = "leave"
  /\ IF uxCriticalNesting[t] > 0 THEN vTaskExitCritical(t)
     ELSE At(t, "run") /\ UNCHANGED lockVars
  /\ Enter(t, "hold")
  /\ UNCHANGED <<tickVars, waitVars, sleepVars, left>>

\* (portTickType) xTickCount - xTimeOnEntering
Elapsed(entered) ==
  IF xTickCount >= entered THEN xTickCount - entered
  ELSE xTickCount - entered + Period

\* The test of xTaskCheckForTimeOut.
Expired(timeOut, ticks) ==
  /\ ticks # portMAX_DELAY
  /\ \/ /\ xNumOfOverflows # timeOut.xOverflowCount
        /\ xTickCount >= timeOut.xTimeOnEntering
     \/ Elapsed(timeOut.xTimeOnEntering) >= ticks

\* Mutant: the time is captured anew but the ticks to wait are not reduced.
CheckNotReduced(t) ==
  /\ Stage(t, "check")
  /\ IF Expired(xTimeOut[t], xTicksToWait[t])
     THEN Enter(t, "expired") /\ UNCHANGED waitVars
     ELSE /\ Enter(t, "place")
          /\ xTimeOut' = [xTimeOut EXCEPT
                            ![t] = [xOverflowCount |-> xNumOfOverflows,
                                    xTimeOnEntering |-> xTickCount]]
          /\ gap' = [gap EXCEPT ![t] = 0]
          /\ UNCHANGED <<xTicksToWait, due>>
  /\ UNCHANGED <<lockVars, tickVars, sleepVars, left>>

\* xTaskCheckForTimeOut, within its critical section.
xTaskCheckForTimeOut(t) ==
  LET ticks == xTicksToWait[t]
  IN  /\ Stage(t, "check")
      /\ IF Expired(xTimeOut[t], ticks)
         THEN Enter(t, "expired") /\ UNCHANGED waitVars
         ELSE IF ticks = portMAX_DELAY
         THEN Enter(t, "place") /\ UNCHANGED waitVars
         ELSE /\ Enter(t, "place")
              /\ xTicksToWait' =
                   [xTicksToWait EXCEPT
                      ![t] = ticks - Elapsed(xTimeOut[t].xTimeOnEntering)]
              /\ xTimeOut' = [xTimeOut EXCEPT
                                ![t] = [xOverflowCount |-> xNumOfOverflows,
                                        xTimeOnEntering |-> xTickCount]]
              /\ gap' = [gap EXCEPT ![t] = 0]
              /\ UNCHANGED due
      /\ UNCHANGED <<lockVars, tickVars, sleepVars, left>>

\* vTaskPlaceOnEventList for what is left of the wait.
Place(t) ==
  /\ Stage(t, "place")
  /\ Enter(t, "release")
  /\ left' = [left EXCEPT ![t] = IF xTicksToWait[t] = portMAX_DELAY
                                 THEN Forever ELSE xTicksToWait[t]]
  /\ UNCHANGED <<lockVars, tickVars, waitVars, sleepVars>>

\* The queue has what the caller waits for.
Served(t) ==
  /\ Stage(t, "hold") /\ t \in Waiters
  /\ Enter(t, "idle")
  /\ gap' = [gap EXCEPT ![t] = 0] /\ due' = [due EXCEPT ![t] = 0]
  /\ UNCHANGED <<lockVars, tickVars, xTimeOut, xTicksToWait, sleepVars, left>>

\* An interrupt posts to the queue.
EventISR(t) ==
  /\ InterruptYield
  /\ left[t] > 0
  /\ left' = [left EXCEPT ![t] = 0]
  /\ UNCHANGED <<tickVars, stage, waitVars, sleepVars>>

-----------------------------------------------------------------------------
(* vTaskDelayUntil *)

\* The caller initialises its wake time with xTaskGetTickCount.
StartPeriodic(t) ==
  /\ Stage(t, "idle") /\ held[t] = 0 /\ uxCriticalNesting[t] = 0
  /\ Enter(t, "periodic")
  /\ xPreviousWakeTime' = [xPreviousWakeTime EXCEPT ![t] = xTickCount]
  /\ since' = [since EXCEPT ![t] = 0]
  /\ UNCHANGED <<lockVars, tickVars, waitVars, left>>

StopPeriodic(t) ==
  /\ Stage(t, "periodic")
  /\ Enter(t, "idle")
  /\ since' = [since EXCEPT ![t] = 0]
  /\ UNCHANGED <<lockVars, tickVars, waitVars, xPreviousWakeTime, left>>

\* Mutant: a wake time behind the tick count is always taken for a wrapped one.
DelayIfDifferent(previous, wake) == wake # xTickCount

ShouldDelay(previous, wake) ==
  IF xTickCount < previous
  THEN wake < previous /\ wake > xTickCount
  ELSE wake < previous \/ wake > xTickCount

vTaskDelayUntil(t, increment) ==
  LET previous == xPreviousWakeTime[t]
      wake == IF previous + increment > portMAX_DELAY
              THEN previous + increment - Period ELSE previous + increment
  IN  /\ Stage(t, "until")
      /\ Enter(t, "release")
      /\ xPreviousWakeTime' = [xPreviousWakeTime EXCEPT ![t] = wake]
      /\ since' = [since EXCEPT ![t] = @ - increment]
      /\ left' = [left EXCEPT ![t] =
                    IF ~ ShouldDelay(previous, wake) THEN 0
                    ELSE IF wake < xTickCount THEN wake + Period - xTickCount
                    ELSE wake - xTickCount]
      /\ UNCHANGED <<lockVars, tickVars, waitVars>>

-----------------------------------------------------------------------------
(* Both calls: vTaskSuspendAll, xTaskResumeAll, portYIELD *)

SuspendAll(t) ==
  /\ stage[t] \in {"hold", "periodic"}
  /\ \/ SuspendAllRead(t) /\ UNCHANGED stage
     \/ SuspendAllWrite(t) /\ Enter(t, IF t \in Waiters THEN "check"
                                       ELSE "until")
  /\ UNCHANGED <<tickVars, waitVars, sleepVars, left>>

\* xTaskResumeAll counts the missed ticks before it leaves its critical
\* section; a caller that it did not make yield then does so itself.
ResumeAll(t) ==
  /\ stage[t] \in {"release", "expired"}
  /\ \/ ResumeAllBegin(t) /\ UNCHANGED <<stage, gap, due>>
     \/ /\ uxSchedulerSuspended = 0 => uxMissedTicks = 0
        /\ \E required \in BOOLEAN : ResumeAllEnd(t, required)
        /\ IF stage[t] = "expired"
           THEN /\ Enter(t, "idle")
                /\ gap' = [gap EXCEPT ![t] = 0] /\ due' = [due EXCEPT ![t] = 0]
           ELSE /\ Enter(t, IF yieldPending' THEN Resumed(t) ELSE "yield")
                /\ UNCHANGED <<gap, due>>
  /\ UNCHANGED <<tickVars, xTimeOut, xTicksToWait, sleepVars, left>>

YieldOnce(t) ==
  /\ stage[t] = "yield" /\ portYIELD(t)
  /\ Enter(t, Resumed(t))
  /\ UNCHANGED <<tickVars, waitVars, sleepVars, left>>

\* A task outside these calls uses the locks as it likes.
LocksOnly(t) ==
  /\ stage[t] = "idle" /\ TaskStep(t)
  /\ pc[t] = "resuming" /\ uxSchedulerSuspended = 0 => uxMissedTicks = 0
  /\ UNCHANGED <<tickVars, stage, waitVars, sleepVars, left>>

-----------------------------------------------------------------------------
Init ==
  /\ LocksInit
  /\ xTickCount = 0 /\ xNumOfOverflows = 0 /\ uxMissedTicks = 0
  /\ stage = [t \in Tasks |-> "idle"]
  /\ left = [t \in Tasks |-> 0]
  /\ xTimeOut = [t \in Waiters |-> [xOverflowCount |-> 0, xTimeOnEntering |-> 0]]
  /\ xTicksToWait = [t \in Waiters |-> portMAX_DELAY]
  /\ gap = [t \in Waiters |-> 0] /\ due = [t \in Waiters |-> 0]
  /\ xPreviousWakeTime = [t \in Sleepers |-> 0]
  /\ since = [t \in Sleepers |-> 0]

Waiter(t) ==
  \/ \E ticks \in Waits : StartWait(t, ticks)
  \/ CaptureOverflow(t) \/ CaptureTick(t) \/ LeaveCritical(t)
  \/ xTaskCheckForTimeOut(t) \/ Place(t) \/ Served(t)

Sleeper(t) ==
  \/ StartPeriodic(t) \/ StopPeriodic(t)
  \/ \E increment \in Increments : vTaskDelayUntil(t, increment)

Port ==
  /\ \/ EnterCriticalBeforeStart \/ StartScheduler
     \/ vTaskSwitchContext(ReadyTasks)
  /\ UNCHANGED <<tickVars, stage, waitVars, sleepVars, left>>

Next ==
  \/ TickISR
  \/ \E t \in Waiters : Waiter(t) \/ EventISR(t)
  \/ \E t \in Sleepers : Sleeper(t)
  \/ \E t \in Tasks : SuspendAll(t) \/ ResumeAll(t) \/ ReplayTick(t)
                        \/ YieldOnce(t) \/ LocksOnly(t)
  \/ Port

Spec == Init /\ [][Next]_vars

-----------------------------------------------------------------------------
(* Properties.  The next ones are those of Locks, now with this use of it. *)

TypeOK ==
  /\ LocksTypeOK
  /\ xTickCount \in TickType /\ xNumOfOverflows \in 0 .. OverflowModulus - 1
  /\ uxMissedTicks \in Nat
  /\ stage \in [Tasks -> Stages]
  /\ left \in [Tasks -> 0 .. Forever]
  /\ xTimeOut \in [Waiters -> [xOverflowCount : 0 .. OverflowModulus - 1,
                               xTimeOnEntering : TickType]]
  /\ xTicksToWait \in [Waiters -> TickType]
  /\ gap \in [Waiters -> Nat] /\ due \in [Waiters -> Int]
  /\ xPreviousWakeTime \in [Sleepers -> TickType]
  /\ since \in [Sleepers -> Int]

\* A call never times out before its ticks have passed, however often it was
\* woken and looked again, however long it was kept from looking, and however
\* the tick count wrapped meanwhile; and never if it waits for ever.
NoEarlyTimeOut ==
  \A t \in Waiters :
    stage[t] = "expired" => due[t] <= 0 /\ xTicksToWait[t] # portMAX_DELAY

\* A caller that looks again within one period of the tick count is told the
\* truth: it times out if its ticks have passed, and else exactly the ticks
\* that passed are taken off.
CheckExact ==
  [][\A t \in Waiters :
       /\ stage[t] = "check" /\ stage'[t] # "check"
       /\ gap[t] <= Period /\ xTicksToWait[t] # portMAX_DELAY
       => /\ stage'[t] = "expired" <=> gap[t] >= xTicksToWait[t]
          /\ stage'[t] # "expired" =>
               xTicksToWait'[t] = xTicksToWait[t] - gap[t]]_vars

\* vTaskDelayUntil wakes its caller at its previous wake time plus the
\* increment, or lets it run at once if that time is not ahead, whichever of
\* the three times have wrapped - as long as it is less than a period late.
DelayUntilExact ==
  [][\A t \in Sleepers :
       /\ stage[t] = "until" /\ stage'[t] # "until"
       /\ since[t] \in TickType
       => left'[t] = IF since'[t] < 0 THEN - since'[t] ELSE 0]_vars
=============================================================================
