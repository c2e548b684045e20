------------------------------- MODULE Tasks -------------------------------
(***************************************************************************)
(* The scheduler of tasks.c, in the configuration frozen in                *)
(* proof_port/scheduler/FreeRTOSConfig.h (preemptive, no mutexes, every    *)
(* INCLUDE_ of the slice set to 1), on one processor with a preemptive     *)
(* port.                                                                   *)
(*                                                                         *)
(* A step is what no interrupt can split: a critical section, or the       *)
(* stretch between two of them.  `pc[t]' says where task t is inside an    *)
(* API call.  The loops that run with interrupts masked (waking delayed    *)
(* tasks, draining xPendingReadyList, replaying missed ticks) take one     *)
(* step per iteration; while `kernel' is not "none" nothing else moves.    *)
(* A yield only sets `yieldPending'; the port then calls                   *)
(* vTaskSwitchContext, and other interrupts may come first.                *)
(***************************************************************************)
EXTENDS XList, FiniteSets

CONSTANTS
  Tasks,                \* the tasks the application may create
  Idle,                 \* the task vTaskStartScheduler creates
  configMAX_PRIORITIES,
  RequestedPriorities,  \* uxPriority arguments, too large ones included
  NumEvents,            \* queues whose event lists tasks block on
  Delays,               \* non-zero tick arguments of the blocking calls
  Calls,                \* the API functions and interrupts of this system
  MaxSuspendDepth,      \* bound on nested vTaskSuspendAll calls
  MaxMissedTicks        \* bound on uxMissedTicks

VARIABLES
  lists,                      \* every xList and xListItem: see XList
  tcb,                        \* tasks whose TCB is allocated
  uxPriority,
  pxCurrentTCB,
  uxCurrentNumberOfTasks,
  uxTasksDeleted,
  xTickCount,
  pxDelayedTaskList,
  pxOverflowDelayedTaskList,
  xNumOfOverflows,            \* modulo OverflowModulus
  uxTopUsedPriority,
  uxTopReadyPriority,
  xSchedulerRunning,
  uxSchedulerSuspended,
  uxMissedTicks,
  xMissedYield,
  yieldPending,               \* port: a yield was asked for and not yet taken
  kernel,                     \* the masked loop in progress, or "none"
  xYieldRequired,             \* local of xTaskResumeAll
  pc,                         \* where each task is inside an API call
  askedPriority,              \* the uxPriority argument of xTaskGenericCreate
  reaped,                     \* local pxTCB of prvCheckTasksWaitingTermination
  queueLocked,                \* external: queue e is locked
  queuePosted,                \* external: a post was counted while e was locked
  fault                       \* the ready search ran off the bottom priority

AllTasks == Tasks \cup {Idle}
Priorities == 0 .. configMAX_PRIORITIES - 1
Events == 1 .. NumEvents

ASSUME TasksAssumption ==
  /\ IsFiniteSet(Tasks) /\ Idle \notin Tasks
  /\ Null \notin AllTasks
  /\ configMAX_PRIORITIES \in Nat \ {0}
  /\ configMAX_PRIORITIES <= portMAX_DELAY
  /\ RequestedPriorities \subseteq Nat
  /\ NumEvents \in Nat
  /\ Delays \subseteq TickType \ {0}
  /\ MaxSuspendDepth \in Nat \ {0}
  /\ MaxMissedTicks \in Nat

-----------------------------------------------------------------------------
(* Lists and list items *)

Generic(t) == <<"generic", t>>
Event(t)   == <<"event", t>>
Items      == {"generic", "event"} \X AllTasks
Owner(x)   == x[2]

Ready(p)     == <<"ready", p>>
Delayed(i)   == <<"delayed", i>>
Pending      == <<"pending", 0>>
Suspended    == <<"suspended", 0>>
Termination  == <<"termination", 0>>
EventList(e) == <<"event", e>>

ReadyLists   == {Ready(p) : p \in Priorities}
DelayedLists == {Delayed(1), Delayed(2)}
EventLists   == {EventList(e) : e \in Events}
Lists == ReadyLists \cup DelayedLists \cup EventLists
           \cup {Pending, Suspended, Termination}

ASSUME NullAssumption == Null \notin Lists

OverflowModulus == 2
Tick(n) == n % (portMAX_DELAY + 1)

EventItemValue(p) == configMAX_PRIORITIES - p
CapPriority(p) ==
  IF p >= configMAX_PRIORITIES THEN configMAX_PRIORITIES - 1 ELSE p

Container(t) == lists.container[Generic(t)]
IsReady(t) == Container(t) = Ready(uxPriority[t])

\* A handle the application may use: the task exists and was not deleted.
Handle(t) == t \in tcb /\ t \in Tasks /\ Container(t) \notin {Termination, Null}

listVars   == <<lists, uxTopReadyPriority>>
taskVars   == <<tcb, uxPriority, uxCurrentNumberOfTasks, uxTasksDeleted,
                uxTopUsedPriority, askedPriority, reaped>>
timeVars   == <<xTickCount, pxDelayedTaskList, pxOverflowDelayedTaskList,
                xNumOfOverflows>>
missedVars == <<uxMissedTicks, xMissedYield>>
queueVars  == <<queueLocked, queuePosted>>
loopVars   == <<kernel, xYieldRequired>>
vars == <<listVars, taskVars, timeVars, missedVars, queueVars, loopVars,
          pxCurrentTCB, xSchedulerRunning, uxSchedulerSuspended, yieldPending,
          pc, fault>>

-----------------------------------------------------------------------------
(* Macros and static helpers of tasks.c *)

\* prvAddTaskToReadyQueue for a task of priority p, in two halves.
AddToReady(xl, t, p) == vListInsertEnd(xl, Ready(p), Generic(t))
RaiseTop(p) ==
  uxTopReadyPriority' = IF p > uxTopReadyPriority THEN p ELSE uxTopReadyPriority

\* Mutant: the event item stays on its list.
UnlinkGenericOnly(xl, t) == vListRemove(xl, Generic(t))

\* Take t off its list, and off the event list if it waits on an event too.
Unlink(xl, t) ==
  LET g == vListRemove(xl, Generic(t))
  IN  IF g.container[Event(t)] = Null THEN g ELSE vListRemove(g, Event(t))

\* Mutant: no overflow list.
BlockOnOneList(xl, t, wake) ==
  vListInsert(
    listSET_LIST_ITEM_VALUE(vListRemove(xl, Generic(t)), Generic(t), wake),
    pxDelayedTaskList, Generic(t))

\* Move t from the ready lists to the delayed list its wake time belongs to.
BlockUntil(xl, t, wake) ==
  vListInsert(
    listSET_LIST_ITEM_VALUE(vListRemove(xl, Generic(t)), Generic(t), wake),
    IF wake < xTickCount THEN pxOverflowDelayedTaskList ELSE pxDelayedTaskList,
    Generic(t))

\* The test of vTaskDelayUntil: delay only if the wake time is still ahead.
ShouldDelay(now, previous, wake) ==
  IF now < previous
  THEN wake < previous /\ wake > now
  ELSE wake < previous \/ wake > now

xTaskIsTaskSuspended(t) ==
  /\ listIS_CONTAINED_WITHIN(lists, Suspended, Generic(t))
  /\ ~ listIS_CONTAINED_WITHIN(lists, Pending, Event(t))
  /\ listIS_CONTAINED_WITHIN(lists, Null, Event(t))

\* The search loop of vTaskSwitchContext, over the ready lists xl.
ReadyAtOrBelow(xl, top) ==
  {p \in Priorities : p <= top /\ ~ listLIST_IS_EMPTY(xl, Ready(p))}

HighestOf(ps) == CHOOSE p \in ps : \A q \in ps : q <= p

\* vTaskSwitchContext with the scheduler not suspended.  When no ready list
\* has an item the loop runs below priority 0: `fault'.
SwitchTo(xl) ==
  LET found == ReadyAtOrBelow(xl, uxTopReadyPriority)
      top   == HighestOf(found)
      next  == AdvanceIndex(xl, Ready(top))
  IN  IF found = {}
      THEN /\ fault' = TRUE
           /\ lists' = xl
           /\ UNCHANGED <<uxTopReadyPriority, pxCurrentTCB>>
      ELSE /\ uxTopReadyPriority' = top
           /\ lists' = next
           /\ pxCurrentTCB' = Owner(ItemAtIndex(next, Ready(top)))
           /\ UNCHANGED fault

\* xTaskRemoveFromEventList takes the first task off the event list; it
\* returns true when that task is not below the current one.
FirstWaiting(e) == Owner(HeadItem(lists, EventList(e)))

\* Mutant: does not look at uxSchedulerSuspended.
RemoveAlways(e) ==
  LET t == FirstWaiting(e)
  IN  /\ lists' = AddToReady(vListRemove(vListRemove(lists, Event(t)),
                                         Generic(t)), t, uxPriority[t])
      /\ RaiseTop(uxPriority[t])

xTaskRemoveFromEventList(e) ==
  LET t  == FirstWaiting(e)
      xl == vListRemove(lists, Event(t))
  IN  IF uxSchedulerSuspended = 0
      THEN /\ lists' = AddToReady(vListRemove(xl, Generic(t)), t, uxPriority[t])
           /\ RaiseTop(uxPriority[t])
      ELSE /\ lists' = vListInsertEnd(xl, Pending, Event(t))
           /\ UNCHANGED uxTopReadyPriority

NotBelowCurrent(t) == uxPriority[t] >= uxPriority[pxCurrentTCB]

-----------------------------------------------------------------------------
(* Who may step *)

InterruptsOn == xSchedulerRunning /\ kernel = "none" /\ ~ fault

\* Task t executes its own code at label l.
At(t, l) ==
  /\ InterruptsOn /\ ~ yieldPending
  /\ t = pxCurrentTCB /\ pc[t] = l

\* An application task calls an API function ...
Call(t, f) == t \in Tasks /\ f \in Calls /\ At(t, "run")

\* ... that may block, which it must not do while the scheduler is suspended.
BlockingCall(t, f) == Call(t, f) /\ uxSchedulerSuspended = 0

\* Code that runs before vTaskStartScheduler.
BeforeStart(f) == f \in Calls /\ ~ xSchedulerRunning /\ ~ fault

Goto(t, l) == pc' = [pc EXCEPT ![t] = l]

-----------------------------------------------------------------------------
(* xTaskGenericCreate *)

\* prvInitialiseTCBVariables, then the critical section, for a new task t.
EnterReady(xl, t, p) ==
  AddToReady(
    listSET_LIST_ITEM_VALUE(
      [xl EXCEPT !.container = [x \in Items |->
                                  IF Owner(x) = t THEN Null ELSE @[x]]],
      Event(t), EventItemValue(p)),
    t, p)

CreateTask(t, asked) ==
  LET p     == CapPriority(asked)
      first == pxCurrentTCB = Null /\ uxCurrentNumberOfTasks = 0
      xl    == IF first THEN vListInitialise(Lists, Items) ELSE lists
  IN  /\ t \notin tcb
      /\ tcb' = tcb \cup {t}
      /\ uxPriority' = [uxPriority EXCEPT ![t] = p]
      /\ uxCurrentNumberOfTasks' = uxCurrentNumberOfTasks + 1
      /\ uxTopUsedPriority' = IF p > uxTopUsedPriority THEN p
                              ELSE uxTopUsedPriority
      /\ lists' = EnterReady(xl, t, p)
      /\ RaiseTop(p)
      /\ IF \/ pxCurrentTCB = Null
            \/ ~ xSchedulerRunning /\ uxPriority[pxCurrentTCB] <= asked
         THEN pxCurrentTCB' = t
         ELSE UNCHANGED pxCurrentTCB
      /\ IF first
         THEN /\ pxDelayedTaskList' = Delayed(1)
              /\ pxOverflowDelayedTaskList' = Delayed(2)
         ELSE UNCHANGED <<pxDelayedTaskList, pxOverflowDelayedTaskList>>
      /\ UNCHANGED <<uxTasksDeleted, reaped, xNumOfOverflows, missedVars,
                     queueVars, loopVars, uxSchedulerSuspended, yieldPending,
                     fault>>

CreateBeforeStart(t, asked) ==
  /\ BeforeStart("CreateBeforeStart") /\ t \in Tasks
  /\ CreateTask(t, asked)
  /\ UNCHANGED <<xTickCount, xSchedulerRunning, pc, askedPriority>>

xTaskCreate(t, new, asked) ==
  /\ Call(t, "xTaskCreate") /\ new \in Tasks
  /\ CreateTask(new, asked)
  /\ pc' = [pc EXCEPT ![t] = "created", ![new] = "run"]
  /\ askedPriority' = [askedPriority EXCEPT ![t] = asked]
  /\ UNCHANGED <<xTickCount, xSchedulerRunning>>

\* Past the critical section: yield to a new task above the current one.
CreatedYield(t) ==
  /\ At(t, "created")
  /\ yieldPending' = (uxPriority[pxCurrentTCB] < askedPriority[t])
  /\ askedPriority' = [askedPriority EXCEPT ![t] = 0]
  /\ Goto(t, "run")
  /\ UNCHANGED <<listVars, tcb, uxPriority, uxCurrentNumberOfTasks,
                 uxTasksDeleted, uxTopUsedPriority, reaped, timeVars,
                 missedVars, queueVars, loopVars, pxCurrentTCB,
                 xSchedulerRunning, uxSchedulerSuspended, fault>>

\* vTaskStartScheduler: create the idle task, then let the current task run.
vTaskStartScheduler ==
  /\ ~ xSchedulerRunning /\ ~ fault
  /\ CreateTask(Idle, 0)
  /\ xSchedulerRunning' = TRUE
  /\ xTickCount' = 0
  /\ UNCHANGED <<pc, askedPriority>>

-----------------------------------------------------------------------------
(* vTaskDelete, vTaskSuspend, vTaskResume, vTaskPrioritySet *)

\* Mutant: uxTasksDeleted is not incremented.
DeleteUncounted(x) ==
  /\ Handle(x)
  /\ lists' = vListInsertEnd(Unlink(lists, x), Termination, Generic(x))
  /\ UNCHANGED <<taskVars, uxTopReadyPriority, timeVars, missedVars, queueVars,
                 loopVars, pxCurrentTCB, xSchedulerRunning,
                 uxSchedulerSuspended, yieldPending, fault>>

Delete(x) ==
  /\ Handle(x)
  /\ lists' = vListInsertEnd(Unlink(lists, x), Termination, Generic(x))
  /\ uxTasksDeleted' = uxTasksDeleted + 1
  /\ UNCHANGED <<tcb, uxPriority, uxCurrentNumberOfTasks, uxTopUsedPriority,
                 askedPriority, reaped, uxTopReadyPriority, timeVars,
                 missedVars, queueVars, loopVars, pxCurrentTCB,
                 xSchedulerRunning, uxSchedulerSuspended, yieldPending, fault>>

DeleteBeforeStart(x) ==
  /\ BeforeStart("DeleteBeforeStart") /\ Delete(x)
  /\ UNCHANGED pc

\* Mutant: no portYIELD for a task that deletes itself.
DeleteWithoutYield(t, x) ==
  /\ Call(t, "vTaskDelete") /\ (x = t => uxSchedulerSuspended = 0)
  /\ Delete(x)
  /\ UNCHANGED pc

\* A task that deletes itself still has its portYIELD to execute.
vTaskDelete(t, x) ==
  /\ Call(t, "vTaskDelete") /\ (x = t => uxSchedulerSuspended = 0)
  /\ Delete(x)
  /\ IF x = t THEN Goto(t, "yield") ELSE UNCHANGED pc

\* Mutant: the task stays on the list it was on.
SuspendInPlace(xl, x) == vListInsertEnd(xl, Suspended, Generic(x))

Suspend(xl, x) == vListInsertEnd(Unlink(xl, x), Suspended, Generic(x))

SuspendBeforeStart(x) ==
  /\ BeforeStart("SuspendBeforeStart") /\ Handle(x)
  /\ IF x # pxCurrentTCB
     THEN /\ lists' = Suspend(lists, x)
          /\ UNCHANGED <<uxTopReadyPriority, pxCurrentTCB, fault>>
     ELSE IF uxCurrentNumberOfTasks = 1
     THEN /\ lists' = Suspend(lists, x)
          /\ pxCurrentTCB' = Null
          /\ UNCHANGED <<uxTopReadyPriority, fault>>
     ELSE SwitchTo(Suspend(lists, x))
  /\ UNCHANGED <<taskVars, timeVars, missedVars, queueVars, loopVars,
                 xSchedulerRunning, uxSchedulerSuspended, yieldPending, pc>>

vTaskSuspend(t, x) ==
  /\ Call(t, "vTaskSuspend") /\ (x = t => uxSchedulerSuspended = 0)
  /\ Handle(x)
  /\ lists' = Suspend(lists, x)
  /\ IF x = t THEN Goto(t, "yield") ELSE UNCHANGED pc
  /\ UNCHANGED <<uxTopReadyPriority, taskVars, timeVars, missedVars, queueVars,
                 loopVars, pxCurrentTCB, xSchedulerRunning,
                 uxSchedulerSuspended, yieldPending, fault>>

\* Mutant: uxTopReadyPriority is left alone.
ResumeWithoutTop(x) ==
  /\ lists' = AddToReady(vListRemove(lists, Generic(x)), x, uxPriority[x])
  /\ yieldPending' = (yieldPending \/ NotBelowCurrent(x))
  /\ UNCHANGED uxTopReadyPriority

\* Mutant: the resumed task is never yielded to.
ResumeWithoutYield(x) ==
  /\ lists' = AddToReady(vListRemove(lists, Generic(x)), x, uxPriority[x])
  /\ RaiseTop(uxPriority[x])
  /\ UNCHANGED yieldPending

\* Common to vTaskResume and, with the scheduler running, xTaskResumeFromISR.
ResumeNow(x) ==
  /\ lists' = AddToReady(vListRemove(lists, Generic(x)), x, uxPriority[x])
  /\ RaiseTop(uxPriority[x])
  /\ yieldPending' = (yieldPending \/ NotBelowCurrent(x))

vTaskResume(t, x) ==
  /\ Call(t, "vTaskResume") /\ Handle(x)
  /\ x # pxCurrentTCB /\ xTaskIsTaskSuspended(x)
  /\ ResumeNow(x)
  /\ UNCHANGED <<taskVars, timeVars, missedVars, queueVars, loopVars,
                 pxCurrentTCB, xSchedulerRunning, uxSchedulerSuspended, pc,
                 fault>>

\* Raising another task, or lowering oneself, asks for a yield.
vTaskPrioritySet(t, x, asked) ==
  LET new == CapPriority(asked)
      old == uxPriority[x]
      xl  == listSET_LIST_ITEM_VALUE(lists, Event(x), EventItemValue(new))
  IN  /\ Call(t, "vTaskPrioritySet") /\ Handle(x) /\ new # old
      /\ uxPriority' = [uxPriority EXCEPT ![x] = new]
      /\ IF listIS_CONTAINED_WITHIN(lists, Ready(old), Generic(x))
         THEN /\ lists' = AddToReady(vListRemove(xl, Generic(x)), x, new)
              /\ RaiseTop(new)
         ELSE /\ lists' = xl
              /\ UNCHANGED uxTopReadyPriority
      /\ yieldPending' = (IF new > old THEN x # t ELSE x = t)
      /\ UNCHANGED <<tcb, uxCurrentNumberOfTasks, uxTasksDeleted,
                     uxTopUsedPriority, askedPriority, reaped, timeVars,
                     missedVars, queueVars, loopVars, pxCurrentTCB,
                     xSchedulerRunning, uxSchedulerSuspended, pc, fault>>

-----------------------------------------------------------------------------
(* vTaskSuspendAll and xTaskResumeAll *)

SuspendAllVars == <<listVars, taskVars, timeVars, missedVars, loopVars,
                    pxCurrentTCB, xSchedulerRunning, yieldPending, fault>>

\* The call by the application; it may nest.
vTaskSuspendAll(t) ==
  /\ Call(t, "vTaskSuspendAll") /\ uxSchedulerSuspended < MaxSuspendDepth
  /\ uxSchedulerSuspended' = uxSchedulerSuspended + 1
  /\ UNCHANGED <<SuspendAllVars, queueVars, pc>>

\* Mutant: a blocking call never yields of its own accord.
AfterResumeAllNoYield(t, xAlreadyYielded) ==
  Goto(t, CASE pc[t] \in {"run", "blocked"} -> "run"
            [] pc[t] = "idleFound" -> "idleReap"
            [] pc[t] = "idleEmpty" -> "idleYield")

\* Where the caller of xTaskResumeAll goes on, given its return value.
AfterResumeAll(t, xAlreadyYielded) ==
  Goto(t, CASE pc[t] = "run" -> "run"
            [] pc[t] = "blocked" -> IF xAlreadyYielded THEN "run" ELSE "yield"
            [] pc[t] = "idleFound" -> "idleReap"
            [] pc[t] = "idleEmpty" -> "idleYield")

\* Entry of the critical section; the outermost call starts the drain loop.
xTaskResumeAll(t) ==
  /\ \/ Call(t, "vTaskSuspendAll")
     \/ \E l \in {"blocked", "idleFound", "idleEmpty"} : At(t, l)
  /\ uxSchedulerSuspended > 0
  /\ uxSchedulerSuspended' = uxSchedulerSuspended - 1
  /\ IF uxSchedulerSuspended = 1 /\ uxCurrentNumberOfTasks > 0
     THEN kernel' = "drain" /\ UNCHANGED pc
     ELSE AfterResumeAll(t, FALSE) /\ UNCHANGED kernel
  /\ UNCHANGED <<listVars, taskVars, timeVars, missedVars, queueVars,
                 xYieldRequired, pxCurrentTCB, xSchedulerRunning, yieldPending,
                 fault>>

LoopStep(l) == kernel = l

LoopUnchanged == <<taskVars, queueVars, pxCurrentTCB, xSchedulerRunning,
                   uxSchedulerSuspended, fault>>

\* One iteration of the loop over xPendingReadyList.
DrainPending ==
  LET t  == Owner(HeadItem(lists, Pending))
      xl == vListRemove(vListRemove(lists, Event(t)), Generic(t))
  IN  /\ LoopStep("drain") /\ ~ listLIST_IS_EMPTY(lists, Pending)
      /\ lists' = AddToReady(xl, t, uxPriority[t])
      /\ RaiseTop(uxPriority[t])
      /\ xYieldRequired' = (xYieldRequired \/ NotBelowCurrent(t))
      /\ UNCHANGED <<LoopUnchanged, timeVars, missedVars, kernel, yieldPending,
                     pc>>

\* Mutant: `if' for `while', at most one pending task is drained.
DrainOnce ==
  /\ LoopStep("drain")
  /\ kernel' = "replay"
  /\ xYieldRequired' = (xYieldRequired \/ uxMissedTicks > 0)
  /\ UNCHANGED <<LoopUnchanged, listVars, timeVars, missedVars, yieldPending,
                 pc>>

DrainDone ==
  /\ LoopStep("drain") /\ listLIST_IS_EMPTY(lists, Pending)
  /\ kernel' = "replay"
  /\ xYieldRequired' = (xYieldRequired \/ uxMissedTicks > 0)
  /\ UNCHANGED <<LoopUnchanged, listVars, timeVars, missedVars, yieldPending,
                 pc>>

\* Mutant: the lists are exchanged without the temporary.
CountTickNoTemp ==
  LET next == Tick(xTickCount + 1)
  IN  /\ xTickCount' = next
      /\ IF next = 0
         THEN /\ pxDelayedTaskList' = pxOverflowDelayedTaskList
              /\ xNumOfOverflows' = (xNumOfOverflows + 1) % OverflowModulus
         ELSE UNCHANGED <<pxDelayedTaskList, xNumOfOverflows>>
      /\ UNCHANGED pxOverflowDelayedTaskList

\* Mutant: the lists are not exchanged.
CountTickNoSwap ==
  /\ xTickCount' = Tick(xTickCount + 1)
  /\ UNCHANGED <<pxDelayedTaskList, pxOverflowDelayedTaskList, xNumOfOverflows>>

\* vTaskIncrementTick with the scheduler not suspended, up to its wake loop.
CountTick ==
  LET next == Tick(xTickCount + 1)
  IN  /\ xTickCount' = next
      /\ IF next = 0
         THEN /\ pxDelayedTaskList' = pxOverflowDelayedTaskList
              /\ pxOverflowDelayedTaskList' = pxDelayedTaskList
              /\ xNumOfOverflows' = (xNumOfOverflows + 1) % OverflowModulus
         ELSE UNCHANGED <<pxDelayedTaskList, pxOverflowDelayedTaskList,
                          xNumOfOverflows>>

ReplayTick ==
  /\ LoopStep("replay") /\ uxMissedTicks > 0
  /\ CountTick
  /\ kernel' = "replayWake"
  /\ UNCHANGED <<LoopUnchanged, listVars, missedVars, xYieldRequired,
                 yieldPending, pc>>

ResumeAllDone ==
  LET yield == xYieldRequired \/ xMissedYield
  IN  /\ LoopStep("replay") /\ uxMissedTicks = 0
      /\ kernel' = "none"
      /\ xYieldRequired' = FALSE
      /\ xMissedYield' = FALSE
      /\ yieldPending' = yield
      /\ AfterResumeAll(pxCurrentTCB, yield)
      /\ UNCHANGED <<LoopUnchanged, listVars, timeVars, uxMissedTicks>>

-----------------------------------------------------------------------------
(* prvCheckDelayedTasks, within the tick interrupt or the replay loop *)

\* Mutant: a task due now is not woken yet.
ExpiredLate ==
  /\ ~ listLIST_IS_EMPTY(lists, pxDelayedTaskList)
  /\ lists.value[HeadItem(lists, pxDelayedTaskList)] < xTickCount

Expired ==
  /\ ~ listLIST_IS_EMPTY(lists, pxDelayedTaskList)
  /\ lists.value[HeadItem(lists, pxDelayedTaskList)] <= xTickCount

WakeOne ==
  LET t == Owner(HeadItem(lists, pxDelayedTaskList))
  IN  /\ kernel \in {"tick", "replayWake"} /\ Expired
      /\ lists' = AddToReady(Unlink(lists, t), t, uxPriority[t])
      /\ RaiseTop(uxPriority[t])
      /\ UNCHANGED <<LoopUnchanged, timeVars, missedVars, loopVars,
                     yieldPending, pc>>

\* End of the tick: the port asks for a context switch on every tick ...
TickDone ==
  /\ LoopStep("tick") /\ ~ Expired
  /\ kernel' = "none"
  /\ yieldPending' = TRUE
  /\ UNCHANGED <<LoopUnchanged, listVars, timeVars, missedVars, xYieldRequired,
                 pc>>

\* Mutant: the missed ticks are forgotten after the first.
ReplayOne ==
  /\ LoopStep("replayWake") /\ ~ Expired
  /\ kernel' = "replay"
  /\ uxMissedTicks' = 0
  /\ UNCHANGED <<LoopUnchanged, listVars, timeVars, xMissedYield,
                 xYieldRequired, yieldPending, pc>>

\* ... and the replay loop counts one missed tick less.
ReplayWakeDone ==
  /\ LoopStep("replayWake") /\ ~ Expired
  /\ kernel' = "replay"
  /\ uxMissedTicks' = uxMissedTicks - 1
  /\ UNCHANGED <<LoopUnchanged, listVars, timeVars, xMissedYield,
                 xYieldRequired, yieldPending, pc>>

-----------------------------------------------------------------------------
(* vTaskDelay, vTaskDelayUntil *)

\* Both begin with vTaskSuspendAll; the ticks to wait are chosen below.
EnterDelay(t, f) ==
  /\ BlockingCall(t, f)
  /\ uxSchedulerSuspended' = uxSchedulerSuspended + 1
  /\ Goto(t, f)
  /\ UNCHANGED <<SuspendAllVars, queueVars>>

vTaskDelay(t, xTicksToDelay) ==
  /\ At(t, "vTaskDelay")
  /\ lists' = BlockUntil(lists, t, Tick(xTickCount + xTicksToDelay))
  /\ Goto(t, "blocked")
  /\ UNCHANGED <<uxTopReadyPriority, taskVars, timeVars, missedVars, queueVars,
                 loopVars, pxCurrentTCB, xSchedulerRunning,
                 uxSchedulerSuspended, yieldPending, fault>>

vTaskDelayUntil(t, previous, increment) ==
  LET wake == Tick(previous + increment)
  IN  /\ At(t, "vTaskDelayUntil")
      /\ lists' = IF ShouldDelay(xTickCount, previous, wake)
                  THEN BlockUntil(lists, t, wake) ELSE lists
      /\ Goto(t, "blocked")
      /\ UNCHANGED <<uxTopReadyPriority, taskVars, timeVars, missedVars,
                     queueVars, loopVars, pxCurrentTCB, xSchedulerRunning,
                     uxSchedulerSuspended, yieldPending, fault>>

\* portYIELD, for a caller that has satisfied its guard.
portYIELD(t) ==
  /\ yieldPending' = TRUE
  /\ Goto(t, "run")
  /\ UNCHANGED <<listVars, taskVars, timeVars, missedVars, queueVars, loopVars,
                 pxCurrentTCB, xSchedulerRunning, uxSchedulerSuspended, fault>>

\* The end of a call that blocks, and all that vTaskDelay( 0 ) does.
EndWithYield(t) == At(t, "yield") /\ portYIELD(t)
DelayZero(t) == BlockingCall(t, "vTaskDelay") /\ portYIELD(t)

-----------------------------------------------------------------------------
(* Event lists.  The queues are not in the repository: they lock, block,   *)
(* unlock and post the way the comments of tasks.c describe.               *)

\* A queue call that will block: vTaskSuspendAll, then lock the queue.
QueueWait(t, e) ==
  /\ BlockingCall(t, "vTaskPlaceOnEventList")
  /\ ~ queueLocked[e]
  /\ uxSchedulerSuspended' = uxSchedulerSuspended + 1
  /\ queueLocked' = [queueLocked EXCEPT ![e] = TRUE]
  /\ Goto(t, "place")
  /\ UNCHANGED <<SuspendAllVars, queuePosted>>

\* ticks = portMAX_DELAY blocks without a timeout, on xSuspendedTaskList.
vTaskPlaceOnEventList(t, e, ticks) ==
  LET xl == vListInsert(lists, EventList(e), Event(t))
  IN  /\ At(t, "place") /\ queueLocked[e]
      /\ lists' = IF ticks = portMAX_DELAY
                  THEN vListInsertEnd(vListRemove(xl, Generic(t)), Suspended,
                                      Generic(t))
                  ELSE BlockUntil(xl, t, Tick(xTickCount + ticks))
      /\ Goto(t, "unlock")
      /\ UNCHANGED <<uxTopReadyPriority, taskVars, timeVars, missedVars,
                     queueVars, loopVars, pxCurrentTCB, xSchedulerRunning,
                     uxSchedulerSuspended, yieldPending, fault>>

\* Unlocking hands on a post that came meanwhile; a wake-up that should
\* yield is remembered by vTaskMissedYield.
QueueUnlock(t, e) ==
  /\ At(t, "unlock") /\ queueLocked[e]
  /\ queueLocked' = [queueLocked EXCEPT ![e] = FALSE]
  /\ queuePosted' = [queuePosted EXCEPT ![e] = FALSE]
  /\ IF queuePosted[e] /\ ~ listLIST_IS_EMPTY(lists, EventList(e))
     THEN /\ xTaskRemoveFromEventList(e)
          /\ xMissedYield' = (xMissedYield \/ NotBelowCurrent(FirstWaiting(e)))
     ELSE UNCHANGED <<listVars, xMissedYield>>
  /\ Goto(t, "blocked")
  /\ UNCHANGED <<taskVars, timeVars, uxMissedTicks, loopVars, pxCurrentTCB,
                 xSchedulerRunning, uxSchedulerSuspended, yieldPending, fault>>

\* A post, by the current task or by an interrupt.
Post(e) ==
  /\ IF queueLocked[e]
     THEN /\ queuePosted' = [queuePosted EXCEPT ![e] = TRUE]
          /\ UNCHANGED <<listVars, yieldPending>>
     ELSE /\ ~ listLIST_IS_EMPTY(lists, EventList(e))
          /\ xTaskRemoveFromEventList(e)
          /\ yieldPending' = (yieldPending \/ NotBelowCurrent(FirstWaiting(e)))
          /\ UNCHANGED queuePosted
  /\ UNCHANGED <<taskVars, timeVars, missedVars, queueLocked, loopVars,
                 pxCurrentTCB, xSchedulerRunning, uxSchedulerSuspended, pc,
                 fault>>

QueueSend(t, e) == BlockingCall(t, "QueueSend") /\ Post(e)

-----------------------------------------------------------------------------
(* The idle task *)

\* Mutant: a single deleted task is not seen.
IdleCheckLate ==
  /\ At(Idle, "run")
  /\ IF uxTasksDeleted > 1
     THEN /\ uxSchedulerSuspended' = uxSchedulerSuspended + 1
          /\ Goto(Idle, "idleLook")
     ELSE /\ Goto(Idle, "idleYield")
          /\ UNCHANGED uxSchedulerSuspended
  /\ UNCHANGED <<SuspendAllVars, queueVars>>

\* prvCheckTasksWaitingTermination: the test, and vTaskSuspendAll.
IdleCheck ==
  /\ At(Idle, "run")
  /\ IF uxTasksDeleted > 0
     THEN /\ uxSchedulerSuspended' = uxSchedulerSuspended + 1
          /\ Goto(Idle, "idleLook")
     ELSE /\ Goto(Idle, "idleYield")
          /\ UNCHANGED uxSchedulerSuspended
  /\ UNCHANGED <<SuspendAllVars, queueVars>>

IdleLook ==
  /\ At(Idle, "idleLook")
  /\ Goto(Idle, IF listLIST_IS_EMPTY(lists, Termination) THEN "idleEmpty"
                ELSE "idleFound")
  /\ UNCHANGED <<SuspendAllVars, queueVars, uxSchedulerSuspended>>

IdleReap ==
  LET t == Owner(HeadItem(lists, Termination))
  IN  /\ At(Idle, "idleReap")
      /\ reaped' = t
      /\ lists' = vListRemove(lists, Generic(t))
      /\ uxCurrentNumberOfTasks' = uxCurrentNumberOfTasks - 1
      /\ uxTasksDeleted' = uxTasksDeleted - 1
      /\ Goto(Idle, "idleFree")
      /\ UNCHANGED <<uxTopReadyPriority, tcb, uxPriority, uxTopUsedPriority,
                     askedPriority, timeVars, missedVars, queueVars, loopVars,
                     pxCurrentTCB, xSchedulerRunning, uxSchedulerSuspended,
                     yieldPending, fault>>

\* prvDeleteTCB
IdleFree ==
  /\ At(Idle, "idleFree")
  /\ tcb' = tcb \ {reaped}
  /\ pc' = [pc EXCEPT ![Idle] = "idleYield", ![reaped] = "run"]
  /\ uxPriority' = [uxPriority EXCEPT ![reaped] = 0]
  /\ askedPriority' = [askedPriority EXCEPT ![reaped] = 0]
  /\ reaped' = Null
  /\ UNCHANGED <<listVars, uxCurrentNumberOfTasks, uxTasksDeleted,
                 uxTopUsedPriority, timeVars, missedVars, queueVars, loopVars,
                 pxCurrentTCB, xSchedulerRunning, uxSchedulerSuspended,
                 yieldPending, fault>>

\* Yield when another task shares the idle priority.
IdleYield ==
  /\ At(Idle, "idleYield")
  /\ yieldPending' = (listCURRENT_LIST_LENGTH(lists, Ready(0)) > 1)
  /\ Goto(Idle, "run")
  /\ UNCHANGED <<listVars, taskVars, timeVars, missedVars, queueVars, loopVars,
                 pxCurrentTCB, xSchedulerRunning, uxSchedulerSuspended, fault>>

-----------------------------------------------------------------------------
(* Interrupts and the port *)

\* The tick interrupt: vTaskIncrementTick.  Only counted while suspended.
TickISR ==
  /\ "TickISR" \in Calls /\ InterruptsOn
  /\ IF uxSchedulerSuspended = 0
     THEN /\ CountTick
          /\ kernel' = "tick"
          /\ UNCHANGED <<uxMissedTicks, yieldPending>>
     ELSE /\ uxMissedTicks < MaxMissedTicks
          /\ uxMissedTicks' = uxMissedTicks + 1
          /\ yieldPending' = TRUE
          /\ UNCHANGED <<timeVars, kernel>>
  /\ UNCHANGED <<listVars, taskVars, xMissedYield, queueVars, xYieldRequired,
                 pxCurrentTCB, xSchedulerRunning, uxSchedulerSuspended, pc,
                 fault>>

EventISR(e) == "EventISR" \in Calls /\ InterruptsOn /\ Post(e)

xTaskResumeFromISR(x) ==
  /\ "xTaskResumeFromISR" \in Calls /\ InterruptsOn
  /\ Handle(x) /\ xTaskIsTaskSuspended(x)
  /\ IF uxSchedulerSuspended = 0
     THEN ResumeNow(x)
     ELSE /\ lists' = vListInsertEnd(lists, Pending, Event(x))
          /\ UNCHANGED <<uxTopReadyPriority, yieldPending>>
  /\ UNCHANGED <<taskVars, timeVars, missedVars, queueVars, loopVars,
                 pxCurrentTCB, xSchedulerRunning, uxSchedulerSuspended, pc,
                 fault>>

\* Mutant: switches although the scheduler is suspended.
SwitchAlways ==
  /\ InterruptsOn /\ yieldPending
  /\ yieldPending' = FALSE
  /\ SwitchTo(lists)
  /\ UNCHANGED <<taskVars, timeVars, missedVars, queueVars, loopVars,
                 xSchedulerRunning, uxSchedulerSuspended, pc>>

vTaskSwitchContext ==
  /\ InterruptsOn /\ yieldPending
  /\ yieldPending' = FALSE
  /\ IF uxSchedulerSuspended # 0
     THEN /\ xMissedYield' = TRUE
          /\ UNCHANGED <<listVars, pxCurrentTCB, fault>>
     ELSE /\ SwitchTo(lists)
          /\ UNCHANGED xMissedYield
  /\ UNCHANGED <<taskVars, timeVars, uxMissedTicks, queueVars, loopVars,
                 xSchedulerRunning, uxSchedulerSuspended, pc>>

-----------------------------------------------------------------------------
prvInitialiseTaskLists ==
  /\ lists = vListInitialise(Lists, Items)
  /\ pxDelayedTaskList = Delayed(1) /\ pxOverflowDelayedTaskList = Delayed(2)

Init ==
  /\ prvInitialiseTaskLists
  /\ tcb = {} /\ reaped = Null
  /\ uxPriority = [t \in AllTasks |-> 0]
  /\ askedPriority = [t \in AllTasks |-> 0]
  /\ pxCurrentTCB = Null
  /\ uxCurrentNumberOfTasks = 0 /\ uxTasksDeleted = 0
  /\ xTickCount = 0 /\ xNumOfOverflows = 0
  /\ uxTopUsedPriority = 0 /\ uxTopReadyPriority = 0
  /\ xSchedulerRunning = FALSE /\ uxSchedulerSuspended = 0
  /\ uxMissedTicks = 0 /\ xMissedYield = FALSE
  /\ yieldPending = FALSE /\ kernel = "none" /\ xYieldRequired = FALSE
  /\ pc = [t \in AllTasks |-> "run"]
  /\ queueLocked = [e \in Events |-> FALSE]
  /\ queuePosted = [e \in Events |-> FALSE]
  /\ fault = FALSE

Main ==
  \/ \E t \in Tasks, p \in RequestedPriorities : CreateBeforeStart(t, p)
  \/ \E t \in Tasks : DeleteBeforeStart(t)
  \/ \E t \in Tasks : SuspendBeforeStart(t)
  \/ vTaskStartScheduler

\* The calls an application task may make of its own accord.
ApplicationCall(t) ==
  \/ \E x \in Tasks, p \in RequestedPriorities : xTaskCreate(t, x, p)
  \/ \E x \in Tasks : vTaskDelete(t, x)
  \/ \E x \in Tasks : vTaskSuspend(t, x)
  \/ \E x \in Tasks : vTaskResume(t, x)
  \/ \E x \in Tasks, p \in RequestedPriorities : vTaskPrioritySet(t, x, p)
  \/ vTaskSuspendAll(t)
  \/ \E f \in {"vTaskDelay", "vTaskDelayUntil"} : EnterDelay(t, f)
  \/ DelayZero(t)
  \/ \E e \in Events : QueueWait(t, e)
  \/ \E e \in Events : QueueSend(t, e)

\* The rest of a call already begun, and the xTaskResumeAll that ends one.
FinishCall(t) ==
  \/ CreatedYield(t)
  \/ \E d \in Delays : vTaskDelay(t, d)
  \/ \E previous \in TickType, increment \in TickType :
       vTaskDelayUntil(t, previous, increment)
  \/ \E e \in Events, ticks \in Delays : vTaskPlaceOnEventList(t, e, ticks)
  \/ \E e \in Events : QueueUnlock(t, e)
  \/ xTaskResumeAll(t)
  \/ EndWithYield(t)

IdleTask == IdleCheck \/ IdleLook \/ IdleReap \/ IdleFree \/ IdleYield

MaskedLoop ==
  \/ DrainPending \/ DrainDone \/ ReplayTick \/ ResumeAllDone
  \/ WakeOne \/ TickDone \/ ReplayWakeDone

Interrupt ==
  \/ TickISR
  \/ \E e \in Events : EventISR(e)
  \/ \E x \in Tasks : xTaskResumeFromISR(x)

Next ==
  \/ Main
  \/ \E t \in AllTasks : ApplicationCall(t) \/ FinishCall(t)
  \/ IdleTask
  \/ MaskedLoop
  \/ Interrupt
  \/ vTaskSwitchContext

Spec == Init /\ [][Next]_vars

-----------------------------------------------------------------------------
(* Safety *)

Labels == {"run", "created", "yield", "vTaskDelay", "vTaskDelayUntil",
           "blocked", "place", "unlock", "idleLook", "idleFound", "idleEmpty",
           "idleReap", "idleFree", "idleYield"}

\* Types of the variables.
TypeOK ==
  /\ lists \in XLists(Lists, Items)
  /\ tcb \subseteq AllTasks
  /\ uxPriority \in [AllTasks -> Priorities]
  /\ askedPriority \in [AllTasks -> Nat]
  /\ pxCurrentTCB \in tcb \cup {Null}
  /\ reaped \in tcb \cup {Null}
  /\ uxCurrentNumberOfTasks \in Nat /\ uxTasksDeleted \in Nat
  /\ xTickCount \in TickType
  /\ {pxDelayedTaskList, pxOverflowDelayedTaskList} = DelayedLists
  /\ xNumOfOverflows \in 0 .. OverflowModulus - 1
  /\ uxTopUsedPriority \in Priorities /\ uxTopReadyPriority \in Priorities
  /\ xSchedulerRunning \in BOOLEAN
  /\ uxSchedulerSuspended \in 0 .. MaxSuspendDepth + 1
  /\ uxMissedTicks \in 0 .. MaxMissedTicks /\ xMissedYield \in BOOLEAN
  /\ yieldPending \in BOOLEAN /\ xYieldRequired \in BOOLEAN
  /\ kernel \in {"none", "drain", "replay", "replayWake", "tick"}
  /\ pc \in [AllTasks -> Labels]
  /\ queueLocked \in [Events -> BOOLEAN] /\ queuePosted \in [Events -> BOOLEAN]
  /\ fault \in BOOLEAN

\* The rings and the pvContainer back pointers agree, no item is linked twice
\* and pxIndex stays in its ring, whatever the order of calls and interrupts
\* (topology.container_exact and membership.* of the trace harness).
ListsAgree ==
  /\ ContainersAgree(lists, Lists, Items)
  /\ NoDuplicates(lists, Lists)
  /\ IndexInRing(lists, Lists)

\* Where the two items of a task may be: a ready task is on the list of its
\* own priority and waits on nothing, a task that waits on an event or is
\* pending is delayed or suspended, and no list reaches a freed TCB.
Placement ==
  \A t \in AllTasks :
    LET g == Container(t)
        e == lists.container[Event(t)]
    IN  /\ g \in {Ready(uxPriority[t]), Suspended, Termination, Null}
                   \cup DelayedLists
        /\ e \in EventLists \cup {Pending, Null}
        /\ e # Null => g \in DelayedLists \cup {Suspended}
        /\ g = Null <=> t \notin tcb \/ t = reaped

\* The two delayed lists are in wake order; on the current one every wake
\* time is still to come, on the overflow one it is behind the tick count, so
\* that the current list is empty when the tick count wraps.  Until the wake
\* loop has caught up the tasks due at this very tick are still listed.
DelayedWindow ==
  /\ \A L \in DelayedLists : SortedByValue(lists, L)
  /\ \A t \in AllTasks :
       LET wake == lists.value[Generic(t)]
       IN  /\ Container(t) = pxDelayedTaskList =>
                IF kernel \in {"tick", "replayWake"} THEN wake >= xTickCount
                ELSE wake > xTickCount
           /\ Container(t) = pxOverflowDelayedTaskList => wake < xTickCount

\* uxTopReadyPriority bounds the ready lists from above, and once the
\* scheduler runs the search of vTaskSwitchContext always ends at a task.
TopReadyBound ==
  /\ \A p \in Priorities :
       ~ listLIST_IS_EMPTY(lists, Ready(p)) => p <= uxTopReadyPriority
  /\ xSchedulerRunning =>
       \E p \in Priorities : ~ listLIST_IS_EMPTY(lists, Ready(p))
  /\ ~ fault

\* No yield is outstanding and the current task is not about to ask for one.
Stable ==
  /\ InterruptsOn /\ ~ yieldPending /\ uxSchedulerSuspended = 0
  /\ pc[pxCurrentTCB] \notin {"yield", "created"}

\* At a stable boundary the current task is ready, nothing ready is above it
\* and uxTopReadyPriority is exact (TraceStableRunning in the harness).
HighestRuns ==
  Stable =>
    /\ IsReady(pxCurrentTCB)
    /\ uxTopReadyPriority = uxPriority[pxCurrentTCB]
    /\ ReadyAtOrBelow(lists, configMAX_PRIORITIES)
         \subseteq 0 .. uxPriority[pxCurrentTCB]

\* What interrupts left for xTaskResumeAll (pending tasks, missed ticks, a
\* missed yield) is all dealt with by the time the scheduler is running again.
NothingLeftBehind ==
  uxSchedulerSuspended = 0 /\ kernel = "none" =>
    /\ listLIST_IS_EMPTY(lists, Pending)
    /\ uxMissedTicks = 0
    /\ ~ xMissedYield

\* The counters the idle task works from agree with the lists, also between
\* its critical section and the freeing of the TCB.
Accounting ==
  /\ uxTasksDeleted = listCURRENT_LIST_LENGTH(lists, Termination)
  /\ uxCurrentNumberOfTasks = Cardinality(tcb \ {reaped})

\* Every event list is in priority order, so that its first task is the one
\* to wake (comments of vTaskPlaceOnEventList and xTaskRemoveFromEventList).
EventListsSorted == \A e \in Events : SortedByValue(lists, EventList(e))

\* A deleted task executes nothing but the portYIELD of its own vTaskDelete
\* (comment of vTaskDelete: "This will stop the task from be scheduled").
DeletedStopped ==
  InterruptsOn /\ ~ yieldPending /\ pc[pxCurrentTCB] # "yield"
    => Container(pxCurrentTCB) # Termination

\* The search of vTaskSwitchContext finds a task, also when vTaskSuspend calls
\* it before the scheduler runs ("pxCurrentTCB must be adjusted to point to a
\* different task").
SearchFindsATask == ~ fault

-----------------------------------------------------------------------------
(* What a step may never do *)

\* While the scheduler stays suspended the task keeps the processor and time
\* stands still (documentation of vTaskSuspendAll).
SuspendAllHoldsCPU ==
  [][uxSchedulerSuspended > 0 /\ uxSchedulerSuspended' > 0
       => UNCHANGED <<pxCurrentTCB, timeVars>>]_vars

\* A call that suspended the scheduler owns the ready and delayed lists: no
\* step but its own touches them.
LockedListsHeld ==
  [][uxSchedulerSuspended > 0 /\ pc[pxCurrentTCB] # "run" /\ pc' = pc
       => \A L \in ReadyLists \cup DelayedLists :
            /\ lists'.ring[L] = lists.ring[L]
            /\ lists'.index[L] = lists.index[L]]_vars

\* Ticks counted so far, the missed ones included.
TicksTaken ==
  Tick(xTickCount + uxMissedTicks + (IF kernel = "replayWake" THEN portMAX_DELAY
                                     ELSE 0))

\* The tick count does not slip: only the tick interrupt adds a tick, one at
\* a time, and replaying missed ticks neither loses nor invents one.
TicksKept ==
  [][xSchedulerRunning =>
       \/ TicksTaken' = TicksTaken
       \/ /\ TicksTaken' = Tick(TicksTaken + 1)
          /\ kernel = "none" /\ pc' = pc]_vars

\* A task that a tick takes off a delayed list is due at exactly that tick,
\* also across a wrap of the tick count and in a replay of missed ticks.
ExactWake ==
  [][\A t \in AllTasks :
       kernel \in {"tick", "replayWake"} /\ Container(t) \in DelayedLists
         => Container(t)' \in DelayedLists \/ lists.value[Generic(t)] = xTickCount]_vars

\* How many selections of its ready list come before, and include, task t.
TurnsUntil(t) ==
  LET L == Ready(uxPriority[t])
      i == PositionOf(lists, L, Generic(t))
  IN  IF i > lists.index[L] THEN i - lists.index[L]
      ELSE i - lists.index[L] + Len(lists.ring[L])

\* Round robin is fair: whatever is added to or removed from a ready list, a
\* task waiting on it comes no further from its turn until it is selected.
FairShare ==
  [][\A t \in AllTasks :
       IsReady(t) /\ IsReady(t)' /\ uxPriority'[t] = uxPriority[t]
         => TurnsUntil(t)' <= TurnsUntil(t) \/ pxCurrentTCB' = t]_vars

-----------------------------------------------------------------------------
(* Liveness *)

\* What the processor and the port do anyway: main starts the scheduler, a
\* masked loop runs on, an unmasked interrupt is taken (the tick timer keeps
\* firing), a task that gets the processor again and again finishes the call
\* it is in, and resumes the scheduler if it suspended it.  A loop masks
\* interrupts and a pending yield stops the task, so these steps are enabled
\* again and again and not for ever: strong fairness.
Fairness ==
  /\ WF_vars(vTaskStartScheduler)
  /\ SF_vars(vTaskSwitchContext)
  /\ WF_vars(MaskedLoop)
  /\ SF_vars(TickISR)
  /\ \A t \in AllTasks : SF_vars(FinishCall(t))
  /\ SF_vars(IdleTask)

FairSpec == Spec /\ Fairness

\* No delayed task stays delayed for ever.
DelayExpires ==
  \A t \in Tasks :
    Container(t) \in DelayedLists ~> Container(t) \notin DelayedLists

\* A task that from some time on is ready and never below another ready task
\* runs again and again: tasks of one priority share the processor.
TopTasksRun ==
  \A t \in Tasks :
    <>[](IsReady(t) /\ ReadyAtOrBelow(lists, configMAX_PRIORITIES)
                         \subseteq 0 .. uxPriority[t])
      => []<>(pxCurrentTCB = t)
=============================================================================
