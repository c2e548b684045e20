----------------------------- MODULE Lifecycle -----------------------------
(***************************************************************************)
(* The memory of a task, from xTaskGenericCreate to prvDeleteTCB, and the  *)
(* code that goes through all tasks, on top of Tasks:                      *)
(*   - a creator allocates the TCB and the stack one after the other,      *)
(*     either may fail, and it may be preempted or deleted in between;     *)
(*   - the idle task frees them one after the other;                       *)
(*   - vTaskList and vTaskGetRunTimeStats walk the lists with pxIndex, the *)
(*     scheduler suspended and interrupts enabled;                         *)
(*   - vTaskEndScheduler, after which the port calls vTaskCleanUpResources.*)
(***************************************************************************)
EXTENDS Tasks

\* Whether vTaskPrioritySet may take a task above uxTopUsedPriority, the highest
\* priority a task was created with.
CONSTANT SetsAboveUsed
ASSUME LifecycleAssumption == SetsAboveUsed \in BOOLEAN

VARIABLES
  tcbBlock, stackBlock,   \* tasks for which that block is allocated
  making,                 \* task -> the task it is creating, or Null
  lost,                   \* ghost: blocks whose creator was deleted
  todo,                   \* lists a walk or the clean-up has still to visit
  pxFirstTCB,             \* where the walk of the first of them began, or Null
  report,                 \* what the walk has written
  phase                   \* what is under way

blockVars == <<tcbBlock, stackBlock, making, lost>>
walkVars  == <<todo, pxFirstTCB, report>>
lifeVars  == <<blockVars, walkVars, phase>>
allVars   == <<vars, lifeVars>>

Phases == {"tasks", "walk", "clean", "ended"}

\* Task t is not in the middle of xTaskCreate or of a walk.
AtLeisure(t) == phase = "tasks" /\ making[t] = Null

-----------------------------------------------------------------------------
(* prvAllocateTCBAndStack; the heap (external) may be exhausted any time *)

AllocateTCB(t, new) ==
  /\ AtLeisure(t) /\ Call(t, "xTaskCreate")
  /\ new \in Tasks \ tcbBlock
  /\ tcbBlock' = tcbBlock \cup {new}
  /\ making' = [making EXCEPT ![t] = new]
  /\ UNCHANGED <<vars, stackBlock, lost, walkVars, phase>>

Making(t) == phase = "tasks" /\ At(t, "run") /\ making[t] # Null

AllocateStack(t) ==
  /\ Making(t) /\ making[t] \notin stackBlock
  /\ stackBlock' = stackBlock \cup {making[t]}
  /\ UNCHANGED <<vars, tcbBlock, making, lost, walkVars, phase>>

\* Mutant: no vPortFree of the TCB.
StackFailsKeepsTCB(t) ==
  /\ Making(t) /\ making[t] \notin stackBlock
  /\ making' = [making EXCEPT ![t] = Null]
  /\ UNCHANGED <<vars, tcbBlock, stackBlock, lost, walkVars, phase>>

\* errCOULD_NOT_ALLOCATE_REQUIRED_MEMORY
StackFails(t) ==
  /\ Making(t) /\ making[t] \notin stackBlock
  /\ tcbBlock' = tcbBlock \ {making[t]}
  /\ making' = [making EXCEPT ![t] = Null]
  /\ UNCHANGED <<vars, stackBlock, lost, walkVars, phase>>

\* The rest of xTaskGenericCreate.
Link(t, asked) ==
  /\ Making(t) /\ making[t] \in stackBlock
  /\ xTaskCreate(t, making[t], asked)
  /\ making' = [making EXCEPT ![t] = Null]
  /\ UNCHANGED <<tcbBlock, stackBlock, lost, walkVars, phase>>

\* main() and vTaskStartScheduler create tasks that nothing can interrupt.
BeforeScheduler ==
  /\ phase = "tasks" /\ Main
  /\ tcbBlock' = tcb' /\ stackBlock' = tcb'
  /\ UNCHANGED <<making, lost, walkVars, phase>>

\* prvDeleteTCB: vPortFreeAligned of the stack ...
FreeStack ==
  /\ phase = "tasks" /\ At(Idle, "idleFree") /\ reaped \in stackBlock
  /\ stackBlock' = stackBlock \ {reaped}
  /\ UNCHANGED <<vars, tcbBlock, making, lost, walkVars, phase>>

\* ... and vPortFree of the TCB.  What the task was creating stays allocated.
FreeTCB ==
  /\ phase = "tasks" /\ IdleFree /\ reaped \notin stackBlock
  /\ tcbBlock' = tcbBlock \ {reaped}
  /\ lost' = lost \cup ({making[reaped]} \ {Null})
  /\ making' = [making EXCEPT ![reaped] = Null]
  /\ UNCHANGED <<stackBlock, walkVars, phase>>

-----------------------------------------------------------------------------
(* vTaskList, vTaskGetRunTimeStats *)

\* Ready lists from uxTopUsedPriority down to the idle priority.
ReadyDownwards ==
  [i \in 1 .. uxTopUsedPriority + 1 |-> Ready(uxTopUsedPriority + 1 - i)]

WalkOrder ==
  ReadyDownwards \o <<pxDelayedTaskList, pxOverflowDelayedTaskList,
                      Termination, Suspended>>

\* The character vTaskList writes for a task on list L.
Status(L) ==
  CASE L \in ReadyLists   -> "R"
    [] L \in DelayedLists -> "B"
    [] L = Termination    -> "D"
    [] L = Suspended      -> "S"

StartWalk(t) ==
  /\ AtLeisure(t) /\ "vTaskList" \in Calls /\ vTaskSuspendAll(t)
  /\ phase' = "walk" /\ todo' = WalkOrder
  /\ UNCHANGED <<blockVars, pxFirstTCB, report>>

Walking == phase = "walk" /\ At(pxCurrentTCB, "run") /\ todo # << >>

SkipEmpty ==
  /\ Walking /\ listLIST_IS_EMPTY(lists, Head(todo))
  /\ todo' = Tail(todo)
  /\ UNCHANGED <<vars, blockVars, pxFirstTCB, report, phase>>

\* prvListTaskWithinSingleList, before its loop: listGET_OWNER_OF_NEXT_ENTRY.
WalkFirst ==
  LET next == AdvanceIndex(lists, Head(todo))
  IN  /\ Walking /\ pxFirstTCB = Null
      /\ ~ listLIST_IS_EMPTY(lists, Head(todo))
      /\ lists' = next
      /\ pxFirstTCB' = Owner(ItemAtIndex(next, Head(todo)))
      /\ UNCHANGED <<uxTopReadyPriority, taskVars, timeVars, missedVars,
                     queueVars, loopVars, pxCurrentTCB, xSchedulerRunning,
                     uxSchedulerSuspended, yieldPending, pc, fault, blockVars,
                     todo, report, phase>>

\* Mutant: the loop tests for the first task before it writes the line.
WalkNextEarly ==
  LET next      == AdvanceIndex(lists, Head(todo))
      pxNextTCB == Owner(ItemAtIndex(next, Head(todo)))
  IN  /\ Walking /\ pxFirstTCB # Null
      /\ lists' = next
      /\ IF pxNextTCB = pxFirstTCB
         THEN todo' = Tail(todo) /\ pxFirstTCB' = Null /\ UNCHANGED report
         ELSE /\ report' = Append(report, <<pxNextTCB, Status(Head(todo))>>)
              /\ UNCHANGED <<todo, pxFirstTCB>>
      /\ UNCHANGED <<uxTopReadyPriority, taskVars, timeVars, missedVars,
                     queueVars, loopVars, pxCurrentTCB, xSchedulerRunning,
                     uxSchedulerSuspended, yieldPending, pc, fault, blockVars,
                     phase>>

\* One round of its loop: the next task is written, the first one last.
WalkNext ==
  LET next      == AdvanceIndex(lists, Head(todo))
      pxNextTCB == Owner(ItemAtIndex(next, Head(todo)))
  IN  /\ Walking /\ pxFirstTCB # Null
      /\ lists' = next
      /\ report' = Append(report, <<pxNextTCB, Status(Head(todo))>>)
      /\ IF pxNextTCB = pxFirstTCB
         THEN todo' = Tail(todo) /\ pxFirstTCB' = Null
         ELSE UNCHANGED <<todo, pxFirstTCB>>
      /\ UNCHANGED <<uxTopReadyPriority, taskVars, timeVars, missedVars,
                     queueVars, loopVars, pxCurrentTCB, xSchedulerRunning,
                     uxSchedulerSuspended, yieldPending, pc, fault, blockVars,
                     phase>>

WalkEnd(t) ==
  /\ phase = "walk" /\ todo = << >> /\ xTaskResumeAll(t)
  /\ phase' = "tasks" /\ report' = << >>
  /\ UNCHANGED <<blockVars, todo, pxFirstTCB>>

-----------------------------------------------------------------------------
(* vTaskEndScheduler, vTaskCleanUpResources *)

\* Mutant: the list of uxTopUsedPriority itself is skipped.
CleanUpOrderShort ==
  Tail(ReadyDownwards) \o <<Delayed(1), Delayed(2), Suspended>>

CleanUpOrder == ReadyDownwards \o <<Delayed(1), Delayed(2), Suspended>>

vTaskEndScheduler(t) ==
  /\ AtLeisure(t) /\ Call(t, "vTaskEndScheduler")
  /\ xSchedulerRunning' = FALSE
  /\ phase' = "clean" /\ todo' = CleanUpOrder
  /\ UNCHANGED <<listVars, taskVars, timeVars, missedVars, queueVars, loopVars,
                 pxCurrentTCB, uxSchedulerSuspended, yieldPending, pc, fault,
                 blockVars, pxFirstTCB, report>>

\* One task is taken off the list and its memory is freed.
CleanUpOne ==
  LET L    == Head(todo)
      next == AdvanceIndex(lists, L)
      t    == Owner(ItemAtIndex(next, L))
  IN  /\ phase = "clean" /\ todo # << >> /\ ~ listLIST_IS_EMPTY(lists, L)
      /\ lists' = vListRemove(next, Generic(t))
      /\ tcb' = tcb \ {t}
      /\ tcbBlock' = tcbBlock \ {t} /\ stackBlock' = stackBlock \ {t}
      /\ UNCHANGED <<uxTopReadyPriority, uxPriority, uxCurrentNumberOfTasks,
                     uxTasksDeleted, uxTopUsedPriority, askedPriority, reaped,
                     timeVars, missedVars, queueVars, loopVars, pxCurrentTCB,
                     xSchedulerRunning, uxSchedulerSuspended, yieldPending, pc,
                     fault, making, lost, walkVars, phase>>

CleanUpNextList ==
  /\ phase = "clean" /\ todo # << >> /\ listLIST_IS_EMPTY(lists, Head(todo))
  /\ todo' = Tail(todo)
  /\ UNCHANGED <<vars, blockVars, pxFirstTCB, report, phase>>

CleanedUp ==
  /\ phase = "clean" /\ todo = << >>
  /\ phase' = "ended"
  /\ UNCHANGED <<vars, blockVars, walkVars>>

\* The kernel is no more: main() goes on.
Ended == phase = "ended" /\ UNCHANGED allVars

-----------------------------------------------------------------------------
LifeInit ==
  /\ Init
  /\ tcbBlock = {} /\ stackBlock = {} /\ lost = {}
  /\ making = [t \in AllTasks |-> Null]
  /\ todo = << >> /\ pxFirstTCB = Null /\ report = << >>
  /\ phase = "tasks"

\* What task t does besides creating tasks: see Tasks.  A task deleted before
\* the scheduler ran and started all the same does not block here.
OtherCall(t) ==
  /\ AtLeisure(t)
  /\ \/ \E x \in Tasks :
          \/ vTaskDelete(t, x) \/ vTaskSuspend(t, x)
          \/ \E p \in RequestedPriorities :
                (SetsAboveUsed \/ p <= uxTopUsedPriority) /\ vTaskPrioritySet(t, x, p)
     \/ Container(t) # Termination /\ EnterDelay(t, "vTaskDelay")
  /\ UNCHANGED lifeVars

OtherFinish(t) == AtLeisure(t) /\ FinishCall(t) /\ UNCHANGED lifeVars

OtherIdle ==
  /\ phase = "tasks"
  /\ IdleCheck \/ IdleLook \/ IdleReap \/ IdleYield
  /\ UNCHANGED lifeVars

Create(t) ==
  \/ \E new \in Tasks : AllocateTCB(t, new)
  \/ AllocateStack(t) \/ StackFails(t)
  \/ \E p \in RequestedPriorities : Link(t, p)

Walk == SkipEmpty \/ WalkFirst \/ WalkNext \/ \E t \in Tasks : WalkEnd(t)

CleanUp == CleanUpOne \/ CleanUpNextList \/ CleanedUp

IdleMemory == OtherIdle \/ FreeStack \/ FreeTCB

LifeNext ==
  \/ BeforeScheduler
  \/ \E t \in AllTasks : OtherCall(t) \/ OtherFinish(t)
  \/ \E t \in Tasks : Create(t) \/ StartWalk(t) \/ vTaskEndScheduler(t)
  \/ Walk
  \/ IdleMemory
  \/ CleanUp
  \/ (MaskedLoop \/ Interrupt \/ vTaskSwitchContext) /\ UNCHANGED lifeVars
  \/ Ended

LifeSpec == LifeInit /\ [][LifeNext]_allVars

\* As in Tasks: main starts the scheduler, masked loops run on, interrupts
\* are taken, and a task that keeps getting the processor ends its call.
LifeFairness ==
  /\ WF_allVars(vTaskStartScheduler /\ BeforeScheduler)
  /\ SF_allVars(vTaskSwitchContext /\ UNCHANGED lifeVars)
  /\ WF_allVars(MaskedLoop /\ UNCHANGED lifeVars)
  /\ SF_allVars(Walk \/ \E t \in Tasks : OtherFinish(t))
  /\ SF_allVars(IdleMemory \/ OtherFinish(Idle))

LifeFairSpec == LifeSpec /\ LifeFairness

-----------------------------------------------------------------------------
LifeTypeOK ==
  /\ tcbBlock \subseteq AllTasks /\ stackBlock \subseteq AllTasks
  /\ making \in [AllTasks -> Tasks \cup {Null}]
  /\ lost \subseteq Tasks
  /\ todo \in Seq(Lists) /\ pxFirstTCB \in AllTasks \cup {Null}
  /\ report \in Seq(AllTasks \X {"R", "B", "D", "S"})
  /\ phase \in Phases

\* Every task a list reaches has its TCB and its stack, so has the one that
\* runs (also while it deletes itself); and every block belongs to a task,
\* or is being used by one creator, unless that creator was deleted then.
HeapMatches ==
  /\ \A t \in AllTasks :
       Container(t) # Null => t \in tcbBlock /\ t \in stackBlock
  /\ xSchedulerRunning => pxCurrentTCB \in stackBlock
  /\ stackBlock \subseteq tcbBlock
  /\ tcbBlock = tcb \cup ({making[t] : t \in AllTasks} \ {Null}) \cup lost
  /\ \A s, t \in AllTasks :
       making[t] # Null => making[t] \notin tcb \cup lost
                           /\ (making[s] = making[t] => s = t)

\* A walk that is done has written every task once, with the state it is in,
\* although interrupts came meanwhile and the walk moves the pxIndex the
\* scheduler uses (task.h of vTaskList: "Lists all the current tasks"; tasks.c:
\* "all the lists that could potentially contain a TCB").
ListedOnce ==
  phase = "walk" /\ todo = << >> =>
    \A t \in tcb \ {reaped} :
      LET lines == {i \in 1 .. Len(report) : report[i][1] = t}
      IN  \E i \in lines :
            lines = {i} /\ report[i][2] = Status(Container(t))

\* vTaskCleanUpResources empties the ready, delayed and suspended lists and
\* frees what was on them, the current task included; the memory that is left
\* is waiting for the idle task or half made (task.h: "Empties the ready and
\* delayed queues of task control blocks, freeing the memory").
CleanUpFrees ==
  phase = "ended" =>
    /\ \A L \in ReadyLists \cup DelayedLists \cup {Suspended} :
         listLIST_IS_EMPTY(lists, L)
    /\ \A t \in tcbBlock \cap tcb : t = reaped \/ Container(t) = Termination

\* If the idle task gets to run again and again, a deleted task's memory is
\* freed.
MemoryIsFreed ==
  []<>(phase = "tasks" /\ pxCurrentTCB = Idle /\ ~ yieldPending
         /\ kernel = "none") =>
    \A t \in Tasks : Container(t) = Termination ~> t \notin tcbBlock
=============================================================================
