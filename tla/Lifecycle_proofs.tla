-------------------------- MODULE Lifecycle_proofs --------------------------
(***************************************************************************)
(* Proofs about Lifecycle: every task that runs or that a list reaches has *)
(* its TCB and its stack, and no block is lost but those of a creator that *)
(* was deleted; a finished walk of vTaskList has written every task once,  *)
(* and vTaskCleanUpResources empties its lists, if no task is ready above  *)
(* uxTopUsedPriority, as it is until vTaskPrioritySet takes one there.     *)
(*                                                                         *)
(* IInv of Tasks_proofs holds as long as the kernel runs, since the steps  *)
(* of Lifecycle are steps of Tasks or move a cursor.  LifeInv adds where   *)
(* the blocks of each task are (MemoryOK), what a walk has behind it       *)
(* (WalkOK) and what the clean-up has still to do (CleanOK).  TopUsedOK is *)
(* inductive beside it.                                                    *)
(***************************************************************************)
EXTENDS Lifecycle, Deferred_proofs

-----------------------------------------------------------------------------
(* The inductive invariant *)

\* The lists that vTaskCleanUpResources empties, and those of a walk.
Swept == {Ready(p) : p \in 0 .. uxTopUsedPriority} \cup DelayedLists \cup {Suspended}
Walkable == Swept \cup {Termination}

\* What is left of IInv when the scheduler has ended and TCBs are freed one
\* after the other: the generic item of a task says whether it exists.
DeadOK ==
  /\ ~ xSchedulerRunning /\ kernel = "none" /\ WellFormed(lists)
  /\ tcb \subseteq AllTasks /\ uxTopUsedPriority \in Priorities
  /\ uxPriority \in [AllTasks -> Priorities]
  /\ \A t \in AllTasks :
       /\ Container(t) \in {Ready(uxPriority[t]), Suspended, Termination, Null}
                              \cup DelayedLists
       /\ lists.container[Event(t)] \in EventLists \cup {Pending, Null}
       /\ Container(t) = Null <=> t \notin tcb \/ t = reaped

Alive == phase \in {"tasks", "walk"}

KernelState == IF Alive THEN IInv ELSE DeadOK

\* Only the task that the idle task is freeing may have lost its stack, and
\* it does not run any more; main() is never interrupted.
MemoryOK ==
  /\ HeapMatches
  /\ tcb \ {reaped} \subseteq stackBlock
  /\ lost \cap tcb = {}
  /\ xSchedulerRunning => pxCurrentTCB # reaped
  /\ phase = "tasks" /\ ~ xSchedulerRunning =>
       lost = {} /\ \A t \in AllTasks : making[t] = Null

\* The lines of task t in the report; it is there once, with its state.
Lines(t) == {i \in 1 .. Len(report) : report[i][1] = t}
Once(t) ==
  \E i \in Lines(t) : Lines(t) = {i} /\ report[i][2] = Status(Container(t))

InTodo(L) == \E j \in 1 .. Len(todo) : todo[j] = L

\* Position k of a ring comes after f, and not after i, going round from f.
Passed(f, i, k) == IF f <= i THEN f < k /\ k <= i ELSE f < k \/ k <= i

\* The walk of list L has written the tasks from the one after pxFirstTCB up
\* to the one pxIndex points to.
PartWalked(L) ==
  LET ring == lists.ring[L]
      i    == lists.index[L]
  IN  /\ i \in 1 .. Len(ring)
      /\ \E f \in 1 .. Len(ring) :
           /\ Owner(ring[f]) = pxFirstTCB
           /\ \A k \in 1 .. Len(ring) :
                IF Passed(f, i, k) THEN Once(Owner(ring[k]))
                ELSE Lines(Owner(ring[k])) = {}

\* The walking task keeps the processor.
WalkerOK ==
  /\ xSchedulerRunning /\ uxSchedulerSuspended > 0 /\ kernel = "none"
  /\ pc[pxCurrentTCB] = "run"

\* No list is visited twice.
TodoOK ==
  /\ \A j \in 1 .. Len(todo) : todo[j] \in Walkable
  /\ \A j, k \in 1 .. Len(todo) : todo[j] = todo[k] => j = k

\* The tasks of the lists visited are written, those to come are not.
LinesOK ==
  \A t \in AllTasks :
    /\ Container(t) \notin Walkable => Lines(t) = {}
    /\ Container(t) \in Walkable /\ ~ InTodo(Container(t)) => Once(t)
    /\ \A j \in 1 .. Len(todo) :
         Container(t) = todo[j] /\ (j > 1 \/ pxFirstTCB = Null) => Lines(t) = {}

WalkOK ==
  IF phase = "walk"
  THEN /\ WalkerOK /\ TodoOK /\ LinesOK
       /\ pxFirstTCB # Null => todo # << >> /\ PartWalked(Head(todo))
  ELSE pxFirstTCB = Null /\ report = << >>

\* What is not yet swept is on a list still to do.
CleanOK ==
  ~ Alive =>
    /\ \A j \in 1 .. Len(todo) : todo[j] \in Swept
    /\ \A t \in AllTasks : Container(t) \in Swept => InTodo(Container(t))
    /\ phase = "ended" => todo = << >>

LifeInv == LifeTypeOK /\ KernelState /\ MemoryOK /\ WalkOK /\ CleanOK

-----------------------------------------------------------------------------
(* Steps of Tasks that neither create nor free a task *)

\* They leave alone which tasks exist and, but for a switch, which one runs.
LEMMA CallFrame ==
  ASSUME NEW t, OtherCall(t) \/ FinishCall(t)
  PROVE  UNCHANGED <<tcb, reaped, pxCurrentTCB, xSchedulerRunning>>
<1>1. CASE OtherCall(t)
  BY <1>1 DEF OtherCall, vTaskDelete, Delete, vTaskSuspend, vTaskPrioritySet,
     EnterDelay, SuspendAllVars, taskVars
<1>2. CASE FinishCall(t)
  BY <1>2 DEF FinishCall, CreatedYield, vTaskDelay, vTaskDelayUntil,
     vTaskPlaceOnEventList, QueueUnlock, xTaskResumeAll, EndWithYield, portYIELD,
     taskVars
<1>3. QED
  BY <1>1, <1>2

\* Nor do the masked loops and the interrupts.
LEMMA LoopFrame ==
  ASSUME MaskedLoop \/ Interrupt
  PROVE  UNCHANGED <<tcb, reaped, pxCurrentTCB, xSchedulerRunning>>
<1>1. CASE MaskedLoop
  BY <1>1 DEF MaskedLoop, DrainPending, DrainDone, ReplayTick, ResumeAllDone,
     WakeOne, TickDone, ReplayWakeDone, LoopUnchanged, taskVars
<1>2. CASE Interrupt
  BY <1>2 DEF Interrupt, TickISR, EventISR, Post, xTaskResumeFromISR, taskVars
<1>3. QED
  BY <1>1, <1>2

\* A switch is to a task on a ready list.
LEMMA SwitchFrame ==
  ASSUME IInv, IInv', vTaskSwitchContext
  PROVE  /\ UNCHANGED <<tcb, reaped, xSchedulerRunning>>
         /\ \/ pxCurrentTCB' = pxCurrentTCB
            \/ pxCurrentTCB' \in AllTasks /\ Container(pxCurrentTCB') # Null
<1>1. UNCHANGED <<tcb, reaped, xSchedulerRunning>> /\ xSchedulerRunning
  BY DEF vTaskSwitchContext, taskVars, InterruptsOn
<1>2. CASE uxSchedulerSuspended # 0
  BY <1>1, <1>2 DEF vTaskSwitchContext
<1>3. CASE uxSchedulerSuspended = 0
  <2>1. SwitchTo(lists) /\ TypeOK /\ Placed(lists) /\ WellFormed(lists)
    BY <1>3, PlacedNow DEF vTaskSwitchContext, IInv
  <2>2. ~ fault'
    BY <1>1 DEF IInv, CurrentOK
  <2>3. /\ pxCurrentTCB' \in AllTasks
        /\ lists.container[Generic(pxCurrentTCB')] = Ready(uxPriority[pxCurrentTCB'])
    BY <2>1, <2>2, SwitchFinds
  <2>4. uxPriority[pxCurrentTCB'] \in Priorities
    BY <2>1, <2>3 DEF TypeOK
  <2>5. QED
    BY <1>1, <2>3, <2>4, ListFacts DEF Container
<1>4. QED
  BY <1>2, <1>3

\* A task on a list exists and is not being freed.
LEMMA ListedTasks ==
  ASSUME KernelState, NEW t \in AllTasks
  PROVE  /\ Container(t) # Null <=> t \in tcb /\ t # reaped
         /\ tcb \subseteq AllTasks /\ Null \notin tcb
         /\ uxTopUsedPriority \in Priorities /\ WellFormed(lists)
BY WellFormedNow, ListFacts DEF KernelState, DeadOK, IInv, TypeOK, Placement

\* The blocks are where they should be after a step that allocates and frees
\* nothing, and runs no task that is being freed.
LEMMA MemoryKept ==
  ASSUME LifeInv, KernelState',
         UNCHANGED <<blockVars, tcb>>,
         tcb \ {reaped'} \subseteq stackBlock,
         xSchedulerRunning' => pxCurrentTCB' \in tcb /\ pxCurrentTCB' # reaped',
         phase' = "tasks" /\ ~ xSchedulerRunning' =>
           phase = "tasks" /\ ~ xSchedulerRunning
  PROVE  MemoryOK'
<1>1. /\ stackBlock \subseteq tcbBlock
      /\ tcbBlock = tcb \cup ({making[t] : t \in AllTasks} \ {Null}) \cup lost
      /\ UNCHANGED <<tcbBlock, stackBlock, making, lost>> /\ tcb' = tcb
  BY DEF LifeInv, MemoryOK, HeapMatches, blockVars
<1>2. \A t \in AllTasks : Container(t)' # Null => t \in tcb /\ t # reaped'
  BY <1>1 DEF KernelState, DeadOK, IInv, Placement, Container
<1>3. HeapMatches'
  BY <1>1, <1>2 DEF LifeInv, MemoryOK, HeapMatches
<1>4. QED
  BY <1>1, <1>3 DEF LifeInv, MemoryOK

-----------------------------------------------------------------------------
(* A walk goes on beside the interrupts *)

\* The lists of a walk hold generic items.
LEMMA WalkableLists ==
  ASSUME uxTopUsedPriority \in Priorities
  PROVE  /\ Walkable \subseteq Lists \ (EventLists \cup {Pending})
         /\ Swept \subseteq Walkable /\ Null \notin Walkable
         /\ Termination \notin Swept
<1>1. 0 .. uxTopUsedPriority \subseteq Priorities
  BY TasksAssumption DEF Priorities
<1>2. QED
  BY <1>1, ListFacts DEF Walkable, Swept

\* While the scheduler is suspended, interrupts move event items only.
LEMMA InterruptsDuringWalk ==
  ASSUME IInv, WalkerOK, MaskedLoop \/ Interrupt \/ vTaskSwitchContext
  PROVE  /\ WalkerOK' /\ SameRings(lists, lists')
         /\ \A t \in AllTasks : Container(t)' = Container(t)
         /\ UNCHANGED uxTopUsedPriority
<1>0. uxSchedulerSuspended # 0
  BY DEF WalkerOK
<1>1. ~ MaskedLoop
  BY DEF WalkerOK, MaskedLoop, DrainPending, DrainDone, ReplayTick, ResumeAllDone,
     WakeOne, TickDone, ReplayWakeDone, LoopStep
<1>2. CASE TickISR \/ vTaskSwitchContext \/ \E e \in Events : Post(e) /\ queueLocked[e]
  <2>1. UNCHANGED <<lists, xSchedulerRunning, uxSchedulerSuspended, kernel, pc,
                    pxCurrentTCB, uxTopUsedPriority>>
    <3>1. CASE TickISR
      BY <1>0, <3>1 DEF TickISR, listVars, taskVars
    <3>2. CASE vTaskSwitchContext
      BY <1>0, <3>2 DEF vTaskSwitchContext, listVars, taskVars, loopVars
    <3>3. ASSUME NEW e \in Events, Post(e), queueLocked[e]
          PROVE  UNCHANGED <<lists, xSchedulerRunning, uxSchedulerSuspended, kernel, pc,
                             pxCurrentTCB, uxTopUsedPriority>>
      BY <3>3 DEF Post, listVars, taskVars, loopVars
    <3>4. QED
      BY <1>2, <3>1, <3>2, <3>3
  <2>2. QED
    BY <2>1 DEF WalkerOK, SameRings, Container
<1>3. CASE \/ \E e \in Events : Post(e) /\ ~ queueLocked[e]
           \/ \E x \in Tasks : xTaskResumeFromISR(x)
  <2>1. \/ \E e \in Events : Post(e) /\ ~ queueLocked[e]
        \/ \E x \in Tasks : xTaskResumeFromISR(x)
    BY <1>3
  <2>2. UNCHANGED <<xSchedulerRunning, uxSchedulerSuspended, kernel, pc, pxCurrentTCB,
                    uxTopUsedPriority>>
    BY <2>1 DEF Post, xTaskResumeFromISR, loopVars, taskVars
  <2>3. SameRings(lists, lists')
    BY <1>0, <2>1, InterruptHeld
  <2>4. \E t \in AllTasks : Relocated(lists, lists', t, Container(t), Pending)
    <3>1. ASSUME NEW e \in Events, Post(e), ~ queueLocked[e]
          PROVE  \E t \in AllTasks : Relocated(lists, lists', t, Container(t), Pending)
      <4>1. PICK t : t = FirstWaiting(e)
        OBVIOUS
      <4>2. lists' = vListInsertEnd(vListRemove(lists, Event(t)), Pending, Event(t))
        BY <1>0, <3>1, <4>1 DEF Post, xTaskRemoveFromEventList
      <4>3. ~ listLIST_IS_EMPTY(lists, EventList(e)) /\ EventList(e) \in EventLists
        BY <3>1 DEF Post, EventLists
      <4>4. /\ t \in AllTasks /\ WellFormed(lists)
            /\ lists.container[Event(t)] \in Lists \ {Termination}
        BY <4>1, <4>3, FirstOfEvents DEF FirstWaiting
      <4>5. QED
        BY <4>2, <4>4, EventToPending DEF Container
    <3>2. ASSUME NEW x \in Tasks, xTaskResumeFromISR(x)
          PROVE  Relocated(lists, lists', x, Container(x), Pending)
      <4>1. /\ lists' = vListInsertEnd(lists, Pending, Event(x))
            /\ lists.container[Event(x)] = Null /\ x \in AllTasks
        BY <1>0, <3>2 DEF xTaskResumeFromISR, xTaskIsTaskSuspended,
                    listIS_CONTAINED_WITHIN, AllTasks
      <4>2. WellFormed(lists) /\ Pending \in Lists \ {Termination}
        BY WellFormedNow, ListFacts DEF IInv
      <4>3. QED
        BY <4>1, <4>2, AppendEvent DEF Container
    <3>3. QED
      BY <2>1, <3>1, <3>2 DEF AllTasks
  <2>5. \A t \in AllTasks : Container(t)' = Container(t)
    <3>1. WellFormed(lists)
      BY WellFormedNow DEF IInv
    <3>2. QED
      BY <2>4, <3>1, RelocatedPlaces DEF Container
  <2>6. QED
    BY <2>2, <2>3, <2>5 DEF WalkerOK
<1>4. QED
  BY <1>1, <1>2, <1>3 DEF Interrupt, EventISR

\* So what was said of the walk remains true.
LEMMA WalkStays ==
  ASSUME IInv, WalkOK, phase = "walk", UNCHANGED lifeVars,
         MaskedLoop \/ Interrupt \/ vTaskSwitchContext
  PROVE  WalkOK'
<1>1. /\ WalkerOK' /\ SameRings(lists, lists')
      /\ \A t \in AllTasks : Container(t)' = Container(t)
      /\ uxTopUsedPriority' = uxTopUsedPriority
      /\ UNCHANGED <<todo, pxFirstTCB, report, phase>>
  BY InterruptsDuringWalk DEF WalkOK, lifeVars, walkVars
<1>2. Walkable' = Walkable /\ Walkable \subseteq Lists \ (EventLists \cup {Pending})
  BY <1>1, WalkableLists DEF IInv, TypeOK, Walkable, Swept
<1>3. /\ \A t : Lines(t)' = Lines(t)
      /\ \A L : InTodo(L)' = InTodo(L)
  BY <1>1 DEF Lines, InTodo
<1>4. \A t \in AllTasks : Once(t)' = Once(t)
  BY <1>1, <1>3 DEF Once, Status
<1>5. TodoOK'
  BY <1>1, <1>2 DEF WalkOK, TodoOK
<1>6. LinesOK'
  BY <1>1, <1>2, <1>3, <1>4 DEF WalkOK, LinesOK
<1>7. ASSUME pxFirstTCB # Null PROVE todo # << >> /\ PartWalked(Head(todo))'
  <2>1. todo # << >> /\ PartWalked(Head(todo))
    BY <1>7 DEF WalkOK
  <2>2. PICK L : L = Head(todo)
    OBVIOUS
  <2>3. L \in Walkable
    BY <2>1, <2>2 DEF WalkOK, TodoOK
  <2>4. /\ L \in Lists /\ WellFormed(lists)
        /\ lists'.ring[L] = lists.ring[L] /\ lists'.index[L] = lists.index[L]
    BY <1>1, <1>2, <2>3, WellFormedNow DEF SameRings, IInv
  <2>5. \A k \in 1 .. Len(lists.ring[L]) : Owner(lists.ring[L][k]) \in AllTasks
    BY <2>4, RingItem, ItemFacts DEF WellFormed
  <2>6. PartWalked(L)'
    BY <1>1, <1>3, <1>4, <2>1, <2>2, <2>4, <2>5 DEF PartWalked
  <2>7. QED
    BY <1>1, <2>1, <2>2, <2>6
<1>8. QED
  BY <1>1, <1>5, <1>6, <1>7 DEF WalkOK

\* The steps that LifeNext takes over from Tasks as they are.
TaskStep ==
  \/ \E t \in AllTasks : OtherCall(t) \/ OtherFinish(t)
  \/ OtherIdle
  \/ (MaskedLoop \/ Interrupt \/ vTaskSwitchContext) /\ UNCHANGED lifeVars

LEMMA TaskStepIsNext ==
  ASSUME TaskStep
  PROVE  Next /\ UNCHANGED lifeVars
<1>1. UNCHANGED lifeVars
  BY DEF TaskStep, OtherCall, OtherFinish, OtherIdle
<1>2. ASSUME NEW t \in AllTasks, OtherCall(t)
      PROVE  ApplicationCall(t)
  BY <1>2 DEF OtherCall, ApplicationCall
<1>3. QED
  BY <1>1, <1>2 DEF TaskStep, OtherFinish, OtherIdle, IdleTask, Next

\* They happen while the kernel runs, and run no task that is being freed.
LEMMA TaskStepFacts ==
  ASSUME "DeleteBeforeStart" \notin Calls, LifeInv, TaskStep
  PROVE  /\ Alive /\ IInv /\ IInv'
         /\ UNCHANGED <<tcb, xSchedulerRunning>>
         /\ tcb \ {reaped'} \subseteq stackBlock
         /\ xSchedulerRunning' => pxCurrentTCB' \in tcb /\ pxCurrentTCB' # reaped'
<1>1. Alive
  <2>1. ASSUME MaskedLoop PROVE kernel # "none"
    BY <2>1 DEF MaskedLoop, DrainPending, DrainDone, ReplayTick, ResumeAllDone,
       WakeOne, TickDone, ReplayWakeDone, LoopStep
  <2>2. ASSUME Interrupt \/ vTaskSwitchContext PROVE xSchedulerRunning
    BY <2>2 DEF Interrupt, TickISR, EventISR, xTaskResumeFromISR,
       vTaskSwitchContext, InterruptsOn
  <2>3. QED
    BY <2>1, <2>2 DEF TaskStep, OtherCall, OtherFinish, OtherIdle, AtLeisure,
       LifeInv, KernelState, DeadOK, Alive
<1>2. IInv /\ IInv'
  BY <1>1, TaskStepIsNext, NextInv DEF LifeInv, KernelState
<1>3. /\ tcb \subseteq AllTasks /\ Null \notin tcb
      /\ xSchedulerRunning' => pxCurrentTCB' \in tcb'
      /\ tcb \ {reaped} \subseteq stackBlock
      /\ xSchedulerRunning => pxCurrentTCB # reaped
  BY <1>2, ListFacts DEF IInv, TypeOK, CurrentOK, LifeInv, MemoryOK
<1>4. CASE IdleReap
  <2>1. /\ reaped = Null /\ pxCurrentTCB = Idle
        /\ UNCHANGED <<tcb, pxCurrentTCB, xSchedulerRunning>>
    BY <1>2, <1>4 DEF IdleReap, IInv, LabelsOK, At
  <2>2. reaped' # Idle
    BY <1>2 DEF IInv, IdleOK
  <2>3. QED
    BY <1>1, <1>2, <1>3, <2>1, <2>2
<1>5. CASE vTaskSwitchContext
  <2>1. /\ UNCHANGED <<tcb, reaped, xSchedulerRunning>>
        /\ \/ pxCurrentTCB' = pxCurrentTCB
           \/ pxCurrentTCB' \in AllTasks /\ Container(pxCurrentTCB') # Null
    BY <1>2, <1>5, SwitchFrame
  <2>2. pxCurrentTCB' # pxCurrentTCB => pxCurrentTCB' # reaped
    BY <1>2, <2>1, PlaceFacts
  <2>3. QED
    BY <1>1, <1>2, <1>3, <2>1, <2>2
<1>6. CASE ~ IdleReap /\ ~ vTaskSwitchContext
  <2>1. UNCHANGED <<tcb, reaped, pxCurrentTCB, xSchedulerRunning>>
    <3>1. CASE IdleCheck \/ IdleLook \/ IdleYield
      BY <3>1 DEF IdleCheck, IdleLook, IdleYield, SuspendAllVars, taskVars
    <3>2. QED
      BY <1>6, <3>1, CallFrame, LoopFrame DEF TaskStep, OtherFinish, OtherIdle
  <2>2. QED
    BY <1>1, <1>2, <1>3, <2>1
<1>7. QED
  BY <1>4, <1>5, <1>6

\* They keep the invariant.
LEMMA TaskStepInv ==
  ASSUME "DeleteBeforeStart" \notin Calls, LifeInv, TaskStep
  PROVE  LifeInv'
<1>1. /\ Alive /\ IInv /\ IInv' /\ UNCHANGED lifeVars
      /\ UNCHANGED <<tcb, xSchedulerRunning>>
      /\ tcb \ {reaped'} \subseteq stackBlock
      /\ xSchedulerRunning' => pxCurrentTCB' \in tcb /\ pxCurrentTCB' # reaped'
  BY TaskStepFacts, TaskStepIsNext
<1>2. Alive' /\ KernelState' /\ LifeTypeOK' /\ CleanOK'
  BY <1>1 DEF LifeInv, KernelState, Alive, LifeTypeOK, CleanOK, lifeVars, blockVars,
     walkVars
<1>3. MemoryOK'
  BY <1>1, <1>2, MemoryKept DEF lifeVars
<1>4. WalkOK'
  <2>1. CASE phase = "walk"
    <3>1. MaskedLoop \/ Interrupt \/ vTaskSwitchContext
      BY <2>1 DEF TaskStep, OtherCall, OtherFinish, OtherIdle, AtLeisure
    <3>2. QED
      BY <1>1, <2>1, <3>1, WalkStays DEF LifeInv
  <2>2. CASE phase # "walk"
    BY <1>1, <2>2 DEF LifeInv, WalkOK, lifeVars, walkVars
  <2>3. QED
    BY <2>1, <2>2
<1>5. QED
  BY <1>2, <1>3, <1>4 DEF LifeInv

-----------------------------------------------------------------------------
(* Allocating and freeing the blocks of a task *)

\* A step in phase "tasks" says nothing of walks and of the clean-up.
LEMMA AtTasks ==
  ASSUME LifeInv, phase = "tasks", UNCHANGED <<walkVars, phase>>, IInv',
         LifeTypeOK', MemoryOK'
  PROVE  LifeInv'
BY DEF LifeInv, KernelState, Alive, WalkOK, CleanOK, walkVars

\* Before the scheduler runs a new task has its blocks at once.
LEMMA BeforeSchedulerInv ==
  ASSUME "DeleteBeforeStart" \notin Calls, LifeInv, BeforeScheduler
  PROVE  LifeInv'
<1>1. /\ phase = "tasks" /\ tcbBlock' = tcb' /\ stackBlock' = tcb'
      /\ UNCHANGED <<making, lost, walkVars, phase>>
      /\ Main /\ IInv
  BY DEF BeforeScheduler, LifeInv, KernelState, Alive
<1>2. IInv'
  BY <1>1, NextInv DEF Next
<1>3. /\ ~ xSchedulerRunning
      /\ reaped' = Null
  <2>1. ~ xSchedulerRunning
    BY <1>1 DEF Main, CreateBeforeStart, DeleteBeforeStart, SuspendBeforeStart,
       BeforeStart, vTaskStartScheduler
  <2>2. pc' = pc
    BY <1>1 DEF Main, CreateBeforeStart, DeleteBeforeStart, SuspendBeforeStart,
       vTaskStartScheduler
  <2>3. pc[Idle] = "run"
    BY <1>1, <2>1 DEF IInv, BeforeOK, AllTasks
  <2>4. QED
    BY <1>2, <2>1, <2>2, <2>3 DEF IInv, LabelsOK
<1>4. /\ lost' = {} /\ \A t \in AllTasks : making'[t] = Null
      /\ tcb' \subseteq AllTasks /\ Null \notin tcb'
      /\ xSchedulerRunning' => pxCurrentTCB' \in tcb'
      /\ \A t \in AllTasks : Container(t)' # Null => t \in tcb'
  BY <1>1, <1>2, <1>3, ListFacts
     DEF LifeInv, MemoryOK, IInv, TypeOK, CurrentOK, Placement, Container
<1>5. LifeTypeOK'
  BY <1>1, <1>4 DEF LifeInv, LifeTypeOK, walkVars
<1>6. HeapMatches'
  <2>1. {making'[t] : t \in AllTasks} \ {Null} = {}
    BY <1>4
  <2>2. QED
    BY <1>1, <1>4, <2>1 DEF HeapMatches
<1>7. MemoryOK'
  BY <1>1, <1>3, <1>4, <1>6 DEF MemoryOK
<1>8. QED
  BY <1>1, <1>2, <1>5, <1>7, AtTasks

\* What is known when a task allocates or the idle task frees.
LEMMA MemoryFacts ==
  ASSUME LifeInv, phase = "tasks"
  PROVE  /\ IInv /\ LifeTypeOK
         /\ tcb \subseteq AllTasks /\ Null \notin AllTasks /\ Tasks \subseteq AllTasks
         /\ stackBlock \subseteq tcbBlock /\ tcb \subseteq tcbBlock
         /\ \A x : x \in tcbBlock <=> \/ x \in tcb \/ x \in lost
                                      \/ x # Null /\ \E t \in AllTasks : x = making[t]
         /\ \A s, t \in AllTasks :
              making[t] # Null => making[t] \notin tcb \cup lost
                                  /\ (making[s] = making[t] => s = t)
         /\ tcb \ {reaped} \subseteq stackBlock /\ lost \cap tcb = {}
         /\ xSchedulerRunning => pxCurrentTCB \in tcb /\ pxCurrentTCB # reaped
         /\ \A t \in AllTasks : Container(t) # Null <=> t \in tcb /\ t # reaped
BY ListFacts DEF LifeInv, KernelState, Alive, MemoryOK, HeapMatches, IInv, TypeOK,
   CurrentOK, Placement, AllTasks

\* The same facts, after a step.
LEMMA MemoryFrom ==
  ASSUME IInv', LifeTypeOK', xSchedulerRunning',
         stackBlock' \subseteq tcbBlock', tcb' \subseteq tcbBlock',
         \A x : x \in tcbBlock' <=> \/ x \in tcb' \/ x \in lost'
                                    \/ x # Null /\ \E t \in AllTasks : x = making'[t],
         \A s, t \in AllTasks :
           making'[t] # Null => making'[t] \notin tcb' \cup lost'
                                /\ (making'[s] = making'[t] => s = t),
         tcb' \ {reaped'} \subseteq stackBlock', lost' \cap tcb' = {},
         pxCurrentTCB' # reaped'
  PROVE  MemoryOK'
<1>1. /\ pxCurrentTCB' \in tcb' /\ pxCurrentTCB' # Null
      /\ \A t \in AllTasks : Container(t)' # Null => t \in tcb' /\ t # reaped'
  BY DEF IInv, TypeOK, CurrentOK, Placement, Container
<1>2. tcbBlock' = tcb' \cup ({making'[t] : t \in AllTasks} \ {Null}) \cup lost'
  OBVIOUS
<1>3. HeapMatches'
  BY <1>1, <1>2 DEF HeapMatches
<1>4. QED
  BY <1>3 DEF MemoryOK

\* prvAllocateTCBAndStack takes blocks that nobody has, or gives back its own.
LEMMA AllocateInv ==
  ASSUME LifeInv, NEW t \in Tasks,
         \/ \E new \in Tasks : AllocateTCB(t, new)
         \/ AllocateStack(t) \/ StackFails(t)
  PROVE  LifeInv'
<1>1. phase = "tasks" /\ UNCHANGED <<vars, lost, walkVars, phase>> /\ xSchedulerRunning
  BY DEF AllocateTCB, AllocateStack, StackFails, AtLeisure, Making, Call, At,
     InterruptsOn
<1>2. UNCHANGED <<tcb, reaped, pxCurrentTCB, xSchedulerRunning, lost>>
  BY <1>1 DEF vars, taskVars
<1>3. IInv'
  <2>1. IInv /\ [Next]_vars
    BY <1>1, MemoryFacts
  <2>2. QED
    BY <1>1, <2>1 DEF vars, listVars, taskVars, timeVars, missedVars, queueVars,
       loopVars, IInv, TypeOK, ListsAgree, Placement, Accounting, LabelsOK, KernelOK,
       CurrentOK, IdleOK, BeforeOK, TopOK, Container, IsReady
<1>4. t \in AllTasks /\ making \in [AllTasks -> Tasks \cup {Null}]
  BY <1>1, MemoryFacts DEF LifeTypeOK
<1>5. ASSUME NEW new \in Tasks, AllocateTCB(t, new) PROVE LifeInv'
  <2>1. /\ new \notin tcbBlock /\ new # Null /\ making[t] = Null
        /\ tcbBlock' = tcbBlock \cup {new} /\ stackBlock' = stackBlock
        /\ making' = [making EXCEPT ![t] = new]
    BY <1>1, <1>5, MemoryFacts DEF AllocateTCB, AtLeisure
  <2>2. /\ making'[t] = new
        /\ \A s \in AllTasks \ {t} : making'[s] = making[s] /\ making[s] # new
    BY <1>1, <1>4, <2>1, MemoryFacts
  <2>3. LifeTypeOK'
    BY <1>1, <1>2, <2>1, MemoryFacts DEF LifeTypeOK, walkVars
  <2>4. MemoryOK'
    BY <1>1, <1>2, <1>3, <1>4, <2>1, <2>2, <2>3, MemoryFacts, MemoryFrom
  <2>5. QED
    BY <1>1, <1>3, <2>3, <2>4, AtTasks
<1>6. CASE AllocateStack(t)
  <2>1. /\ making[t] \in tcbBlock /\ making' = making /\ tcbBlock' = tcbBlock
        /\ stackBlock' = stackBlock \cup {making[t]}
    BY <1>1, <1>4, <1>6, MemoryFacts DEF AllocateStack, Making
  <2>3. LifeTypeOK'
    BY <1>1, <1>2, <2>1, MemoryFacts DEF LifeTypeOK, walkVars
  <2>4. MemoryOK'
    BY <1>1, <1>2, <1>3, <2>1, <2>3, MemoryFacts, MemoryFrom
  <2>5. QED
    BY <1>1, <1>3, <2>3, <2>4, AtTasks
<1>7. CASE StackFails(t)
  <2>1. /\ making[t] # Null /\ making[t] \notin stackBlock
        /\ tcbBlock' = tcbBlock \ {making[t]} /\ stackBlock' = stackBlock
        /\ making' = [making EXCEPT ![t] = Null]
    BY <1>7 DEF StackFails, Making
  <2>2. /\ making'[t] = Null
        /\ \A s \in AllTasks \ {t} : making'[s] = making[s] /\ making[s] # making[t]
    BY <1>1, <1>4, <2>1, MemoryFacts
  <2>3. LifeTypeOK'
    BY <1>1, <1>2, <2>1, MemoryFacts DEF LifeTypeOK, walkVars
  <2>4. /\ making[t] \notin tcb /\ making[t] \notin lost
    BY <1>1, <1>4, <2>1, MemoryFacts
  <2>5. \A x : x \in tcbBlock' <=> \/ x \in tcb' \/ x \in lost'
                                   \/ x # Null /\ \E s \in AllTasks : x = making'[s]
    BY <1>1, <1>2, <1>4, <2>1, <2>2, <2>4, MemoryFacts
  <2>6. MemoryOK'
    BY <1>1, <1>2, <1>3, <1>4, <2>1, <2>2, <2>3, <2>4, <2>5, MemoryFacts, MemoryFrom
  <2>7. QED
    BY <1>1, <1>3, <2>3, <2>6, AtTasks
<1>8. QED
  BY <1>5, <1>6, <1>7

\* The new task enters the lists with both its blocks.
LEMMA LinkInv ==
  ASSUME "DeleteBeforeStart" \notin Calls, LifeInv,
         NEW t \in Tasks, NEW asked \in RequestedPriorities, Link(t, asked)
  PROVE  LifeInv'
<1>1. /\ phase = "tasks" /\ making[t] # Null /\ making[t] \in stackBlock
      /\ xTaskCreate(t, making[t], asked)
      /\ making' = [making EXCEPT ![t] = Null]
      /\ UNCHANGED <<tcbBlock, stackBlock, lost, walkVars, phase>>
  BY DEF Link, Making
<1>2. /\ making[t] \in Tasks /\ CreateTask(making[t], asked)
      /\ xSchedulerRunning /\ UNCHANGED xSchedulerRunning
      /\ tcb' = tcb \cup {making[t]} /\ reaped' = reaped
  BY <1>1 DEF xTaskCreate, Call, At, InterruptsOn, CreateTask
<1>3. IInv'
  BY <1>1, <1>2, MemoryFacts, TaskCreateInv
<1>4. pxCurrentTCB' = pxCurrentTCB /\ pxCurrentTCB # Null
  BY <1>1, <1>2, MemoryFacts DEF CreateTask, IInv, CurrentOK
<1>5. t \in AllTasks /\ making \in [AllTasks -> Tasks \cup {Null}]
  BY <1>1, MemoryFacts DEF LifeTypeOK
<1>6. /\ making'[t] = Null
      /\ \A s \in AllTasks \ {t} : making'[s] = making[s] /\ making[s] # making[t]
  BY <1>1, <1>5, MemoryFacts
<1>7. LifeTypeOK'
  BY <1>1, MemoryFacts DEF LifeTypeOK, walkVars
<1>8. making[t] \notin lost /\ making[t] \in tcbBlock
  BY <1>1, <1>5, MemoryFacts
<1>9. \A x : x \in tcbBlock' <=> \/ x \in tcb' \/ x \in lost'
                                 \/ x # Null /\ \E s \in AllTasks : x = making'[s]
  BY <1>1, <1>2, <1>5, <1>6, <1>8, MemoryFacts
<1>10. MemoryOK'
  BY <1>1, <1>2, <1>3, <1>4, <1>5, <1>6, <1>7, <1>8, <1>9, MemoryFacts, MemoryFrom
<1>11. QED
  BY <1>1, <1>3, <1>7, <1>10, AtTasks

\* The idle task frees the stack first, then the TCB; what the task was
\* creating is lost.
LEMMA FreeInv ==
  ASSUME LifeInv, FreeStack \/ FreeTCB
  PROVE  LifeInv'
<1>1. /\ phase = "tasks" /\ At(Idle, "idleFree") /\ xSchedulerRunning
      /\ UNCHANGED <<pxCurrentTCB, xSchedulerRunning, walkVars, phase>>
  BY DEF FreeStack, FreeTCB, IdleFree, At, InterruptsOn, vars
<1>2. reaped # Null /\ reaped \in tcb /\ reaped \in AllTasks
  BY <1>1, MemoryFacts DEF IInv, TypeOK, LabelsOK, At
<1>3. CASE FreeStack
  <2>1. /\ stackBlock' = stackBlock \ {reaped}
        /\ UNCHANGED <<tcbBlock, making, lost, tcb, reaped>> /\ UNCHANGED vars
    BY <1>3 DEF FreeStack, vars, taskVars
  <2>2. IInv'
    BY <1>1, <2>1, MemoryFacts DEF vars, listVars, taskVars, timeVars, missedVars,
       queueVars, loopVars, IInv, TypeOK, ListsAgree, Placement, Accounting, LabelsOK,
       KernelOK, CurrentOK, IdleOK, BeforeOK, TopOK, Container, IsReady
  <2>3. LifeTypeOK'
    BY <1>1, <2>1, MemoryFacts DEF LifeTypeOK, walkVars
  <2>4. MemoryOK'
    BY <1>1, <2>1, <2>2, <2>3, MemoryFacts, MemoryFrom
  <2>5. QED
    BY <1>1, <2>2, <2>3, <2>4, AtTasks
<1>4. CASE FreeTCB
  <2>1. /\ IdleFree /\ reaped \notin stackBlock
        /\ tcb' = tcb \ {reaped} /\ reaped' = Null
        /\ tcbBlock' = tcbBlock \ {reaped} /\ stackBlock' = stackBlock
        /\ lost' = lost \cup ({making[reaped]} \ {Null})
        /\ making' = [making EXCEPT ![reaped] = Null]
    BY <1>4 DEF FreeTCB, IdleFree
  <2>2. IInv'
    BY <1>1, <2>1, MemoryFacts, IdleFreeInv
  <2>3. making \in [AllTasks -> Tasks \cup {Null}]
    BY <1>1, MemoryFacts DEF LifeTypeOK
  <2>4. /\ making'[reaped] = Null
        /\ \A s \in AllTasks \ {reaped} : making'[s] = making[s]
    BY <1>2, <2>1, <2>3
  <2>5. LifeTypeOK'
    BY <1>1, <1>2, <2>1, <2>3, MemoryFacts DEF LifeTypeOK, walkVars
  <2>6. \A x : x \in tcbBlock' <=> \/ x \in tcb' \/ x \in lost'
                                   \/ x # Null /\ \E s \in AllTasks : x = making'[s]
    <3>1. \A s \in AllTasks : making[s] # reaped
      BY <1>1, <1>2, MemoryFacts
    <3>2. reaped \notin lost
      BY <1>1, <1>2, MemoryFacts
    <3>3. \A x : (x # Null /\ \E s \in AllTasks : x = making[s])
                   <=> \/ x # Null /\ x = making[reaped]
                       \/ x # Null /\ \E s \in AllTasks : x = making'[s]
      BY <1>2, <2>4
    <3>4. \A x : x \in tcbBlock <=> \/ x \in tcb \/ x \in lost
                                    \/ x # Null /\ \E s \in AllTasks : x = making[s]
      BY <1>1, MemoryFacts
    <3>5. QED
      BY <1>2, <2>1, <2>4, <3>1, <3>2, <3>3, <3>4
  <2>7. \A s, t \in AllTasks :
          making'[t] # Null => making'[t] \notin tcb' \cup lost'
                               /\ (making'[s] = making'[t] => s = t)
    BY <1>1, <1>2, <2>1, <2>4, MemoryFacts
  <2>8. /\ lost' \cap tcb' = {} /\ tcb' \ {reaped'} \subseteq stackBlock'
        /\ stackBlock' \subseteq tcbBlock' /\ tcb' \subseteq tcbBlock'
    BY <1>1, <1>2, <2>1, MemoryFacts
  <2>9. pxCurrentTCB' # reaped'
    BY <1>1, <2>1, MemoryFacts
  <2>10. MemoryOK'
    BY <1>1, <2>2, <2>5, <2>6, <2>7, <2>8, <2>9, MemoryFrom
  <2>11. QED
    BY <1>1, <2>2, <2>5, <2>10, AtTasks
<1>5. QED
  BY <1>3, <1>4

-----------------------------------------------------------------------------
(* The walk of vTaskList *)

\* The first task of a list to do, and the others.
LEMMA TailFacts ==
  ASSUME todo \in Seq(Lists), todo # << >>
  PROVE  /\ Len(todo) \in Nat \ {0} /\ Head(todo) = todo[1] /\ Head(todo) \in Lists
         /\ Tail(todo) \in Seq(Lists) /\ Len(Tail(todo)) = Len(todo) - 1
         /\ \A j \in 1 .. Len(Tail(todo)) : Tail(todo)[j] = todo[j + 1]
OBVIOUS

\* A list visited is in one part or the other of the order.
LEMMA Parts ==
  ASSUME NEW S, NEW u \in Seq(S), NEW v \in Seq(S)
  PROVE  /\ u \o v \in Seq(S) /\ Len(u \o v) = Len(u) + Len(v)
         /\ \A i \in 1 .. Len(u) : (u \o v)[i] = u[i]
         /\ \A i \in 1 .. Len(v) : (u \o v)[Len(u) + i] = v[i]
<1>1. Len(u) \in Nat /\ Len(v) \in Nat
  OBVIOUS
<1>2. \A i \in 1 .. Len(u) : i \in 1 .. Len(u) + Len(v) /\ i <= Len(u)
  BY <1>1
<1>3. \A i \in 1 .. Len(v) : /\ Len(u) + i \in 1 .. Len(u) + Len(v)
                             /\ ~ Len(u) + i <= Len(u) /\ Len(u) + i - Len(u) = i
  BY <1>1
<1>4. QED
  BY <1>2, <1>3, ConcatProperties

\* The two orders contain each list they should, once.
LEMMA OrderFacts ==
  ASSUME uxTopUsedPriority \in Priorities,
         {pxDelayedTaskList, pxOverflowDelayedTaskList} = DelayedLists
  PROVE  /\ WalkOrder \in Seq(Lists) /\ CleanUpOrder \in Seq(Lists)
         /\ \A j \in 1 .. Len(WalkOrder) : WalkOrder[j] \in Walkable
         /\ \A j, k \in 1 .. Len(WalkOrder) : WalkOrder[j] = WalkOrder[k] => j = k
         /\ \A L \in Walkable : \E j \in 1 .. Len(WalkOrder) : WalkOrder[j] = L
         /\ \A j \in 1 .. Len(CleanUpOrder) : CleanUpOrder[j] \in Swept
         /\ \A L \in Swept : \E j \in 1 .. Len(CleanUpOrder) : CleanUpOrder[j] = L
<1> DEFINE n == uxTopUsedPriority + 1
           a == pxDelayedTaskList
           b == pxOverflowDelayedTaskList
           w == <<a, b, Termination, Suspended>>
           c == <<Delayed(1), Delayed(2), Suspended>>
<1>1. /\ uxTopUsedPriority \in Nat /\ n \in Nat
      /\ \A i \in 1 .. n : n - i \in 0 .. uxTopUsedPriority /\ n - i \in Priorities
      /\ \A p \in 0 .. uxTopUsedPriority : n - p \in 1 .. n /\ n - (n - p) = p
                                           /\ p \in Priorities
  BY TasksAssumption DEF Priorities
<1>2. /\ a \in DelayedLists /\ b \in DelayedLists /\ a # b
      /\ \A L \in DelayedLists : L = a \/ L = b
      /\ \A L \in DelayedLists : L = Delayed(1) \/ L = Delayed(2)
      /\ Delayed(1) \in DelayedLists /\ Delayed(2) \in DelayedLists
  BY ListFacts DEF DelayedLists
<1> HIDE DEF n, a, b
<1>3. /\ ReadyDownwards \in Seq(Lists) /\ Len(ReadyDownwards) = n
      /\ \A i \in 1 .. n : ReadyDownwards[i] = Ready(n - i)
  BY <1>1, ListFacts DEF ReadyDownwards, n
<1>4. /\ w \in Seq(Lists) /\ Len(w) = 4
      /\ w[1] = a /\ w[2] = b /\ w[3] = Termination /\ w[4] = Suspended
      /\ c \in Seq(Lists) /\ Len(c) = 3
      /\ c[1] = Delayed(1) /\ c[2] = Delayed(2) /\ c[3] = Suspended
  BY <1>2, ListFacts
<1> HIDE DEF w, c
<1>5. /\ WalkOrder = ReadyDownwards \o w /\ CleanUpOrder = ReadyDownwards \o c
  BY DEF WalkOrder, CleanUpOrder, w, c, a, b
<1>6. /\ WalkOrder \in Seq(Lists) /\ Len(WalkOrder) = n + 4
      /\ \A i \in 1 .. n : WalkOrder[i] = Ready(n - i)
      /\ WalkOrder[n + 1] = a /\ WalkOrder[n + 2] = b
      /\ WalkOrder[n + 3] = Termination /\ WalkOrder[n + 4] = Suspended
      /\ CleanUpOrder \in Seq(Lists) /\ Len(CleanUpOrder) = n + 3
      /\ \A i \in 1 .. n : CleanUpOrder[i] = Ready(n - i)
      /\ CleanUpOrder[n + 1] = Delayed(1) /\ CleanUpOrder[n + 2] = Delayed(2)
      /\ CleanUpOrder[n + 3] = Suspended
  <2>1. PICK u, v, x : u = ReadyDownwards /\ v = w /\ x = c
    OBVIOUS
  <2>2. u \in Seq(Lists) /\ v \in Seq(Lists) /\ x \in Seq(Lists)
    BY <1>3, <1>4, <2>1
  <2>3. /\ u \o v \in Seq(Lists) /\ Len(u \o v) = Len(u) + Len(v)
        /\ \A i \in 1 .. Len(u) : (u \o v)[i] = u[i]
        /\ \A i \in 1 .. Len(v) : (u \o v)[Len(u) + i] = v[i]
    BY ONLY <2>2, Parts
  <2>4. /\ u \o x \in Seq(Lists) /\ Len(u \o x) = Len(u) + Len(x)
        /\ \A i \in 1 .. Len(u) : (u \o x)[i] = u[i]
        /\ \A i \in 1 .. Len(x) : (u \o x)[Len(u) + i] = x[i]
    BY ONLY <2>2, Parts
  <2>5. WalkOrder = u \o v /\ CleanUpOrder = u \o x
    BY <1>5, <2>1
  <2>6. 1 \in 1 .. 4 /\ 2 \in 1 .. 4 /\ 3 \in 1 .. 4 /\ 4 \in 1 .. 4
        /\ 1 \in 1 .. 3 /\ 2 \in 1 .. 3 /\ 3 \in 1 .. 3
    OBVIOUS
  <2>7. QED
    BY <1>3, <1>4, <2>1, <2>3, <2>4, <2>5, <2>6
<1>7. /\ \A j \in 1 .. n + 4 : \/ j \in 1 .. n \/ j = n + 1 \/ j = n + 2
                               \/ j = n + 3 \/ j = n + 4
      /\ \A j \in 1 .. n + 3 : \/ j \in 1 .. n \/ j = n + 1 \/ j = n + 2 \/ j = n + 3
      /\ n + 1 \in 1 .. n + 3 /\ n + 2 \in 1 .. n + 3 /\ n + 3 \in 1 .. n + 3
      /\ n + 4 \in 1 .. n + 4 /\ 1 .. n \subseteq 1 .. n + 3
      /\ 1 .. n + 3 \subseteq 1 .. n + 4
  BY <1>1
<1>8. \A j \in 1 .. Len(WalkOrder) : WalkOrder[j] \in Walkable
  BY <1>1, <1>2, <1>6, <1>7 DEF Walkable, Swept
<1>9. \A j \in 1 .. Len(CleanUpOrder) : CleanUpOrder[j] \in Swept
  BY <1>1, <1>2, <1>6, <1>7 DEF Swept
<1>10. ASSUME NEW L \in Swept
       PROVE  \E j \in 1 .. Len(CleanUpOrder) : CleanUpOrder[j] = L
  <2>1. CASE L \in {Ready(p) : p \in 0 .. uxTopUsedPriority}
    <3>1. PICK p \in 0 .. uxTopUsedPriority : L = Ready(p)
      BY <2>1
    <3>2. CleanUpOrder[n - p] = L /\ n - p \in 1 .. Len(CleanUpOrder)
      BY <1>1, <1>6, <1>7, <3>1
    <3>3. QED
      BY <3>2
  <2>2. QED
    BY <1>2, <1>6, <1>7, <2>1 DEF Swept
<1>11. ASSUME NEW L \in Walkable
       PROVE  \E j \in 1 .. Len(WalkOrder) : WalkOrder[j] = L
  <2>1. CASE L \in {Ready(p) : p \in 0 .. uxTopUsedPriority}
    <3>1. PICK p \in 0 .. uxTopUsedPriority : L = Ready(p)
      BY <2>1
    <3>2. WalkOrder[n - p] = L /\ n - p \in 1 .. Len(WalkOrder)
      BY <1>1, <1>6, <1>7, <3>1
    <3>3. QED
      BY <3>2
  <2>2. QED
    BY <1>2, <1>6, <1>7, <2>1 DEF Walkable, Swept
<1>12. ASSUME NEW j \in 1 .. Len(WalkOrder), NEW k \in 1 .. Len(WalkOrder),
              WalkOrder[j] = WalkOrder[k]
       PROVE  j = k
  <2>1. ASSUME NEW i \in 1 .. n
        PROVE  /\ WalkOrder[i] = Ready(n - i) /\ Ready(n - i) \notin DelayedLists
               /\ Ready(n - i) # Termination /\ Ready(n - i) # Suspended
               /\ \A h \in 1 .. n : Ready(n - i) = Ready(n - h) => i = h
    <3>1. \A h \in 1 .. n : Ready(n - i) = Ready(n - h) => n - i = n - h
      BY <1>1, ListFacts
    <3>2. QED
      BY <1>1, <1>6, <3>1, ListFacts
  <2>2. /\ Termination \notin DelayedLists /\ Suspended \notin DelayedLists
        /\ Termination # Suspended
    BY ListFacts
  <2>3. QED
    BY <1>2, <1>6, <1>7, <1>12, <2>1, <2>2
<1>13. QED
  BY <1>6, <1>8, <1>9, <1>10, <1>11, <1>12

\* The items of a list that is walked are the generic items of its tasks.
LEMMA WalkedItems ==
  ASSUME WellFormed(lists), NEW L \in Lists \ (EventLists \cup {Pending}),
         \A t \in AllTasks : lists.container[Event(t)] \in EventLists \cup {Pending, Null}
  PROVE  /\ \A k \in 1 .. Len(lists.ring[L]) :
              /\ Owner(lists.ring[L][k]) \in AllTasks
              /\ lists.ring[L][k] = Generic(Owner(lists.ring[L][k]))
              /\ Container(Owner(lists.ring[L][k])) = L
         /\ \A t \in AllTasks : Container(t) = L =>
              \E k \in 1 .. Len(lists.ring[L]) : Owner(lists.ring[L][k]) = t
         /\ \A j, k \in 1 .. Len(lists.ring[L]) :
              Owner(lists.ring[L][j]) = Owner(lists.ring[L][k]) => j = k
<1>1. \A k \in 1 .. Len(lists.ring[L]) :
        /\ Owner(lists.ring[L][k]) \in AllTasks
        /\ lists.ring[L][k] = Generic(Owner(lists.ring[L][k]))
        /\ Container(Owner(lists.ring[L][k])) = L
  <2>1. SUFFICES ASSUME NEW k \in 1 .. Len(lists.ring[L])
                 PROVE  /\ Owner(lists.ring[L][k]) \in AllTasks
                        /\ lists.ring[L][k] = Generic(Owner(lists.ring[L][k]))
                        /\ Container(Owner(lists.ring[L][k])) = L
    OBVIOUS
  <2>2. PICK x : x = lists.ring[L][k]
    OBVIOUS
  <2>3. x \in Items /\ lists.container[x] = L
    BY <2>2, RingItem DEF WellFormed
  <2>4. Owner(x) \in AllTasks /\ (x = Generic(Owner(x)) \/ x = Event(Owner(x)))
    BY <2>3, ItemFacts
  <2>5. x = Generic(Owner(x))
    BY <2>3, <2>4, ListFacts
  <2>6. QED
    BY <2>2, <2>3, <2>4, <2>5 DEF Container
<1>2. ASSUME NEW t \in AllTasks, Container(t) = L
      PROVE  \E k \in 1 .. Len(lists.ring[L]) : Owner(lists.ring[L][k]) = t
  <2>1. Generic(t) \in Items /\ Owner(Generic(t)) = t
    BY ItemFacts
  <2>2. PICK k \in 1 .. Len(lists.ring[L]) : lists.ring[L][k] = Generic(t)
    BY <1>2, <2>1 DEF WellFormed, ListsOK, ContainersAgree, OnList, Container
  <2>3. QED
    BY <2>1, <2>2
<1>3. \A j, k \in 1 .. Len(lists.ring[L]) :
        Owner(lists.ring[L][j]) = Owner(lists.ring[L][k]) => j = k
  BY <1>1 DEF WellFormed, ListsOK, NoDuplicates
<1>4. QED
  BY <1>1, <1>2, <1>3

\* Moving a cursor changes nothing that the scheduler relies on.
LEMMA CursorMoves ==
  ASSUME IInv, NEW L \in Lists, ~ listLIST_IS_EMPTY(lists, L),
         lists' = AdvanceIndex(lists, L),
         UNCHANGED <<uxTopReadyPriority, taskVars, timeVars, missedVars, queueVars,
                     loopVars, pxCurrentTCB, xSchedulerRunning, uxSchedulerSuspended,
                     yieldPending, pc, fault>>
  PROVE  /\ IInv'
         /\ lists'.ring = lists.ring /\ lists'.container = lists.container
         /\ lists'.index[L] = IF lists.index[L] = Len(lists.ring[L]) THEN 1
                              ELSE lists.index[L] + 1
<1>1. WellFormed(lists)
  BY WellFormedNow DEF IInv
<1>2. /\ WellFormed(lists')
      /\ lists'.ring = lists.ring /\ lists'.container = lists.container
  BY <1>1, AdvanceKeeps DEF WellFormed, SameLists
<1>3. ListsAgree' /\ lists' \in XLists(Lists, Items)
  BY <1>2, WellFormedNow
<1>4. TypeOK'
  BY <1>3 DEF IInv, TypeOK, taskVars, timeVars, missedVars, queueVars, loopVars
<1>5. Placement' /\ Accounting' /\ IdleOK' /\ TopOK' /\ CurrentOK'
  BY <1>2 DEF IInv, Placement, Accounting, IdleOK, TopOK, CurrentOK, Container, IsReady,
     listCURRENT_LIST_LENGTH, taskVars
<1>6. LabelsOK' /\ KernelOK' /\ BeforeOK'
  BY <1>2 DEF IInv, LabelsOK, KernelOK, BeforeOK, listLIST_IS_EMPTY, taskVars, missedVars,
     loopVars
<1>7. lists'.index[L] = IF lists.index[L] = Len(lists.ring[L]) THEN 1
                        ELSE lists.index[L] + 1
  BY <1>1 DEF AdvanceIndex, WellFormed, ListsOK, XLists
<1>8. QED
  BY <1>2, <1>3, <1>4, <1>5, <1>6, <1>7 DEF IInv

\* What is known of a walk.
LEMMA WalkFacts ==
  ASSUME LifeInv, phase = "walk"
  PROVE  /\ IInv /\ WellFormed(lists) /\ TypeOK
         /\ todo \in Seq(Lists) /\ report \in Seq(AllTasks \X {"R", "B", "D", "S"})
         /\ Walkable \subseteq Lists \ (EventLists \cup {Pending})
         /\ WalkerOK /\ TodoOK /\ LinesOK
         /\ pxFirstTCB # Null => todo # << >> /\ PartWalked(Head(todo))
         /\ \A t \in AllTasks : lists.container[Event(t)] \in EventLists \cup {Pending, Null}
BY WellFormedNow, WalkableLists
   DEF LifeInv, KernelState, Alive, LifeTypeOK, WalkOK, IInv, TypeOK, Placement

\* A walk step leaves memory as it is.
LEMMA WalkMemory ==
  ASSUME LifeInv, IInv', Alive, Alive', xSchedulerRunning,
         UNCHANGED <<blockVars, tcb, reaped, pxCurrentTCB, xSchedulerRunning>>
  PROVE  KernelState' /\ MemoryOK' /\ CleanOK'
<1>1. KernelState' /\ CleanOK'
  BY DEF KernelState, CleanOK
<1>2. pxCurrentTCB \in tcb /\ pxCurrentTCB # reaped /\ tcb \ {reaped} \subseteq stackBlock
  BY DEF LifeInv, KernelState, MemoryOK, IInv, TypeOK, CurrentOK
<1>3. QED
  BY <1>1, <1>2, MemoryKept

\* vTaskSuspendAll, then the walk has everything before it.
LEMMA StartWalkInv ==
  ASSUME "DeleteBeforeStart" \notin Calls, LifeInv, NEW t \in Tasks, StartWalk(t)
  PROVE  LifeInv'
<1>1. /\ phase = "tasks" /\ phase' = "walk" /\ todo' = WalkOrder
      /\ vTaskSuspendAll(t) /\ UNCHANGED <<blockVars, pxFirstTCB, report>>
  BY DEF StartWalk, AtLeisure
<1>2. IInv /\ pxFirstTCB = Null /\ report = << >> /\ LifeTypeOK
  BY <1>1 DEF LifeInv, KernelState, Alive, WalkOK
<1>3. /\ xSchedulerRunning /\ kernel = "none" /\ t = pxCurrentTCB /\ pc[t] = "run"
      /\ UNCHANGED <<lists, tcb, reaped, pxCurrentTCB, xSchedulerRunning, pc, kernel,
                     uxTopUsedPriority, uxPriority>>
      /\ uxSchedulerSuspended' = uxSchedulerSuspended + 1
  BY <1>1, <1>2, AtFacts DEF vTaskSuspendAll, Call, SuspendAllVars, listVars, taskVars,
     loopVars
<1>4. IInv'
  BY <1>1, <1>2, NextInv DEF Next, ApplicationCall, AllTasks
<1>5. /\ WalkOrder \in Seq(Lists)
      /\ \A j \in 1 .. Len(WalkOrder) : WalkOrder[j] \in Walkable
      /\ \A j, k \in 1 .. Len(WalkOrder) : WalkOrder[j] = WalkOrder[k] => j = k
      /\ \A L \in Walkable : \E j \in 1 .. Len(WalkOrder) : WalkOrder[j] = L
      /\ Walkable' = Walkable
  BY <1>2, <1>3, OrderFacts DEF IInv, TypeOK, Walkable, Swept
<1>6. LifeTypeOK'
  BY <1>1, <1>2, <1>5 DEF LifeTypeOK, blockVars, Phases
<1>7. KernelState' /\ MemoryOK' /\ CleanOK'
  BY <1>1, <1>3, <1>4, WalkMemory DEF Alive
<1>8. WalkerOK'
  <2>1. uxSchedulerSuspended \in Nat
    BY <1>2, TasksAssumption DEF IInv, TypeOK
  <2>2. QED
    BY <1>3, <2>1 DEF WalkerOK
<1>9. TodoOK'
  BY <1>1, <1>5 DEF TodoOK
<1>10. LinesOK'
  <2>1. \A s : Lines(s)' = {}
    BY <1>1, <1>2 DEF Lines
  <2>2. \A s \in AllTasks : Container(s)' \in Walkable' => InTodo(Container(s))'
    BY <1>1, <1>5 DEF InTodo
  <2>3. QED
    BY <2>1, <2>2 DEF LinesOK
<1>11. WalkOK'
  BY <1>1, <1>2, <1>8, <1>9, <1>10 DEF WalkOK
<1>12. QED
  BY <1>6, <1>7, <1>11 DEF LifeInv

\* A line is added to the report, the others stay.
LEMMA LineWritten ==
  ASSUME report \in Seq(AllTasks \X {"R", "B", "D", "S"}),
         \A t \in AllTasks : Container(t)' = Container(t),
         NEW c \in AllTasks, report' = Append(report, <<c, Status(Container(c))>>)
  PROVE  /\ \A t \in AllTasks \ {c} : Lines(t)' = Lines(t) /\ (Once(t) => Once(t)')
         /\ Lines(c) = {} => Once(c)'
<1>1. /\ Len(report) \in Nat /\ Len(report') = Len(report) + 1
      /\ \A i \in 1 .. Len(report) : report'[i] = report[i]
      /\ report'[Len(report) + 1] = <<c, Status(Container(c))>>
  OBVIOUS
<1>2. 1 .. Len(report') = (1 .. Len(report)) \cup {Len(report) + 1}
  BY <1>1
<1>3. \A t \in AllTasks : Status(Container(t))' = Status(Container(t))
  BY DEF Status
<1>4. ASSUME NEW t \in AllTasks \ {c}
      PROVE  Lines(t)' = Lines(t) /\ (Once(t) => Once(t)')
  <2>1. Lines(t)' = Lines(t)
    BY <1>1, <1>2 DEF Lines
  <2>2. \A i \in Lines(t) : report'[i] = report[i]
    BY <1>1 DEF Lines
  <2>3. QED
    BY <1>3, <2>1, <2>2 DEF Once
<1>5. ASSUME Lines(c) = {} PROVE Once(c)'
  <2>1. Lines(c)' = {Len(report) + 1}
    BY <1>1, <1>2, <1>5 DEF Lines
  <2>2. QED
    BY <1>1, <1>3, <2>1 DEF Once
<1>6. QED
  BY <1>4, <1>5

\* The first list to do is done: its tasks are written, and no others.
LEMMA HeadDone ==
  ASSUME LifeInv, phase = "walk", todo # << >>, todo' = Tail(todo), pxFirstTCB' = Null,
         UNCHANGED uxTopUsedPriority,
         \A t \in AllTasks :
           /\ Container(t)' = Container(t)
           /\ IF Container(t) = Head(todo) THEN Once(t)'
              ELSE Lines(t)' = Lines(t) /\ (Once(t) => Once(t)')
  PROVE  TodoOK' /\ LinesOK'
<1>1. TodoOK /\ LinesOK /\ todo \in Seq(Lists)
  BY WalkFacts
<1>2. /\ Len(todo) \in Nat \ {0} /\ Head(todo) = todo[1]
      /\ Len(todo') = Len(todo) - 1
      /\ \A j \in 1 .. Len(todo') : todo'[j] = todo[j + 1]
  BY <1>1, TailFacts
<1>3. Walkable' = Walkable
  BY DEF Walkable, Swept
<1>4. \A j \in 1 .. Len(todo') : j + 1 \in 1 .. Len(todo) /\ j + 1 > 1 /\ j + 1 # 1
  BY <1>2
<1>5. TodoOK'
  BY <1>1, <1>2, <1>3, <1>4 DEF TodoOK
<1>6. 1 \in 1 .. Len(todo)
  BY <1>2
<1>7. \A L : InTodo(L) => L = Head(todo) \/ InTodo(L)'
  <2>1. ASSUME NEW j \in 1 .. Len(todo), j # 1
        PROVE  j - 1 \in 1 .. Len(todo') /\ todo'[j - 1] = todo[j]
    <3>1. j - 1 \in 1 .. Len(todo') /\ j - 1 + 1 = j
      BY <1>2, <2>1
    <3>2. QED
      BY <1>2, <3>1
  <2>2. QED
    BY <1>2, <2>1 DEF InTodo
<1>8. ASSUME NEW t \in AllTasks
      PROVE  /\ Container(t) \notin Walkable => Lines(t)' = {}
             /\ Container(t) \in Walkable /\ ~ InTodo(Container(t))' => Once(t)'
             /\ \A j \in 1 .. Len(todo') : Container(t) = todo'[j] => Lines(t)' = {}
  <2>1. CASE Container(t) = Head(todo)
    <3>1. Container(t) \in Walkable /\ Once(t)'
      BY <1>1, <1>2, <1>6, <2>1 DEF TodoOK
    <3>2. \A j \in 1 .. Len(todo') : todo'[j] # todo[1]
      BY <1>1, <1>2, <1>4, <1>6 DEF TodoOK
    <3>3. QED
      BY <1>2, <2>1, <3>1, <3>2
  <2>2. CASE Container(t) # Head(todo)
    <3>1. /\ Container(t) \notin Walkable => Lines(t) = {}
          /\ Container(t) \in Walkable /\ ~ InTodo(Container(t)) => Once(t)
          /\ \A j \in 1 .. Len(todo) : Container(t) = todo[j] /\ j > 1 => Lines(t) = {}
          /\ Lines(t)' = Lines(t) /\ (Once(t) => Once(t)')
      BY <1>1, <2>2 DEF LinesOK
    <3>2. QED
      BY <1>2, <1>4, <1>7, <2>2, <3>1
  <2>3. QED
    BY <2>1, <2>2
<1>9. \A L : InTodo(L)' <=> \E j \in 1 .. Len(todo') : todo'[j] = L
  BY DEF InTodo
<1>10. LinesOK'
  BY <1>3, <1>8, <1>9 DEF LinesOK
<1>11. QED
  BY <1>5, <1>10

\* A list without tasks is passed over.
LEMMA SkipEmptyInv ==
  ASSUME LifeInv, SkipEmpty
  PROVE  LifeInv'
<1>1. /\ phase = "walk" /\ todo # << >> /\ listLIST_IS_EMPTY(lists, Head(todo))
      /\ todo' = Tail(todo) /\ xSchedulerRunning
      /\ UNCHANGED <<vars, blockVars, pxFirstTCB, report, phase>>
      /\ UNCHANGED <<lists, tcb, reaped, pxCurrentTCB, xSchedulerRunning,
                     uxSchedulerSuspended, kernel, pc, uxTopUsedPriority>>
  BY DEF SkipEmpty, Walking, At, InterruptsOn, vars, listVars, taskVars, loopVars
<1>2. /\ IInv /\ WellFormed(lists) /\ WalkerOK /\ todo \in Seq(Lists)
      /\ pxFirstTCB # Null => PartWalked(Head(todo))
  BY <1>1, WalkFacts
<1>3. /\ Head(todo) \in Lists /\ Tail(todo) \in Seq(Lists)
  BY <1>1, <1>2, TailFacts
<1>4. pxFirstTCB = Null
  BY <1>1, <1>2 DEF PartWalked, listLIST_IS_EMPTY
<1>5. \A t \in AllTasks : Container(t) # Head(todo)
  BY <1>1, <1>2, <1>3, NotEmpty, ItemFacts DEF WellFormed, Container
<1>6. \A t \in AllTasks : /\ Container(t)' = Container(t) /\ Lines(t)' = Lines(t)
                          /\ Once(t)' = Once(t)
  BY <1>1 DEF Container, Lines, Once, Status
<1>7. TodoOK' /\ LinesOK'
  BY <1>1, <1>4, <1>5, <1>6, HeadDone
<1>8. IInv'
  BY <1>1, <1>2 DEF vars, listVars, taskVars, timeVars, missedVars, queueVars,
     loopVars, IInv, TypeOK, ListsAgree, Placement, Accounting, LabelsOK, KernelOK,
     CurrentOK, IdleOK, BeforeOK, TopOK, Container, IsReady
<1>9. KernelState' /\ MemoryOK' /\ CleanOK'
  BY <1>1, <1>8, WalkMemory DEF Alive
<1>10. LifeTypeOK'
  BY <1>1, <1>3 DEF LifeInv, LifeTypeOK, blockVars
<1>11. WalkOK'
  BY <1>1, <1>2, <1>4, <1>7 DEF WalkOK, WalkerOK
<1>12. QED
  BY <1>9, <1>10, <1>11 DEF LifeInv

\* listGET_OWNER_OF_NEXT_ENTRY within a walk.
WalkStep(L) ==
  /\ lists' = AdvanceIndex(lists, L)
  /\ UNCHANGED <<uxTopReadyPriority, taskVars, timeVars, missedVars, queueVars,
                 loopVars, pxCurrentTCB, xSchedulerRunning, uxSchedulerSuspended,
                 yieldPending, pc, fault, blockVars, phase>>

\* The cursor moves from position i to the next one of a task c.
LEMMA WalkStepFacts ==
  ASSUME LifeInv, phase = "walk", todo # << >>, NEW L, L = Head(todo),
         ~ listLIST_IS_EMPTY(lists, L), WalkStep(L)
  PROVE  /\ KernelState' /\ MemoryOK' /\ CleanOK' /\ WalkerOK'
         /\ L \in Walkable /\ L \in Lists \ (EventLists \cup {Pending})
         /\ lists'.ring = lists.ring /\ Walkable' = Walkable
         /\ UNCHANGED uxTopUsedPriority
         /\ \A t \in AllTasks : Container(t)' = Container(t)
         /\ Len(lists.ring[L]) \in Nat \ {0}
         /\ lists.index[L] \in Nat /\ lists.index[L] <= Len(lists.ring[L])
         /\ lists'.index[L] = IF lists.index[L] = Len(lists.ring[L]) THEN 1
                              ELSE lists.index[L] + 1
         /\ ItemAtIndex(lists', L) = lists.ring[L][lists'.index[L]]
<1>1. /\ IInv /\ WellFormed(lists) /\ WalkerOK /\ TodoOK /\ todo \in Seq(Lists)
      /\ Walkable \subseteq Lists \ (EventLists \cup {Pending})
  BY WalkFacts
<1>2. L \in Walkable
  BY <1>1, TailFacts DEF TodoOK
<1>3. L \in Lists \ (EventLists \cup {Pending})
  BY <1>1, <1>2
<1>4. /\ IInv'
      /\ lists'.ring = lists.ring /\ lists'.container = lists.container
      /\ lists'.index[L] = IF lists.index[L] = Len(lists.ring[L]) THEN 1
                           ELSE lists.index[L] + 1
  BY <1>1, <1>3, CursorMoves DEF WalkStep
<1>5. /\ UNCHANGED <<uxTopUsedPriority, tcb, reaped, kernel, phase>>
      /\ WalkerOK' /\ xSchedulerRunning /\ UNCHANGED <<xSchedulerRunning, pxCurrentTCB>>
  BY <1>1 DEF WalkStep, taskVars, loopVars, WalkerOK
<1>6. KernelState' /\ MemoryOK' /\ CleanOK'
  BY <1>4, <1>5, WalkMemory DEF WalkStep, Alive
<1>7. /\ Len(lists.ring[L]) \in Nat \ {0}
      /\ lists.index[L] \in Nat /\ lists.index[L] <= Len(lists.ring[L])
  BY <1>1, <1>3, NotEmpty DEF WellFormed, ListsOK, XLists, IndexInRing
<1>8. Walkable' = Walkable
  BY <1>5 DEF Walkable, Swept
<1>9. QED
  BY <1>2, <1>3, <1>4, <1>5, <1>6, <1>7, <1>8 DEF Container, ItemAtIndex

\* Before the loop: the task the cursor comes to is remembered, none written.
LEMMA WalkFirstInv ==
  ASSUME LifeInv, WalkFirst
  PROVE  LifeInv'
<1>1. PICK L : L = Head(todo)
  OBVIOUS
<1>2. /\ phase = "walk" /\ todo # << >> /\ pxFirstTCB = Null
      /\ ~ listLIST_IS_EMPTY(lists, L) /\ WalkStep(L)
      /\ pxFirstTCB' = Owner(ItemAtIndex(lists', L))
      /\ UNCHANGED <<todo, report, phase>>
  BY <1>1 DEF WalkFirst, Walking, WalkStep
<1>3. /\ KernelState' /\ MemoryOK' /\ CleanOK' /\ WalkerOK'
      /\ L \in Lists \ (EventLists \cup {Pending})
      /\ lists'.ring = lists.ring /\ Walkable' = Walkable
      /\ \A t \in AllTasks : Container(t)' = Container(t)
      /\ Len(lists.ring[L]) \in Nat \ {0}
      /\ lists.index[L] \in Nat /\ lists.index[L] <= Len(lists.ring[L])
      /\ lists'.index[L] = IF lists.index[L] = Len(lists.ring[L]) THEN 1
                           ELSE lists.index[L] + 1
      /\ ItemAtIndex(lists', L) = lists.ring[L][lists'.index[L]]
  BY <1>1, <1>2, WalkStepFacts
<1>4. /\ WellFormed(lists) /\ TodoOK /\ LinesOK /\ todo \in Seq(Lists)
      /\ \A t \in AllTasks : lists.container[Event(t)] \in EventLists \cup {Pending, Null}
  BY <1>2, WalkFacts
<1>5. PICK f : f = lists'.index[L]
  OBVIOUS
<1>6. /\ f \in 1 .. Len(lists.ring[L])
      /\ pxFirstTCB' = Owner(lists.ring[L][f])
      /\ \A k \in 1 .. Len(lists.ring[L]) : ~ Passed(f, f, k)
  BY <1>2, <1>3, <1>5 DEF Passed
<1>7. \A k \in 1 .. Len(lists.ring[L]) :
        /\ Owner(lists.ring[L][k]) \in AllTasks
        /\ Container(Owner(lists.ring[L][k])) = L
  BY <1>3, <1>4, WalkedItems
<1>8. pxFirstTCB' \in AllTasks /\ pxFirstTCB' # Null
  BY <1>6, <1>7, ListFacts
<1>9. /\ \A t : Lines(t)' = Lines(t)
      /\ \A M : InTodo(M)' = InTodo(M)
      /\ \A t \in AllTasks : Once(t)' = Once(t)
  BY <1>2, <1>3 DEF Lines, InTodo, Once, Status
<1>10. \A k \in 1 .. Len(lists.ring[L]) : Lines(Owner(lists.ring[L][k])) = {}
  <2>1. 1 \in 1 .. Len(todo) /\ todo[1] = L
    BY <1>1, <1>2, <1>4, TailFacts
  <2>2. QED
    BY <1>2, <1>4, <1>7, <2>1 DEF LinesOK
<1>11. PartWalked(L)'
  BY <1>3, <1>5, <1>6, <1>9, <1>10 DEF PartWalked
<1>12. TodoOK'
  BY <1>2, <1>3, <1>4 DEF TodoOK
<1>13. LinesOK'
  BY <1>2, <1>3, <1>4, <1>8, <1>9 DEF LinesOK
<1>14. WalkOK'
  BY <1>1, <1>2, <1>3, <1>11, <1>12, <1>13 DEF WalkOK
<1>15. LifeTypeOK'
  BY <1>2, <1>8 DEF LifeInv, LifeTypeOK, WalkStep, blockVars
<1>16. QED
  BY <1>3, <1>14, <1>15 DEF LifeInv

\* Of the lists of a walk, the letter that vTaskList writes.
LEMMA StatusType ==
  ASSUME uxTopUsedPriority \in Priorities, NEW L \in Walkable
  PROVE  Status(L) \in {"R", "B", "D", "S"}
<1>1. 0 .. uxTopUsedPriority \subseteq Priorities
  BY TasksAssumption DEF Priorities
<1>2. L \in ReadyLists \cup DelayedLists \cup {Suspended, Termination}
  BY <1>1 DEF Walkable, Swept, ReadyLists
<1>3. ReadyLists \cap DelayedLists = {} /\ Termination \notin ReadyLists \cup DelayedLists
      /\ Suspended \notin ReadyLists \cup DelayedLists /\ Suspended # Termination
  BY ListFacts DEF ReadyLists
<1>4. QED
  BY <1>2, <1>3 DEF Status

\* A round of the loop writes the task the cursor comes to; that of the first
\* task is the last one.
LEMMA WalkNextInv ==
  ASSUME LifeInv, WalkNext
  PROVE  LifeInv'
<1>1. PICK L : L = Head(todo)
  OBVIOUS
<1>2. PICK j : j = lists'.index[L]
  OBVIOUS
<1>3. /\ phase = "walk" /\ todo # << >> /\ pxFirstTCB # Null /\ WalkStep(L)
      /\ UNCHANGED phase
  BY <1>1 DEF WalkNext, Walking, WalkStep
<1>4. /\ WellFormed(lists) /\ TodoOK /\ LinesOK /\ todo \in Seq(Lists)
      /\ report \in Seq(AllTasks \X {"R", "B", "D", "S"})
      /\ PartWalked(L) /\ IInv
      /\ \A t \in AllTasks : lists.container[Event(t)] \in EventLists \cup {Pending, Null}
  BY <1>1, <1>3, WalkFacts
<1>5. ~ listLIST_IS_EMPTY(lists, L)
  BY <1>4 DEF PartWalked, listLIST_IS_EMPTY
<1>6. /\ KernelState' /\ MemoryOK' /\ CleanOK' /\ WalkerOK'
      /\ L \in Walkable /\ L \in Lists \ (EventLists \cup {Pending})
      /\ lists'.ring = lists.ring /\ Walkable' = Walkable
      /\ UNCHANGED uxTopUsedPriority
      /\ \A t \in AllTasks : Container(t)' = Container(t)
      /\ Len(lists.ring[L]) \in Nat \ {0}
      /\ j = IF lists.index[L] = Len(lists.ring[L]) THEN 1 ELSE lists.index[L] + 1
      /\ ItemAtIndex(lists', L) = lists.ring[L][j]
  BY <1>1, <1>2, <1>3, <1>5, WalkStepFacts
<1>7. PICK c : c = Owner(lists.ring[L][j])
  OBVIOUS
<1>8. PICK f \in 1 .. Len(lists.ring[L]) :
        /\ Owner(lists.ring[L][f]) = pxFirstTCB
        /\ \A k \in 1 .. Len(lists.ring[L]) :
             IF Passed(f, lists.index[L], k) THEN Once(Owner(lists.ring[L][k]))
             ELSE Lines(Owner(lists.ring[L][k])) = {}
  BY <1>4 DEF PartWalked
<1>9. lists.index[L] \in 1 .. Len(lists.ring[L])
  BY <1>4 DEF PartWalked
<1>10. /\ j \in 1 .. Len(lists.ring[L]) /\ ~ Passed(f, lists.index[L], j)
       /\ j = f => \A k \in 1 .. Len(lists.ring[L]) \ {j} : Passed(f, lists.index[L], k)
       /\ j # f => \A k \in 1 .. Len(lists.ring[L]) :
                     Passed(f, j, k) <=> Passed(f, lists.index[L], k) \/ k = j
  <2>1. PICK n \in Nat \ {0} : n = Len(lists.ring[L])
    BY <1>6
  <2>2. PICK i \in 1 .. n : i = lists.index[L]
    BY <1>9, <2>1
  <2>3. f \in 1 .. n /\ j = IF i = n THEN 1 ELSE i + 1
    BY <1>6, <1>8, <2>1, <2>2
  <2>4. /\ j \in 1 .. n /\ ~ Passed(f, i, j)
        /\ j = f => \A k \in 1 .. n \ {j} : Passed(f, i, k)
        /\ j # f => \A k \in 1 .. n : Passed(f, j, k) <=> Passed(f, i, k) \/ k = j
    <3>1. j \in 1 .. n /\ ~ Passed(f, i, j)
      BY ONLY <2>2, <2>3 DEF Passed
    <3>2. ASSUME j = f, NEW k \in 1 .. n \ {j} PROVE Passed(f, i, k)
      BY ONLY <2>2, <2>3, <3>2 DEF Passed
    <3>3. ASSUME j # f, NEW k \in 1 .. n
          PROVE  Passed(f, j, k) <=> Passed(f, i, k) \/ k = j
      BY ONLY <2>2, <2>3, <3>3 DEF Passed
    <3>4. QED
      BY ONLY <3>1, <3>2, <3>3
  <2>5. QED
    BY <2>1, <2>2, <2>4
<1>11. /\ \A k \in 1 .. Len(lists.ring[L]) :
            /\ Owner(lists.ring[L][k]) \in AllTasks
            /\ Container(Owner(lists.ring[L][k])) = L
            /\ k # j => Owner(lists.ring[L][k]) # c
       /\ \A t \in AllTasks : Container(t) = L =>
            \E k \in 1 .. Len(lists.ring[L]) : Owner(lists.ring[L][k]) = t
       /\ c = pxFirstTCB <=> j = f
  <2>1. /\ \A k \in 1 .. Len(lists.ring[L]) :
             /\ Owner(lists.ring[L][k]) \in AllTasks
             /\ Container(Owner(lists.ring[L][k])) = L
        /\ \A t \in AllTasks : Container(t) = L =>
             \E k \in 1 .. Len(lists.ring[L]) : Owner(lists.ring[L][k]) = t
        /\ \A h, k \in 1 .. Len(lists.ring[L]) :
             Owner(lists.ring[L][h]) = Owner(lists.ring[L][k]) => h = k
    BY <1>4, <1>6, WalkedItems
  <2>2. QED
    BY <1>7, <1>8, <1>10, <2>1
<1>12. c \in AllTasks /\ Container(c) = L /\ Lines(c) = {}
  BY <1>7, <1>8, <1>10, <1>11
<1>13. /\ report' = Append(report, <<c, Status(Container(c))>>)
       /\ IF j = f THEN todo' = Tail(todo) /\ pxFirstTCB' = Null
          ELSE UNCHANGED <<todo, pxFirstTCB>>
  <2>1. lists' = AdvanceIndex(lists, L) /\ Owner(ItemAtIndex(lists', L)) = c
    BY <1>3, <1>6, <1>7 DEF WalkStep
  <2>2. QED
    BY <1>1, <1>11, <1>12, <2>1 DEF WalkNext
<1>14. /\ \A t \in AllTasks \ {c} : Lines(t)' = Lines(t) /\ (Once(t) => Once(t)')
       /\ Once(c)'
  BY <1>4, <1>6, <1>12, <1>13, LineWritten
<1>15. Status(Container(c)) \in {"R", "B", "D", "S"}
  BY <1>4, <1>6, <1>12, StatusType DEF IInv, TypeOK
<1>16. LifeTypeOK'
  <2>1. todo' \in Seq(Lists) /\ pxFirstTCB' \in AllTasks \cup {Null}
    BY <1>3, <1>4, <1>13, TailFacts DEF LifeInv, LifeTypeOK
  <2>2. report' \in Seq(AllTasks \X {"R", "B", "D", "S"})
    BY <1>4, <1>12, <1>13, <1>15
  <2>3. QED
    BY <1>3, <2>1, <2>2 DEF LifeInv, LifeTypeOK, WalkStep, blockVars
<1>17. WalkOK'
  <2>1. CASE j = f
    <3>1. ASSUME NEW t \in AllTasks, Container(t) = L
          PROVE  Once(t)'
      <4>1. PICK k \in 1 .. Len(lists.ring[L]) : Owner(lists.ring[L][k]) = t
        BY <1>11, <3>1
      <4>2. CASE k = j
        BY <1>7, <1>14, <4>1, <4>2
      <4>3. CASE k # j
        <5>1. t # c /\ Once(t)
          BY <1>8, <1>10, <1>11, <2>1, <4>1, <4>3
        <5>2. QED
          BY <1>14, <5>1
      <4>4. QED
        BY <4>2, <4>3
    <3>2. TodoOK' /\ LinesOK'
      BY <1>1, <1>3, <1>6, <1>12, <1>13, <1>14, <2>1, <3>1, HeadDone
    <3>3. QED
      BY <1>3, <1>6, <1>13, <2>1, <3>2 DEF WalkOK
  <2>2. CASE j # f
    <3>1. UNCHANGED <<todo, pxFirstTCB>> /\ 1 \in 1 .. Len(todo) /\ todo[1] = L
      BY <1>1, <1>3, <1>4, <1>13, <2>2, TailFacts
    <3>2. TodoOK'
      BY <1>4, <1>6, <3>1 DEF TodoOK
    <3>3. LinesOK'
      <4>1. \A M : InTodo(M)' = InTodo(M)
        BY <3>1 DEF InTodo
      <4>2. InTodo(L)
        BY <3>1 DEF InTodo
      <4>3. \A k \in 1 .. Len(todo) : k > 1 => todo[k] # L
        BY <1>4, <3>1 DEF TodoOK
      <4>4. ASSUME NEW t \in AllTasks
            PROVE  /\ Container(t) \notin Walkable => Lines(t)' = {}
                   /\ Container(t) \in Walkable /\ ~ InTodo(Container(t)) => Once(t)'
                   /\ \A k \in 1 .. Len(todo) :
                        Container(t) = todo[k] /\ k > 1 => Lines(t)' = {}
        BY <1>4, <1>6, <1>12, <1>14, <4>2, <4>3 DEF LinesOK
      <4>5. QED
        BY <1>3, <1>6, <3>1, <4>1, <4>4 DEF LinesOK
    <3>4. \A k \in 1 .. Len(lists.ring[L]) :
            IF Passed(f, j, k) THEN Once(Owner(lists.ring[L][k]))'
            ELSE Lines(Owner(lists.ring[L][k]))' = {}
      <4>1. ASSUME NEW k \in 1 .. Len(lists.ring[L])
            PROVE  IF Passed(f, j, k) THEN Once(Owner(lists.ring[L][k]))'
                   ELSE Lines(Owner(lists.ring[L][k]))' = {}
        <5>1. PICK t \in AllTasks : t = Owner(lists.ring[L][k])
          BY <1>11, SMTT(30)
        <5>2. CASE k = j
          BY <1>6, <1>7, <1>10, <1>14, <2>2, <5>2
        <5>3. CASE k # j
          BY <1>6, <1>8, <1>10, <1>11, <1>14, <2>2, <5>3
        <5>4. QED
          BY <5>2, <5>3
      <4>2. QED
        BY <4>1
    <3>5. PartWalked(L)'
      <4>1. lists'.ring[L] = lists.ring[L] /\ lists'.index[L] = j
            /\ pxFirstTCB' = Owner(lists.ring[L][f])
        BY <1>2, <1>6, <1>8, <3>1
      <4>2. PICK ring : ring = lists.ring[L]
        OBVIOUS
      <4>3. \A k \in 1 .. Len(ring) :
              IF Passed(f, j, k) THEN Once(Owner(ring[k]))'
              ELSE Lines(Owner(ring[k]))' = {}
        BY <3>4, <4>1, <4>2
      <4>4. lists'.ring[L] = ring /\ lists'.index[L] = j /\ j \in 1 .. Len(ring)
            /\ f \in 1 .. Len(ring) /\ pxFirstTCB' = Owner(ring[f])
        BY <1>8, <1>10, <4>1, <4>2
      <4>5. QED
        BY <4>3, <4>4 DEF PartWalked
    <3>6. QED
      BY <1>1, <1>3, <1>6, <3>1, <3>2, <3>3, <3>5 DEF WalkOK
  <2>3. QED
    BY <2>1, <2>2
<1>18. QED
  BY <1>6, <1>16, <1>17 DEF LifeInv

\* xTaskResumeAll, and the report is handed over.
LEMMA WalkEndInv ==
  ASSUME "DeleteBeforeStart" \notin Calls, LifeInv, NEW t \in Tasks, WalkEnd(t)
  PROVE  LifeInv'
<1>1. /\ phase = "walk" /\ phase' = "tasks" /\ todo = << >> /\ report' = << >>
      /\ xTaskResumeAll(t) /\ UNCHANGED <<blockVars, todo, pxFirstTCB>>
  BY DEF WalkEnd
<1>2. /\ IInv /\ xSchedulerRunning /\ pxFirstTCB = Null
  BY <1>1, WalkFacts DEF WalkerOK
<1>3. IInv' /\ UNCHANGED <<tcb, reaped, pxCurrentTCB, xSchedulerRunning>>
  BY <1>1, <1>2, NextInv, CallFrame DEF Next, FinishCall, AllTasks
<1>4. KernelState' /\ MemoryOK' /\ CleanOK'
  BY <1>1, <1>2, <1>3, WalkMemory DEF Alive
<1>5. LifeTypeOK'
  BY <1>1 DEF LifeInv, LifeTypeOK, blockVars, Phases
<1>6. WalkOK'
  BY <1>1, <1>2 DEF WalkOK
<1>7. QED
  BY <1>4, <1>5, <1>6 DEF LifeInv

-----------------------------------------------------------------------------
(* vTaskEndScheduler and vTaskCleanUpResources *)

\* The scheduler ends: what the kernel kept of its lists is what the clean-up
\* goes by, and all that it may sweep is before it.
LEMMA EndSchedulerInv ==
  ASSUME LifeInv, NEW t \in Tasks, vTaskEndScheduler(t)
  PROVE  LifeInv'
<1>1. /\ phase = "tasks" /\ phase' = "clean" /\ todo' = CleanUpOrder
      /\ xSchedulerRunning' = FALSE
      /\ UNCHANGED <<lists, tcb, reaped, uxPriority, uxTopUsedPriority, kernel,
                     pxCurrentTCB, blockVars, pxFirstTCB, report>>
      /\ At(t, "run")
  BY DEF vTaskEndScheduler, AtLeisure, Call, listVars, taskVars, loopVars
<1>2. IInv /\ pxFirstTCB = Null /\ report = << >> /\ LifeTypeOK /\ KernelState
  BY <1>1 DEF LifeInv, KernelState, Alive, WalkOK
<1>3. kernel = "none"
  BY <1>1, <1>2, AtFacts
<1>4. /\ CleanUpOrder \in Seq(Lists)
      /\ \A j \in 1 .. Len(CleanUpOrder) : CleanUpOrder[j] \in Swept
      /\ \A L \in Swept : \E j \in 1 .. Len(CleanUpOrder) : CleanUpOrder[j] = L
      /\ Swept' = Swept
  BY <1>1, <1>2, OrderFacts DEF IInv, TypeOK, Swept
<1>5. \A x \in AllTasks :
        /\ Container(x)' = Container(x)
        /\ Container(x) \in {Ready(uxPriority[x]), Suspended, Termination, Null}
                               \cup DelayedLists
        /\ lists.container[Event(x)] \in EventLists \cup {Pending, Null}
        /\ Container(x) # Null <=> x \in tcb /\ x # reaped
  BY <1>1, <1>2, PlacedNow, ListedTasks DEF Placed, Container
<1>6. DeadOK'
  <2>1. WellFormed(lists) /\ tcb \subseteq AllTasks /\ uxTopUsedPriority \in Priorities
        /\ uxPriority \in [AllTasks -> Priorities]
    BY <1>2, WellFormedNow DEF IInv, TypeOK
  <2>2. QED
    BY <1>1, <1>3, <1>5, <2>1 DEF DeadOK
<1>7. KernelState'
  BY <1>1, <1>6 DEF KernelState, Alive
<1>8. MemoryOK'
  BY <1>1, <1>7, MemoryKept DEF LifeInv, MemoryOK
<1>9. CleanOK'
  BY <1>1, <1>4, <1>5 DEF CleanOK, InTodo
<1>10. LifeTypeOK' /\ WalkOK'
  BY <1>1, <1>2, <1>4 DEF LifeTypeOK, WalkOK, Phases, blockVars
<1>11. QED
  BY <1>7, <1>8, <1>9, <1>10 DEF LifeInv

\* What is known of the clean-up.
LEMMA CleanFacts ==
  ASSUME LifeInv, phase \in {"clean", "ended"}
  PROVE  /\ DeadOK /\ todo \in Seq(Lists) /\ pxFirstTCB = Null /\ report = << >>
         /\ \A j \in 1 .. Len(todo) : todo[j] \in Swept
         /\ \A t \in AllTasks : Container(t) \in Swept => InTodo(Container(t))
         /\ Swept \subseteq Lists \ (EventLists \cup {Pending})
BY WalkableLists DEF LifeInv, LifeTypeOK, KernelState, DeadOK, Alive, WalkOK, CleanOK

\* The first task of the first list to do leaves it and is freed, once.
LEMMA CleanUpOneInv ==
  ASSUME LifeInv, CleanUpOne
  PROVE  LifeInv'
<1>1. PICK L, next : L = Head(todo) /\ next = AdvanceIndex(lists, L)
  OBVIOUS
<1>2. PICK t : t = Owner(ItemAtIndex(next, L))
  OBVIOUS
<1>3. /\ phase = "clean" /\ todo # << >> /\ ~ listLIST_IS_EMPTY(lists, L)
      /\ lists' = vListRemove(next, Generic(t)) /\ tcb' = tcb \ {t}
      /\ tcbBlock' = tcbBlock \ {t} /\ stackBlock' = stackBlock \ {t}
      /\ UNCHANGED <<uxPriority, uxTopUsedPriority, reaped, kernel, pxCurrentTCB,
                     xSchedulerRunning, making, lost, todo, pxFirstTCB, report, phase>>
  BY <1>1, <1>2 DEF CleanUpOne, loopVars, walkVars
<1>4. /\ DeadOK /\ todo \in Seq(Lists) /\ pxFirstTCB = Null /\ report = << >>
      /\ \A j \in 1 .. Len(todo) : todo[j] \in Swept
      /\ \A x \in AllTasks : Container(x) \in Swept => InTodo(Container(x))
      /\ Swept \subseteq Lists \ (EventLists \cup {Pending}) /\ WellFormed(lists)
  BY <1>3, CleanFacts DEF DeadOK
<1>5. L \in Lists
  BY <1>1, <1>3, <1>4, TailFacts
<1>6. L \in Lists \ (EventLists \cup {Pending})
  <2>1. 1 \in 1 .. Len(todo) /\ L = todo[1]
    BY <1>1, <1>3, <1>4, TailFacts
  <2>2. QED
    BY <1>4, <2>1
<1>7. /\ WellFormed(next) /\ next.container = lists.container
      /\ ItemAtIndex(next, L) \in Items
      /\ lists.container[ItemAtIndex(next, L)] = L
  BY <1>1, <1>3, <1>4, <1>5, AdvanceKeeps DEF WellFormed, SameLists
<1>8. t \in AllTasks /\ Container(t) = L
  <2>1. /\ t \in AllTasks
        /\ \/ ItemAtIndex(next, L) = Generic(t) \/ ItemAtIndex(next, L) = Event(t)
    BY <1>2, <1>7, ItemFacts
  <2>2. lists.container[Event(t)] \in EventLists \cup {Pending, Null} /\ Null \notin Lists
    BY <1>4, <2>1, ListFacts DEF DeadOK
  <2>3. QED
    BY <1>6, <1>7, <2>1, <2>2 DEF Container
<1>9. /\ WellFormed(lists') /\ Container(t)' = Null
      /\ lists'.container[Event(t)] = lists.container[Event(t)]
      /\ \A x \in AllTasks \ {t} :
           /\ Container(x)' = Container(x)
           /\ lists'.container[Event(x)] = lists.container[Event(x)]
  <2>1. Relocated(next, lists', t, Null, next.container[Event(t)])
    BY <1>3, <1>5, <1>7, <1>8, RemoveGeneric DEF Container
  <2>2. QED
    BY <1>7, <1>8, <2>1, RelocatedPlaces DEF Container
<1>10. t \in tcb /\ t # reaped /\ L # Null
  BY <1>4, <1>5, <1>8, ListFacts DEF DeadOK
<1>11. DeadOK' /\ KernelState'
  BY <1>3, <1>4, <1>9, <1>10 DEF DeadOK, KernelState, Alive
<1>12. MemoryOK'
  <2>1. /\ HeapMatches /\ tcb \ {reaped} \subseteq stackBlock /\ lost \cap tcb = {}
        /\ ~ xSchedulerRunning
    BY <1>4 DEF LifeInv, MemoryOK, DeadOK
  <2>2. t \notin lost /\ \A s \in AllTasks : making[s] # t
    BY <1>8, <1>10, <2>1, ListFacts DEF HeapMatches
  <2>3. tcbBlock' = tcb' \cup ({making'[s] : s \in AllTasks} \ {Null}) \cup lost'
    BY <1>3, <2>1, <2>2 DEF HeapMatches
  <2>4. \A x \in AllTasks : Container(x)' # Null => x \in tcbBlock' /\ x \in stackBlock'
    BY <1>3, <1>9, <2>1 DEF HeapMatches
  <2>5. HeapMatches'
    BY <1>3, <2>1, <2>3, <2>4 DEF HeapMatches
  <2>6. QED
    BY <1>3, <2>1, <2>5 DEF MemoryOK
<1>13. CleanOK'
  <2>1. Swept' = Swept /\ Null \notin Swept /\ \A M : InTodo(M)' = InTodo(M)
    BY <1>3, <1>4, ListFacts DEF Swept, InTodo
  <2>2. QED
    BY <1>3, <1>4, <1>9, <2>1 DEF CleanOK
<1>14. LifeTypeOK' /\ WalkOK'
  BY <1>3, <1>4 DEF LifeInv, LifeTypeOK, WalkOK
<1>15. QED
  BY <1>11, <1>12, <1>13, <1>14 DEF LifeInv

\* A list is left when it is empty, and the last one ends the clean-up.
LEMMA CleanUpOnInv ==
  ASSUME LifeInv, CleanUpNextList \/ CleanedUp
  PROVE  LifeInv'
<1>1. /\ phase = "clean" /\ phase' \in {"clean", "ended"}
      /\ UNCHANGED <<blockVars, pxFirstTCB, report>> /\ UNCHANGED vars
      /\ \/ /\ CleanUpNextList /\ todo # << >> /\ phase' = "clean"
            /\ listLIST_IS_EMPTY(lists, Head(todo)) /\ todo' = Tail(todo)
         \/ CleanedUp /\ todo = << >> /\ todo' = todo /\ phase' = "ended"
  BY DEF CleanUpNextList, CleanedUp, walkVars
<1>2. UNCHANGED <<lists, tcb, reaped, uxPriority, uxTopUsedPriority, kernel,
                  pxCurrentTCB, xSchedulerRunning>>
  BY <1>1 DEF vars, listVars, taskVars, loopVars
<1>3. /\ DeadOK /\ todo \in Seq(Lists) /\ pxFirstTCB = Null /\ report = << >>
      /\ \A j \in 1 .. Len(todo) : todo[j] \in Swept
      /\ \A x \in AllTasks : Container(x) \in Swept => InTodo(Container(x))
  BY <1>1, CleanFacts
<1>4. DeadOK' /\ KernelState'
  BY <1>1, <1>2, <1>3 DEF DeadOK, KernelState, Alive, Container
<1>5. MemoryOK'
  BY <1>1, <1>2, <1>3, <1>4, MemoryKept DEF LifeInv, MemoryOK, DeadOK
<1>6. /\ todo' \in Seq(Lists)
      /\ \A j \in 1 .. Len(todo') : todo'[j] \in Swept
      /\ \A x \in AllTasks : Container(x) \in Swept => InTodo(Container(x))'
  <2>1. CASE todo' = todo
    BY <1>2, <1>3, <2>1 DEF InTodo, Container
  <2>2. CASE todo' # todo
    <3>1. /\ todo # << >> /\ listLIST_IS_EMPTY(lists, Head(todo)) /\ todo' = Tail(todo)
      BY <1>1, <2>2
    <3>2. /\ Len(todo) \in Nat \ {0} /\ Head(todo) = todo[1] /\ Head(todo) \in Lists
          /\ todo' \in Seq(Lists) /\ Len(todo') = Len(todo) - 1
          /\ \A j \in 1 .. Len(todo') : todo'[j] = todo[j + 1]
      BY <1>3, <3>1, TailFacts
    <3>3. \A x \in AllTasks : Container(x) # Head(todo)
      BY <1>3, <3>1, <3>2, NotEmpty, ItemFacts DEF DeadOK, WellFormed, Container
    <3>4. ASSUME NEW x \in AllTasks, Container(x) \in Swept
          PROVE  InTodo(Container(x))'
      <4>1. PICK j \in 1 .. Len(todo) : todo[j] = Container(x)
        BY <1>3, <3>4 DEF InTodo
      <4>2. j - 1 \in 1 .. Len(todo') /\ j - 1 + 1 = j
        BY <3>2, <3>3, <4>1
      <4>3. todo'[j - 1] = Container(x) /\ Container(x)' = Container(x)
        BY <1>2, <3>2, <4>1, <4>2 DEF Container
      <4>4. QED
        BY <4>2, <4>3 DEF InTodo
    <3>5. \A j \in 1 .. Len(todo') : j + 1 \in 1 .. Len(todo)
      BY <3>2
    <3>6. QED
      BY <1>3, <3>2, <3>4, <3>5
  <2>3. QED
    BY <2>1, <2>2
<1>7. CleanOK'
  <2>1. Swept' = Swept /\ \A x \in AllTasks : Container(x)' = Container(x)
    BY <1>2 DEF Swept, Container
  <2>2. QED
    BY <1>1, <1>6, <2>1 DEF CleanOK
<1>8. LifeTypeOK' /\ WalkOK'
  BY <1>1, <1>3, <1>6 DEF LifeInv, LifeTypeOK, WalkOK, Phases, blockVars
<1>9. QED
  BY <1>4, <1>5, <1>7, <1>8 DEF LifeInv

-----------------------------------------------------------------------------
(* The invariant holds *)

\* At the start no block is allocated and no task exists.
LEMMA LifeInitInv == LifeInit => LifeInv
<1> SUFFICES ASSUME LifeInit PROVE LifeInv
  OBVIOUS
<1>1. /\ IInv /\ tcbBlock = {} /\ stackBlock = {} /\ lost = {}
      /\ making = [t \in AllTasks |-> Null]
      /\ todo = << >> /\ pxFirstTCB = Null /\ report = << >> /\ phase = "tasks"
      /\ tcb = {} /\ xSchedulerRunning = FALSE
  BY InitInv DEF LifeInit, Init
<1>2. \A t \in AllTasks : Container(t) = Null
  BY <1>1 DEF IInv, Placement
<1>3. LifeTypeOK
  BY <1>1 DEF LifeTypeOK, Phases
<1>4. MemoryOK
  BY <1>1, <1>2 DEF MemoryOK, HeapMatches
<1>5. KernelState /\ WalkOK /\ CleanOK
  BY <1>1 DEF KernelState, Alive, WalkOK, CleanOK
<1>6. QED
  BY <1>3, <1>4, <1>5 DEF LifeInv

\* Nothing changes.
LEMMA LifeStutter ==
  ASSUME LifeInv, UNCHANGED allVars
  PROVE  LifeInv'
<1>1. /\ UNCHANGED <<vars, lifeVars>> /\ UNCHANGED <<phase, todo, pxFirstTCB, report>>
      /\ UNCHANGED <<tcb, reaped, lists, uxPriority, uxTopUsedPriority, kernel,
                     pxCurrentTCB, xSchedulerRunning, uxSchedulerSuspended, pc>>
  BY DEF allVars, lifeVars, vars, walkVars, taskVars, listVars, loopVars
<1>2. /\ Walkable' = Walkable /\ Swept' = Swept
      /\ \A t \in AllTasks : Container(t)' = Container(t)
      /\ \A t : Lines(t)' = Lines(t)
      /\ \A t \in AllTasks : Once(t)' = Once(t)
      /\ \A L : InTodo(L)' = InTodo(L)
  BY <1>1 DEF Walkable, Swept, Container, Lines, Once, Status, InTodo
<1>3. LifeTypeOK' /\ CleanOK'
  BY <1>1, <1>2 DEF LifeInv, LifeTypeOK, CleanOK, Alive, lifeVars, blockVars
<1>4. KernelState'
  <2>1. IInv => IInv'
    BY <1>1 DEF vars, listVars, taskVars, timeVars, missedVars, queueVars, loopVars,
       IInv, TypeOK, ListsAgree, Placement, Accounting, LabelsOK, KernelOK, CurrentOK,
       IdleOK, BeforeOK, TopOK, Container, IsReady
  <2>2. DeadOK => DeadOK'
    BY <1>1, <1>2 DEF DeadOK
  <2>3. QED
    BY <1>1, <2>1, <2>2 DEF LifeInv, KernelState, Alive
<1>5. MemoryOK'
  BY <1>1, <1>2 DEF LifeInv, MemoryOK, HeapMatches, lifeVars, blockVars
<1>6. WalkOK'
  <2>1. WalkerOK' = WalkerOK /\ TodoOK' = TodoOK /\ LinesOK' = LinesOK
    BY <1>1, <1>2 DEF WalkerOK, TodoOK, LinesOK
  <2>2. PartWalked(Head(todo))' = PartWalked(Head(todo))
    BY <1>1 DEF PartWalked, Once, Lines, Status, Container
  <2>3. QED
    BY <1>1, <2>1, <2>2 DEF LifeInv, WalkOK
<1>7. QED
  BY <1>3, <1>4, <1>5, <1>6 DEF LifeInv

\* Every step keeps it.
LEMMA LifeNextInv ==
  ASSUME "DeleteBeforeStart" \notin Calls, LifeInv, [LifeNext]_allVars
  PROVE  LifeInv'
<1>1. CASE UNCHANGED allVars
  BY <1>1, LifeStutter
<1>2. CASE BeforeScheduler
  BY <1>2, BeforeSchedulerInv
<1>3. ASSUME NEW t \in Tasks, Create(t) \/ StartWalk(t) \/ vTaskEndScheduler(t)
      PROVE  LifeInv'
  <2>1. CASE Create(t)
    <3>1. ASSUME NEW p \in RequestedPriorities, Link(t, p) PROVE LifeInv'
      BY <3>1, LinkInv
    <3>2. QED
      BY <2>1, <3>1, AllocateInv DEF Create
  <2>2. QED
    BY <1>3, <2>1, StartWalkInv, EndSchedulerInv
<1>4. CASE Walk
  BY <1>4, SkipEmptyInv, WalkFirstInv, WalkNextInv, WalkEndInv DEF Walk
<1>5. CASE IdleMemory
  BY <1>5, FreeInv, TaskStepInv DEF IdleMemory, TaskStep
<1>6. CASE CleanUp
  BY <1>6, CleanUpOneInv, CleanUpOnInv DEF CleanUp
<1>7. CASE TaskStep
  BY <1>7, TaskStepInv
<1>8. CASE Ended
  BY <1>8, LifeStutter DEF Ended
<1>9. QED
  BY <1>1, <1>2, <1>3, <1>4, <1>5, <1>6, <1>7, <1>8 DEF LifeNext, TaskStep

\* The invariant of tasks and their memory holds however creators, deleted
\* tasks, the idle task, walks and the end of the scheduler are interleaved.
THEOREM LifecycleHolds ==
  ASSUME "DeleteBeforeStart" \notin Calls
  PROVE  LifeSpec => []LifeInv
<1>1. LifeInit => LifeInv
  BY LifeInitInv
<1>2. LifeInv /\ [LifeNext]_allVars => LifeInv'
  BY LifeNextInv
<1>3. QED
  BY <1>1, <1>2, PTL DEF LifeSpec

\* A task a list reaches has its TCB and its stack, and so has the one that
\* runs; every block belongs to a task, or to one creator, or was lost when
\* its creator was deleted: prvAllocateTCBAndStack and prvDeleteTCB allocate
\* and free the two blocks one after the other.
THEOREM MemoryMatches ==
  ASSUME "DeleteBeforeStart" \notin Calls
  PROVE  LifeSpec => []HeapMatches
<1>1. LifeInv => HeapMatches
  BY DEF LifeInv, MemoryOK
<1>2. QED
  BY <1>1, LifecycleHolds, PTL

-----------------------------------------------------------------------------
(* uxTopUsedPriority *)

\* The priorities are below the bound that walks and clean-up start from.
TopUsedOK == \A t \in tcb : uxPriority[t] <= uxTopUsedPriority

\* What TopUsedOK speaks of has the right types, also in the clean-up.
LEMMA UsedTypes ==
  ASSUME LifeInv
  PROVE  /\ uxPriority \in [AllTasks -> Priorities] /\ Priorities \subseteq Nat
         /\ uxTopUsedPriority \in Priorities /\ tcb \subseteq AllTasks
BY TasksAssumption DEF LifeInv, KernelState, DeadOK, IInv, TypeOK, Priorities

\* vTaskPrioritySet keeps within uxTopUsedPriority; no other call changes the
\* priority of a task that exists.
LEMMA CallKeepsUsed ==
  ASSUME SetsAboveUsed = FALSE, LifeInv, TopUsedOK, NEW t, OtherCall(t)
  PROVE  TopUsedOK'
<1>1. ASSUME NEW x \in Tasks, NEW p \in RequestedPriorities, p <= uxTopUsedPriority,
             vTaskPrioritySet(t, x, p)
      PROVE  TopUsedOK'
  <2>1. /\ tcb' = tcb /\ uxTopUsedPriority' = uxTopUsedPriority
        /\ uxPriority' = uxPriority \/ uxPriority' = [uxPriority EXCEPT ![x] = CapPriority(p)]
    BY <1>1 DEF vTaskPrioritySet, taskVars
  <2>2. CapPriority(p) <= uxTopUsedPriority
    BY <1>1, UsedTypes, TasksAssumption DEF CapPriority, Priorities
  <2>3. QED
    BY <2>1, <2>2, UsedTypes DEF TopUsedOK
<1>2. CASE ~ \E x \in Tasks, p \in RequestedPriorities :
               p <= uxTopUsedPriority /\ vTaskPrioritySet(t, x, p)
  <2>1. UNCHANGED <<tcb, uxPriority, uxTopUsedPriority>>
    BY <1>2 DEF OtherCall, vTaskDelete, Delete, vTaskSuspend, Call,
       EnterDelay, SuspendAllVars, taskVars
  <2>2. QED
    BY <2>1 DEF TopUsedOK
<1>3. QED
  BY <1>1, <1>2

\* The end of a call changes none.
LEMMA FinishKeepsUsed ==
  ASSUME NEW t, FinishCall(t)
  PROVE  UNCHANGED <<tcb, uxPriority, uxTopUsedPriority>>
BY DEF FinishCall, CreatedYield, vTaskDelay, vTaskDelayUntil, vTaskPlaceOnEventList,
   QueueUnlock, xTaskResumeAll, EndWithYield, portYIELD, taskVars

\* Nor do the masked loops, the interrupts, a switch and the idle task.
LEMMA KernelKeepsUsed ==
  ASSUME \/ MaskedLoop \/ Interrupt \/ vTaskSwitchContext
         \/ IdleCheck \/ IdleLook \/ IdleReap \/ IdleYield
  PROVE  UNCHANGED <<tcb, uxPriority, uxTopUsedPriority>>
<1>1. CASE MaskedLoop
  BY <1>1 DEF MaskedLoop, DrainPending, DrainDone, ReplayTick, ResumeAllDone,
     WakeOne, TickDone, ReplayWakeDone, LoopUnchanged, taskVars
<1>2. CASE Interrupt
  BY <1>2 DEF Interrupt, TickISR, EventISR, Post, xTaskResumeFromISR, taskVars
<1>3. CASE vTaskSwitchContext
  BY <1>3 DEF vTaskSwitchContext, taskVars
<1>4. CASE IdleCheck \/ IdleLook \/ IdleReap \/ IdleYield
  BY <1>4 DEF IdleCheck, IdleLook, IdleReap, IdleYield, SuspendAllVars, taskVars
<1>5. QED
  BY <1>1, <1>2, <1>3, <1>4

\* xTaskGenericCreate raises uxTopUsedPriority.
LEMMA CreateRaisesUsed ==
  ASSUME LifeInv, TopUsedOK, NEW t \in AllTasks,
         NEW asked \in RequestedPriorities \cup {0}, CreateTask(t, asked)
  PROVE  TopUsedOK'
<1> DEFINE p == CapPriority(asked)
<1>1. /\ uxPriority \in [AllTasks -> Priorities] /\ Priorities \subseteq Nat
      /\ uxTopUsedPriority \in Priorities /\ tcb \subseteq AllTasks
      /\ p \in Priorities
  BY UsedTypes, CapFacts
<1>2. /\ tcb' = tcb \cup {t} /\ uxPriority' = [uxPriority EXCEPT ![t] = p]
      /\ uxTopUsedPriority' = IF p > uxTopUsedPriority THEN p ELSE uxTopUsedPriority
  BY DEF CreateTask
<1> HIDE DEF p
<1>3. uxTopUsedPriority' \in Nat /\ uxTopUsedPriority <= uxTopUsedPriority'
      /\ p <= uxTopUsedPriority'
  BY <1>1, <1>2
<1>4. ASSUME NEW x \in tcb' PROVE uxPriority'[x] <= uxTopUsedPriority'
  <2>1. CASE x = t
    BY <1>1, <1>2, <1>3, <2>1
  <2>2. CASE x # t
    <3>1. x \in tcb /\ x \in AllTasks /\ uxPriority'[x] = uxPriority[x]
      BY <1>1, <1>2, <2>2
    <3>2. uxPriority[x] \in Nat /\ uxPriority[x] <= uxTopUsedPriority
      BY <1>1, <3>1 DEF TopUsedOK
    <3>3. uxTopUsedPriority \in Nat
      BY <1>1
    <3>4. QED
      BY <1>3, <3>1, <3>2, <3>3
  <2>3. QED
    BY <2>1, <2>2
<1>5. QED
  BY <1>4 DEF TopUsedOK

\* No step takes a task above uxTopUsedPriority.
LEMMA TopUsedKept ==
  ASSUME SetsAboveUsed = FALSE, LifeInv, TopUsedOK, [LifeNext]_allVars
  PROVE  TopUsedOK'
<1>1. CASE UNCHANGED <<tcb, uxPriority, uxTopUsedPriority>>
  BY <1>1 DEF TopUsedOK
<1>2. CASE BeforeScheduler
  BY <1>2, CreateRaisesUsed, <1>1
     DEF BeforeScheduler, Main, CreateBeforeStart, DeleteBeforeStart, Delete,
         SuspendBeforeStart, vTaskStartScheduler, AllTasks, taskVars
<1>3. ASSUME NEW t \in Tasks, Create(t) \/ StartWalk(t) \/ vTaskEndScheduler(t)
      PROVE  TopUsedOK'
  <2>1. ASSUME NEW asked \in RequestedPriorities, Link(t, asked) PROVE TopUsedOK'
    BY <2>1, CreateRaisesUsed DEF Link, xTaskCreate, AllTasks
  <2>2. CASE ~ \E asked \in RequestedPriorities : Link(t, asked)
    BY <1>1, <1>3, <2>2 DEF Create, AllocateTCB, AllocateStack, StackFails, StartWalk,
       vTaskSuspendAll, SuspendAllVars, vTaskEndScheduler, vars, taskVars
  <2>3. QED
    BY <2>1, <2>2
<1>4. CASE Walk
  BY <1>1, <1>4 DEF Walk, SkipEmpty, WalkFirst, WalkNext, WalkEnd, xTaskResumeAll, vars,
     taskVars
<1>5. CASE FreeTCB
  <2>1. /\ tcb' = tcb \ {reaped} /\ uxTopUsedPriority' = uxTopUsedPriority
        /\ uxPriority' = [uxPriority EXCEPT ![reaped] = 0]
    BY <1>5 DEF FreeTCB, IdleFree
  <2>2. QED
    BY <2>1, UsedTypes DEF TopUsedOK
<1>6. CASE CleanUp
  <2>1. tcb' \subseteq tcb /\ UNCHANGED <<uxPriority, uxTopUsedPriority>>
    BY <1>6 DEF CleanUp, CleanUpOne, CleanUpNextList, CleanedUp, vars, taskVars
  <2>2. QED
    BY <2>1 DEF TopUsedOK
<1>7. CASE FreeStack \/ Ended \/ UNCHANGED allVars
  BY <1>1, <1>7 DEF FreeStack, Ended, allVars, vars, taskVars
<1>8. CASE TaskStep
  BY <1>1, <1>8, CallKeepsUsed, FinishKeepsUsed, KernelKeepsUsed
     DEF TaskStep, OtherFinish, OtherIdle
<1>9. QED
  BY <1>2, <1>3, <1>4, <1>5, <1>6, <1>7, <1>8 DEF LifeNext, IdleMemory, TaskStep

\* Unless vTaskPrioritySet takes one there, no task is above uxTopUsedPriority.
LEMMA TopUsedHolds ==
  ASSUME "DeleteBeforeStart" \notin Calls, SetsAboveUsed = FALSE
  PROVE  LifeSpec => [](LifeInv /\ TopUsedOK)
<1>1. LifeInit => LifeInv /\ TopUsedOK
  BY LifeInitInv DEF LifeInit, Init, TopUsedOK
<1>2. LifeInv /\ TopUsedOK /\ [LifeNext]_allVars => (LifeInv /\ TopUsedOK)'
  BY LifeNextInv, TopUsedKept
<1>3. QED
  BY <1>1, <1>2, PTL DEF LifeSpec

-----------------------------------------------------------------------------
(* What a walk and the clean-up have done in the end *)

\* A walk that is done has written every task once, unless it is ready above
\* uxTopUsedPriority.
LEMMA WalkIsComplete ==
  ASSUME LifeInv, phase = "walk", todo = << >>, NEW t \in tcb \ {reaped},
         IsReady(t) => uxPriority[t] <= uxTopUsedPriority
  PROVE  Once(t)
<1>1. /\ LinesOK /\ IInv /\ KernelState /\ t \in AllTasks
  BY WalkFacts DEF LifeInv, IInv, TypeOK
<1>2. Container(t) # Null /\ uxTopUsedPriority \in Priorities
  BY <1>1, ListedTasks
<1>3. /\ Container(t) \in {Ready(uxPriority[t]), Suspended, Termination} \cup DelayedLists
      /\ uxPriority[t] \in Priorities
  BY <1>1, <1>2, PlacedNow, PlaceFacts DEF Placed, Container
<1>4. \A L : ~ InTodo(L)
  BY DEF InTodo
<1>5. Container(t) \in Walkable
  <2>1. CASE IsReady(t)
    <3>1. uxPriority[t] \in 0 .. uxTopUsedPriority
      BY <1>2, <1>3, <2>1, TasksAssumption DEF Priorities
    <3>2. QED
      BY <2>1, <3>1 DEF Walkable, Swept, IsReady
  <2>2. CASE ~ IsReady(t)
    BY <1>3, <2>2 DEF Walkable, Swept, IsReady
  <2>3. QED
    BY <2>1, <2>2
<1>6. QED
  BY <1>1, <1>4, <1>5 DEF LinesOK

\* vTaskList and vTaskGetRunTimeStats write every task once, with the state it
\* is in, although pxIndex is where the scheduler left it and interrupts come
\* meanwhile.  A task that vTaskPrioritySet has taken above every priority a
\* task was created with is missed: the assumption.
THEOREM WalksAreComplete ==
  ASSUME "DeleteBeforeStart" \notin Calls, SetsAboveUsed = FALSE
  PROVE  LifeSpec => []ListedOnce
<1>1. LifeInv /\ TopUsedOK => ListedOnce
  BY WalkIsComplete DEF ListedOnce, Lines, Once, TopUsedOK
<1>2. QED
  BY <1>1, TopUsedHolds, PTL

\* When the clean-up has ended, a task that is still on a list waits for the
\* idle task, or is ready above uxTopUsedPriority.
LEMMA CleanUpIsComplete ==
  ASSUME LifeInv, phase = "ended", NEW t \in AllTasks,
         Container(t) \notin {Termination, Null}
  PROVE  IsReady(t) /\ uxPriority[t] > uxTopUsedPriority /\ t \in tcb
<1>1. DeadOK /\ CleanOK /\ ~ Alive
  BY DEF LifeInv, KernelState, Alive
<1>2. Container(t) \in {Ready(uxPriority[t]), Suspended} \cup DelayedLists /\ t \in tcb
  BY <1>1 DEF DeadOK
<1>3. Container(t) \notin Swept
  BY <1>1 DEF CleanOK, InTodo
<1>4. Container(t) = Ready(uxPriority[t]) /\ uxPriority[t] \notin 0 .. uxTopUsedPriority
  BY <1>2, <1>3 DEF Swept
<1>5. QED
  BY <1>1, <1>2, <1>4, TasksAssumption DEF IsReady, DeadOK, Priorities

\* So the lists that vTaskCleanUpResources empties have no item left.
LEMMA SweptIsEmpty ==
  ASSUME LifeInv, TopUsedOK, phase = "ended",
         NEW L \in ReadyLists \cup DelayedLists \cup {Suspended}
  PROVE  listLIST_IS_EMPTY(lists, L)
<1>1. /\ DeadOK /\ WellFormed(lists)
      /\ L \in Lists /\ L \notin EventLists \cup {Pending, Termination, Null}
  BY ListFacts DEF LifeInv, KernelState, Alive, DeadOK, ReadyLists
<1>2. ASSUME NEW t \in AllTasks, Container(t) = L PROVE FALSE
  <2>1. IsReady(t) /\ uxPriority[t] > uxTopUsedPriority /\ t \in tcb
    BY <1>1, <1>2, CleanUpIsComplete
  <2>2. uxPriority[t] <= uxTopUsedPriority /\ uxPriority[t] \in Nat /\ uxTopUsedPriority \in Nat
    BY <2>1, UsedTypes DEF TopUsedOK
  <2>3. QED
    BY <2>1, <2>2
<1>3. Len(lists.ring[L]) \in Nat
      /\ (listLIST_IS_EMPTY(lists, L) <=> Len(lists.ring[L]) = 0)
  BY <1>1, NotEmpty DEF WellFormed
<1>4. ASSUME NEW i \in 1 .. Len(lists.ring[L]) PROVE FALSE
  <2>1. PICK x \in Items : lists.container[x] = L
    BY <1>1, <1>4, RingItem DEF WellFormed
  <2>2. PICK t \in AllTasks : x = Generic(t) \/ x = Event(t)
    BY <2>1, ItemFacts
  <2>3. lists.container[Event(t)] # L
    BY <1>1, <2>2 DEF DeadOK
  <2>4. QED
    BY <1>2, <2>1, <2>2, <2>3 DEF Container
<1>5. ~ 1 \in 1 .. Len(lists.ring[L])
  BY <1>4
<1>6. QED
  BY <1>3, <1>5

\* vTaskCleanUpResources leaves no task on a ready list, a delayed list or
\* the suspended list, wherever the tasks were and whatever interrupted the
\* calls before; the memory that is left waits for the idle task or is half
\* made.  A task that vTaskPrioritySet has taken above every priority a task was
\* created with stays on its list: the assumption.
THEOREM CleanUpIsThorough ==
  ASSUME "DeleteBeforeStart" \notin Calls, SetsAboveUsed = FALSE
  PROVE  LifeSpec => []CleanUpFrees
<1>1. LifeInv /\ TopUsedOK => CleanUpFrees
  <2> SUFFICES ASSUME LifeInv, TopUsedOK, phase = "ended"
               PROVE  /\ \A L \in ReadyLists \cup DelayedLists \cup {Suspended} :
                           listLIST_IS_EMPTY(lists, L)
                      /\ \A t \in tcbBlock \cap tcb :
                           t = reaped \/ Container(t) = Termination
    BY DEF CleanUpFrees
  <2>1. ASSUME NEW t \in tcb, t # reaped PROVE Container(t) = Termination
    <3>1. t \in AllTasks /\ Container(t) # Null
      BY <2>1 DEF LifeInv, KernelState, Alive, DeadOK
    <3>2. uxPriority[t] \in Nat /\ uxTopUsedPriority \in Nat
          /\ uxPriority[t] <= uxTopUsedPriority
      BY <2>1, <3>1, UsedTypes DEF TopUsedOK
    <3>3. QED
      BY <3>1, <3>2, CleanUpIsComplete
  <2>2. QED
    BY <2>1, SweptIsEmpty
<1>2. QED
  BY <1>1, TopUsedHolds, PTL
=============================================================================
