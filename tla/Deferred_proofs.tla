-------------------------- MODULE Deferred_proofs --------------------------
(***************************************************************************)
(* More proofs about Tasks, which rest on the inductive invariant of       *)
(* Tasks_proofs.                                                           *)
(*                                                                         *)
(* First, the work that tasks.c puts off while the scheduler is suspended: *)
(* ready tasks on xPendingReadyList, missed ticks and a missed yield.      *)
(* xTaskResumeAll deals with all of it, no tick is lost or counted twice   *)
(* on the way, and nothing else touches the lists meanwhile.  A yield is   *)
(* put off by critical sections and masked loops as well: it is not        *)
(* forgotten either, so that the highest ready task runs.                  *)
(*                                                                         *)
(* Then, the lists that are kept in order: the delayed lists by wake time, *)
(* the event lists by priority.  A tick wakes the tasks at the head of a   *)
(* delayed list, so that order, and which of the two lists a wake time is  *)
(* on, decide whether a delay ends at its tick.                            *)
(*                                                                         *)
(* Last, the round robin on the ready lists: pxIndex goes round a ring     *)
(* that other tasks join and leave, and passes nobody over.                *)
(***************************************************************************)
EXTENDS Tasks_proofs

-----------------------------------------------------------------------------
(* Lists with nothing on xPendingReadyList *)

\* No event item is on xPendingReadyList.
Clear(xl) ==
  /\ xl.container = [x \in Items |-> xl.container[x]]
  /\ \A x \in Items : xl.container[x] # Pending

\* Taking an item off a list puts none on xPendingReadyList ...
LEMMA ClearRemove ==
  ASSUME NEW xl, Clear(xl), NEW x
  PROVE  Clear(vListRemove(xl, x))
BY ListFacts DEF Clear, vListRemove

\* ... nor does putting one on another list ...
LEMMA ClearLink ==
  ASSUME NEW xl, Clear(xl), NEW L, L # Pending, NEW x, NEW i
  PROVE  Clear(LinkAt(xl, L, x, i))
BY DEF Clear, LinkAt

\* ... at the end of its round ...
LEMMA ClearAppend ==
  ASSUME NEW xl, Clear(xl), NEW L, L # Pending, NEW x
  PROVE  Clear(vListInsertEnd(xl, L, x))
<1> DEFINE yl == LinkAt(xl, L, x, xl.index[L] + 1)
           i  == xl.index[L] + 1
<1>1. Clear(yl)
  BY ClearLink
<1>2. [yl EXCEPT !.index[L] = i].container = yl.container
  BY DEF LinkAt
<1>3. QED
  BY <1>1, <1>2 DEF Clear, vListInsertEnd

\* ... or in order of its value,
LEMMA ClearInsert ==
  ASSUME NEW xl, Clear(xl), NEW L, L # Pending, NEW x
  PROVE  Clear(vListInsert(xl, L, x))
BY ClearLink DEF vListInsert

\* vTaskDelete and vTaskSuspend,
LEMMA ClearUnlink ==
  ASSUME NEW xl, Clear(xl), NEW t
  PROVE  Clear(Unlink(xl, t))
BY ClearRemove DEF Unlink

\* listGET_OWNER_OF_NEXT_ENTRY, the setting of a value,
LEMMA ClearOther ==
  ASSUME NEW xl, xl \in XLists(Lists, Items), Clear(xl)
  PROVE  /\ \A L : Clear(AdvanceIndex(xl, L))
         /\ \A x, v : Clear(listSET_LIST_ITEM_VALUE(xl, x, v))
<1>1. \A L : AdvanceIndex(xl, L).container = xl.container
  BY DEF AdvanceIndex, XLists
<1>2. \A x, v : listSET_LIST_ITEM_VALUE(xl, x, v).container = xl.container
  BY DEF listSET_LIST_ITEM_VALUE, XLists
<1>3. QED
  BY <1>1, <1>2 DEF Clear

\* prvAddTaskToReadyQueue.
LEMMA ClearReady ==
  ASSUME NEW xl, Clear(xl), NEW t, NEW p
  PROVE  Clear(AddToReady(xl, t, p))
<1>1. Ready(p) # Pending
  BY DEF Ready, Pending
<1>2. QED
  BY <1>1, ClearAppend DEF AddToReady

\* xTaskGenericCreate.
LEMMA ClearNew ==
  ASSUME NEW xl, xl \in XLists(Lists, Items), Clear(xl), NEW t, NEW p
  PROVE  Clear(EnterReady(xl, t, p))
<1> DEFINE wl == [xl EXCEPT !.container = [x \in Items |->
                              IF Owner(x) = t THEN Null ELSE @[x]]]
           zl == listSET_LIST_ITEM_VALUE(wl, Event(t), EventItemValue(p))
<1>1. wl.container = [x \in Items |-> IF Owner(x) = t THEN Null
                                      ELSE xl.container[x]]
  BY DEF XLists
<1>2. zl.container = wl.container
  BY DEF listSET_LIST_ITEM_VALUE, XLists
<1> HIDE DEF wl
<1>3. Clear(zl)
  BY <1>1, <1>2, ListFacts DEF Clear
<1> HIDE DEF zl
<1>4. Clear(AddToReady(zl, t, p))
  BY <1>3, ClearReady
<1>5. QED
  BY <1>4 DEF EnterReady, zl, wl

\* vTaskSwitchContext.
LEMMA ClearSwitch ==
  ASSUME NEW xl, xl \in XLists(Lists, Items), Clear(xl), SwitchTo(xl)
  PROVE  Clear(lists')
BY ClearOther DEF SwitchTo

\* Lists that are well formed and whose xPendingReadyList is empty.
LEMMA PendingEmpty ==
  ASSUME IInv
  PROVE  listLIST_IS_EMPTY(lists, Pending) <=> Clear(lists)
<1>1. /\ WellFormed(lists) /\ Pending \in Lists
      /\ lists.container \in [Items -> Lists \cup {Null}]
  BY WellFormedNow, ContainerType, ListFacts DEF IInv
<1>2. ASSUME Clear(lists), ~ listLIST_IS_EMPTY(lists, Pending)
      PROVE  FALSE
  BY <1>1, <1>2, HeadOnList DEF Clear, WellFormed
<1>3. ASSUME listLIST_IS_EMPTY(lists, Pending)
      PROVE  Clear(lists)
  BY <1>1, <1>3, NotEmpty DEF Clear, WellFormed
<1>4. QED
  BY <1>2, <1>3

-----------------------------------------------------------------------------
(* What is put off *)

\* Only while the scheduler is suspended is anything put off; the first loop
\* of xTaskResumeAll empties xPendingReadyList.
Deferred ==
  /\ uxSchedulerSuspended = 0 /\ kernel \in {"none", "tick"} =>
       Clear(lists) /\ uxMissedTicks = 0 /\ ~ xMissedYield
  /\ kernel \in {"replay", "replayWake"} => Clear(lists)

\* A step that puts nothing off and puts no item on xPendingReadyList.
LEMMA DeferredKept ==
  ASSUME Deferred, UNCHANGED <<kernel, uxSchedulerSuspended, missedVars>>,
         Clear(lists) => Clear(lists')
  PROVE  Deferred'
BY DEF Deferred, missedVars

\* What main() does before the scheduler runs.
LEMMA MainDeferred ==
  ASSUME IInv, Deferred, Main
  PROVE  Deferred'
<1>0. lists \in XLists(Lists, Items)
  BY DEF IInv, TypeOK
<1>1. ASSUME NEW t, NEW p, CreateTask(t, p)
      PROVE  Deferred'
  <2>1. vListInitialise(Lists, Items) \in XLists(Lists, Items)
    BY ListFacts, InitialListsOK DEF ListsOK
  <2>2. Clear(vListInitialise(Lists, Items))
    BY ListFacts DEF Clear, vListInitialise
  <2>3. Clear(lists) => Clear(lists')
    BY <1>0, <1>1, <2>1, <2>2, ClearNew DEF CreateTask
  <2>4. QED
    BY <1>1, <2>3, DeferredKept DEF CreateTask, loopVars
<1>2. ASSUME NEW x, DeleteBeforeStart(x)
      PROVE  Deferred'
  <2>1. Clear(lists) => Clear(lists')
    BY <1>2, ClearUnlink, ClearAppend, ListFacts DEF DeleteBeforeStart, Delete
  <2>2. QED
    BY <1>2, <2>1, DeferredKept DEF DeleteBeforeStart, Delete, loopVars
<1>3. ASSUME NEW x, SuspendBeforeStart(x)
      PROVE  Deferred'
  <2>1. x \in AllTasks /\ WellFormed(lists)
        /\ lists.container[Generic(x)] \in Lists
        /\ lists.container[Event(x)] \in (Lists \ {Termination}) \cup {Null}
    BY <1>3, HandleFacts, PlaceFacts DEF SuspendBeforeStart
  <2>2. Suspend(lists, x) \in XLists(Lists, Items)
    BY <2>1, UnlinkTo, ListFacts DEF Suspend, Relocated, WellFormed, ListsOK
  <2>3. Clear(lists) => Clear(Suspend(lists, x))
    BY ClearUnlink, ClearAppend, ListFacts DEF Suspend
  <2>4. Clear(lists) => Clear(lists')
    BY <1>3, <2>2, <2>3, ClearSwitch DEF SuspendBeforeStart
  <2>5. QED
    BY <1>3, <2>4, DeferredKept DEF SuspendBeforeStart, loopVars
<1>4. QED
  BY <1>1, <1>2, <1>3 DEF Main, CreateBeforeStart, vTaskStartScheduler

\* A post takes a waiting task to its ready list, or to xPendingReadyList if
\* the scheduler is suspended.
LEMMA PostDeferred ==
  ASSUME IInv, Deferred, kernel = "none", NEW e, Post(e)
  PROVE  Deferred'
<1>1. UNCHANGED <<kernel, uxSchedulerSuspended, missedVars>>
  BY DEF Post, loopVars
<1>2. CASE uxSchedulerSuspended # 0
  BY <1>1, <1>2 DEF Deferred
<1>3. CASE uxSchedulerSuspended = 0
  <2>1. Clear(lists) => Clear(lists')
    BY <1>3, ClearRemove, ClearReady
       DEF Post, listVars, xTaskRemoveFromEventList
  <2>2. QED
    BY <1>1, <2>1, DeferredKept
<1>4. QED
  BY <1>2, <1>3

\* A task making a call of its own accord.
LEMMA CallDeferred ==
  ASSUME IInv, Deferred, NEW t, ApplicationCall(t)
  PROVE  Deferred'
<1>0. /\ lists \in XLists(Lists, Items) /\ kernel = "none"
      /\ uxSchedulerSuspended \in Nat
  <2>1. kernel = "none"
    BY DEF ApplicationCall, xTaskCreate, vTaskDelete, vTaskSuspend,
       vTaskResume, vTaskPrioritySet, vTaskSuspendAll, EnterDelay, DelayZero,
       QueueWait, QueueSend, BlockingCall, Call, At, InterruptsOn
  <2>2. QED
    BY <2>1 DEF IInv, TypeOK
<1> USE DEF loopVars, missedVars
<1>1. ASSUME NEW x, NEW p, xTaskCreate(t, x, p)
      PROVE  Deferred'
  <2>1. pxCurrentTCB # Null
    BY <1>1, AtFacts DEF xTaskCreate, Call
  <2>2. Clear(lists) => Clear(lists')
    BY <1>0, <1>1, <2>1, ClearNew DEF xTaskCreate, CreateTask
  <2>3. QED
    BY <1>1, <2>2, DeferredKept DEF xTaskCreate, CreateTask
<1>2. ASSUME NEW x, vTaskDelete(t, x)
      PROVE  Deferred'
  <2>1. Clear(lists) => Clear(lists')
    BY <1>2, ClearUnlink, ClearAppend, ListFacts DEF vTaskDelete, Delete
  <2>2. QED
    BY <1>2, <2>1, DeferredKept DEF vTaskDelete, Delete
<1>3. ASSUME NEW x, vTaskSuspend(t, x)
      PROVE  Deferred'
  <2>1. Clear(lists) => Clear(lists')
    BY <1>3, ClearUnlink, ClearAppend, ListFacts DEF vTaskSuspend, Suspend
  <2>2. QED
    BY <1>3, <2>1, DeferredKept DEF vTaskSuspend
<1>4. ASSUME NEW x, vTaskResume(t, x)
      PROVE  Deferred'
  <2>1. Clear(lists) => Clear(lists')
    BY <1>4, ClearRemove, ClearReady DEF vTaskResume, ResumeNow
  <2>2. QED
    BY <1>4, <2>1, DeferredKept DEF vTaskResume
<1>5. ASSUME NEW x, NEW p, vTaskPrioritySet(t, x, p)
      PROVE  Deferred'
  <2>1. Clear(lists) => Clear(lists')
    BY <1>0, <1>5, ClearOther, ClearRemove, ClearReady DEF vTaskPrioritySet
  <2>2. QED
    BY <1>5, <2>1, DeferredKept DEF vTaskPrioritySet
<1>6. CASE vTaskSuspendAll(t)
  BY <1>0, <1>6 DEF vTaskSuspendAll, SuspendAllVars, Deferred
<1>7. ASSUME NEW f, EnterDelay(t, f)
      PROVE  Deferred'
  BY <1>0, <1>7 DEF EnterDelay, SuspendAllVars, Deferred
<1>8. CASE DelayZero(t)
  BY <1>8, DeferredKept DEF DelayZero, portYIELD, listVars
<1>9. ASSUME NEW e, QueueWait(t, e)
      PROVE  Deferred'
  BY <1>0, <1>9 DEF QueueWait, SuspendAllVars, Deferred
<1>10. ASSUME NEW e, QueueSend(t, e)
       PROVE  Deferred'
  BY <1>0, <1>10, PostDeferred DEF QueueSend
<1>11. QED
  BY <1>1, <1>2, <1>3, <1>4, <1>5, <1>6, <1>7, <1>8, <1>9, <1>10
     DEF ApplicationCall

\* A call that goes on, and the beginning of xTaskResumeAll.
LEMMA FinishDeferred ==
  ASSUME IInv, Deferred, NEW t, FinishCall(t)
  PROVE  Deferred'
<1> USE DEF loopVars, missedVars, listVars
<1>1. CASE CreatedYield(t) \/ EndWithYield(t)
  BY <1>1, DeferredKept DEF CreatedYield, EndWithYield, portYIELD
<1>2. ASSUME NEW l \in {"vTaskDelay", "vTaskDelayUntil", "place", "unlock"},
             At(t, l), UNCHANGED <<kernel, uxSchedulerSuspended>>
      PROVE  Deferred'
  <2>1. uxSchedulerSuspended = 1 /\ kernel = "none"
    BY <1>2, AtFacts DEF IInv, KernelOK, Holding
  <2>2. QED
    BY <1>2, <2>1 DEF Deferred
<1>3. CASE xTaskResumeAll(t)
  <2>1. /\ kernel = "none" /\ uxSchedulerSuspended \in Nat
        /\ uxSchedulerSuspended > 0 /\ Idle \in tcb /\ reaped # Idle
    BY <1>3 DEF xTaskResumeAll, Call, At, InterruptsOn, IInv, IdleOK, TypeOK
  <2>2. uxCurrentNumberOfTasks > 0
    <3>1. IsFiniteSet(tcb \ {reaped}) /\ tcb \ {reaped} # {}
      BY <2>1, TcbFinite
    <3>2. /\ Cardinality(tcb \ {reaped}) \in Nat
          /\ Cardinality(tcb \ {reaped}) # 0
      BY <3>1, FS_CardinalityType, FS_EmptySet
    <3>3. QED
      BY <3>2 DEF IInv, Accounting
  <2>3. \/ kernel' = "drain"
        \/ uxSchedulerSuspended' > 0 /\ kernel' = "none"
    <3>1. /\ uxSchedulerSuspended' = uxSchedulerSuspended - 1
          /\ uxSchedulerSuspended = 1 => kernel' = "drain"
          /\ uxSchedulerSuspended # 1 => kernel' = kernel
      BY <1>3, <2>2 DEF xTaskResumeAll
    <3>2. QED
      BY <2>1, <3>1
  <2>4. QED
    BY <2>3 DEF Deferred
<1>4. QED
  BY <1>1, <1>2, <1>3 DEF FinishCall, vTaskDelay, vTaskDelayUntil,
     vTaskPlaceOnEventList, QueueUnlock

\* The idle task.
LEMMA IdleDeferred ==
  ASSUME IInv, Deferred, IdleTask
  PROVE  Deferred'
<1> USE DEF loopVars, missedVars, listVars
<1>1. CASE IdleCheck
  <2>1. CASE uxSchedulerSuspended' = uxSchedulerSuspended
    BY <1>1, <2>1, DeferredKept DEF IdleCheck, SuspendAllVars
  <2>2. CASE uxSchedulerSuspended' = uxSchedulerSuspended + 1
    BY <1>1, <2>2 DEF IdleCheck, SuspendAllVars, Deferred, At, InterruptsOn,
       IInv, TypeOK
  <2>3. QED
    BY <1>1, <2>1, <2>2 DEF IdleCheck
<1>2. CASE IdleLook
  BY <1>2, DeferredKept DEF IdleLook, SuspendAllVars
<1>3. CASE IdleReap
  <2>1. Clear(lists) => Clear(lists')
    BY <1>3, ClearRemove DEF IdleReap
  <2>2. QED
    BY <1>3, <2>1, DeferredKept DEF IdleReap
<1>4. CASE IdleFree \/ IdleYield
  BY <1>4, DeferredKept DEF IdleFree, IdleYield
<1>5. QED
  BY <1>1, <1>2, <1>3, <1>4 DEF IdleTask

\* The loops that run with interrupts masked.
LEMMA LoopDeferred ==
  ASSUME IInv, Deferred, MaskedLoop
  PROVE  Deferred'
<1> USE DEF LoopStep, LoopUnchanged, listVars
<1>0. WellFormed(lists)
  BY WellFormedNow DEF IInv
<1>1. CASE DrainPending
  BY <1>1 DEF DrainPending, Deferred
<1>2. CASE DrainDone
  <2>1. Clear(lists)
    BY <1>2, PendingEmpty DEF DrainDone
  <2>2. QED
    BY <1>2, <2>1 DEF DrainDone, Deferred
<1>3. CASE ReplayTick \/ ReplayWakeDone
  BY <1>3 DEF ReplayTick, ReplayWakeDone, Deferred
<1>4. CASE ResumeAllDone
  BY <1>4 DEF ResumeAllDone, Deferred
<1>5. CASE WakeOne
  <2>1. Clear(lists) => Clear(lists')
    BY <1>5, ClearUnlink, ClearReady DEF WakeOne
  <2>2. QED
    BY <1>5, <2>1, DeferredKept DEF WakeOne, loopVars
<1>6. CASE TickDone
  BY <1>6 DEF TickDone, Deferred, missedVars
<1>7. QED
  BY <1>1, <1>2, <1>3, <1>4, <1>5, <1>6 DEF MaskedLoop

\* Interrupts and the context switch.
LEMMA PortDeferred ==
  ASSUME IInv, Deferred, Interrupt \/ vTaskSwitchContext
  PROVE  Deferred'
<1> USE DEF missedVars, loopVars, listVars
<1>1. CASE TickISR
  BY <1>1 DEF TickISR, Deferred, InterruptsOn
<1>2. ASSUME NEW e, EventISR(e)
      PROVE  Deferred'
  BY <1>2, PostDeferred DEF EventISR, InterruptsOn
<1>3. ASSUME NEW x, xTaskResumeFromISR(x)
      PROVE  Deferred'
  <2>1. CASE uxSchedulerSuspended = 0
    <3>1. Clear(lists) => Clear(lists')
      BY <1>3, <2>1, ClearRemove, ClearReady DEF xTaskResumeFromISR, ResumeNow
    <3>2. QED
      BY <1>3, <3>1, DeferredKept DEF xTaskResumeFromISR
  <2>2. CASE uxSchedulerSuspended # 0
    BY <1>3, <2>2 DEF xTaskResumeFromISR, InterruptsOn, Deferred
  <2>3. QED
    BY <2>1, <2>2
<1>4. CASE vTaskSwitchContext
  <2>1. CASE uxSchedulerSuspended = 0
    <3>1. Clear(lists) => Clear(lists')
      BY <1>4, <2>1, ClearSwitch DEF vTaskSwitchContext, IInv, TypeOK
    <3>2. QED
      BY <1>4, <2>1, <3>1, DeferredKept DEF vTaskSwitchContext
  <2>2. CASE uxSchedulerSuspended # 0
    BY <1>4, <2>2 DEF vTaskSwitchContext, InterruptsOn, Deferred
  <2>3. QED
    BY <2>1, <2>2
<1>5. QED
  BY <1>1, <1>2, <1>3, <1>4 DEF Interrupt

\* The two invariants together hold in every reachable state.
THEOREM DeferredHolds ==
  ASSUME "DeleteBeforeStart" \notin Calls
  PROVE  Spec => [](IInv /\ Deferred)
<1>1. Init => Deferred
  BY ListFacts DEF Init, prvInitialiseTaskLists, vListInitialise, Deferred,
     Clear
<1>2. IInv /\ Deferred /\ [Next]_vars => Deferred'
  <2>1. CASE UNCHANGED vars
    BY <2>1 DEF vars, listVars, missedVars, loopVars, Deferred
  <2>2. QED
    BY <2>1, MainDeferred, CallDeferred, FinishDeferred, IdleDeferred,
       LoopDeferred, PortDeferred DEF Next
<1>3. QED
  BY <1>1, <1>2, InvariantHolds, PTL DEF Spec

\* When xTaskResumeAll has let the scheduler run again nothing is left behind:
\* no task on xPendingReadyList, no missed tick, no missed yield.
THEOREM NothingIsLeftBehind ==
  ASSUME "DeleteBeforeStart" \notin Calls
  PROVE  Spec => []NothingLeftBehind
<1>1. IInv /\ Deferred => NothingLeftBehind
  BY PendingEmpty DEF Deferred, NothingLeftBehind
<1>2. QED
  BY <1>1, DeferredHolds, PTL

-----------------------------------------------------------------------------
(* Ticks *)

\* Adding a period, or counting modulo a period first, makes no difference.
LEMMA WholePeriod ==
  ASSUME NEW n \in Nat
  PROVE  /\ Tick(n + portMAX_DELAY + 1) = Tick(n)
         /\ Tick(Tick(n) + 1) = Tick(n + 1)
<1> DEFINE P == portMAX_DELAY + 1
<1>1. P \in Nat \ {0}
  BY MaxDelayAssumption
<1> HIDE DEF P
<1>2. n % P \in 0 .. P - 1 /\ n \div P \in Int /\ n = P * (n \div P) + (n % P)
  BY <1>1
<1>3. ASSUME NEW q \in Int, NEW r \in 0 .. P - 1
      PROVE  (P * q + r) % P = r
  BY <1>1, <1>3
<1>4. (n + P) % P = n % P
  <2>1. n + P = P * ((n \div P) + 1) + (n % P) /\ (n \div P) + 1 \in Int
    BY <1>1, <1>2
  <2>2. QED
    BY <1>2, <1>3, <2>1
<1>5. ((n % P) + 1) % P = (n + 1) % P
  <2>1. CASE n % P = P - 1
    <3>1. /\ n + 1 = P * ((n \div P) + 1) + 0 /\ (n \div P) + 1 \in Int
          /\ (n % P) + 1 = P * 1 + 0 /\ 0 \in 0 .. P - 1
      BY <1>1, <1>2, <2>1
    <3>2. QED
      BY <1>3, <3>1
  <2>2. CASE n % P # P - 1
    <3>1. /\ n + 1 = P * (n \div P) + ((n % P) + 1)
          /\ (n % P) + 1 = P * 0 + ((n % P) + 1) /\ (n % P) + 1 \in 0 .. P - 1
      BY <1>1, <1>2, <2>2
    <3>2. QED
      BY <1>2, <1>3, <3>1
  <2>3. QED
    BY <2>1, <2>2
<1>6. n + portMAX_DELAY + 1 = n + P
  BY MaxDelayAssumption DEF P
<1>7. QED
  BY <1>4, <1>5, <1>6 DEF Tick, P

\* What counts a tick, or counts one again: the interrupt and the replay loop.
CountsATick == TickISR \/ ReplayTick \/ ReplayWakeDone

\* Nothing else does.
LEMMA TimeStands ==
  ASSUME [Next]_vars, xSchedulerRunning, ~ CountsATick
  PROVE  /\ UNCHANGED <<xTickCount, uxMissedTicks>>
         /\ kernel' = "replayWake" <=> kernel = "replayWake"
<1> DEFINE Stands == /\ UNCHANGED <<xTickCount, uxMissedTicks>>
                     /\ kernel' = "replayWake" <=> kernel = "replayWake"
<1> USE DEF timeVars, missedVars, loopVars
<1>1. CASE Main
  BY <1>1 DEF Main, CreateBeforeStart, DeleteBeforeStart, SuspendBeforeStart,
     BeforeStart, vTaskStartScheduler
<1>2. ASSUME NEW e, Post(e) PROVE Stands
  BY <1>2 DEF Post
<1>3. ASSUME NEW t, ApplicationCall(t) PROVE Stands
  <2>1. ASSUME NEW x, NEW p, xTaskCreate(t, x, p) PROVE Stands
    BY <2>1 DEF xTaskCreate, CreateTask
  <2>2. ASSUME NEW x, vTaskDelete(t, x) PROVE Stands
    BY <2>2 DEF vTaskDelete, Delete
  <2>3. ASSUME NEW x, vTaskSuspend(t, x) \/ vTaskResume(t, x) PROVE Stands
    BY <2>3 DEF vTaskSuspend, vTaskResume
  <2>4. ASSUME NEW x, NEW p, vTaskPrioritySet(t, x, p) PROVE Stands
    BY <2>4 DEF vTaskPrioritySet
  <2>5. CASE vTaskSuspendAll(t) \/ DelayZero(t)
    BY <2>5 DEF vTaskSuspendAll, DelayZero, SuspendAllVars, portYIELD
  <2>6. ASSUME NEW f, EnterDelay(t, f) PROVE Stands
    BY <2>6 DEF EnterDelay, SuspendAllVars
  <2>7. ASSUME NEW e, QueueWait(t, e) PROVE Stands
    BY <2>7 DEF QueueWait, SuspendAllVars
  <2>8. ASSUME NEW e, QueueSend(t, e) PROVE Stands
    BY <2>8, <1>2 DEF QueueSend
  <2>9. QED
    BY <1>3, <2>1, <2>2, <2>3, <2>4, <2>5, <2>6, <2>7, <2>8 DEF ApplicationCall
<1>4. ASSUME NEW t, FinishCall(t) PROVE Stands
  <2>1. CASE xTaskResumeAll(t)
    BY <2>1 DEF xTaskResumeAll, Call, At, InterruptsOn
  <2>2. QED
    BY <1>4, <2>1 DEF FinishCall, CreatedYield, vTaskDelay, vTaskDelayUntil,
       vTaskPlaceOnEventList, QueueUnlock, EndWithYield, portYIELD
<1>5. CASE IdleTask
  BY <1>5 DEF IdleTask, IdleCheck, IdleLook, IdleReap, IdleFree, IdleYield,
     SuspendAllVars
<1>6. CASE MaskedLoop
  BY <1>6 DEF CountsATick, MaskedLoop, DrainPending, DrainDone, ResumeAllDone,
     WakeOne, TickDone, LoopStep
<1>7. CASE Interrupt \/ vTaskSwitchContext
  BY <1>2, <1>7 DEF CountsATick, Interrupt, EventISR, xTaskResumeFromISR,
     vTaskSwitchContext
<1>8. CASE UNCHANGED vars
  BY <1>8 DEF vars
<1>9. QED
  BY <1>1, <1>3, <1>4, <1>5, <1>6, <1>7, <1>8 DEF Next

\* The tick interrupt adds one tick, the replay loop none.
LEMMA TickCounted ==
  ASSUME IInv, CountsATick
  PROVE  \/ TicksTaken' = TicksTaken
         \/ TicksTaken' = Tick(TicksTaken + 1) /\ kernel = "none" /\ pc' = pc
<1>0. /\ xTickCount \in 0 .. portMAX_DELAY /\ uxMissedTicks \in Nat
      /\ portMAX_DELAY \in Nat \ {0}
  BY MaxDelayAssumption, TasksAssumption DEF IInv, TypeOK, TickType
<1> DEFINE n == xTickCount + uxMissedTicks
<1>1. n \in Nat
  BY <1>0
<1>2. xTickCount + 1 <= portMAX_DELAY => Tick(xTickCount + 1) = xTickCount + 1
  BY <1>0 DEF Tick
<1>3. xTickCount = portMAX_DELAY => Tick(xTickCount + 1) = 0
  BY <1>0 DEF Tick
<1>4. CASE TickISR
  <2>1. kernel = "none" /\ pc' = pc /\ TicksTaken = Tick(n)
    <3>1. n + 0 = n
      BY <1>0
    <3>2. QED
      BY <1>4, <3>1 DEF TickISR, InterruptsOn, TicksTaken
  <2>2. TicksTaken' = Tick(n + 1)
    <3>1. CASE uxSchedulerSuspended = 0
      <4>1. /\ xTickCount' = Tick(xTickCount + 1) /\ kernel' = "tick"
            /\ uxMissedTicks' = uxMissedTicks
        BY <1>4, <3>1 DEF TickISR, CountTick
      <4>2. CASE xTickCount = portMAX_DELAY
        <5>1. /\ xTickCount' + uxMissedTicks' + 0 = uxMissedTicks
              /\ n + 1 = uxMissedTicks + portMAX_DELAY + 1
          BY <1>0, <1>3, <4>1, <4>2
        <5>2. QED
          BY <1>0, <4>1, <5>1, WholePeriod DEF TicksTaken
      <4>3. CASE xTickCount # portMAX_DELAY
        <5>1. xTickCount' + uxMissedTicks' + 0 = n + 1
          BY <1>0, <1>2, <4>1, <4>3
        <5>2. QED
          BY <4>1, <5>1 DEF TicksTaken
      <4>4. QED
        BY <4>2, <4>3
    <3>2. CASE uxSchedulerSuspended # 0
      <4>1. xTickCount' = xTickCount /\ uxMissedTicks' = uxMissedTicks + 1
            /\ kernel' = "none"
        BY <1>4, <2>1, <3>2 DEF TickISR, timeVars
      <4>2. xTickCount' + uxMissedTicks' + 0 = n + 1
        BY <1>0, <4>1
      <4>3. QED
        BY <4>1, <4>2 DEF TicksTaken
    <3>3. QED
      BY <3>1, <3>2
  <2> HIDE DEF n
  <2>3. QED
    BY <1>1, <2>1, <2>2, WholePeriod
<1>5. CASE ReplayTick
  <2>1. /\ kernel = "replay" /\ kernel' = "replayWake"
        /\ xTickCount' = Tick(xTickCount + 1) /\ uxMissedTicks' = uxMissedTicks
    BY <1>5 DEF ReplayTick, LoopStep, CountTick, missedVars
  <2>2. TicksTaken = Tick(n)
    <3>1. n + 0 = n
      BY <1>0
    <3>2. QED
      BY <2>1, <3>1 DEF TicksTaken
  <2>3. TicksTaken' = Tick(n)
    <3>1. CASE xTickCount = portMAX_DELAY
      <4>1. xTickCount' + uxMissedTicks' + portMAX_DELAY = n
        BY <1>0, <1>3, <2>1, <3>1
      <4>2. QED
        BY <2>1, <4>1 DEF TicksTaken
    <3>2. CASE xTickCount # portMAX_DELAY
      <4>1. xTickCount' + uxMissedTicks' + portMAX_DELAY = n + portMAX_DELAY + 1
        BY <1>0, <1>2, <2>1, <3>2
      <4> HIDE DEF n
      <4>2. QED
        BY <1>1, <2>1, <4>1, WholePeriod DEF TicksTaken
    <3>3. QED
      BY <3>1, <3>2
  <2>4. QED
    BY <2>2, <2>3
<1>6. CASE ReplayWakeDone
  <2>1. /\ kernel = "replayWake" /\ kernel' = "replay"
        /\ xTickCount' = xTickCount /\ uxMissedTicks' = uxMissedTicks - 1
        /\ uxMissedTicks > 0
    BY <1>6 DEF ReplayWakeDone, LoopStep, timeVars, IInv, KernelOK
  <2> DEFINE m == xTickCount + uxMissedTicks'
  <2>2. /\ m \in Nat /\ xTickCount' + uxMissedTicks' + 0 = m
        /\ xTickCount + uxMissedTicks + portMAX_DELAY = m + portMAX_DELAY + 1
    BY <1>0, <2>1
  <2> HIDE DEF m
  <2>3. TicksTaken = Tick(m) /\ TicksTaken' = Tick(m)
    BY <2>1, <2>2, WholePeriod DEF TicksTaken
  <2>4. QED
    BY <2>3
<1>7. QED
  BY <1>4, <1>5, <1>6 DEF CountsATick

\* The tick count does not slip: whatever suspends the scheduler and for how
\* many ticks, each tick of the interrupt is counted once.
THEOREM NoTickIsLost ==
  ASSUME "DeleteBeforeStart" \notin Calls
  PROVE  Spec => TicksKept
<1>1. ASSUME IInv, [Next]_vars, xSchedulerRunning
      PROVE  \/ TicksTaken' = TicksTaken
             \/ TicksTaken' = Tick(TicksTaken + 1) /\ kernel = "none" /\ pc' = pc
  <2>1. CASE CountsATick
    BY <1>1, <2>1, TickCounted
  <2>2. CASE ~ CountsATick
    <3>1. /\ UNCHANGED <<xTickCount, uxMissedTicks>>
          /\ kernel' = "replayWake" <=> kernel = "replayWake"
      BY <1>1, <2>2, TimeStands
    <3>2. TicksTaken' = TicksTaken
      BY <3>1 DEF TicksTaken
    <3>3. QED
      BY <3>2
  <2>3. QED
    BY <2>1, <2>2
<1>2. IInv /\ [Next]_vars =>
        [xSchedulerRunning =>
           \/ TicksTaken' = TicksTaken
           \/ /\ TicksTaken' = Tick(TicksTaken + 1)
              /\ kernel = "none" /\ pc' = pc]_vars
  BY <1>1
<1>3. QED
  BY <1>2, InvariantHolds, PTL DEF Spec, TicksKept

-----------------------------------------------------------------------------
(* Lists that are held *)

\* The lists of generic items, with their cursors, are as they were.
SameRings(xl, yl) ==
  \A L \in Lists \ (EventLists \cup {Pending}) :
    yl.ring[L] = xl.ring[L] /\ yl.index[L] = xl.index[L]

\* An event item that goes from one list to another leaves them alone.
LEMMA EventItemMoves ==
  ASSUME NEW xl, WellFormed(xl), NEW x,
         xl.container[x] \in EventLists \cup {Pending, Null}
  PROVE  /\ SameRings(xl, vListRemove(xl, x))
         /\ SameRings(xl, vListInsertEnd(vListRemove(xl, x), Pending, x))
         /\ SameRings(xl, vListInsertEnd(xl, Pending, x))
<1>1. /\ xl.ring = [L \in Lists |-> xl.ring[L]]
      /\ xl.index = [L \in Lists |-> xl.index[L]]
  BY DEF WellFormed, ListsOK, XLists
<1>2. \A L \in Lists \ (EventLists \cup {Pending}) :
        L \in Lists /\ L # Pending /\ L # xl.container[x]
  BY ListFacts
<1>3. ASSUME NEW yl, SameRings(xl, yl),
             yl.ring = [L \in Lists |-> yl.ring[L]],
             yl.index = [L \in Lists |-> yl.index[L]]
      PROVE  SameRings(xl, vListInsertEnd(yl, Pending, x))
  <2> DEFINE i  == yl.index[Pending] + 1
             zl == LinkAt(yl, Pending, x, i)
             vl == [zl EXCEPT !.index[Pending] = i]
  <2>1. /\ \A L \in Lists \ {Pending} : zl.ring[L] = yl.ring[L]
        /\ \A L \in Lists \ {Pending} : zl.index[L] = yl.index[L]
        /\ zl.index = [L \in Lists |-> zl.index[L]]
    BY <1>3 DEF LinkAt
  <2>2. /\ vl.ring = zl.ring
        /\ vl.index = [zl.index EXCEPT ![Pending] = i]
    BY DEF LinkAt
  <2> HIDE DEF zl, vl
  <2>3. SameRings(yl, vl)
    BY <1>2, <2>1, <2>2 DEF SameRings
  <2>4. SameRings(xl, vl)
    BY <1>3, <2>3 DEF SameRings
  <2>5. QED
    BY <2>4 DEF vListInsertEnd, vl, zl
<1> DEFINE wl == vListRemove(xl, x)
<1>4. /\ SameRings(xl, wl)
      /\ wl.ring = [L \in Lists |-> wl.ring[L]]
      /\ wl.index = [L \in Lists |-> wl.index[L]]
  BY <1>1, <1>2 DEF SameRings, vListRemove
<1>5. SameRings(xl, xl)
  BY DEF SameRings
<1> HIDE DEF wl
<1>6. SameRings(xl, vListInsertEnd(wl, Pending, x))
  BY <1>3, <1>4
<1>7. QED
  BY <1>1, <1>3, <1>4, <1>5, <1>6 DEF wl

\* A post or a resume by an interrupt, while a call holds the scheduler.
LEMMA InterruptHeld ==
  ASSUME IInv, uxSchedulerSuspended # 0,
         (\E e \in Events : Post(e)) \/ (\E x \in Tasks : xTaskResumeFromISR(x))
  PROVE  SameRings(lists, lists')
<1>0. WellFormed(lists) /\ SameRings(lists, lists)
  BY WellFormedNow DEF IInv, SameRings
<1>1. ASSUME NEW e \in Events, Post(e)
      PROVE  SameRings(lists, lists')
  <2>1. CASE lists' = lists
    BY <2>1 DEF SameRings
  <2>2. CASE ~ queueLocked[e]
    <3> DEFINE t == FirstWaiting(e)
    <3>1. lists' = vListInsertEnd(vListRemove(lists, Event(t)), Pending, Event(t))
      BY <1>1, <2>2 DEF Post, xTaskRemoveFromEventList
    <3>2. ~ listLIST_IS_EMPTY(lists, EventList(e))
      BY <1>1, <2>2 DEF Post
    <3>3. lists.container[Event(t)] = EventList(e) /\ EventList(e) \in EventLists
      BY <3>2, FirstOfEvents DEF EventLists, FirstWaiting
    <3> HIDE DEF t
    <3>4. QED
      BY <1>0, <3>1, <3>3, EventItemMoves
  <2>3. QED
    BY <1>1, <2>1, <2>2 DEF Post, listVars
<1>2. ASSUME NEW x \in Tasks, xTaskResumeFromISR(x)
      PROVE  SameRings(lists, lists')
  <2>1. /\ lists' = vListInsertEnd(lists, Pending, Event(x))
        /\ lists.container[Event(x)] = Null
    BY <1>2 DEF xTaskResumeFromISR, xTaskIsTaskSuspended,
                listIS_CONTAINED_WITHIN
  <2>2. QED
    BY <1>0, <2>1, EventItemMoves
<1>3. QED
  BY <1>1, <1>2

\* Every other step moves a label or leaves the lists alone.
LEMMA CallHeld ==
  ASSUME IInv, [Next]_vars, uxSchedulerSuspended > 0,
         pc[pxCurrentTCB] # "run", pc' = pc
  PROVE  SameRings(lists, lists')
<1>0. /\ SameRings(lists, lists) /\ pc \in [AllTasks -> Labels]
      /\ xSchedulerRunning /\ kernel = "none" /\ uxSchedulerSuspended # 0
  BY DEF IInv, SameRings, TypeOK, BeforeOK, KernelOK
<1>same. lists' = lists => SameRings(lists, lists')
  BY <1>0
<1> USE DEF listVars
<1>1. CASE Main
  BY <1>0, <1>1 DEF Main, CreateBeforeStart, DeleteBeforeStart,
     SuspendBeforeStart, BeforeStart, vTaskStartScheduler
<1>2. ASSUME NEW t, ApplicationCall(t) PROVE FALSE
  BY <1>2 DEF ApplicationCall, xTaskCreate, vTaskDelete, vTaskSuspend,
     vTaskResume, vTaskPrioritySet, vTaskSuspendAll, EnterDelay, DelayZero,
     QueueWait, QueueSend, BlockingCall, Call, At
<1>3. ASSUME NEW t, FinishCall(t) PROVE lists' = lists
  <2>1. ASSUME NEW l, At(t, l) PROVE t \in AllTasks /\ pc[t] = l
    BY <2>1, AtFacts
  <2>2. CASE xTaskResumeAll(t)
    BY <2>2 DEF xTaskResumeAll
  <2>3. CASE CreatedYield(t) \/ EndWithYield(t)
    BY <2>3 DEF CreatedYield, EndWithYield, portYIELD
  <2>4. ASSUME NEW l \in {"vTaskDelay", "vTaskDelayUntil"}, At(t, l),
               pc' = [pc EXCEPT ![t] = "blocked"]
        PROVE  FALSE
    BY <1>0, <2>1, <2>4
  <2>5. ASSUME At(t, "place"), pc' = [pc EXCEPT ![t] = "unlock"]
        PROVE  FALSE
    BY <1>0, <2>1, <2>5
  <2>6. ASSUME At(t, "unlock"), pc' = [pc EXCEPT ![t] = "blocked"]
        PROVE  FALSE
    BY <1>0, <2>1, <2>6
  <2>7. QED
    BY <1>3, <2>2, <2>3, <2>4, <2>5, <2>6 DEF FinishCall, vTaskDelay,
       vTaskDelayUntil, vTaskPlaceOnEventList, QueueUnlock, Goto
<1>4. CASE IdleTask
  <2>1. CASE IdleReap
    <3>1. pc[Idle] = "idleReap" /\ Idle \in AllTasks
      BY <2>1, AtFacts DEF IdleReap
    <3>2. QED
      BY <1>0, <2>1, <3>1 DEF IdleReap, Goto
  <2>2. QED
    BY <1>0, <1>4, <2>1 DEF IdleTask, IdleCheck, IdleLook, IdleFree, IdleYield,
       SuspendAllVars
<1>5. CASE MaskedLoop
  BY <1>0, <1>5 DEF MaskedLoop, DrainPending, DrainDone, ReplayTick,
     ResumeAllDone, WakeOne, TickDone, ReplayWakeDone, LoopStep
<1>6. CASE Interrupt
  <2>1. CASE TickISR
    BY <1>same, <2>1 DEF TickISR
  <2>2. CASE ~ TickISR
    BY <1>0, <1>6, <2>2, InterruptHeld DEF Interrupt, EventISR
  <2>3. QED
    BY <2>1, <2>2
<1>7. CASE vTaskSwitchContext \/ UNCHANGED vars
  BY <1>0, <1>same, <1>7 DEF vTaskSwitchContext, vars
<1>8. QED
  BY <1>0, <1>1, <1>2, <1>3, <1>4, <1>5, <1>6, <1>7 DEF Next

\* A call that suspended the scheduler has the ready and delayed lists to
\* itself, whatever the interrupts do between two of its steps.
THEOREM HeldListsStay ==
  ASSUME "DeleteBeforeStart" \notin Calls
  PROVE  Spec => LockedListsHeld
<1>1. ReadyLists \cup DelayedLists \subseteq Lists \ (EventLists \cup {Pending})
  BY ListFacts DEF Lists, ReadyLists
<1>2. IInv /\ [Next]_vars =>
        [uxSchedulerSuspended > 0 /\ pc[pxCurrentTCB] # "run" /\ pc' = pc
           => \A L \in ReadyLists \cup DelayedLists :
                /\ lists'.ring[L] = lists.ring[L]
                /\ lists'.index[L] = lists.index[L]]_vars
  BY <1>1, CallHeld DEF SameRings
<1>3. QED
  BY <1>2, InvariantHolds, PTL DEF Spec, LockedListsHeld

-----------------------------------------------------------------------------
(* The highest ready priority *)

\* A context switch is on its way: asked for, noted, or still to be asked for
\* by the call or the loop in progress.
Announced ==
  \/ yieldPending \/ xMissedYield \/ xYieldRequired \/ kernel = "tick"
  \/ pc[pxCurrentTCB] \in {"yield", "unlock", "blocked"}
  \/ /\ pc[pxCurrentTCB] = "created"
     /\ uxPriority[pxCurrentTCB] < askedPriority[pxCurrentTCB]

Exact == uxTopReadyPriority = uxPriority[pxCurrentTCB]

\* uxTopReadyPriority leaves the priority of the current task only when a
\* switch is announced; the replay of ticks runs with xYieldRequired set.
Highest ==
  /\ xSchedulerRunning => Announced \/ Exact
  /\ ~ xSchedulerRunning =>
       IF pxCurrentTCB = Null THEN uxTopReadyPriority = 0 ELSE Exact
  /\ kernel \in {"none", "tick"} => ~ xYieldRequired
  /\ kernel = "replayWake" => xYieldRequired
  /\ kernel = "replay" /\ uxMissedTicks > 0 => xYieldRequired

\* All there is to show of a step outside the loops.
LEMMA HighestStep ==
  ASSUME Highest, kernel = "none", UNCHANGED loopVars, xSchedulerRunning',
         Announced' \/ Exact'
  PROVE  Highest'
BY DEF Highest, loopVars

\* The processor is with an existing task, whose priority is a number.
LEMMA CurrentFacts ==
  ASSUME IInv, xSchedulerRunning
  PROVE  /\ pxCurrentTCB # Null /\ pxCurrentTCB \in AllTasks /\ pxCurrentTCB \in tcb
         /\ uxPriority[pxCurrentTCB] \in Nat /\ uxTopReadyPriority \in Nat
         /\ \A x \in AllTasks : uxPriority[x] \in Nat
BY ConstantFacts DEF IInv, CurrentOK, TypeOK

\* A task that becomes ready below the current one does not raise
\* uxTopReadyPriority.
LEMMA RaiseExact ==
  ASSUME IInv, xSchedulerRunning, NEW x \in AllTasks, Exact, RaiseTop(uxPriority[x])
  PROVE  NotBelowCurrent(x) \/ UNCHANGED uxTopReadyPriority
BY CurrentFacts DEF Exact, RaiseTop, NotBelowCurrent

\* ... nor does the first task of an event list that a post wakes.
LEMMA RemoveExact ==
  ASSUME IInv, xSchedulerRunning, NEW e \in Events, Exact,
         ~ listLIST_IS_EMPTY(lists, EventList(e)), xTaskRemoveFromEventList(e)
  PROVE  NotBelowCurrent(FirstWaiting(e)) \/ UNCHANGED uxTopReadyPriority
<1>1. EventList(e) \in EventLists \cup {Pending}
  BY DEF EventLists
<1>2. FirstWaiting(e) \in AllTasks
  BY <1>1, FirstOfEvents DEF FirstWaiting
<1>3. RaiseTop(uxPriority[FirstWaiting(e)]) \/ UNCHANGED uxTopReadyPriority
  BY DEF xTaskRemoveFromEventList
<1>4. QED
  BY <1>2, <1>3, RaiseExact

\* A call or an interrupt that leaves the current task, its priority and its
\* place in a call alone.
LEMMA SameCurrent ==
  ASSUME Highest, xSchedulerRunning, kernel = "none",
         UNCHANGED <<loopVars, pxCurrentTCB, xSchedulerRunning, pc>>,
         uxPriority'[pxCurrentTCB] = uxPriority[pxCurrentTCB],
         askedPriority'[pxCurrentTCB] = askedPriority[pxCurrentTCB],
         xMissedYield => xMissedYield', yieldPending => yieldPending',
         Exact => yieldPending' \/ UNCHANGED uxTopReadyPriority
  PROVE  Highest'
BY DEF Highest, Exact, Announced, loopVars

\* vTaskResume and xTaskResumeFromISR.
LEMMA ResumeExact ==
  ASSUME IInv, xSchedulerRunning, NEW x \in AllTasks, ResumeNow(x)
  PROVE  /\ yieldPending => yieldPending'
         /\ Exact => yieldPending' \/ UNCHANGED uxTopReadyPriority
BY RaiseExact DEF ResumeNow

\* A post, by a task or an interrupt.
LEMMA PostHighest ==
  ASSUME IInv, Highest, InterruptsOn, NEW e \in Events, Post(e)
  PROVE  Highest'
<1>1. xSchedulerRunning /\ kernel = "none"
  BY DEF InterruptsOn
<1>2. /\ yieldPending => yieldPending'
      /\ Exact => yieldPending' \/ UNCHANGED uxTopReadyPriority
  BY <1>1, RemoveExact DEF Post, listVars
<1>3. QED
  BY <1>1, <1>2, SameCurrent DEF Post, taskVars, missedVars

\* vTaskPrioritySet of the caller or of another task.
LEMMA PrioritySetHighest ==
  ASSUME IInv, Highest, NEW t, NEW x, NEW asked \in RequestedPriorities,
         vTaskPrioritySet(t, x, asked)
  PROVE  Highest'
<1>1. PICK new \in Priorities : new = CapPriority(asked)
  BY CapFacts
<1>2. /\ xSchedulerRunning /\ kernel = "none" /\ t = pxCurrentTCB
      /\ pc[t] = "run" /\ ~ yieldPending /\ t \in AllTasks
  BY AtFacts DEF vTaskPrioritySet, Call
<1>3. /\ new # uxPriority[x] /\ x \in AllTasks
      /\ uxPriority' = [uxPriority EXCEPT ![x] = new]
      /\ IF IsReady(x) THEN RaiseTop(new) ELSE UNCHANGED uxTopReadyPriority
      /\ yieldPending' = (IF new > uxPriority[x] THEN x # t ELSE x = t)
      /\ UNCHANGED <<loopVars, pxCurrentTCB, xSchedulerRunning, pc, missedVars,
                     askedPriority>>
  BY <1>1, HandleFacts DEF vTaskPrioritySet, IsReady, Container,
     listIS_CONTAINED_WITHIN
<1>4. /\ uxPriority \in [AllTasks -> Priorities] /\ new \in Nat
      /\ uxPriority[x] \in Nat /\ uxPriority[t] \in Nat
      /\ uxTopReadyPriority \in Nat
  BY <1>2, <1>3, ConstantFacts DEF IInv, TypeOK
<1>5. CASE yieldPending' = TRUE
  BY <1>2, <1>3, <1>5, HighestStep DEF Announced
<1>6. CASE xMissedYield \/ xYieldRequired
  BY <1>2, <1>3, <1>6, HighestStep DEF Announced, missedVars, loopVars
<1>7. CASE yieldPending' # TRUE /\ ~ xMissedYield /\ ~ xYieldRequired
  <2>1. Exact
    BY <1>2, <1>7 DEF Highest, Announced
  <2>2. CASE x = t
    <3>1. new > uxPriority[t]
      BY <1>3, <1>4, <1>7, <2>2
    <3>2. IsReady(t)
      BY <1>2 DEF IInv, CurrentOK, AllTasks, TypeOK
    <3>3. RaiseTop(new)
      BY <1>3, <2>2, <3>2
    <3>4. Exact'
      BY <1>2, <1>3, <1>4, <2>1, <2>2, <3>1, <3>3 DEF Exact, RaiseTop
    <3>5. QED
      BY <1>2, <1>3, <3>4, HighestStep
  <2>3. CASE x # t
    <3>1. ~ (new > uxPriority[x])
      BY <1>3, <1>7, <2>3
    <3>2. IsReady(x) => uxPriority[x] <= uxTopReadyPriority
      BY <1>3 DEF IInv, TopOK, IsReady, TypeOK
    <3>3. UNCHANGED uxTopReadyPriority
      BY <1>3, <1>4, <3>1, <3>2 DEF RaiseTop
    <3>4. Exact'
      BY <1>2, <1>3, <1>4, <2>1, <2>3, <3>3 DEF Exact
    <3>5. QED
      BY <1>2, <1>3, <3>4, HighestStep
  <2>4. QED
    BY <2>2, <2>3
<1>8. QED
  BY <1>5, <1>6, <1>7

\* xTaskGenericCreate, called by a running task.
LEMMA CreateHighest ==
  ASSUME IInv, Highest, NEW t, NEW new, NEW asked \in RequestedPriorities,
         xTaskCreate(t, new, asked)
  PROVE  Highest'
<1>1. /\ xSchedulerRunning /\ kernel = "none" /\ t = pxCurrentTCB
      /\ pc[t] = "run" /\ ~ yieldPending /\ t \in AllTasks /\ t # Null /\ t \in tcb
  BY AtFacts DEF xTaskCreate, Call
<1>2. PICK p \in Priorities : p = CapPriority(asked)
  BY CapFacts
<1>3. /\ new \notin tcb /\ new \in AllTasks /\ RaiseTop(p)
      /\ uxPriority' = [uxPriority EXCEPT ![new] = p]
      /\ pc' = [pc EXCEPT ![t] = "created", ![new] = "run"]
      /\ askedPriority' = [askedPriority EXCEPT ![t] = asked]
      /\ UNCHANGED <<loopVars, missedVars, pxCurrentTCB, xSchedulerRunning>>
  BY <1>1, <1>2 DEF xTaskCreate, CreateTask, AllTasks
<1>4. /\ uxPriority \in [AllTasks -> Priorities] /\ pc \in [AllTasks -> Labels]
      /\ askedPriority \in [AllTasks -> Nat] /\ p \in Nat /\ asked \in Nat
      /\ uxPriority[t] \in Nat /\ uxTopReadyPriority \in Nat
      /\ p <= asked
  BY <1>1, <1>2, ConstantFacts, CapFacts, TasksAssumption
     DEF IInv, TypeOK, CapPriority, Priorities
<1>5. pc'[t] = "created" /\ uxPriority'[t] = uxPriority[t] /\ askedPriority'[t] = asked
  BY <1>1, <1>3, <1>4
<1>6. CASE uxPriority[t] < asked
  BY <1>1, <1>3, <1>5, <1>6, HighestStep DEF Announced
<1>7. CASE ~ (uxPriority[t] < asked)
  <2>1. CASE xMissedYield \/ xYieldRequired
    BY <1>1, <1>3, <2>1, HighestStep DEF Announced, missedVars, loopVars
  <2>2. CASE ~ xMissedYield /\ ~ xYieldRequired
    <3>1. Exact
      BY <1>1, <2>2 DEF Highest, Announced
    <3>2. Exact'
      BY <1>1, <1>3, <1>4, <1>5, <1>7, <3>1 DEF Exact, RaiseTop
    <3>3. QED
      BY <1>1, <1>3, <3>2, HighestStep
  <2>3. QED
    BY <2>1, <2>2
<1>8. QED
  BY <1>6, <1>7

\* main() creates a task; the first, or one that is not below the current
\* one, becomes the current task.
LEMMA EarlyHighest ==
  ASSUME IInv, Highest, ~ xSchedulerRunning, NEW t \in AllTasks,
         NEW asked \in RequestedPriorities \cup {0}, CreateTask(t, asked),
         t = Idle => asked = 0, t = Idle <=> xSchedulerRunning'
  PROVE  Highest'
<1>1. PICK p \in Priorities : p = CapPriority(asked)
  BY CapFacts
<1>2. /\ t \notin tcb /\ RaiseTop(p)
      /\ uxPriority' = [uxPriority EXCEPT ![t] = p]
      /\ pxCurrentTCB' = (IF pxCurrentTCB = Null \/ uxPriority[pxCurrentTCB] <= asked
                          THEN t ELSE pxCurrentTCB)
      /\ UNCHANGED loopVars
  BY <1>1 DEF CreateTask
<1>3. /\ uxPriority \in [AllTasks -> Priorities] /\ p \in Nat /\ asked \in Nat
      /\ uxTopReadyPriority \in Nat /\ t # Null
      /\ p = IF asked >= configMAX_PRIORITIES THEN configMAX_PRIORITIES - 1
             ELSE asked
      /\ configMAX_PRIORITIES \in Nat
  BY <1>1, ConstantFacts, CapFacts, TasksAssumption, ListFacts
     DEF IInv, TypeOK, CapPriority, Priorities
<1>4. kernel = "none"
  BY DEF IInv, KernelOK
<1>5. Exact'
  <2>1. CASE pxCurrentTCB = Null
    BY <1>2, <1>3, <2>1 DEF Highest, Exact, RaiseTop
  <2>2. CASE pxCurrentTCB # Null
    <3>1. /\ pxCurrentTCB \in AllTasks /\ pxCurrentTCB \in tcb
          /\ uxPriority[pxCurrentTCB] \in 0 .. configMAX_PRIORITIES - 1
      BY <1>3, <2>2 DEF IInv, TypeOK, Priorities
    <3>2. uxTopReadyPriority = uxPriority[pxCurrentTCB] /\ pxCurrentTCB # t
      BY <1>2, <2>2, <3>1 DEF Highest, Exact
    <3>3. CASE uxPriority[pxCurrentTCB] <= asked
      <4>1. pxCurrentTCB' = t /\ uxPriority'[t] = p
        BY <1>2, <1>3, <3>3
      <4>2. uxPriority[pxCurrentTCB] <= p
        BY <1>3, <3>1, <3>3
      <4>3. QED
        BY <1>2, <1>3, <3>1, <3>2, <4>1, <4>2 DEF Exact, RaiseTop
    <3>4. CASE ~ (uxPriority[pxCurrentTCB] <= asked)
      <4>1. /\ pxCurrentTCB' = pxCurrentTCB
            /\ uxPriority'[pxCurrentTCB] = uxPriority[pxCurrentTCB]
        BY <1>2, <1>3, <2>2, <3>1, <3>2, <3>4
      <4>2. p <= uxPriority[pxCurrentTCB]
        BY <1>3, <3>1, <3>4
      <4>3. QED
        BY <1>2, <1>3, <3>1, <3>2, <4>1, <4>2 DEF Exact, RaiseTop
    <3>5. QED
      BY <3>3, <3>4
  <2>3. QED
    BY <2>1, <2>2
<1>6. pxCurrentTCB' # Null
  BY <1>2, <1>3
<1>7. QED
  BY <1>2, <1>4, <1>5, <1>6 DEF Highest, loopVars

\* What main() does, if it neither deletes nor suspends a task.
LEMMA MainHighest ==
  ASSUME "DeleteBeforeStart" \notin Calls, "SuspendBeforeStart" \notin Calls,
         IInv, Highest, Main
  PROVE  Highest'
<1>1. /\ ~ \E x \in Tasks : DeleteBeforeStart(x)
      /\ ~ \E x \in Tasks : SuspendBeforeStart(x)
  BY DEF DeleteBeforeStart, SuspendBeforeStart, BeforeStart
<1>2. ASSUME NEW t \in Tasks, NEW asked \in RequestedPriorities,
             CreateBeforeStart(t, asked)
      PROVE  Highest'
  <2>1. t \in AllTasks /\ t # Idle
    BY TasksAssumption DEF AllTasks
  <2>2. QED
    BY <1>2, <2>1, EarlyHighest DEF CreateBeforeStart, BeforeStart
<1>3. CASE vTaskStartScheduler
  BY <1>3, EarlyHighest DEF vTaskStartScheduler, AllTasks
<1>4. QED
  BY <1>1, <1>2, <1>3 DEF Main

\* A task making a call of its own accord.
LEMMA CallHighest ==
  ASSUME IInv, Highest, NEW t, ApplicationCall(t)
  PROVE  Highest'
<1>1. /\ xSchedulerRunning /\ kernel = "none" /\ ~ fault /\ ~ yieldPending
      /\ t = pxCurrentTCB /\ pc[t] = "run" /\ t \in AllTasks
      /\ pc \in [AllTasks -> Labels]
  <2>1. At(t, "run")
    BY DEF ApplicationCall, xTaskCreate, vTaskDelete, vTaskSuspend,
       vTaskResume, vTaskPrioritySet, vTaskSuspendAll, EnterDelay, DelayZero,
       QueueWait, QueueSend, BlockingCall, Call
  <2>2. QED
    BY <2>1, AtFacts DEF IInv, TypeOK
<1> USE DEF taskVars, missedVars, listVars
<1>2. ASSUME NEW l, pc' = [pc EXCEPT ![t] = l] \/ UNCHANGED pc,
             UNCHANGED <<loopVars, pxCurrentTCB, xSchedulerRunning, uxPriority,
                         uxTopReadyPriority, askedPriority, xMissedYield>>
      PROVE  Highest'
  BY <1>1, <1>2, HighestStep DEF Highest, Announced, Exact, loopVars
<1>3. ASSUME NEW x, vTaskDelete(t, x) PROVE Highest'
  BY <1>2, <1>3 DEF vTaskDelete, Delete, Goto
<1>4. ASSUME NEW x, vTaskSuspend(t, x) PROVE Highest'
  BY <1>2, <1>4 DEF vTaskSuspend, Goto
<1>5. ASSUME NEW x, vTaskResume(t, x) PROVE Highest'
  <2>1. x \in AllTasks /\ ResumeNow(x)
    BY <1>5, HandleFacts DEF vTaskResume
  <2>2. QED
    BY <1>1, <1>5, <2>1, ResumeExact, SameCurrent DEF vTaskResume
<1>6. CASE vTaskSuspendAll(t)
  BY <1>2, <1>6 DEF vTaskSuspendAll, SuspendAllVars
<1>7. ASSUME NEW f, EnterDelay(t, f) PROVE Highest'
  BY <1>2, <1>7 DEF EnterDelay, SuspendAllVars, Goto
<1>8. CASE DelayZero(t)
  BY <1>1, <1>8, HighestStep DEF DelayZero, portYIELD, Announced
<1>9. ASSUME NEW e, QueueWait(t, e) PROVE Highest'
  BY <1>2, <1>9 DEF QueueWait, SuspendAllVars, Goto
<1>10. ASSUME NEW e \in Events, QueueSend(t, e) PROVE Highest'
  BY <1>1, <1>10, PostHighest DEF QueueSend, InterruptsOn
<1>11. QED
  BY <1>3, <1>4, <1>5, <1>6, <1>7, <1>8, <1>9, <1>10, CreateHighest,
     PrioritySetHighest DEF ApplicationCall

\* A call that goes on.
LEMMA FinishHighest ==
  ASSUME IInv, Highest, NEW t, FinishCall(t)
  PROVE  Highest'
<1> USE DEF taskVars, missedVars, listVars
<1>1. ASSUME NEW l, At(t, l)
      PROVE  /\ xSchedulerRunning /\ kernel = "none" /\ ~ yieldPending
             /\ t = pxCurrentTCB /\ pc[t] = l /\ t \in AllTasks
             /\ pc \in [AllTasks -> Labels] /\ askedPriority \in [AllTasks -> Nat]
  BY <1>1, AtFacts DEF IInv, TypeOK
<1>2. ASSUME NEW l, At(t, l), NEW m \in {"yield", "unlock", "blocked"},
             pc' = [pc EXCEPT ![t] = m],
             UNCHANGED <<loopVars, pxCurrentTCB, xSchedulerRunning>>
      PROVE  Highest'
  BY <1>1, <1>2, HighestStep DEF Announced
<1>3. CASE CreatedYield(t)
  <2>1. /\ xSchedulerRunning /\ kernel = "none" /\ ~ yieldPending
        /\ t = pxCurrentTCB /\ pc[t] = "created"
    BY <1>1, <1>3 DEF CreatedYield
  <2>2. QED
    BY <1>3, <2>1, HighestStep DEF CreatedYield, Highest, Announced, Exact,
       loopVars
<1>4. CASE EndWithYield(t)
  BY <1>1, <1>4, HighestStep DEF EndWithYield, portYIELD, Announced
<1>5. CASE xTaskResumeAll(t)
  <2>1. PICK l \in {"run", "blocked", "idleFound", "idleEmpty"} : At(t, l)
    BY <1>5 DEF xTaskResumeAll, Call
  <2>2. /\ xSchedulerRunning /\ kernel = "none" /\ ~ yieldPending
        /\ t = pxCurrentTCB /\ pc[t] = l /\ t \in AllTasks
        /\ pc \in [AllTasks -> Labels]
    BY <1>1, <2>1
  <2>3. /\ UNCHANGED <<xYieldRequired, pxCurrentTCB, xSchedulerRunning,
                       uxPriority, uxTopReadyPriority, xMissedYield>>
        /\ \/ kernel' = "drain" /\ UNCHANGED pc
           \/ AfterResumeAll(t, FALSE) /\ UNCHANGED kernel
    BY <1>5 DEF xTaskResumeAll
  <2>4. CASE kernel' = "drain" /\ UNCHANGED pc
    BY <2>2, <2>3, <2>4 DEF Highest, Announced, Exact
  <2>5. CASE AfterResumeAll(t, FALSE) /\ UNCHANGED kernel
    <3>1. pc'[t] = "yield" \/ l # "blocked"
      BY <2>2, <2>5 DEF AfterResumeAll, Goto
    <3>2. Announced' \/ Exact'
      BY <2>2, <2>3, <2>5, <3>1 DEF Highest, Announced, Exact
    <3>3. QED
      BY <2>2, <2>3, <2>5, <3>2, HighestStep DEF loopVars
  <2>6. QED
    BY <2>3, <2>4, <2>5
<1>6. QED
  BY <1>2, <1>3, <1>4, <1>5 DEF FinishCall, vTaskDelay, vTaskDelayUntil,
     vTaskPlaceOnEventList, QueueUnlock, Goto

\* The idle task.
LEMMA IdleHighest ==
  ASSUME IInv, Highest, IdleTask
  PROVE  Highest'
<1> USE DEF taskVars, missedVars, listVars
<1>1. /\ xSchedulerRunning /\ kernel = "none" /\ ~ yieldPending
      /\ pxCurrentTCB = Idle /\ pc[Idle] \notin {"created", "yield", "unlock", "blocked"}
  <2>1. PICK l \in {"run", "idleLook", "idleReap", "idleFree", "idleYield"} :
          At(Idle, l)
    BY DEF IdleTask, IdleCheck, IdleLook, IdleReap, IdleFree, IdleYield
  <2>2. QED
    BY <2>1, AtFacts
<1>2. /\ UNCHANGED <<loopVars, pxCurrentTCB, xSchedulerRunning,
                     uxTopReadyPriority, xMissedYield>>
      /\ uxPriority'[Idle] = uxPriority[Idle]
  <2>1. CASE IdleFree
    <3>1. Idle # reaped
      BY DEF IInv, IdleOK
    <3>2. QED
      BY <2>1, <3>1 DEF IdleFree, IInv, TypeOK, AllTasks
  <2>2. CASE IdleCheck \/ IdleLook \/ IdleReap \/ IdleYield
    BY <2>2 DEF IdleCheck, IdleLook, IdleReap, IdleYield, SuspendAllVars
  <2>3. QED
    BY <2>1, <2>2 DEF IdleTask
<1>3. QED
  BY <1>1, <1>2, HighestStep DEF Highest, Announced, Exact, loopVars

\* The loops that run with interrupts masked: a task that is not below the
\* current one sets xYieldRequired, and so does a missed tick.
LEMMA LoopHighest ==
  ASSUME IInv, Highest, MaskedLoop
  PROVE  Highest'
<1> USE DEF LoopStep, LoopUnchanged, listVars, taskVars, missedVars
<1>1. /\ xSchedulerRunning /\ kernel # "none"
      /\ uxMissedTicks \in Nat /\ pc \in [AllTasks -> Labels]
      /\ pxCurrentTCB \in AllTasks
  BY CurrentFacts DEF MaskedLoop, DrainPending, DrainDone, ReplayTick,
     ResumeAllDone, WakeOne, TickDone, ReplayWakeDone, IInv, KernelOK, TypeOK
<1>2. CASE DrainPending
  <2>1. PICK t : t = Owner(HeadItem(lists, Pending))
    OBVIOUS
  <2>2. t \in AllTasks
    BY <1>2, <2>1, FirstOfEvents DEF DrainPending
  <2>3. /\ kernel = "drain" /\ RaiseTop(uxPriority[t])
        /\ xYieldRequired' = (xYieldRequired \/ NotBelowCurrent(t))
        /\ UNCHANGED <<kernel, pc, yieldPending, xMissedYield, pxCurrentTCB,
                       uxPriority, askedPriority, xSchedulerRunning>>
    BY <1>2, <2>1 DEF DrainPending
  <2>4. Exact => NotBelowCurrent(t) \/ UNCHANGED uxTopReadyPriority
    BY <1>1, <2>2, <2>3, RaiseExact
  <2>5. QED
    BY <1>1, <2>3, <2>4 DEF Highest, Announced, Exact
<1>3. CASE DrainDone
  BY <1>1, <1>3 DEF DrainDone, Highest, Announced, Exact
<1>4. CASE ReplayTick
  BY <1>1, <1>4 DEF ReplayTick, Highest, Announced, Exact
<1>5. CASE ResumeAllDone
  <2>1. /\ kernel = "replay" /\ kernel' = "none" /\ xYieldRequired' = FALSE
        /\ yieldPending' = (xYieldRequired \/ xMissedYield)
        /\ AfterResumeAll(pxCurrentTCB, xYieldRequired \/ xMissedYield)
        /\ UNCHANGED <<uxTopReadyPriority, pxCurrentTCB, uxPriority,
                       xSchedulerRunning>>
    BY <1>5 DEF ResumeAllDone
  <2>2. /\ pc[pxCurrentTCB] \in {"run", "blocked", "idleFound", "idleEmpty"}
        /\ ~ yieldPending
    BY <2>1 DEF IInv, KernelOK
  <2>3. pc[pxCurrentTCB] = "blocked" =>
          yieldPending' \/ pc'[pxCurrentTCB] = "yield"
    BY <1>1, <2>1, <2>2 DEF AfterResumeAll, Goto
  <2>4. Announced' \/ Exact'
    BY <1>1, <2>1, <2>2, <2>3 DEF Highest, Announced, Exact
  <2>5. QED
    BY <1>1, <2>1, <2>4 DEF Highest
<1>6. CASE WakeOne
  <2>1. /\ kernel = "tick" \/ xYieldRequired
        /\ UNCHANGED <<kernel, xYieldRequired, uxMissedTicks, xSchedulerRunning>>
    BY <1>6 DEF WakeOne, Highest, loopVars
  <2>2. QED
    BY <1>1, <2>1 DEF Highest, Announced
<1>7. CASE TickDone
  BY <1>1, <1>7 DEF TickDone, Highest, Announced
<1>8. CASE ReplayWakeDone
  BY <1>1, <1>8 DEF ReplayWakeDone, Highest, Announced
<1>9. QED
  BY <1>2, <1>3, <1>4, <1>5, <1>6, <1>7, <1>8 DEF MaskedLoop

\* Interrupts and the context switch.
LEMMA PortHighest ==
  ASSUME IInv, IInv', Highest, Interrupt \/ vTaskSwitchContext
  PROVE  Highest'
<1> USE DEF taskVars, missedVars, listVars
<1>1. xSchedulerRunning /\ kernel = "none" /\ InterruptsOn
  BY DEF Interrupt, TickISR, EventISR, xTaskResumeFromISR, vTaskSwitchContext,
         InterruptsOn
<1>2. CASE TickISR
  BY <1>1, <1>2 DEF TickISR, Highest, Announced, Exact
<1>3. ASSUME NEW e \in Events, EventISR(e) PROVE Highest'
  BY <1>1, <1>3, PostHighest DEF EventISR
<1>4. ASSUME NEW x, xTaskResumeFromISR(x) PROVE Highest'
  <2>1. x \in AllTasks
    BY <1>4, HandleFacts DEF xTaskResumeFromISR
  <2>2. ResumeNow(x) \/ UNCHANGED <<uxTopReadyPriority, yieldPending>>
    BY <1>4 DEF xTaskResumeFromISR
  <2>3. QED
    BY <1>1, <1>4, <2>1, <2>2, ResumeExact, SameCurrent DEF xTaskResumeFromISR
<1>5. CASE vTaskSwitchContext
  <2>1. CASE uxSchedulerSuspended # 0
    BY <1>1, <1>5, <2>1, HighestStep DEF vTaskSwitchContext, Announced
  <2>2. CASE uxSchedulerSuspended = 0
    <3>1. SwitchTo(lists) /\ UNCHANGED <<loopVars, xSchedulerRunning, uxPriority>>
      BY <1>5, <2>2 DEF vTaskSwitchContext
    <3>2. ~ fault'
      BY <1>1, <3>1 DEF IInv, CurrentOK
    <3>3. uxTopReadyPriority' = uxPriority[pxCurrentTCB']
      BY <3>1, <3>2, PlacedNow, SwitchFinds DEF IInv
    <3>4. QED
      BY <1>1, <3>1, <3>3, HighestStep DEF Exact
  <2>3. QED
    BY <2>1, <2>2
<1>6. QED
  BY <1>2, <1>3, <1>4, <1>5 DEF Interrupt

\* The three invariants together hold in every reachable state, if main()
\* neither deletes nor suspends a task.
THEOREM HighestHolds ==
  ASSUME "DeleteBeforeStart" \notin Calls, "SuspendBeforeStart" \notin Calls
  PROVE  Spec => [](IInv /\ Deferred /\ Highest)
<1>1. Init => Highest
  BY DEF Init, Highest
<1>2. IInv /\ IInv' /\ Highest /\ [Next]_vars => Highest'
  <2>1. CASE UNCHANGED vars
    BY <2>1 DEF vars, listVars, taskVars, missedVars, loopVars, Highest,
       Announced, Exact
  <2>2. QED
    BY <2>1, MainHighest, CallHighest, FinishHighest, IdleHighest,
       LoopHighest, PortHighest DEF Next
<1>3. QED
  BY <1>1, <1>2, DeferredHolds, PTL DEF Spec

\* At a stable boundary the current task is ready, no ready task is above it
\* and uxTopReadyPriority is its priority: whatever made another task ready,
\* lowered the current one or took it off the ready lists, the yield was not
\* forgotten, also if it had to wait for the end of a critical section, of a
\* masked loop or of vTaskSuspendAll.
THEOREM HighestReadyRuns ==
  ASSUME "DeleteBeforeStart" \notin Calls, "SuspendBeforeStart" \notin Calls
  PROVE  Spec => []HighestRuns
<1>1. IInv /\ Deferred /\ Highest => HighestRuns
  <2> SUFFICES ASSUME IInv, Deferred, Highest, Stable
               PROVE  /\ IsReady(pxCurrentTCB) /\ Exact
                      /\ ReadyAtOrBelow(lists, configMAX_PRIORITIES)
                           \subseteq 0 .. uxPriority[pxCurrentTCB]
    BY DEF HighestRuns, Exact
  <2>1. /\ xSchedulerRunning /\ kernel = "none" /\ ~ fault /\ ~ yieldPending
        /\ uxSchedulerSuspended = 0
        /\ pc[pxCurrentTCB] \notin {"yield", "created"}
    BY DEF Stable, InterruptsOn
  <2>2. pc[pxCurrentTCB] \notin {"unlock", "blocked"}
    BY <2>1 DEF IInv, KernelOK, CurrentOK, Holding
  <2>3. IsReady(pxCurrentTCB)
    BY <2>1, <2>2 DEF IInv, CurrentOK
  <2>4. Exact
    BY <2>1, <2>2 DEF Highest, Announced, Deferred
  <2>5. ASSUME NEW p \in ReadyAtOrBelow(lists, configMAX_PRIORITIES)
        PROVE  p \in 0 .. uxPriority[pxCurrentTCB]
    <3>1. p \in Priorities /\ p <= uxTopReadyPriority
      BY <2>1, <2>5, ReadyBounded DEF ReadyAtOrBelow, TopReadyBound
    <3>2. QED
      BY <2>1, <2>4, <3>1, CurrentFacts DEF Exact, Priorities
  <2>6. QED
    BY <2>3, <2>4, <2>5
<1>2. QED
  BY <1>1, HighestHolds, PTL

-----------------------------------------------------------------------------
(* Lists that lose items or stay                                           *)

\* The lists filled by vListInsert.
WaitLists == DelayedLists \cup EventLists

\* From xl to yl list L stays in order, gains no item, and the items that
\* are still on it have their values.
Kept(L, xl, yl) ==
  /\ WellFormed(yl)
  /\ SortedByValue(xl, L) => SortedByValue(yl, L)
  /\ \A x \in Items : yl.container[x] = L =>
       xl.container[x] = L /\ yl.value[x] = xl.value[x]

\* WaitLists are lists of their own.
LEMMA WaitFacts ==
  /\ WaitLists \subseteq Lists
  /\ \A p \in Priorities : Ready(p) \notin WaitLists
  /\ Pending \notin WaitLists /\ Suspended \notin WaitLists
  /\ Termination \notin WaitLists /\ Null \notin WaitLists
BY ListFacts DEF WaitLists

\* Two steps in a row.
LEMMA KeptTwice ==
  ASSUME NEW L, NEW xl, NEW yl, NEW zl, Kept(L, xl, yl), Kept(L, yl, zl)
  PROVE  Kept(L, xl, zl)
BY DEF Kept

\* A list whose ring and values stay.
LEMMA SameRing ==
  ASSUME NEW L \in Lists, NEW xl, NEW yl, WellFormed(xl), WellFormed(yl),
         yl.ring[L] = xl.ring[L],
         \A x \in Items : xl.container[x] = L => yl.value[x] = xl.value[x]
  PROVE  Kept(L, xl, yl)
<1>1. \A x \in Items : yl.container[x] = L <=> xl.container[x] = L
  BY DEF WellFormed, ListsOK, ContainersAgree, OnList
<1>2. \A i \in 1 .. Len(xl.ring[L]) :
        yl.value[yl.ring[L][i]] = xl.value[xl.ring[L][i]]
  BY RingItem DEF WellFormed
<1>3. SortedByValue(xl, L) => SortedByValue(yl, L)
  BY <1>2 DEF SortedByValue
<1>4. QED
  BY <1>1, <1>3 DEF Kept

\* vListRemove,
LEMMA KeptRemove ==
  ASSUME NEW L \in Lists, NEW xl, WellFormed(xl),
         NEW x \in Items, xl.container[x] \in Lists
  PROVE  Kept(L, xl, vListRemove(xl, x))
<1> DEFINE yl == vListRemove(xl, x)
<1>1. Moved(xl, yl, Lists, Items, x, Null)
  BY RemoveKeeps, ListFacts DEF WellFormed
<1>2. SortedByValue(xl, L) => SortedByValue(yl, L)
  BY RemoveSorted, ListFacts DEF WellFormed
<1>3. xl.container \in [Items -> Lists \cup {Null}]
  BY ContainerType
<1> HIDE DEF yl
<1>4. \A z \in Items : yl.container[z] = L =>
        xl.container[z] = L /\ yl.value[z] = xl.value[z]
  BY <1>1, <1>3, ListFacts DEF Moved
<1>5. Kept(L, xl, yl)
  BY <1>1, <1>2, <1>4 DEF Kept, Moved, WellFormed
<1>6. QED
  BY <1>5 DEF yl

\* an insertion into another list,
LEMMA KeptInsert ==
  ASSUME NEW L \in Lists, NEW M \in Lists, M # L, NEW xl, WellFormed(xl),
         NEW x \in Items, xl.container[x] = Null
  PROVE  /\ Kept(L, xl, vListInsertEnd(xl, M, x))
         /\ Kept(L, xl, vListInsert(xl, M, x))
<1>1. ASSUME NEW yl, Moved(xl, yl, Lists, Items, x, M)
      PROVE  Kept(L, xl, yl)
  <2>1. /\ WellFormed(yl) /\ yl.ring[L] = xl.ring[L]
        /\ yl.value = xl.value
    BY <1>1, ListFacts DEF Moved, WellFormed
  <2>2. QED
    BY <2>1, SameRing
<1>2. /\ Moved(xl, vListInsertEnd(xl, M, x), Lists, Items, x, M)
      /\ Moved(xl, vListInsert(xl, M, x), Lists, Items, x, M)
  BY InsertEndKeeps, InsertKeeps, ListFacts DEF WellFormed
<1>3. QED
  BY <1>1, <1>2

\* the setting of the value of an item that is not on the list,
LEMMA KeptSet ==
  ASSUME NEW L \in Lists, NEW xl, WellFormed(xl), NEW x \in Items,
         xl.container[x] # L, NEW v \in TickType
  PROVE  Kept(L, xl, listSET_LIST_ITEM_VALUE(xl, x, v))
<1> DEFINE yl == listSET_LIST_ITEM_VALUE(xl, x, v)
<1>1. SameLists(xl, yl, Lists, Items)
  BY SetValueKeeps DEF WellFormed
<1>2. yl.value = [xl.value EXCEPT ![x] = v] /\ xl.value \in [Items -> TickType]
  BY DEF listSET_LIST_ITEM_VALUE, WellFormed, ListsOK, XLists
<1> HIDE DEF yl
<1>3. WellFormed(yl) /\ yl.ring[L] = xl.ring[L]
  BY <1>1 DEF SameLists, WellFormed
<1>4. \A z \in Items : xl.container[z] = L => yl.value[z] = xl.value[z]
  BY <1>2
<1>5. Kept(L, xl, yl)
  BY <1>3, <1>4, SameRing
<1>6. QED
  BY <1>5 DEF yl

\* and listGET_OWNER_OF_NEXT_ENTRY, on any list.
LEMMA KeptAdvance ==
  ASSUME NEW L \in Lists, NEW xl, WellFormed(xl),
         NEW M \in Lists, ~ listLIST_IS_EMPTY(xl, M)
  PROVE  Kept(L, xl, AdvanceIndex(xl, M))
<1> DEFINE yl == AdvanceIndex(xl, M)
<1>1. SameLists(xl, yl, Lists, Items)
  BY AdvanceKeeps DEF WellFormed
<1>2. yl.value = xl.value
  BY DEF AdvanceIndex, WellFormed, ListsOK, XLists
<1>3. WellFormed(yl) /\ yl.ring[L] = xl.ring[L]
  BY <1>1 DEF SameLists, WellFormed
<1> HIDE DEF yl
<1>4. Kept(L, xl, yl)
  BY <1>2, <1>3, SameRing
<1>5. QED
  BY <1>4 DEF yl

-----------------------------------------------------------------------------
(* The calls of tasks.c on one task, seen from a list it is not put on     *)

\* A task changes its list,
LEMMA KeptMove ==
  ASSUME NEW L \in Lists, NEW M \in Lists, M # L, NEW xl, WellFormed(xl),
         NEW t \in AllTasks, xl.container[Generic(t)] \in Lists
  PROVE  Kept(L, xl, vListInsertEnd(vListRemove(xl, Generic(t)), M, Generic(t)))
<1> DEFINE yl == vListRemove(xl, Generic(t))
<1>1. Generic(t) \in Items
  BY ItemFacts
<1>2. Relocated(xl, yl, t, Null, xl.container[Event(t)]) /\ Kept(L, xl, yl)
  BY <1>1, RemoveGeneric, KeptRemove
<1> HIDE DEF yl
<1>3. WellFormed(yl) /\ yl.container[Generic(t)] = Null
  BY <1>2, RelocatedPlaces, SMTT(30)
<1>4. Kept(L, yl, vListInsertEnd(yl, M, Generic(t)))
  BY <1>1, <1>3, KeptInsert
<1>5. QED
  BY <1>2, <1>4, KeptTwice DEF yl

\* its event item too,
LEMMA KeptEventOff ==
  ASSUME NEW L \in Lists, NEW M \in Lists, M # L, NEW xl, WellFormed(xl),
         NEW t \in AllTasks, xl.container[Generic(t)] \in Lists,
         xl.container[Event(t)] \in Lists \ {Termination}
  PROVE  Kept(L, xl, vListInsertEnd(vListRemove(vListRemove(xl, Event(t)),
                                                Generic(t)), M, Generic(t)))
<1> DEFINE yl == vListRemove(xl, Event(t))
<1>1. Event(t) \in Items
  BY ItemFacts
<1>2. Relocated(xl, yl, t, xl.container[Generic(t)], Null) /\ Kept(L, xl, yl)
  BY <1>1, RemoveEvent, KeptRemove
<1> HIDE DEF yl
<1>3. WellFormed(yl) /\ yl.container[Generic(t)] \in Lists
  BY <1>2, RelocatedPlaces
<1>4. Kept(L, yl, vListInsertEnd(vListRemove(yl, Generic(t)), M, Generic(t)))
  BY <1>3, KeptMove
<1>5. QED
  BY <1>2, <1>4, KeptTwice DEF yl

\* or its event item only if there is one to take off,
LEMMA KeptUnlink ==
  ASSUME NEW L \in Lists, NEW M \in Lists, M # L, NEW xl, WellFormed(xl),
         NEW t \in AllTasks, xl.container[Generic(t)] \in Lists,
         xl.container[Event(t)] \in (Lists \ {Termination}) \cup {Null}
  PROVE  Kept(L, xl, vListInsertEnd(Unlink(xl, t), M, Generic(t)))
<1> DEFINE yl == vListRemove(xl, Generic(t))
           wl == Unlink(xl, t)
<1>1. Generic(t) \in Items /\ Event(t) \in Items
  BY ItemFacts
<1>2. Relocated(xl, yl, t, Null, xl.container[Event(t)]) /\ Kept(L, xl, yl)
  BY <1>1, RemoveGeneric, KeptRemove
<1>3. Relocated(xl, wl, t, Null, Null)
  BY UnlinkMoves
<1>4. wl = IF yl.container[Event(t)] = Null THEN yl ELSE vListRemove(yl, Event(t))
  BY DEF Unlink
<1> HIDE DEF yl, wl
<1>5. WellFormed(yl) /\ yl.container[Event(t)] = xl.container[Event(t)]
  BY <1>2, RelocatedPlaces
<1>6. WellFormed(wl) /\ wl.container[Generic(t)] = Null
  BY <1>3, RelocatedPlaces
<1>7. Kept(L, xl, wl)
  <2>1. CASE yl.container[Event(t)] = Null
    BY <1>2, <1>4, <2>1
  <2>2. CASE yl.container[Event(t)] # Null
    <3>1. Kept(L, yl, vListRemove(yl, Event(t)))
      BY <1>1, <1>5, <2>2, KeptRemove
    <3>2. QED
      BY <1>2, <1>4, <2>2, <3>1, KeptTwice
  <2>3. QED
    BY <2>1, <2>2
<1>8. Kept(L, wl, vListInsertEnd(wl, M, Generic(t)))
  BY <1>1, <1>6, KeptInsert
<1>9. QED
  BY <1>7, <1>8, KeptTwice DEF wl

\* or only its event item goes to xPendingReadyList.
LEMMA KeptPending ==
  ASSUME NEW L \in Lists, L # Pending, NEW xl, WellFormed(xl),
         NEW t \in AllTasks, xl.container[Event(t)] \in Lists \ {Termination}
  PROVE  Kept(L, xl, vListInsertEnd(vListRemove(xl, Event(t)), Pending, Event(t)))
<1> DEFINE yl == vListRemove(xl, Event(t))
<1>1. Event(t) \in Items /\ Pending \in Lists
  BY ItemFacts, ListFacts
<1>2. Relocated(xl, yl, t, xl.container[Generic(t)], Null) /\ Kept(L, xl, yl)
  BY <1>1, RemoveEvent, KeptRemove
<1> HIDE DEF yl
<1>3. WellFormed(yl) /\ yl.container[Event(t)] = Null
  BY <1>2, RelocatedPlaces
<1>4. Kept(L, yl, vListInsertEnd(yl, Pending, Event(t)))
  BY <1>1, <1>3, KeptInsert
<1>5. QED
  BY <1>2, <1>4, KeptTwice DEF yl

\* A new task is made ready.
LEMMA KeptNew ==
  ASSUME NEW L \in WaitLists, NEW xl, WellFormed(xl), NEW t \in AllTasks,
         NEW p \in Priorities,
         xl.container[Generic(t)] = Null, xl.container[Event(t)] = Null
  PROVE  Kept(L, xl, EnterReady(xl, t, p))
<1> DEFINE wl == [xl EXCEPT !.container = [x \in Items |->
                              IF Owner(x) = t THEN Null ELSE @[x]]]
           zl == listSET_LIST_ITEM_VALUE(wl, Event(t), EventItemValue(p))
<1>1. /\ xl \in XLists(Lists, Items) /\ xl.container \in [Items -> Lists \cup {Null}]
      /\ \A x \in Items : Owner(x) = t => xl.container[x] = Null
  BY ContainerType, ItemFacts DEF WellFormed, ListsOK
<1>2. wl = xl
  <2>1. xl.container = [x \in Items |-> IF Owner(x) = t THEN Null ELSE xl.container[x]]
    BY <1>1
  <2>2. xl = [xl EXCEPT !.container = xl.container]
    BY <1>1 DEF XLists
  <2>3. QED
    BY <2>1, <2>2
<1> HIDE DEF wl
<1>3. /\ Event(t) \in Items /\ Generic(t) \in Items /\ EventItemValue(p) \in TickType
      /\ L \in Lists /\ L # Null /\ Ready(p) \in Lists /\ Ready(p) # L
  BY ItemFacts, ConstantFacts, WaitFacts, ListFacts
<1>4. Relocated(xl, zl, t, Null, Null) /\ Kept(L, xl, zl)
  BY <1>2, <1>3, ValueSet, KeptSet
<1>5. EnterReady(xl, t, p) = vListInsertEnd(zl, Ready(p), Generic(t))
  BY DEF EnterReady, AddToReady, wl
<1> HIDE DEF zl
<1>6. WellFormed(zl) /\ zl.container[Generic(t)] = Null
  BY <1>4, RelocatedPlaces
<1>7. Kept(L, zl, vListInsertEnd(zl, Ready(p), Generic(t)))
  BY <1>3, <1>6, KeptInsert
<1>8. QED
  BY <1>4, <1>5, <1>7, KeptTwice

\* The search of vTaskSwitchContext.
LEMMA KeptSwitch ==
  ASSUME TypeOK, NEW L \in WaitLists, NEW xl, WellFormed(xl), SwitchTo(xl)
  PROVE  Kept(L, xl, lists')
<1> DEFINE found == ReadyAtOrBelow(xl, uxTopReadyPriority)
           top   == HighestOf(found)
<1>1. L \in Lists /\ found \subseteq Priorities
  BY WaitFacts DEF ReadyAtOrBelow
<1>2. CASE found = {}
  <2>1. lists' = xl
    BY <1>2 DEF SwitchTo
  <2>2. QED
    BY <1>1, <2>1, SameRing
<1>3. CASE found # {}
  <2>1. lists' = AdvanceIndex(xl, Ready(top))
    BY <1>3 DEF SwitchTo
  <2>2. top \in found
    BY <1>1, <1>3, HighestExists
  <2>3. Ready(top) \in Lists /\ ~ listLIST_IS_EMPTY(xl, Ready(top))
    BY <2>2, ListFacts DEF ReadyAtOrBelow
  <2> HIDE DEF top
  <2>4. QED
    BY <1>1, <2>1, <2>3, KeptAdvance
<1>4. QED
  BY <1>2, <1>3

-----------------------------------------------------------------------------
(* Steps that put no task on a list that is kept in order                  *)

\* The steps that do: the middle of vTaskDelay, vTaskDelayUntil and
\* vTaskPlaceOnEventList.
Blocks(t) ==
  \/ \E d \in Delays : vTaskDelay(t, d)
  \/ \E previous \in TickType, increment \in TickType :
       vTaskDelayUntil(t, previous, increment)
  \/ \E e \in Events, ticks \in Delays : vTaskPlaceOnEventList(t, e, ticks)

\* A step that leaves the lists alone.
LEMMA KeptStill ==
  ASSUME IInv, NEW L \in WaitLists, lists' = lists
  PROVE  Kept(L, lists, lists')
BY SameRing, WaitFacts, WellFormedNow DEF IInv

\* xTaskGenericCreate: the first call also initialises the lists, which are
\* all empty by then.
LEMMA CreateKept ==
  ASSUME IInv, NEW L \in WaitLists, NEW t \in AllTasks,
         NEW asked \in RequestedPriorities \cup {0}, CreateTask(t, asked)
  PROVE  Kept(L, lists, lists')
<1> DEFINE first == pxCurrentTCB = Null /\ uxCurrentNumberOfTasks = 0
           yl    == IF first THEN vListInitialise(Lists, Items) ELSE lists
<1>1. PICK p \in Priorities : p = CapPriority(asked)
  BY CapFacts
<1>2. t \notin tcb /\ lists' = EnterReady(yl, t, p)
  BY <1>1 DEF CreateTask
<1>3. /\ Container(t) = Null /\ lists.container[Event(t)] = Null
      /\ WellFormed(lists) /\ lists.container[Generic(t)] = Null
  <2>1. Container(t) = Null
    BY <1>2 DEF IInv, Placement
  <2>2. QED
    BY <2>1, PlaceFacts, ListFacts DEF Container
<1>4. /\ Kept(L, lists, yl) /\ WellFormed(yl)
      /\ yl.container[Event(t)] = Null /\ yl.container[Generic(t)] = Null
  <2>1. CASE first
    <3> DEFINE zl == vListInitialise(Lists, Items)
    <3>1. /\ WellFormed(zl) /\ \A x \in Items : zl.container[x] = Null
          /\ zl.ring[L] = << >>
      BY InitialListsOK, ListFacts, WaitFacts DEF WellFormed
    <3>2. yl = zl
      BY <2>1
    <3> HIDE DEF zl, yl
    <3>3. SortedByValue(zl, L)
      BY <3>1, EmptySeq DEF SortedByValue
    <3>4. Kept(L, lists, zl)
      BY <3>1, <3>3, WaitFacts DEF Kept
    <3>5. QED
      BY <3>1, <3>2, <3>4, ItemFacts
  <2>2. CASE ~ first
    BY <1>3, <2>2, SameRing, WaitFacts
  <2>3. QED
    BY <2>1, <2>2
<1> HIDE DEF yl
<1>5. Kept(L, yl, EnterReady(yl, t, p))
  BY <1>4, KeptNew
<1>6. QED
  BY <1>2, <1>4, <1>5, KeptTwice

\* What main() does before the scheduler runs.
LEMMA MainKept ==
  ASSUME IInv, NEW L \in WaitLists, Main
  PROVE  Kept(L, lists, lists')
<1>0. L \in Lists /\ L # Termination /\ L # Suspended
  BY WaitFacts
<1>1. ASSUME NEW t \in Tasks, NEW p \in RequestedPriorities,
             CreateBeforeStart(t, p)
      PROVE  Kept(L, lists, lists')
  BY <1>1, CreateKept DEF CreateBeforeStart, AllTasks
<1>2. ASSUME NEW x \in Tasks, DeleteBeforeStart(x)
      PROVE  Kept(L, lists, lists')
  <2>1. Handle(x) /\ lists' = vListInsertEnd(Unlink(lists, x), Termination, Generic(x))
    BY <1>2 DEF DeleteBeforeStart, Delete
  <2>2. QED
    BY <1>0, <2>1, HandleFacts, PlaceFacts, KeptUnlink, ListFacts
<1>3. ASSUME NEW x \in Tasks, SuspendBeforeStart(x)
      PROVE  Kept(L, lists, lists')
  <2> DEFINE yl == Suspend(lists, x)
  <2>1. /\ x \in AllTasks /\ WellFormed(lists)
        /\ lists.container[Generic(x)] \in Lists
        /\ lists.container[Event(x)] \in (Lists \ {Termination}) \cup {Null}
    BY <1>3, HandleFacts, PlaceFacts DEF SuspendBeforeStart
  <2>2. Kept(L, lists, yl)
    BY <1>0, <2>1, KeptUnlink, ListFacts DEF Suspend
  <2>3. WellFormed(yl)
    BY <2>2 DEF Kept
  <2>4. lists' = yl \/ SwitchTo(yl)
    BY <1>3 DEF SuspendBeforeStart
  <2> HIDE DEF yl
  <2>5. CASE SwitchTo(yl)
    BY <2>2, <2>3, <2>5, KeptSwitch, KeptTwice DEF IInv
  <2>6. QED
    BY <2>2, <2>4, <2>5
<1>4. CASE vTaskStartScheduler
  BY <1>4, CreateKept DEF vTaskStartScheduler, AllTasks
<1>5. QED
  BY <1>1, <1>2, <1>3, <1>4 DEF Main

\* vTaskResume and xTaskResumeFromISR.
LEMMA ResumeKept ==
  ASSUME IInv, NEW L \in WaitLists, NEW x, Handle(x), ResumeNow(x)
  PROVE  Kept(L, lists, lists')
<1>1. /\ x \in AllTasks /\ WellFormed(lists) /\ uxPriority[x] \in Priorities
      /\ lists.container[Generic(x)] \in Lists
  BY HandleFacts, PlaceFacts
<1>2. Ready(uxPriority[x]) \in Lists /\ Ready(uxPriority[x]) # L /\ L \in Lists
  BY <1>1, ListFacts, WaitFacts
<1>3. QED
  BY <1>1, <1>2, KeptMove DEF ResumeNow, AddToReady

\* xTaskRemoveFromEventList.
LEMMA RemoveFromKept ==
  ASSUME IInv, NEW L \in WaitLists, NEW e \in Events,
         ~ listLIST_IS_EMPTY(lists, EventList(e)), xTaskRemoveFromEventList(e)
  PROVE  Kept(L, lists, lists')
<1> DEFINE t == FirstWaiting(e)
<1>1. /\ t \in AllTasks /\ WellFormed(lists)
      /\ lists.container[Generic(t)] \in Lists
      /\ lists.container[Event(t)] \in Lists \ {Termination}
  BY FirstOfEvents DEF EventLists, FirstWaiting
<1>2. \/ lists' = vListInsertEnd(vListRemove(vListRemove(lists, Event(t)), Generic(t)),
                                 Ready(uxPriority[t]), Generic(t))
      \/ lists' = vListInsertEnd(vListRemove(lists, Event(t)), Pending, Event(t))
  BY DEF xTaskRemoveFromEventList, AddToReady
<1> HIDE DEF t
<1>3. uxPriority[t] \in Priorities
  BY <1>1, PlaceFacts
<1>4. /\ Ready(uxPriority[t]) \in Lists /\ Ready(uxPriority[t]) # L
      /\ L \in Lists /\ L # Pending
  BY <1>3, ListFacts, WaitFacts
<1>5. QED
  BY <1>1, <1>2, <1>4, KeptEventOff, KeptPending

\* A post.
LEMMA PostKept ==
  ASSUME IInv, NEW L \in WaitLists, NEW e \in Events, Post(e)
  PROVE  Kept(L, lists, lists')
<1>1. CASE queueLocked[e]
  BY <1>1, KeptStill DEF Post, listVars
<1>2. CASE ~ queueLocked[e]
  BY <1>2, RemoveFromKept DEF Post
<1>3. QED
  BY <1>1, <1>2

\* vTaskPrioritySet, for the delayed lists: it sets the value of an event item.
LEMMA PrioritySetKept ==
  ASSUME IInv, NEW L \in DelayedLists, NEW t, NEW x,
         NEW asked \in RequestedPriorities, vTaskPrioritySet(t, x, asked)
  PROVE  Kept(L, lists, lists')
<1>1. PICK new \in Priorities : new = CapPriority(asked)
  BY CapFacts
<1> DEFINE xl == listSET_LIST_ITEM_VALUE(lists, Event(x), EventItemValue(new))
<1>2. /\ x \in AllTasks /\ WellFormed(lists)
      /\ lists.container[Generic(x)] \in Lists
      /\ Event(x) \in Items /\ lists.container[Event(x)] # L
      /\ L \in Lists /\ EventItemValue(new) \in TickType
      /\ Ready(new) \in Lists /\ Ready(new) # L
  <2>1. Handle(x)
    BY DEF vTaskPrioritySet
  <2>2. QED
    BY <2>1, HandleFacts, PlaceFacts, ItemFacts, ListFacts, ConstantFacts
<1>3. \/ lists' = xl
      \/ lists' = vListInsertEnd(vListRemove(xl, Generic(x)), Ready(new), Generic(x))
  BY <1>1 DEF vTaskPrioritySet, AddToReady
<1>4. /\ Kept(L, lists, xl)
      /\ Relocated(lists, xl, x, lists.container[Generic(x)], lists.container[Event(x)])
  BY <1>2, KeptSet, ValueSet
<1> HIDE DEF xl
<1>5. WellFormed(xl) /\ xl.container[Generic(x)] \in Lists
  BY <1>2, <1>4, RelocatedPlaces, SMTT(30)
<1>6. Kept(L, xl, vListInsertEnd(vListRemove(xl, Generic(x)), Ready(new), Generic(x)))
  BY <1>2, <1>5, KeptMove
<1>7. QED
  BY <1>3, <1>4, <1>6, KeptTwice

\* A task making a call of its own accord.
LEMMA CallKept ==
  ASSUME IInv, NEW L \in WaitLists, NEW t, ApplicationCall(t),
         L \in EventLists => "vTaskPrioritySet" \notin Calls
  PROVE  Kept(L, lists, lists')
<1>0. L \in Lists /\ L # Termination /\ L # Suspended
  BY WaitFacts
<1>1. ASSUME NEW x \in Tasks, NEW p \in RequestedPriorities, xTaskCreate(t, x, p)
      PROVE  Kept(L, lists, lists')
  BY <1>1, CreateKept DEF xTaskCreate, AllTasks
<1>2. ASSUME NEW x, vTaskDelete(t, x)
      PROVE  Kept(L, lists, lists')
  <2>1. Handle(x) /\ lists' = vListInsertEnd(Unlink(lists, x), Termination, Generic(x))
    BY <1>2 DEF vTaskDelete, Delete
  <2>2. QED
    BY <1>0, <2>1, HandleFacts, PlaceFacts, KeptUnlink, ListFacts
<1>3. ASSUME NEW x, vTaskSuspend(t, x)
      PROVE  Kept(L, lists, lists')
  <2>1. Handle(x) /\ lists' = vListInsertEnd(Unlink(lists, x), Suspended, Generic(x))
    BY <1>3 DEF vTaskSuspend, Suspend
  <2>2. QED
    BY <1>0, <2>1, HandleFacts, PlaceFacts, KeptUnlink, ListFacts
<1>4. ASSUME NEW x, vTaskResume(t, x)
      PROVE  Kept(L, lists, lists')
  BY <1>4, ResumeKept DEF vTaskResume
<1>5. ASSUME NEW x, NEW p \in RequestedPriorities, vTaskPrioritySet(t, x, p)
      PROVE  Kept(L, lists, lists')
  <2>1. L \in DelayedLists
    BY <1>5 DEF vTaskPrioritySet, Call, WaitLists
  <2>2. QED
    BY <1>5, <2>1, PrioritySetKept
<1>6. ASSUME NEW e \in Events, QueueSend(t, e)
      PROVE  Kept(L, lists, lists')
  BY <1>6, PostKept DEF QueueSend
<1>7. ASSUME lists' = lists
      PROVE  Kept(L, lists, lists')
  BY <1>7, KeptStill
<1>8. QED
  BY <1>1, <1>2, <1>3, <1>4, <1>5, <1>6, <1>7
     DEF ApplicationCall, vTaskSuspendAll, EnterDelay, DelayZero, portYIELD,
         QueueWait, SuspendAllVars, listVars

\* A call that goes on, unless it blocks; the idle task.
LEMMA FinishKept ==
  ASSUME IInv, NEW L \in WaitLists, NEW t, FinishCall(t), ~ Blocks(t)
  PROVE  Kept(L, lists, lists')
<1>1. ASSUME NEW e \in Events, QueueUnlock(t, e)
      PROVE  Kept(L, lists, lists')
  <2>1. CASE queuePosted[e] /\ ~ listLIST_IS_EMPTY(lists, EventList(e))
    BY <1>1, <2>1, RemoveFromKept DEF QueueUnlock
  <2>2. CASE ~ (queuePosted[e] /\ ~ listLIST_IS_EMPTY(lists, EventList(e)))
    BY <1>1, <2>2, KeptStill DEF QueueUnlock, listVars
  <2>3. QED
    BY <2>1, <2>2
<1>2. CASE CreatedYield(t) \/ xTaskResumeAll(t) \/ EndWithYield(t)
  BY <1>2, KeptStill DEF CreatedYield, xTaskResumeAll, EndWithYield, portYIELD,
     listVars
<1>3. QED
  BY <1>1, <1>2 DEF FinishCall, Blocks

\* The idle task.
LEMMA IdleKept ==
  ASSUME IInv, NEW L \in WaitLists, IdleTask
  PROVE  Kept(L, lists, lists')
<1>1. CASE IdleReap
  <2> DEFINE t == Owner(HeadItem(lists, Termination))
  <2>1. /\ lists' = vListRemove(lists, Generic(t)) /\ pc[Idle] = "idleReap"
    BY <1>1, AtFacts DEF IdleReap
  <2>2. /\ WellFormed(lists) /\ Termination \in Lists /\ L \in Lists
        /\ ~ listLIST_IS_EMPTY(lists, Termination)
    BY <2>1, WellFormedNow, ListFacts, WaitFacts DEF IInv, LabelsOK
  <2>3. /\ HeadItem(lists, Termination) \in Items
        /\ lists.container[HeadItem(lists, Termination)] = Termination
    BY <2>2, HeadOnList DEF WellFormed
  <2>4. /\ t \in AllTasks /\ Generic(t) \in Items
        /\ HeadItem(lists, Termination) = Generic(t)
             \/ HeadItem(lists, Termination) = Event(t)
    BY <2>3, ItemFacts
  <2> HIDE DEF t
  <2>5. lists.container[Generic(t)] \in Lists
    BY <2>2, <2>3, <2>4, PlaceFacts, ListFacts
  <2>6. QED
    BY <2>1, <2>2, <2>4, <2>5, KeptRemove
<1>2. QED
  BY <1>1, KeptStill DEF IdleTask, IdleCheck, IdleLook, IdleFree, IdleYield,
     SuspendAllVars, listVars

\* The loops that run with interrupts masked.
LEMMA LoopKept ==
  ASSUME IInv, NEW L \in WaitLists, MaskedLoop
  PROVE  Kept(L, lists, lists')
<1>1. CASE DrainPending
  <2> DEFINE t == Owner(HeadItem(lists, Pending))
  <2>1. /\ lists' = vListInsertEnd(vListRemove(vListRemove(lists, Event(t)), Generic(t)),
                                   Ready(uxPriority[t]), Generic(t))
        /\ ~ listLIST_IS_EMPTY(lists, Pending)
    BY <1>1 DEF DrainPending, AddToReady
  <2>2. /\ t \in AllTasks /\ WellFormed(lists)
        /\ lists.container[Generic(t)] \in Lists
        /\ lists.container[Event(t)] \in Lists \ {Termination}
    BY <2>1, FirstOfEvents
  <2> HIDE DEF t
  <2>3. uxPriority[t] \in Priorities
    BY <2>2, PlaceFacts
  <2>4. Ready(uxPriority[t]) \in Lists /\ Ready(uxPriority[t]) # L /\ L \in Lists
    BY <2>3, ListFacts, WaitFacts
  <2>5. QED
    BY <2>1, <2>2, <2>4, KeptEventOff
<1>2. CASE WakeOne
  <2> DEFINE t == Owner(HeadItem(lists, pxDelayedTaskList))
  <2>1. /\ lists' = vListInsertEnd(Unlink(lists, t), Ready(uxPriority[t]), Generic(t))
        /\ ~ listLIST_IS_EMPTY(lists, pxDelayedTaskList)
    BY <1>2 DEF WakeOne, Expired, AddToReady
  <2>2. /\ WellFormed(lists) /\ pxDelayedTaskList \in DelayedLists
        /\ pxDelayedTaskList \in Lists
    BY WellFormedNow, ListFacts DEF IInv, TypeOK
  <2>3. /\ HeadItem(lists, pxDelayedTaskList) \in Items
        /\ lists.container[HeadItem(lists, pxDelayedTaskList)] = pxDelayedTaskList
    BY <2>1, <2>2, HeadOnList DEF WellFormed
  <2>4. /\ t \in AllTasks
        /\ HeadItem(lists, pxDelayedTaskList) = Generic(t)
             \/ HeadItem(lists, pxDelayedTaskList) = Event(t)
    BY <2>3, ItemFacts
  <2> HIDE DEF t
  <2>5. /\ lists.container[Generic(t)] \in Lists
        /\ lists.container[Event(t)] \in (Lists \ {Termination}) \cup {Null}
        /\ uxPriority[t] \in Priorities
    BY <2>2, <2>3, <2>4, PlaceFacts, ListFacts
  <2>6. Ready(uxPriority[t]) \in Lists /\ Ready(uxPriority[t]) # L /\ L \in Lists
    BY <2>5, ListFacts, WaitFacts
  <2>7. QED
    BY <2>1, <2>2, <2>4, <2>5, <2>6, KeptUnlink
<1>3. ASSUME lists' = lists
      PROVE  Kept(L, lists, lists')
  BY <1>3, KeptStill
<1>4. QED
  BY <1>1, <1>2, <1>3 DEF MaskedLoop, DrainDone, ReplayTick, ResumeAllDone,
     TickDone, ReplayWakeDone, listVars

\* Interrupts and the context switch.
LEMMA PortKept ==
  ASSUME IInv, NEW L \in WaitLists, Interrupt \/ vTaskSwitchContext
  PROVE  Kept(L, lists, lists')
<1>1. CASE TickISR
  BY <1>1, KeptStill DEF TickISR, listVars
<1>2. ASSUME NEW e \in Events, EventISR(e)
      PROVE  Kept(L, lists, lists')
  BY <1>2, PostKept DEF EventISR
<1>3. ASSUME NEW x, xTaskResumeFromISR(x)
      PROVE  Kept(L, lists, lists')
  <2>1. Handle(x) /\ xTaskIsTaskSuspended(x)
    BY <1>3 DEF xTaskResumeFromISR
  <2>2. CASE uxSchedulerSuspended = 0
    BY <1>3, <2>1, <2>2, ResumeKept DEF xTaskResumeFromISR
  <2>3. CASE uxSchedulerSuspended # 0
    <3>1. /\ lists' = vListInsertEnd(lists, Pending, Event(x))
          /\ lists.container[Event(x)] = Null
      BY <1>3, <2>1, <2>3 DEF xTaskResumeFromISR, xTaskIsTaskSuspended,
                              listIS_CONTAINED_WITHIN
    <3>2. /\ WellFormed(lists) /\ Event(x) \in Items
          /\ L \in Lists /\ Pending \in Lists /\ Pending # L
      BY <2>1, HandleFacts, PlaceFacts, ItemFacts, WaitFacts, ListFacts
    <3>3. QED
      BY <3>1, <3>2, KeptInsert
  <2>4. QED
    BY <2>2, <2>3
<1>4. CASE vTaskSwitchContext
  <2>1. lists' = lists \/ SwitchTo(lists)
    BY <1>4 DEF vTaskSwitchContext, listVars
  <2>2. QED
    BY <2>1, KeptStill, KeptSwitch, WellFormedNow DEF IInv
<1>5. QED
  BY <1>1, <1>2, <1>3, <1>4 DEF Interrupt

\* All steps but those that block, and vTaskPrioritySet for the event lists.
LEMMA StepKept ==
  ASSUME IInv, [Next]_vars, NEW L \in WaitLists,
         \A t \in AllTasks : ~ Blocks(t),
         L \in EventLists => "vTaskPrioritySet" \notin Calls
  PROVE  Kept(L, lists, lists')
<1>1. CASE UNCHANGED vars
  BY <1>1, KeptStill DEF vars, listVars
<1>2. QED
  BY <1>1, MainKept, CallKept, FinishKept, IdleKept, LoopKept, PortKept DEF Next

-----------------------------------------------------------------------------
(* The steps that put a task on a list that is kept in order               *)

\* From xl to yl item x joins list T with value v, in order; nothing else
\* joins a list.
Joined(xl, yl, x, T, v) ==
  /\ WellFormed(yl)
  /\ \A L \in WaitLists : SortedByValue(xl, L) => SortedByValue(yl, L)
  /\ \A L \in WaitLists, z \in Items : yl.container[z] = L =>
       \/ xl.container[z] = L /\ yl.value[z] = xl.value[z]
       \/ z = x /\ L = T /\ yl.value[z] = v

\* vListInsert of a free item.
LEMMA InsertJoins ==
  ASSUME NEW xl, WellFormed(xl), NEW T \in WaitLists,
         NEW x \in Items, xl.container[x] = Null
  PROVE  Joined(xl, vListInsert(xl, T, x), x, T, xl.value[x])
<1> DEFINE yl == vListInsert(xl, T, x)
<1>0. WaitLists \subseteq Lists
  BY WaitFacts
<1>1. Moved(xl, yl, Lists, Items, x, T)
  BY <1>0, InsertKeeps, ListFacts DEF WellFormed
<1>2. ASSUME NEW L \in WaitLists, SortedByValue(xl, L)
      PROVE  SortedByValue(yl, L)
  <2>1. CASE L = T
    BY <1>0, <1>2, <2>1, InsertSorted, ListFacts DEF WellFormed
  <2>2. CASE L # T
    <3>1. Kept(L, xl, yl)
      BY <1>0, <2>2, KeptInsert
    <3>2. QED
      BY <1>2, <3>1 DEF Kept
  <2>3. QED
    BY <2>1, <2>2
<1> HIDE DEF yl
<1>3. xl.container \in [Items -> Lists \cup {Null}]
  BY ContainerType
<1>4. QED
  BY <1>1, <1>2, <1>3 DEF Joined, Moved, WellFormed, yl

\* The list a task waits on until a wake time.
WaitingList(wake) ==
  IF wake < xTickCount THEN pxOverflowDelayedTaskList ELSE pxDelayedTaskList

\* A task leaves its list for the delayed list of its wake time.
LEMMA BlockJoins ==
  ASSUME NEW xl, NEW t \in AllTasks, NEW wake \in TickType, WellFormed(xl),
         xl.container[Generic(t)] \in Lists,
         pxDelayedTaskList \in DelayedLists, pxOverflowDelayedTaskList \in DelayedLists
  PROVE  Joined(xl, BlockUntil(xl, t, wake), Generic(t), WaitingList(wake), wake)
<1> DEFINE T  == WaitingList(wake)
           yl == vListRemove(xl, Generic(t))
           wl == listSET_LIST_ITEM_VALUE(yl, Generic(t), wake)
           zl == vListInsert(wl, T, Generic(t))
<1>u. BlockUntil(xl, t, wake) = zl
  BY DEF BlockUntil, WaitingList
<1>0. /\ T \in WaitLists /\ Generic(t) \in Items
      /\ \A L \in WaitLists : L \in Lists /\ L # Null
  BY ItemFacts, WaitFacts DEF WaitingList, WaitLists
<1>1. /\ Relocated(xl, yl, t, Null, xl.container[Event(t)])
      /\ \A L \in WaitLists : Kept(L, xl, yl)
  BY <1>0, RemoveGeneric, KeptRemove
<1> HIDE DEF yl, T
<1>2. WellFormed(yl) /\ yl.container[Generic(t)] = Null
  BY <1>1, RelocatedPlaces
<1>a. Relocated(yl, wl, t, yl.container[Generic(t)], yl.container[Event(t)])
  BY <1>0, <1>2, ValueSet
<1>3. \A L \in WaitLists : Kept(L, yl, wl)
  BY <1>0, <1>2, KeptSet
<1>4. wl.value[Generic(t)] = wake
  <2>1. yl.value \in [Items -> TickType]
    BY <1>2 DEF WellFormed, ListsOK, XLists
  <2>2. wl.value = [yl.value EXCEPT ![Generic(t)] = wake]
    BY <1>2 DEF listSET_LIST_ITEM_VALUE, WellFormed, ListsOK, XLists
  <2>3. QED
    BY <1>0, <2>1, <2>2
<1> HIDE DEF wl
<1>5. WellFormed(wl) /\ wl.container[Generic(t)] = Null
  <2>1. Relocated(yl, wl, t, Null, yl.container[Event(t)])
    BY <1>2, <1>a
  <2>2. QED
    BY <1>2, <2>1, RelocatedPlaces
<1>6. \A L \in WaitLists : Kept(L, xl, wl)
  BY <1>1, <1>3, KeptTwice
<1>7. Joined(wl, zl, Generic(t), T, wake)
  BY <1>0, <1>4, <1>5, InsertJoins
<1> HIDE DEF zl
<1>8. Joined(xl, zl, Generic(t), T, wake)
  BY <1>6, <1>7 DEF Joined, Kept
<1>9. QED
  BY <1>8, <1>u DEF T

\* From xl to yl the lists filled by vListInsert stay in order, and on the
\* delayed lists only the task t may be new, on the list of its wake time.
Waits(xl, yl, t, wake) ==
  /\ \A L \in WaitLists : SortedByValue(xl, L) => SortedByValue(yl, L)
  /\ \A L \in DelayedLists, s \in AllTasks : yl.container[Generic(s)] = L =>
       \/ xl.container[Generic(s)] = L /\ yl.value[Generic(s)] = xl.value[Generic(s)]
       \/ s = t /\ L = WaitingList(wake) /\ yl.value[Generic(s)] = wake

\* What the three calls that block have in common.
LEMMA BlocksWaits ==
  ASSUME IInv, NEW t \in AllTasks, Blocks(t)
  PROVE  /\ UNCHANGED <<timeVars, kernel, xSchedulerRunning>> /\ kernel = "none"
         /\ \E wake \in TickType \ {xTickCount} : Waits(lists, lists', t, wake)
<1>0. /\ xTickCount \in TickType /\ TickType \subseteq Nat
      /\ DelayedLists \subseteq WaitLists
      /\ \A s \in AllTasks : Generic(s) \in Items
      /\ \A s \in AllTasks : Generic(s) = Generic(t) => s = t
  BY ItemFacts DEF IInv, TypeOK, TickType, WaitLists
<1>1. ASSUME NEW d \in Delays
      PROVE  Tick(xTickCount + d) \in TickType \ {xTickCount}
  <2>1. /\ d \in Nat /\ 0 < d /\ d <= portMAX_DELAY
        /\ xTickCount \in Nat /\ xTickCount <= portMAX_DELAY /\ portMAX_DELAY \in Nat
    BY <1>0, TasksAssumption, MaxDelayAssumption DEF TickType
  <2>2. Tick(xTickCount + d) \in TickType
    BY <2>1, TickInRange
  <2>3. CASE xTickCount + d <= portMAX_DELAY
    <3>1. Tick(xTickCount + d) = xTickCount + d
      BY <2>1, <2>3 DEF Tick
    <3>2. QED
      BY <2>1, <2>2, <3>1
  <2>4. CASE xTickCount + d > portMAX_DELAY
    <3> DEFINE m == xTickCount + d - (portMAX_DELAY + 1)
    <3>1. m \in Nat /\ m < xTickCount /\ m <= portMAX_DELAY
          /\ xTickCount + d = m + portMAX_DELAY + 1
      BY <2>1, <2>4
    <3> HIDE DEF m
    <3>2. Tick(xTickCount + d) = Tick(m) /\ Tick(m) = m
      <4>1. Tick(m + portMAX_DELAY + 1) = Tick(m)
        BY <3>1, WholePeriod
      <4>2. Tick(m) = m
        BY <2>1, <3>1 DEF Tick
      <4>3. QED
        BY <3>1, <4>1, <4>2
    <3>3. QED
      BY <2>1, <2>2, <3>1, <3>2
  <2>5. QED
    BY <2>1, <2>3, <2>4
<1>2. ASSUME NEW xl, NEW wake \in TickType, WellFormed(xl),
             xl.container[Generic(t)] \in Lists,
             pxDelayedTaskList \in DelayedLists,
             pxOverflowDelayedTaskList \in DelayedLists
      PROVE  Waits(xl, BlockUntil(xl, t, wake), t, wake)
  <2>1. Joined(xl, BlockUntil(xl, t, wake), Generic(t), WaitingList(wake), wake)
    BY <1>2, BlockJoins
  <2>2. QED
    BY <1>0, <2>1 DEF Joined, Waits
<1>3. ASSUME NEW d \in Delays, vTaskDelay(t, d)
      PROVE  /\ UNCHANGED <<timeVars, kernel, xSchedulerRunning>> /\ kernel = "none"
             /\ \E wake \in TickType \ {xTickCount} : Waits(lists, lists', t, wake)
  <2>1. /\ At(t, "vTaskDelay") /\ lists' = BlockUntil(lists, t, Tick(xTickCount + d))
        /\ UNCHANGED <<timeVars, kernel, xSchedulerRunning>>
    BY <1>3 DEF vTaskDelay, loopVars
  <2>2. QED
    BY <1>1, <1>2, <2>1, BlockingFacts
<1>4. ASSUME NEW previous \in TickType, NEW increment \in TickType,
             vTaskDelayUntil(t, previous, increment)
      PROVE  /\ UNCHANGED <<timeVars, kernel, xSchedulerRunning>> /\ kernel = "none"
             /\ \E wake \in TickType \ {xTickCount} : Waits(lists, lists', t, wake)
  <2> DEFINE wake == Tick(previous + increment)
  <2>1. /\ At(t, "vTaskDelayUntil")
        /\ lists' = IF ShouldDelay(xTickCount, previous, wake)
                    THEN BlockUntil(lists, t, wake) ELSE lists
        /\ UNCHANGED <<timeVars, kernel, xSchedulerRunning>>
    BY <1>4 DEF vTaskDelayUntil, loopVars
  <2>2. wake \in TickType
    BY <1>0, TickInRange
  <2> HIDE DEF wake
  <2>3. kernel = "none"
    BY <2>1, BlockingFacts
  <2>4. CASE ShouldDelay(xTickCount, previous, wake)
    <3>1. wake # xTickCount
      BY <1>0, <2>2, <2>4 DEF ShouldDelay
    <3>2. Waits(lists, lists', t, wake)
      BY <1>2, <2>1, <2>2, <2>4, BlockingFacts
    <3>3. QED
      BY <2>1, <2>2, <2>3, <3>1, <3>2
  <2>5. CASE ~ ShouldDelay(xTickCount, previous, wake)
    <3>1. lists' = lists
      BY <2>1, <2>5
    <3>2. \A w \in TickType : Waits(lists, lists', t, w)
      BY <3>1 DEF Waits
    <3>3. (IF xTickCount = 0 THEN 1 ELSE 0) \in TickType \ {xTickCount}
      BY MaxDelayAssumption DEF TickType
    <3>4. QED
      BY <2>1, <2>3, <3>2, <3>3
  <2>6. QED
    BY <2>4, <2>5
<1>5. ASSUME NEW e \in Events, NEW ticks \in Delays, vTaskPlaceOnEventList(t, e, ticks)
      PROVE  /\ UNCHANGED <<timeVars, kernel, xSchedulerRunning>> /\ kernel = "none"
             /\ \E wake \in TickType \ {xTickCount} : Waits(lists, lists', t, wake)
  <2> DEFINE xl   == vListInsert(lists, EventList(e), Event(t))
             wake == Tick(xTickCount + ticks)
  <2>1. /\ At(t, "place")
        /\ \/ lists' = vListInsertEnd(vListRemove(xl, Generic(t)), Suspended, Generic(t))
           \/ lists' = BlockUntil(xl, t, wake)
        /\ UNCHANGED <<timeVars, kernel, xSchedulerRunning>>
    BY <1>5 DEF vTaskPlaceOnEventList, loopVars
  <2>2. /\ kernel = "none" /\ WellFormed(lists)
        /\ lists.container[Generic(t)] \in Lists /\ lists.container[Event(t)] = Null
        /\ pxDelayedTaskList \in DelayedLists /\ pxOverflowDelayedTaskList \in DelayedLists
    BY <2>1, BlockingFacts
  <2>3. /\ EventList(e) \in EventLists /\ EventList(e) \in WaitLists
        /\ EventList(e) \in Lists \ {Termination} /\ EventList(e) \notin DelayedLists
        /\ Event(t) \in Items /\ \A L \in WaitLists : L \in Lists /\ L # Suspended
        /\ Suspended \in Lists
    BY ItemFacts, ListFacts, WaitFacts DEF EventLists, WaitLists
  <2>4. /\ Relocated(lists, xl, t, lists.container[Generic(t)], EventList(e))
        /\ Joined(lists, xl, Event(t), EventList(e), lists.value[Event(t)])
    BY <2>2, <2>3, InsertEvent, InsertJoins
  <2>5. wake \in TickType \ {xTickCount}
    BY <1>1
  <2> HIDE DEF xl, wake
  <2>6. WellFormed(xl) /\ xl.container[Generic(t)] \in Lists
    BY <2>2, <2>4, RelocatedPlaces
  <2>7. Waits(xl, lists', t, wake)
    <3>1. CASE lists' = BlockUntil(xl, t, wake)
      BY <1>2, <2>2, <2>5, <2>6, <3>1
    <3>2. CASE lists' = vListInsertEnd(vListRemove(xl, Generic(t)), Suspended, Generic(t))
      <4>1. \A L \in WaitLists : Kept(L, xl, lists')
        BY <2>3, <2>6, <3>2, KeptMove
      <4>2. QED
        BY <1>0, <4>1 DEF Kept, Waits
    <3>3. QED
      BY <2>1, <3>1, <3>2
  <2>8. Waits(lists, lists', t, wake)
    <3>1. \A L \in DelayedLists, s \in AllTasks :
            xl.container[Generic(s)] = L =>
              lists.container[Generic(s)] = L
              /\ xl.value[Generic(s)] = lists.value[Generic(s)]
      BY <1>0, <2>3, <2>4 DEF Joined
    <3>2. \A L \in WaitLists : SortedByValue(lists, L) => SortedByValue(xl, L)
      BY <2>4 DEF Joined
    <3>3. QED
      BY <2>7, <3>1, <3>2 DEF Waits
  <2>9. QED
    BY <2>1, <2>2, <2>5, <2>8
<1>6. QED
  BY <1>3, <1>4, <1>5 DEF Blocks

-----------------------------------------------------------------------------
(* Event lists                                                             *)

\* Every event list stays in priority order, so that its first task is always
\* one of the highest that wait, as long as no priority is changed: the run
\* tasks_priority_events shows what vTaskPrioritySet does to a waiting task.
THEOREM EventListsInOrder ==
  ASSUME "DeleteBeforeStart" \notin Calls, "vTaskPrioritySet" \notin Calls
  PROVE  Spec => []EventListsSorted
<1>0. \A e \in Events : EventList(e) \in EventLists /\ EventList(e) \in WaitLists
                        /\ EventList(e) \in Lists
  BY WaitFacts DEF EventLists, WaitLists
<1>1. Init => EventListsSorted
  <2>1. SUFFICES ASSUME Init, NEW e \in Events
                 PROVE  SortedByValue(lists, EventList(e))
    BY DEF EventListsSorted
  <2>2. lists.ring[EventList(e)] = << >>
    BY <1>0, <2>1, InitialListsOK, ListFacts DEF Init, prvInitialiseTaskLists
  <2>3. QED
    BY <2>2, EmptySeq DEF SortedByValue
<1>2. IInv /\ EventListsSorted /\ [Next]_vars => EventListsSorted'
  <2>1. SUFFICES ASSUME IInv, EventListsSorted, [Next]_vars, NEW e \in Events
                 PROVE  SortedByValue(lists', EventList(e))
    BY DEF EventListsSorted
  <2>2. SortedByValue(lists, EventList(e))
    BY <2>1 DEF EventListsSorted
  <2>3. CASE \A t \in AllTasks : ~ Blocks(t)
    <3>1. Kept(EventList(e), lists, lists')
      BY <1>0, <2>1, <2>3, StepKept
    <3>2. QED
      BY <2>2, <3>1 DEF Kept
  <2>4. CASE \E t \in AllTasks : Blocks(t)
    <3>1. PICK t \in AllTasks, wake \in TickType : Waits(lists, lists', t, wake)
      BY <2>1, <2>4, BlocksWaits
    <3>2. QED
      BY <1>0, <2>2, <3>1 DEF Waits
  <2>5. QED
    BY <2>3, <2>4
<1>3. QED
  BY <1>1, <1>2, InvariantHolds, PTL DEF Spec

-----------------------------------------------------------------------------
(* Delayed lists                                                           *)

\* A wake loop has tasks due at this tick left to look for.
Waking == kernel \in {"tick", "replayWake"}

\* Time has not begun before vTaskStartScheduler, which sets it to zero.
Window ==
  /\ DelayedWindow
  /\ ~ xSchedulerRunning => xTickCount = 0

\* No item of a list in order is below its head.
LEMMA HeadSmallest ==
  ASSUME NEW xl, WellFormed(xl), NEW L \in Lists, SortedByValue(xl, L),
         NEW x \in Items, xl.container[x] = L
  PROVE  /\ ~ listLIST_IS_EMPTY(xl, L)
         /\ xl.value[HeadItem(xl, L)] <= xl.value[x]
<1>1. ~ listLIST_IS_EMPTY(xl, L) /\ Len(xl.ring[L]) \in Nat
  BY NotEmpty DEF WellFormed
<1>2. PICK i \in 1 .. Len(xl.ring[L]) : xl.ring[L][i] = x
  BY DEF WellFormed, ListsOK, ContainersAgree, OnList
<1>3. xl.value[x] \in Nat
  BY DEF WellFormed, ListsOK, XLists, TickType
<1>4. CASE i = 1
  BY <1>1, <1>2, <1>3, <1>4 DEF HeadItem
<1>5. CASE i # 1
  <2>1. 1 \in 1 .. Len(xl.ring[L]) /\ 1 < i
    BY <1>1, <1>5
  <2>2. QED
    BY <1>1, <1>2, <2>1 DEF HeadItem, SortedByValue
<1>6. QED
  BY <1>4, <1>5

\* The types the argument needs.
LEMMA TimeFacts ==
  ASSUME TypeOK
  PROVE  /\ xTickCount \in 0 .. portMAX_DELAY /\ portMAX_DELAY \in Nat
         /\ \A t \in AllTasks : lists.value[Generic(t)] \in 0 .. portMAX_DELAY
         /\ \A t \in AllTasks : Generic(t) \in Items
         /\ pxDelayedTaskList \in DelayedLists
         /\ pxOverflowDelayedTaskList \in DelayedLists
         /\ DelayedLists = {pxDelayedTaskList, pxOverflowDelayedTaskList}
         /\ pxDelayedTaskList # pxOverflowDelayedTaskList
         /\ DelayedLists \subseteq Lists /\ DelayedLists \subseteq WaitLists
<1>1. /\ xTickCount \in 0 .. portMAX_DELAY /\ portMAX_DELAY \in Nat
      /\ lists.value \in [Items -> 0 .. portMAX_DELAY]
      /\ \A t \in AllTasks : Generic(t) \in Items
  BY MaxDelayAssumption, ItemFacts DEF TypeOK, XLists, TickType
<1>2. /\ {pxDelayedTaskList, pxOverflowDelayedTaskList} = DelayedLists
      /\ DelayedLists = {Delayed(1), Delayed(2)} /\ Delayed(1) # Delayed(2)
      /\ DelayedLists \subseteq Lists /\ DelayedLists \subseteq WaitLists
  BY ListFacts DEF TypeOK, DelayedLists, WaitLists
<1>3. QED
  BY <1>1, <1>2

\* A step that neither moves time nor puts a task on a delayed list.
LEMMA WindowKept ==
  ASSUME IInv, IInv', Window, \A L \in DelayedLists : Kept(L, lists, lists'),
         xTickCount' = xTickCount, Waking => Waking',
         ~ xSchedulerRunning' => xTickCount' = 0,
         \/ UNCHANGED <<pxDelayedTaskList, pxOverflowDelayedTaskList>>
         \/ \A t \in AllTasks : Container(t) \notin DelayedLists
  PROVE  Window'
<1>1. \A L \in DelayedLists : SortedByValue(lists', L)
  BY DEF Window, DelayedWindow, Kept
<1>2. \A t \in AllTasks, L \in DelayedLists : Container(t)' = L =>
        Container(t) = L /\ lists'.value[Generic(t)] = lists.value[Generic(t)]
  BY ItemFacts DEF Kept, Container
<1>3. ASSUME NEW t \in AllTasks
      PROVE  /\ Container(t)' = pxDelayedTaskList' =>
                  IF Waking' THEN lists'.value[Generic(t)] >= xTickCount'
                  ELSE lists'.value[Generic(t)] > xTickCount'
             /\ Container(t)' = pxOverflowDelayedTaskList' =>
                  lists'.value[Generic(t)] < xTickCount'
  <2>1. TypeOK /\ TypeOK'
    BY DEF IInv
  <2>2. /\ pxDelayedTaskList' \in DelayedLists
        /\ pxOverflowDelayedTaskList' \in DelayedLists
    BY <2>1 DEF TypeOK
  <2>3. CASE Container(t) \notin DelayedLists
    BY <1>2, <2>2, <2>3
  <2>4. CASE Container(t) \in DelayedLists
    <3>1. UNCHANGED <<pxDelayedTaskList, pxOverflowDelayedTaskList>>
      BY <2>4
    <3>2. /\ Container(t) = pxDelayedTaskList =>
               IF Waking THEN lists.value[Generic(t)] >= xTickCount
               ELSE lists.value[Generic(t)] > xTickCount
          /\ Container(t) = pxOverflowDelayedTaskList =>
               lists.value[Generic(t)] < xTickCount
      BY DEF Window, DelayedWindow, Waking
    <3>3. lists.value[Generic(t)] \in Nat /\ xTickCount \in Nat
      BY <2>1, TimeFacts
    <3>4. QED
      BY <1>2, <2>2, <3>1, <3>2, <3>3
  <2>5. QED
    BY <2>3, <2>4
<1>4. QED
  BY <1>1, <1>3 DEF Window, DelayedWindow, Waking

\* What moves time, ends a wake loop or comes before the scheduler runs.
MovesTime == Main \/ TickISR \/ ReplayTick \/ TickDone \/ ReplayWakeDone

\* Nothing else does.
LEMMA TimeKept ==
  ASSUME IInv, [Next]_vars, ~ MovesTime
  PROVE  /\ UNCHANGED <<xTickCount, pxDelayedTaskList, pxOverflowDelayedTaskList,
                        xSchedulerRunning>>
         /\ Waking => Waking'
<1> DEFINE Stays == /\ UNCHANGED <<xTickCount, pxDelayedTaskList,
                                   pxOverflowDelayedTaskList, xSchedulerRunning>>
                    /\ Waking => Waking'
<1> USE DEF timeVars, loopVars, Waking
<1>2. ASSUME NEW e, Post(e) PROVE UNCHANGED <<timeVars, loopVars, xSchedulerRunning>>
  BY <1>2 DEF Post
<1>3. ASSUME NEW t, ApplicationCall(t) PROVE Stays
  <2>1. ASSUME NEW x, NEW p, xTaskCreate(t, x, p) PROVE Stays
    <3>1. pxCurrentTCB # Null
      BY <2>1, AtFacts DEF xTaskCreate, Call
    <3>2. QED
      BY <2>1, <3>1 DEF xTaskCreate, CreateTask
  <2>2. ASSUME NEW x, vTaskDelete(t, x) PROVE Stays
    BY <2>2 DEF vTaskDelete, Delete
  <2>3. ASSUME NEW x, vTaskSuspend(t, x) \/ vTaskResume(t, x) PROVE Stays
    BY <2>3 DEF vTaskSuspend, vTaskResume
  <2>4. ASSUME NEW x, NEW p, vTaskPrioritySet(t, x, p) PROVE Stays
    BY <2>4 DEF vTaskPrioritySet
  <2>5. CASE vTaskSuspendAll(t) \/ DelayZero(t)
    BY <2>5 DEF vTaskSuspendAll, DelayZero, SuspendAllVars, portYIELD
  <2>6. ASSUME NEW f, EnterDelay(t, f) PROVE Stays
    BY <2>6 DEF EnterDelay, SuspendAllVars
  <2>7. ASSUME NEW e, QueueWait(t, e) PROVE Stays
    BY <2>7 DEF QueueWait, SuspendAllVars
  <2>8. ASSUME NEW e, QueueSend(t, e) PROVE Stays
    BY <2>8, <1>2 DEF QueueSend
  <2>9. QED
    BY <1>3, <2>1, <2>2, <2>3, <2>4, <2>5, <2>6, <2>7, <2>8 DEF ApplicationCall
<1>4. ASSUME NEW t, FinishCall(t) PROVE Stays
  <2>1. CASE xTaskResumeAll(t)
    BY <2>1 DEF xTaskResumeAll, Call, At, InterruptsOn
  <2>2. QED
    BY <1>4, <2>1 DEF FinishCall, CreatedYield, vTaskDelay, vTaskDelayUntil,
       vTaskPlaceOnEventList, QueueUnlock, EndWithYield, portYIELD
<1>5. CASE IdleTask
  BY <1>5 DEF IdleTask, IdleCheck, IdleLook, IdleReap, IdleFree, IdleYield,
     SuspendAllVars
<1>6. CASE MaskedLoop
  BY <1>6 DEF MovesTime, MaskedLoop, DrainPending, DrainDone, ResumeAllDone,
     WakeOne, LoopStep, LoopUnchanged
<1>7. CASE Interrupt \/ vTaskSwitchContext
  BY <1>2, <1>7 DEF MovesTime, Interrupt, EventISR, xTaskResumeFromISR,
     vTaskSwitchContext
<1>8. CASE UNCHANGED vars
  BY <1>8 DEF vars
<1>9. QED
  BY <1>3, <1>4, <1>5, <1>6, <1>7, <1>8 DEF Next, MovesTime

\* A tick is counted: on the current list every wake time is now this tick or
\* later, and when the tick count wraps that list is empty and the lists change
\* places.
LEMMA WindowCount ==
  ASSUME IInv, IInv', Window, lists' = lists, CountTick, ~ Waking, Waking',
         xSchedulerRunning'
  PROVE  Window'
<1>0. TypeOK /\ TypeOK'
  BY DEF IInv
<1>1. \A L \in DelayedLists : SortedByValue(lists', L)
  BY DEF Window, DelayedWindow
<1>2. /\ xTickCount \in 0 .. portMAX_DELAY /\ portMAX_DELAY \in Nat
      /\ DelayedLists = {pxDelayedTaskList, pxOverflowDelayedTaskList}
  BY <1>0, TimeFacts
<1>3. ASSUME NEW t \in AllTasks
      PROVE  /\ lists.value[Generic(t)] \in 0 .. portMAX_DELAY
             /\ Container(t) = pxDelayedTaskList => lists.value[Generic(t)] > xTickCount
             /\ Container(t) = pxOverflowDelayedTaskList =>
                  lists.value[Generic(t)] < xTickCount
  BY <1>0, TimeFacts DEF Window, DelayedWindow, Waking
<1>4. ASSUME NEW t \in AllTasks
      PROVE  /\ Container(t)' = pxDelayedTaskList' =>
                  lists'.value[Generic(t)] >= xTickCount'
             /\ Container(t)' = pxOverflowDelayedTaskList' =>
                  lists'.value[Generic(t)] < xTickCount'
  <2>0. Container(t)' = Container(t)
    BY DEF Container
  <2>1. CASE xTickCount = portMAX_DELAY
    <3>1. Tick(xTickCount + 1) = 0
      BY <1>2, <2>1 DEF Tick
    <3>2. /\ xTickCount' = 0 /\ pxDelayedTaskList' = pxOverflowDelayedTaskList
          /\ pxOverflowDelayedTaskList' = pxDelayedTaskList
      BY <3>1 DEF CountTick
    <3>3. QED
      BY <1>2, <1>3, <2>0, <2>1, <3>2
  <2>2. CASE xTickCount # portMAX_DELAY
    <3>1. Tick(xTickCount + 1) = xTickCount + 1 /\ xTickCount + 1 # 0
      BY <1>2, <2>2 DEF Tick
    <3>2. /\ xTickCount' = xTickCount + 1
          /\ UNCHANGED <<pxDelayedTaskList, pxOverflowDelayedTaskList>>
      BY <3>1 DEF CountTick
    <3>3. QED
      BY <1>2, <1>3, <2>0, <3>2
  <2>3. QED
    BY <2>1, <2>2
<1>5. QED
  BY <1>1, <1>4 DEF Window, DelayedWindow, Waking

\* A wake loop ends: nothing due is left, the lists being in order.
LEMMA WindowCaughtUp ==
  ASSUME IInv, Window, lists' = lists, Waking, ~ Expired,
         UNCHANGED <<xTickCount, pxDelayedTaskList, pxOverflowDelayedTaskList>>,
         xSchedulerRunning'
  PROVE  Window'
<1>0. TypeOK /\ WellFormed(lists)
  BY WellFormedNow DEF IInv
<1>1. \A L \in DelayedLists : SortedByValue(lists, L)
  BY DEF Window, DelayedWindow
<1>2. ASSUME NEW t \in AllTasks
      PROVE  /\ Container(t) = pxDelayedTaskList => lists.value[Generic(t)] > xTickCount
             /\ Container(t) = pxOverflowDelayedTaskList =>
                  lists.value[Generic(t)] < xTickCount
  <2>1. CASE Container(t) = pxDelayedTaskList
    <3>1. /\ Generic(t) \in Items /\ lists.container[Generic(t)] = pxDelayedTaskList
          /\ pxDelayedTaskList \in Lists /\ SortedByValue(lists, pxDelayedTaskList)
          /\ pxDelayedTaskList # pxOverflowDelayedTaskList
          /\ lists.value[Generic(t)] \in Nat /\ xTickCount \in Nat
      BY <1>0, <1>1, <2>1, TimeFacts DEF Container
    <3>2. /\ ~ listLIST_IS_EMPTY(lists, pxDelayedTaskList)
          /\ lists.value[HeadItem(lists, pxDelayedTaskList)] <= lists.value[Generic(t)]
      BY <1>0, <3>1, HeadSmallest
    <3>3. lists.value[HeadItem(lists, pxDelayedTaskList)] \in Nat
      <4>1. HeadItem(lists, pxDelayedTaskList) \in Items
        BY <1>0, <3>1, <3>2, HeadOnList DEF WellFormed
      <4>2. QED
        BY <1>0, <4>1 DEF WellFormed, ListsOK, XLists, TickType
    <3>4. ~ (lists.value[HeadItem(lists, pxDelayedTaskList)] <= xTickCount)
      BY <3>2 DEF Expired
    <3>5. QED
      BY <2>1, <3>1, <3>2, <3>3, <3>4
  <2>2. CASE Container(t) # pxDelayedTaskList
    BY <2>2 DEF Window, DelayedWindow
  <2>3. QED
    BY <2>1, <2>2
<1>3. \A t \in AllTasks : lists.value[Generic(t)] \in Nat /\ xTickCount \in Nat
  BY <1>0, TimeFacts
<1>4. \A t \in AllTasks : Container(t)' = Container(t)
  BY DEF Container
<1>5. ASSUME NEW t \in AllTasks
      PROVE  /\ Container(t)' = pxDelayedTaskList' =>
                  IF Waking' THEN lists'.value[Generic(t)] >= xTickCount'
                  ELSE lists'.value[Generic(t)] > xTickCount'
             /\ Container(t)' = pxOverflowDelayedTaskList' =>
                  lists'.value[Generic(t)] < xTickCount'
  BY <1>2, <1>3, <1>4
<1>6. QED
  BY <1>1, <1>5 DEF Window, DelayedWindow, Waking

\* A task blocks, until a tick that is not this one.
LEMMA WindowBlocks ==
  ASSUME IInv, Window, NEW t \in AllTasks, Blocks(t)
  PROVE  Window'
<1>1. /\ UNCHANGED <<timeVars, kernel, xSchedulerRunning>> /\ kernel = "none"
  BY BlocksWaits
<1>2. PICK wake \in TickType \ {xTickCount} : Waits(lists, lists', t, wake)
  BY BlocksWaits
<1>3. TypeOK /\ wake \in Nat /\ wake # xTickCount
  BY <1>2 DEF IInv, TickType
<1>4. /\ UNCHANGED <<xTickCount, pxDelayedTaskList, pxOverflowDelayedTaskList>>
      /\ ~ Waking /\ ~ Waking'
  BY <1>1 DEF timeVars, Waking
<1>5. \A L \in DelayedLists : SortedByValue(lists', L)
  BY <1>2, <1>3, TimeFacts DEF Window, DelayedWindow, Waits
<1>6. ASSUME NEW s \in AllTasks
      PROVE  /\ Container(s)' = pxDelayedTaskList' =>
                  lists'.value[Generic(s)] > xTickCount'
             /\ Container(s)' = pxOverflowDelayedTaskList' =>
                  lists'.value[Generic(s)] < xTickCount'
  <2>1. /\ Container(s) = pxDelayedTaskList => lists.value[Generic(s)] > xTickCount
        /\ Container(s) = pxOverflowDelayedTaskList =>
             lists.value[Generic(s)] < xTickCount
    BY <1>4 DEF Window, DelayedWindow, Waking
  <2>2. \A L \in DelayedLists : Container(s)' = L =>
          \/ Container(s) = L /\ lists'.value[Generic(s)] = lists.value[Generic(s)]
          \/ L = WaitingList(wake) /\ lists'.value[Generic(s)] = wake
    BY <1>2 DEF Waits, Container
  <2>3. /\ pxDelayedTaskList \in DelayedLists
        /\ pxOverflowDelayedTaskList \in DelayedLists
        /\ pxDelayedTaskList # pxOverflowDelayedTaskList /\ xTickCount \in Nat
    BY <1>3, TimeFacts
  <2>4. WaitingList(wake) = IF wake < xTickCount THEN pxOverflowDelayedTaskList
                            ELSE pxDelayedTaskList
    BY DEF WaitingList
  <2>5. Container(s)' = pxDelayedTaskList => lists'.value[Generic(s)] > xTickCount
    BY <1>3, <2>1, <2>2, <2>3, <2>4
  <2>6. Container(s)' = pxOverflowDelayedTaskList =>
          lists'.value[Generic(s)] < xTickCount
    BY <1>3, <2>1, <2>2, <2>3, <2>4
  <2>7. QED
    BY <1>4, <2>5, <2>6
<1>7. QED
  BY <1>1, <1>4, <1>5, <1>6 DEF Window, DelayedWindow, Waking

\* main(): until the first task is created nothing is on a delayed list, and
\* vTaskStartScheduler sets a tick count that is still zero.
LEMMA WindowMain ==
  ASSUME IInv, IInv', Window, Main
  PROVE  Window'
<1>1. ASSUME NEW t \in AllTasks, NEW asked, CreateTask(t, asked)
      PROVE  /\ kernel' = kernel
             /\ \/ UNCHANGED <<pxDelayedTaskList, pxOverflowDelayedTaskList>>
                \/ \A s \in AllTasks : Container(s) \notin DelayedLists
  <2>1. CASE pxCurrentTCB = Null /\ uxCurrentNumberOfTasks = 0
    <3>1. \A s \in AllTasks : Container(s) = Null
      BY <2>1, FirstTask, ItemFacts DEF Container
    <3>2. QED
      BY <1>1, <3>1, ListFacts DEF CreateTask, loopVars
  <2>2. CASE ~ (pxCurrentTCB = Null /\ uxCurrentNumberOfTasks = 0)
    BY <1>1, <2>2 DEF CreateTask, loopVars
  <2>3. QED
    BY <2>1, <2>2
<1> DEFINE Stays ==
             /\ xTickCount' = xTickCount /\ kernel' = kernel
             /\ ~ xSchedulerRunning' => xTickCount' = 0
             /\ \/ UNCHANGED <<pxDelayedTaskList, pxOverflowDelayedTaskList>>
                \/ \A s \in AllTasks : Container(s) \notin DelayedLists
<1>2. Stays
  <2>1. ASSUME NEW t \in Tasks, NEW p \in RequestedPriorities,
               CreateBeforeStart(t, p)
        PROVE  Stays
    BY <1>1, <2>1 DEF CreateBeforeStart, Window, AllTasks
  <2>2. ASSUME NEW t \in Tasks, DeleteBeforeStart(t) \/ SuspendBeforeStart(t)
        PROVE  Stays
    BY <2>2 DEF DeleteBeforeStart, Delete, SuspendBeforeStart, timeVars,
       loopVars, Window
  <2>3. CASE vTaskStartScheduler
    BY <1>1, <2>3 DEF vTaskStartScheduler, Window, AllTasks
  <2>4. QED
    BY <2>1, <2>2, <2>3 DEF Main
<1>3. \A L \in DelayedLists : Kept(L, lists, lists')
  BY MainKept DEF WaitLists
<1>4. QED
  BY <1>2, <1>3, WindowKept DEF Waking

\* Every step keeps the window.
LEMMA WindowStep ==
  ASSUME IInv, IInv', Window, [Next]_vars
  PROVE  Window'
<1>0. DelayedLists \subseteq WaitLists /\ DelayedLists \cap EventLists = {}
  BY ListFacts DEF WaitLists
<1>1. CASE Main
  BY <1>1, WindowMain
<1>2. CASE TickISR
  <2>1. lists' = lists /\ xSchedulerRunning' /\ ~ Waking
    BY <1>2 DEF TickISR, InterruptsOn, listVars, Waking
  <2>2. CASE uxSchedulerSuspended = 0
    <3>1. CountTick /\ Waking'
      BY <1>2, <2>2 DEF TickISR, Waking
    <3>2. QED
      BY <2>1, <3>1, WindowCount
  <2>3. CASE uxSchedulerSuspended # 0
    <3>1. UNCHANGED <<xTickCount, pxDelayedTaskList, pxOverflowDelayedTaskList>>
      BY <1>2, <2>3 DEF TickISR, timeVars
    <3>2. \A L \in DelayedLists : Kept(L, lists, lists')
      BY <1>0, <2>1, KeptStill
    <3>3. QED
      BY <2>1, <3>1, <3>2, WindowKept
  <2>4. QED
    BY <2>2, <2>3
<1>3. CASE ReplayTick
  <2>1. lists' = lists /\ xSchedulerRunning' /\ CountTick /\ ~ Waking /\ Waking'
    BY <1>3 DEF ReplayTick, LoopStep, LoopUnchanged, listVars, Waking, IInv, KernelOK
  <2>2. QED
    BY <2>1, WindowCount
<1>4. CASE TickDone \/ ReplayWakeDone
  <2>1. /\ lists' = lists /\ xSchedulerRunning' /\ Waking /\ ~ Expired
        /\ UNCHANGED <<xTickCount, pxDelayedTaskList, pxOverflowDelayedTaskList>>
    BY <1>4 DEF TickDone, ReplayWakeDone, LoopStep, LoopUnchanged, listVars,
       timeVars, Waking, IInv, KernelOK
  <2>2. QED
    BY <2>1, WindowCaughtUp
<1>5. CASE \E t \in AllTasks : Blocks(t)
  BY <1>5, WindowBlocks
<1>6. CASE ~ MovesTime /\ \A t \in AllTasks : ~ Blocks(t)
  <2>1. \A L \in DelayedLists : Kept(L, lists, lists')
    BY <1>0, <1>6, StepKept
  <2>2. /\ UNCHANGED <<xTickCount, pxDelayedTaskList, pxOverflowDelayedTaskList,
                       xSchedulerRunning>>
        /\ Waking => Waking'
    BY <1>6, TimeKept
  <2>3. ~ xSchedulerRunning' => xTickCount' = 0
    BY <2>2 DEF Window
  <2>4. QED
    BY <2>1, <2>2, <2>3, WindowKept
<1>7. QED
  BY <1>1, <1>2, <1>3, <1>4, <1>5, <1>6 DEF MovesTime

\* No task waits at first.
LEMMA WindowInit == Init => Window
<1>1. ASSUME Init PROVE Window
  <2>1. /\ \A x \in Items : lists.container[x] = Null
        /\ \A L \in DelayedLists : lists.ring[L] = << >>
    BY <1>1, InitialListsOK, ListFacts DEF Init, prvInitialiseTaskLists
  <2>2. /\ pxDelayedTaskList \in Lists /\ pxOverflowDelayedTaskList \in Lists
        /\ xTickCount = 0
    BY <1>1, ListFacts DEF Init, prvInitialiseTaskLists, DelayedLists
  <2>3. \A L \in DelayedLists : SortedByValue(lists, L)
    BY <2>1, EmptySeq DEF SortedByValue
  <2>4. \A t \in AllTasks : /\ Container(t) # pxDelayedTaskList
                            /\ Container(t) # pxOverflowDelayedTaskList
    BY <2>1, <2>2, ItemFacts, ListFacts DEF Container
  <2>5. QED
    BY <2>2, <2>3, <2>4 DEF Window, DelayedWindow
<1>2. QED
  BY <1>1

\* Every wake time stays on the right delayed list: to come on the current
\* one, past on the other, across every wrap of the tick count and whatever
\* the calls that block, whichever tick they were made in.
THEOREM DelaysInWindow ==
  ASSUME "DeleteBeforeStart" \notin Calls
  PROVE  Spec => []DelayedWindow
<1>1. Init => Window
  BY WindowInit
<1>2. IInv /\ IInv' /\ Window /\ [Next]_vars => Window'
  BY WindowStep
<1>3. Window => DelayedWindow
  BY DEF Window
<1>4. QED
  BY <1>1, <1>2, <1>3, InvariantHolds, PTL DEF Spec

\* While a wake loop runs nothing but the loop touches the lists.
LEMMA OnlyWakeOne ==
  ASSUME IInv, [Next]_vars, Waking, ~ WakeOne
  PROVE  lists' = lists
<1>1. kernel # "none" /\ kernel # "drain" /\ xSchedulerRunning
  BY DEF Waking, IInv, KernelOK
<1>2. CASE Main
  BY <1>1, <1>2 DEF Main, CreateBeforeStart, DeleteBeforeStart,
     SuspendBeforeStart, BeforeStart, vTaskStartScheduler
<1>3. ASSUME NEW t, NEW l, At(t, l) PROVE FALSE
  BY <1>1, <1>3 DEF At, InterruptsOn
<1>4. ASSUME NEW t PROVE ~ ApplicationCall(t) /\ ~ FinishCall(t)
  BY <1>3 DEF ApplicationCall, FinishCall, xTaskCreate, vTaskDelete, vTaskSuspend,
     vTaskResume, vTaskPrioritySet, vTaskSuspendAll, EnterDelay, DelayZero,
     QueueWait, QueueSend, BlockingCall, Call, CreatedYield, vTaskDelay,
     vTaskDelayUntil, vTaskPlaceOnEventList, QueueUnlock, xTaskResumeAll,
     EndWithYield
<1>5. ~ IdleTask
  BY <1>3 DEF IdleTask, IdleCheck, IdleLook, IdleReap, IdleFree, IdleYield
<1>6. ~ Interrupt /\ ~ vTaskSwitchContext
  BY <1>1 DEF Interrupt, TickISR, EventISR, xTaskResumeFromISR,
     vTaskSwitchContext, InterruptsOn
<1>7. CASE MaskedLoop
  BY <1>1, <1>7 DEF MaskedLoop, DrainPending, DrainDone, ReplayTick, ResumeAllDone,
     TickDone, ReplayWakeDone, LoopStep, listVars
<1>8. CASE UNCHANGED vars
  BY <1>8 DEF vars, listVars
<1>9. QED
  BY <1>2, <1>4, <1>5, <1>6, <1>7, <1>8 DEF Next

\* The task it wakes is due now, and no other task leaves its list.
LEMMA WakesOnTime ==
  ASSUME IInv, Window, WakeOne, NEW t \in AllTasks, Container(t) \in DelayedLists
  PROVE  Container(t)' \in DelayedLists \/ lists.value[Generic(t)] = xTickCount
<1> DEFINE s == Owner(HeadItem(lists, pxDelayedTaskList))
<1>1. /\ lists' = vListInsertEnd(Unlink(lists, s), Ready(uxPriority[s]), Generic(s))
      /\ Expired /\ ~ listLIST_IS_EMPTY(lists, pxDelayedTaskList) /\ Waking
  BY DEF WakeOne, Expired, AddToReady, Waking
<1>2. /\ WellFormed(lists) /\ TypeOK
      /\ pxDelayedTaskList \in DelayedLists /\ pxDelayedTaskList \in Lists
  BY WellFormedNow, ListFacts DEF IInv, TypeOK
<1>3. /\ HeadItem(lists, pxDelayedTaskList) \in Items
      /\ lists.container[HeadItem(lists, pxDelayedTaskList)] = pxDelayedTaskList
  BY <1>1, <1>2, HeadOnList DEF WellFormed
<1>4. /\ s \in AllTasks
      /\ \/ HeadItem(lists, pxDelayedTaskList) = Generic(s)
         \/ HeadItem(lists, pxDelayedTaskList) = Event(s)
  BY <1>3, ItemFacts
<1>5. lists.container[Event(s)] \notin DelayedLists
  BY <1>4, PlaceFacts, ListFacts
<1>6. /\ HeadItem(lists, pxDelayedTaskList) = Generic(s)
      /\ Container(s) = pxDelayedTaskList
  BY <1>2, <1>3, <1>4, <1>5 DEF Container
<1>7. lists.value[Generic(s)] = xTickCount
  <2>1. lists.value[Generic(s)] <= xTickCount
    BY <1>1, <1>6 DEF Expired
  <2>2. lists.value[Generic(s)] >= xTickCount
    BY <1>1, <1>4, <1>6 DEF Window, DelayedWindow, Waking
  <2>3. lists.value[Generic(s)] \in Nat /\ xTickCount \in Nat
    BY <1>2, <1>4, TimeFacts
  <2>4. QED
    BY <2>1, <2>2, <2>3
<1>8. CASE t = s
  BY <1>7, <1>8
<1>9. CASE t # s
  <2>1. /\ Ready(uxPriority[s]) \in Lists
        /\ lists.container[Generic(s)] \in Lists
        /\ lists.container[Event(s)] \in (Lists \ {Termination}) \cup {Null}
    BY <1>2, <1>4, <1>6, PlaceFacts, ListFacts DEF Container
  <2> HIDE DEF s
  <2>2. Relocated(lists, lists', s, Ready(uxPriority[s]), Null)
    BY <1>1, <1>2, <1>4, <2>1, UnlinkTo
  <2>3. lists'.container[Generic(t)] = lists.container[Generic(t)]
    <3>1. /\ lists'.container = [lists.container EXCEPT ![Generic(s)] = Ready(uxPriority[s]),
                                                       ![Event(s)] = Null]
          /\ lists.container \in [Items -> Lists \cup {Null}]
      BY <1>2, <2>2, ContainerType DEF Relocated
    <3>2. Generic(t) \in Items /\ Generic(t) # Generic(s) /\ Generic(t) # Event(s)
      BY <1>4, <1>9, ItemFacts
    <3>3. QED
      BY <3>1, <3>2
  <2>4. QED
    BY <2>3 DEF Container
<1>10. QED
  BY <1>8, <1>9

\* A delay ends at the tick it was asked to end at, neither earlier nor later,
\* whether that tick is counted by the interrupt or replayed by
\* xTaskResumeAll, and whichever side of a wrap of the tick count it is on.
THEOREM DelaysEndOnTime ==
  ASSUME "DeleteBeforeStart" \notin Calls
  PROVE  Spec => ExactWake
<1>1. Init => Window
  BY WindowInit
<1>2. IInv /\ IInv' /\ Window /\ [Next]_vars => Window'
  BY WindowStep
<1>3. IInv /\ Window /\ [Next]_vars =>
        [\A t \in AllTasks :
           kernel \in {"tick", "replayWake"} /\ Container(t) \in DelayedLists
             => Container(t)' \in DelayedLists \/ lists.value[Generic(t)] = xTickCount]_vars
  <2>1. ASSUME IInv, Window, [Next]_vars, NEW t \in AllTasks, Waking,
               Container(t) \in DelayedLists
        PROVE  \/ Container(t)' \in DelayedLists
               \/ lists.value[Generic(t)] = xTickCount
    <3>1. CASE WakeOne
      BY <2>1, <3>1, WakesOnTime
    <3>2. CASE ~ WakeOne
      BY <2>1, <3>2, OnlyWakeOne DEF Container
    <3>3. QED
      BY <3>1, <3>2
  <2>2. QED
    BY <2>1 DEF Waking
<1>4. QED
  BY <1>1, <1>2, <1>3, InvariantHolds, PTL DEF Spec, ExactWake

-----------------------------------------------------------------------------
(* Turns on the ready lists                                                *)

\* How far position i is ahead of pxIndex k on a ring of n, going round.
TurnAt(i, k, n) == IF i > k THEN i - k ELSE i - k + n

Turn(xl, L, z) == TurnAt(PositionOf(xl, L, z), xl.index[L], Len(xl.ring[L]))

\* From xl to yl item z comes no further from its turn on L, unless it
\* leaves L; nor is it put on L.
NoLater(L, z, xl, yl) ==
  /\ WellFormed(yl)
  /\ yl.container[z] = L =>
       /\ xl.container[z] = L
       /\ Turn(xl, L, z) \in Nat /\ Turn(yl, L, z) \in Nat
       /\ Turn(yl, L, z) <= Turn(xl, L, z)

\* Removing the item at j brings the item at i no further from its turn,
LEMMA TurnRemove ==
  ASSUME NEW n \in Nat, NEW k \in 0 .. n, NEW i \in 1 .. n, NEW j \in 1 .. n, j # i,
         NEW h, h = IF i < j THEN i ELSE i - 1,
         NEW m, m = IF j <= k THEN k - 1 ELSE k
  PROVE  TurnAt(h, m, n - 1) <= TurnAt(i, k, n)
BY DEF TurnAt

\* nor does an item inserted behind pxIndex, which moves onto it,
LEMMA TurnInsert ==
  ASSUME NEW n \in Nat, NEW k \in 0 .. n, NEW i \in 1 .. n,
         NEW h, h = IF i < k + 1 THEN i ELSE i + 1
  PROVE  TurnAt(h, k + 1, n + 1) <= TurnAt(i, k, n)
BY DEF TurnAt

\* nor does a move of pxIndex, but to i itself.
LEMMA TurnAdvance ==
  ASSUME NEW n \in Nat, NEW k \in 0 .. n, NEW i \in 1 .. n,
         NEW h, h = (IF k = n THEN 1 ELSE k + 1), h # i
  PROVE  TurnAt(i, h, n) <= TurnAt(i, k, n)
BY DEF TurnAt

\* The turn of the item at position i.
LEMMA TurnIs ==
  ASSUME NEW xl, WellFormed(xl), NEW L \in Lists, NEW i \in 1 .. Len(xl.ring[L])
  PROVE  Turn(xl, L, xl.ring[L][i]) = TurnAt(i, xl.index[L], Len(xl.ring[L]))
<1> DEFINE z == xl.ring[L][i]
           p == PositionOf(xl, L, z)
<1>1. \E j \in 1 .. Len(xl.ring[L]) : xl.ring[L][j] = z
  OBVIOUS
<1> HIDE DEF z
<1>2. p \in 1 .. Len(xl.ring[L]) /\ xl.ring[L][p] = z
  BY <1>1 DEF PositionOf
<1> HIDE DEF p
<1>3. p = i
  BY <1>2 DEF WellFormed, ListsOK, NoDuplicates, z
<1>4. QED
  BY <1>3 DEF Turn, p, z

\* What a ring, its pxIndex and the position of an item on it satisfy.
LEMMA Position ==
  ASSUME NEW xl, WellFormed(xl), NEW L \in Lists, NEW z \in Items,
         xl.container[z] = L
  PROVE  /\ Len(xl.ring[L]) \in Nat /\ xl.index[L] \in 0 .. Len(xl.ring[L])
         /\ \E i \in 1 .. Len(xl.ring[L]) :
              /\ xl.ring[L][i] = z
              /\ Turn(xl, L, z) = TurnAt(i, xl.index[L], Len(xl.ring[L]))
              /\ Turn(xl, L, z) \in Nat
<1>1. /\ Len(xl.ring[L]) \in Nat /\ xl.index[L] \in Nat
      /\ xl.index[L] <= Len(xl.ring[L])
  BY NotEmpty DEF WellFormed, ListsOK, XLists, IndexInRing
<1>2. PICK i \in 1 .. Len(xl.ring[L]) : xl.ring[L][i] = z
  BY DEF WellFormed, ListsOK, ContainersAgree, OnList
<1>3. Turn(xl, L, z) = TurnAt(i, xl.index[L], Len(xl.ring[L]))
  BY <1>2, TurnIs
<1>4. TurnAt(i, xl.index[L], Len(xl.ring[L])) \in Nat
  BY <1>1, SMTT(30) DEF TurnAt
<1>5. QED
  BY <1>1, <1>2, <1>3, <1>4

\* Two steps in a row.
LEMMA LaterTwice ==
  ASSUME NEW L, NEW z, NEW xl, NEW yl, NEW zl,
         NoLater(L, z, xl, yl), NoLater(L, z, yl, zl)
  PROVE  NoLater(L, z, xl, zl)
<1>1. ASSUME zl.container[z] = L
      PROVE  /\ xl.container[z] = L
             /\ Turn(xl, L, z) \in Nat /\ Turn(zl, L, z) \in Nat
             /\ Turn(zl, L, z) <= Turn(xl, L, z)
  <2>1. /\ Turn(xl, L, z) \in Nat /\ Turn(yl, L, z) \in Nat /\ Turn(zl, L, z) \in Nat
        /\ Turn(yl, L, z) <= Turn(xl, L, z) /\ Turn(zl, L, z) <= Turn(yl, L, z)
        /\ xl.container[z] = L
    BY <1>1 DEF NoLater
  <2>2. \A a, b, c \in Nat : b <= a /\ c <= b => c <= a
    OBVIOUS
  <2>3. QED
    BY <2>1, <2>2
<1>2. QED
  BY <1>1 DEF NoLater

\* A list whose ring and pxIndex stay.
LEMMA LaterSame ==
  ASSUME NEW L \in Lists, NEW xl, NEW yl, WellFormed(xl), WellFormed(yl),
         NEW z \in Items, yl.ring[L] = xl.ring[L], yl.index[L] = xl.index[L]
  PROVE  NoLater(L, z, xl, yl)
<1>1. yl.container[z] = L <=> xl.container[z] = L
  BY DEF WellFormed, ListsOK, ContainersAgree, OnList
<1>2. Turn(yl, L, z) = Turn(xl, L, z)
  BY DEF Turn, PositionOf
<1>3. xl.container[z] = L => Turn(xl, L, z) \in Nat
  BY Position
<1>4. Turn(xl, L, z) \in Nat => Turn(xl, L, z) <= Turn(xl, L, z)
  OBVIOUS
<1>5. QED
  BY <1>1, <1>2, <1>3, <1>4 DEF NoLater

\* vListRemove of any item,
LEMMA LaterRemove ==
  ASSUME NEW L \in Lists, NEW z \in Items, NEW xl, WellFormed(xl),
         NEW x \in Items, xl.container[x] \in Lists
  PROVE  NoLater(L, z, xl, vListRemove(xl, x))
<1> DEFINE yl == vListRemove(xl, x)
           j  == PositionOf(xl, xl.container[x], x)
           s  == xl.ring[L]
           n  == Len(xl.ring[L])
           k  == xl.index[L]
<1>1. /\ WellFormed(yl) /\ xl.container \in [Items -> Lists \cup {Null}]
      /\ yl.container = [xl.container EXCEPT ![x] = Null]
  BY RemoveKeeps, ListFacts, ContainerType, SMTT(30) DEF WellFormed, Moved
<1>2. /\ xl.ring \in [Lists -> Seq(Items)] /\ xl.index \in [Lists -> Nat]
  BY DEF WellFormed, ListsOK, XLists
<1>3. /\ yl.ring = [xl.ring EXCEPT ![xl.container[x]] = RemoveAt(@, j)]
      /\ yl.index = [xl.index EXCEPT ![xl.container[x]] = IF j <= @ THEN @ - 1 ELSE @]
  BY DEF vListRemove
<1>4. CASE xl.container[x] # L
  <2>1. yl.ring[L] = xl.ring[L] /\ yl.index[L] = xl.index[L]
    BY <1>2, <1>3, <1>4
  <2>2. QED
    BY <1>1, <2>1, LaterSame
<1>5. CASE xl.container[x] = L /\ x # z /\ xl.container[z] = L
  <2>1. j \in 1 .. n /\ s[j] = x
    BY <1>5, PositionInRing DEF WellFormed
  <2>2. /\ yl.ring[L] = RemoveAt(s, j)
        /\ yl.index[L] = IF j <= k THEN k - 1 ELSE k
    BY <1>2, <1>3, <1>5
  <2>3. /\ Len(yl.ring[L]) = n - 1
        /\ \A h \in 1 .. n - 1 : yl.ring[L][h] = IF h < j THEN s[h] ELSE s[h + 1]
    <3>1. s \in Seq(Items)
      BY <1>2
    <3> HIDE DEF s, j
    <3>2. QED
      BY <2>1, <2>2, <3>1, RemoveAtProperties DEF s
  <2> HIDE DEF j
  <2>4. /\ n \in Nat /\ k \in 0 .. n
        /\ \E i \in 1 .. n : s[i] = z /\ Turn(xl, L, z) = TurnAt(i, k, n)
                             /\ Turn(xl, L, z) \in Nat
    BY <1>5, Position
  <2>5. PICK i \in 1 .. n : s[i] = z /\ Turn(xl, L, z) = TurnAt(i, k, n)
                            /\ Turn(xl, L, z) \in Nat
    BY <2>4
  <2> HIDE DEF yl, n, k, s
  <2>6. i # j
    BY <1>5, <2>1, <2>5
  <2>7. PICK h \in 1 .. n - 1 : h = IF i < j THEN i ELSE i - 1
    BY <2>1, <2>4, <2>5, <2>6
  <2>8. yl.ring[L][h] = z
    BY <2>1, <2>3, <2>4, <2>5, <2>6, <2>7
  <2>9. Turn(yl, L, z) = TurnAt(h, yl.index[L], n - 1)
    BY <1>1, <2>3, <2>7, <2>8, TurnIs
  <2>10. Turn(yl, L, z) <= Turn(xl, L, z)
    <3>1. TurnAt(h, yl.index[L], n - 1) <= TurnAt(i, k, n)
      BY ONLY <2>1, <2>2, <2>4, <2>5, <2>6, <2>7, TurnRemove
    <3>2. QED
      BY <2>5, <2>9, <3>1
  <2>11. yl.container[z] = L
    BY <1>1, <1>5 DEF yl
  <2>12. Turn(yl, L, z) \in Nat
    BY <1>1, <2>11, Position
  <2>13. QED
    BY <1>1, <1>5, <2>5, <2>10, <2>12 DEF NoLater, yl
<1>6. CASE x = z \/ xl.container[z] # L
  <2>1. yl.container[z] # L
    BY <1>1, <1>6, ListFacts
  <2>2. QED
    BY <1>1, <2>1 DEF NoLater
<1>7. QED
  BY <1>4, <1>5, <1>6

\* vListInsertEnd of another item, or into another list,
LEMMA LaterInsertEnd ==
  ASSUME NEW L \in Lists, NEW z \in Items, NEW xl, WellFormed(xl),
         NEW M \in Lists, NEW x \in Items, xl.container[x] = Null,
         M # L \/ x # z
  PROVE  NoLater(L, z, xl, vListInsertEnd(xl, M, x))
<1> DEFINE yl == vListInsertEnd(xl, M, x)
           s  == xl.ring[L]
           n  == Len(xl.ring[L])
           k  == xl.index[L]
           wl == LinkAt(xl, M, x, xl.index[M] + 1)
<1>1. /\ WellFormed(yl) /\ xl.container \in [Items -> Lists \cup {Null}]
      /\ yl.container = [xl.container EXCEPT ![x] = M]
  BY InsertEndKeeps, ListFacts, ContainerType DEF WellFormed, Moved
<1>2. /\ xl.index \in [Lists -> Nat]
      /\ xl.index[M] + 1 \in 1 .. Len(xl.ring[M]) + 1
  BY NotEmpty DEF WellFormed, ListsOK, XLists, IndexInRing
<1>3. wl \in XLists(Lists, Items) /\ Linked(xl, wl, Lists, M, x, xl.index[M] + 1)
  BY <1>2, LinkAtType, ListFacts DEF WellFormed
<1>4. yl = [wl EXCEPT !.index[M] = xl.index[M] + 1]
  BY DEF vListInsertEnd
<1> HIDE DEF wl
<1>5. yl.ring = wl.ring /\ yl.index = [wl.index EXCEPT ![M] = xl.index[M] + 1]
      /\ wl.index \in [Lists -> Nat]
  BY <1>3, <1>4 DEF XLists
<1> HIDE DEF yl
<1>6. CASE M # L
  <2>1. yl.ring[L] = xl.ring[L] /\ yl.index[L] = xl.index[L]
    BY <1>3, <1>5, <1>6 DEF Linked
  <2>2. QED
    BY <1>1, <2>1, LaterSame DEF yl
<1>7. CASE M = L /\ x # z /\ xl.container[z] = L
  <2>1. /\ yl.index[L] = k + 1 /\ Len(yl.ring[L]) = n + 1
        /\ \A h \in 1 .. n + 1 :
             yl.ring[L][h] = IF h < k + 1 THEN s[h] ELSE IF h = k + 1 THEN x ELSE s[h - 1]
    BY <1>3, <1>5, <1>7 DEF Linked
  <2>2. /\ n \in Nat /\ k \in 0 .. n
        /\ \E i \in 1 .. n : s[i] = z /\ Turn(xl, L, z) = TurnAt(i, k, n)
                             /\ Turn(xl, L, z) \in Nat
    BY <1>7, Position
  <2>3. PICK i \in 1 .. n : s[i] = z /\ Turn(xl, L, z) = TurnAt(i, k, n)
                            /\ Turn(xl, L, z) \in Nat
    BY <2>2
  <2> HIDE DEF n, k, s
  <2>4. PICK h \in 1 .. n + 1 : h = IF i < k + 1 THEN i ELSE i + 1
    BY <2>2, <2>3
  <2>5. yl.ring[L][h] = z
    BY <2>1, <2>2, <2>3, <2>4
  <2>6. Turn(yl, L, z) = TurnAt(h, k + 1, n + 1)
    BY <1>1, <2>1, <2>4, <2>5, TurnIs
  <2>7. Turn(yl, L, z) <= Turn(xl, L, z)
    <3>1. TurnAt(h, k + 1, n + 1) <= TurnAt(i, k, n)
      BY ONLY <2>2, <2>3, <2>4, TurnInsert
    <3>2. QED
      BY <2>3, <2>6, <3>1
  <2>8. yl.container[z] = L
    BY <1>1, <1>7
  <2>9. Turn(yl, L, z) \in Nat
    BY <1>1, <2>8, Position
  <2>10. QED
    BY <1>1, <1>7, <2>3, <2>7, <2>9 DEF NoLater, yl
<1>8. CASE x # z /\ xl.container[z] # L
  <2>1. yl.container[z] # L
    BY <1>1, <1>8
  <2>2. QED
    BY <1>1, <2>1 DEF NoLater, yl
<1>9. QED
  BY <1>6, <1>7, <1>8

\* vListInsert into another list,
LEMMA LaterInsert ==
  ASSUME NEW L \in Lists, NEW z \in Items, NEW xl, WellFormed(xl),
         NEW M \in Lists, M # L, NEW x \in Items, xl.container[x] = Null
  PROVE  NoLater(L, z, xl, vListInsert(xl, M, x))
<1> DEFINE i  == InsertPosition(xl, M, xl.value[x])
           yl == LinkAt(xl, M, x, i)
<1>1. WellFormed(vListInsert(xl, M, x)) /\ vListInsert(xl, M, x) = yl
  BY InsertKeeps, ListFacts DEF WellFormed, Moved, vListInsert
<1>2. i \in 1 .. Len(xl.ring[M]) + 1
  BY InsertPositionInRing DEF WellFormed
<1> HIDE DEF i
<1>3. Linked(xl, yl, Lists, M, x, i)
  BY <1>2, LinkAtType, ListFacts DEF WellFormed
<1> HIDE DEF yl
<1>4. yl.ring[L] = xl.ring[L] /\ yl.index[L] = xl.index[L]
  BY <1>3 DEF Linked
<1>5. QED
  BY <1>1, <1>4, LaterSame

\* the setting of a value,
LEMMA LaterSet ==
  ASSUME NEW L \in Lists, NEW z \in Items, NEW xl, WellFormed(xl),
         NEW x \in Items, NEW v \in TickType
  PROVE  NoLater(L, z, xl, listSET_LIST_ITEM_VALUE(xl, x, v))
<1> DEFINE yl == listSET_LIST_ITEM_VALUE(xl, x, v)
<1>1. SameLists(xl, yl, Lists, Items)
  BY SetValueKeeps DEF WellFormed
<1>2. yl.index = xl.index
  BY DEF listSET_LIST_ITEM_VALUE, WellFormed, ListsOK, XLists
<1> HIDE DEF yl
<1>3. NoLater(L, z, xl, yl)
  BY <1>1, <1>2, LaterSame DEF SameLists, WellFormed
<1>4. QED
  BY <1>3 DEF yl

\* and listGET_OWNER_OF_NEXT_ENTRY, unless it returns that item's owner.
LEMMA LaterAdvance ==
  ASSUME NEW L \in Lists, NEW z \in Items, NEW xl, WellFormed(xl),
         NEW M \in Lists, ~ listLIST_IS_EMPTY(xl, M),
         ItemAtIndex(AdvanceIndex(xl, M), M) # z
  PROVE  NoLater(L, z, xl, AdvanceIndex(xl, M))
<1> DEFINE yl == AdvanceIndex(xl, M)
           n  == Len(xl.ring[L])
           k  == xl.index[L]
<1>1. SameLists(xl, yl, Lists, Items)
  BY AdvanceKeeps DEF WellFormed
<1>2. /\ xl.index \in [Lists -> Nat]
      /\ yl.index = [xl.index EXCEPT ![M] = IF @ = Len(xl.ring[M]) THEN 1 ELSE @ + 1]
  BY DEF WellFormed, ListsOK, XLists, AdvanceIndex
<1>3. yl.ring[M][yl.index[M]] # z
  BY DEF ItemAtIndex
<1> HIDE DEF yl
<1>4. WellFormed(yl) /\ yl.ring = xl.ring /\ yl.container = xl.container
  BY <1>1 DEF SameLists, WellFormed
<1>5. CASE M # L
  <2>1. yl.index[L] = xl.index[L]
    BY <1>2, <1>5
  <2>2. QED
    BY <1>4, <2>1, LaterSame DEF yl
<1>6. CASE M = L /\ xl.container[z] = L
  <2>1. yl.index[L] = IF k = n THEN 1 ELSE k + 1
    BY <1>2, <1>6
  <2>2. /\ n \in Nat /\ k \in 0 .. n
        /\ \E i \in 1 .. n : xl.ring[L][i] = z /\ Turn(xl, L, z) = TurnAt(i, k, n)
                             /\ Turn(xl, L, z) \in Nat
    BY <1>6, Position
  <2>3. PICK i \in 1 .. n : xl.ring[L][i] = z /\ Turn(xl, L, z) = TurnAt(i, k, n)
                            /\ Turn(xl, L, z) \in Nat
    BY <2>2
  <2>4. i # yl.index[L]
    BY <1>3, <1>4, <1>6, <2>3
  <2>5. Turn(yl, L, z) = TurnAt(i, yl.index[L], n)
    <3>1. i \in 1 .. Len(yl.ring[L]) /\ yl.ring[L][i] = z /\ Len(yl.ring[L]) = n
      BY <1>4, <2>3
    <3>2. QED
      BY <1>4, <3>1, TurnIs
  <2> HIDE DEF n, k
  <2>6. Turn(yl, L, z) <= Turn(xl, L, z)
    <3>1. TurnAt(i, yl.index[L], n) <= TurnAt(i, k, n)
      BY ONLY <2>1, <2>2, <2>3, <2>4, TurnAdvance
    <3>2. QED
      BY <2>3, <2>5, <3>1
  <2>7. Turn(yl, L, z) \in Nat
    BY <1>4, <1>6, Position
  <2>8. QED
    BY <1>4, <1>6, <2>3, <2>6, <2>7 DEF NoLater, yl
<1>7. CASE xl.container[z] # L
  BY <1>4, <1>7 DEF NoLater, yl
<1>8. QED
  BY <1>5, <1>6, <1>7

-----------------------------------------------------------------------------
(* The calls of tasks.c on one task, seen from an item of a ready list      *)

\* A task changes its list,
LEMMA LaterMove ==
  ASSUME NEW L \in Lists, NEW z \in Items, NEW xl, WellFormed(xl),
         NEW t \in AllTasks, xl.container[Generic(t)] \in Lists,
         NEW M \in Lists, M # L \/ Generic(t) # z
  PROVE  NoLater(L, z, xl, vListInsertEnd(vListRemove(xl, Generic(t)), M, Generic(t)))
<1> DEFINE yl == vListRemove(xl, Generic(t))
<1>1. Generic(t) \in Items
  BY ItemFacts
<1>2. Relocated(xl, yl, t, Null, xl.container[Event(t)]) /\ NoLater(L, z, xl, yl)
  BY <1>1, RemoveGeneric, LaterRemove
<1> HIDE DEF yl
<1>3. WellFormed(yl) /\ yl.container[Generic(t)] = Null
  BY <1>2, RelocatedPlaces
<1>4. NoLater(L, z, yl, vListInsertEnd(yl, M, Generic(t)))
  BY <1>1, <1>3, LaterInsertEnd
<1>5. QED
  BY <1>2, <1>4, LaterTwice DEF yl

\* its event item too,
LEMMA LaterEventOff ==
  ASSUME NEW L \in Lists, NEW z \in Items, NEW xl, WellFormed(xl),
         NEW t \in AllTasks, xl.container[Generic(t)] \in Lists,
         xl.container[Event(t)] \in Lists \ {Termination},
         NEW M \in Lists, M # L \/ Generic(t) # z
  PROVE  NoLater(L, z, xl, vListInsertEnd(vListRemove(vListRemove(xl, Event(t)),
                                                Generic(t)), M, Generic(t)))
<1> DEFINE yl == vListRemove(xl, Event(t))
<1>1. Event(t) \in Items
  BY ItemFacts
<1>2. Relocated(xl, yl, t, xl.container[Generic(t)], Null) /\ NoLater(L, z, xl, yl)
  BY <1>1, RemoveEvent, LaterRemove
<1> HIDE DEF yl
<1>3. WellFormed(yl) /\ yl.container[Generic(t)] = xl.container[Generic(t)]
  BY <1>2, RelocatedPlaces
<1>4. NoLater(L, z, yl, vListInsertEnd(vListRemove(yl, Generic(t)), M, Generic(t)))
  BY <1>3, LaterMove
<1>5. QED
  BY <1>2, <1>4, LaterTwice DEF yl

\* or its event item only if there is one to take off,
LEMMA LaterUnlink ==
  ASSUME NEW L \in Lists, NEW z \in Items, NEW xl, WellFormed(xl),
         NEW t \in AllTasks, xl.container[Generic(t)] \in Lists,
         xl.container[Event(t)] \in (Lists \ {Termination}) \cup {Null},
         NEW M \in Lists, M # L \/ Generic(t) # z
  PROVE  NoLater(L, z, xl, vListInsertEnd(Unlink(xl, t), M, Generic(t)))
<1> DEFINE yl == vListRemove(xl, Generic(t))
           wl == Unlink(xl, t)
<1>1. Generic(t) \in Items /\ Event(t) \in Items
  BY ItemFacts
<1>2. Relocated(xl, yl, t, Null, xl.container[Event(t)]) /\ NoLater(L, z, xl, yl)
  BY <1>1, RemoveGeneric, LaterRemove
<1>3. Relocated(xl, wl, t, Null, Null)
  BY UnlinkMoves
<1>4. wl = IF yl.container[Event(t)] = Null THEN yl ELSE vListRemove(yl, Event(t))
  BY DEF Unlink
<1> HIDE DEF yl, wl
<1>5. WellFormed(yl) /\ yl.container[Event(t)] = xl.container[Event(t)]
  BY <1>2, RelocatedPlaces
<1>6. WellFormed(wl) /\ wl.container[Generic(t)] = Null
  BY <1>3, RelocatedPlaces
<1>7. NoLater(L, z, xl, wl)
  <2>1. CASE yl.container[Event(t)] = Null
    BY <1>2, <1>4, <2>1
  <2>2. CASE yl.container[Event(t)] # Null
    <3>1. NoLater(L, z, yl, vListRemove(yl, Event(t)))
      BY <1>1, <1>5, <2>2, LaterRemove
    <3>2. QED
      BY <1>2, <1>4, <2>2, <3>1, LaterTwice
  <2>3. QED
    BY <2>1, <2>2
<1>8. NoLater(L, z, wl, vListInsertEnd(wl, M, Generic(t)))
  BY <1>1, <1>6, LaterInsertEnd
<1>9. QED
  BY <1>7, <1>8, LaterTwice DEF wl

\* or only its event item goes to xPendingReadyList.
LEMMA LaterPending ==
  ASSUME NEW L \in Lists, L # Pending, NEW z \in Items, NEW xl, WellFormed(xl),
         NEW t \in AllTasks, xl.container[Event(t)] \in Lists \ {Termination}
  PROVE  NoLater(L, z, xl, vListInsertEnd(vListRemove(xl, Event(t)), Pending, Event(t)))
<1> DEFINE yl == vListRemove(xl, Event(t))
<1>1. Event(t) \in Items /\ Pending \in Lists
  BY ItemFacts, ListFacts
<1>2. Relocated(xl, yl, t, xl.container[Generic(t)], Null) /\ NoLater(L, z, xl, yl)
  BY <1>1, RemoveEvent, LaterRemove
<1> HIDE DEF yl
<1>3. WellFormed(yl) /\ yl.container[Event(t)] = Null
  BY <1>2, RelocatedPlaces
<1>4. NoLater(L, z, yl, vListInsertEnd(yl, Pending, Event(t)))
  BY <1>1, <1>3, LaterInsertEnd
<1>5. QED
  BY <1>2, <1>4, LaterTwice DEF yl

\* A task is delayed.
LEMMA LaterBlock ==
  ASSUME NEW L \in Lists, L \notin DelayedLists, NEW z \in Items,
         NEW xl, WellFormed(xl), NEW t \in AllTasks, NEW wake \in TickType,
         xl.container[Generic(t)] \in Lists,
         pxDelayedTaskList \in DelayedLists, pxOverflowDelayedTaskList \in DelayedLists
  PROVE  NoLater(L, z, xl, BlockUntil(xl, t, wake))
<1> DEFINE T  == WaitingList(wake)
           yl == vListRemove(xl, Generic(t))
           wl == listSET_LIST_ITEM_VALUE(yl, Generic(t), wake)
<1>1. BlockUntil(xl, t, wake) = vListInsert(wl, T, Generic(t))
  BY DEF BlockUntil, WaitingList
<1>2. T \in Lists /\ T # L /\ Generic(t) \in Items
  BY ItemFacts, ListFacts DEF WaitingList
<1>a. Relocated(xl, yl, t, Null, xl.container[Event(t)])
  BY RemoveGeneric
<1>3. NoLater(L, z, xl, yl)
  BY <1>2, LaterRemove
<1> HIDE DEF yl, T
<1>4. WellFormed(yl) /\ yl.container[Generic(t)] = Null
  BY <1>a, RelocatedPlaces
<1>b. Relocated(yl, wl, t, Null, yl.container[Event(t)])
  BY <1>2, <1>4, ValueSet
<1>5. NoLater(L, z, yl, wl)
  BY <1>2, <1>4, LaterSet
<1> HIDE DEF wl
<1>6. WellFormed(wl) /\ wl.container[Generic(t)] = Null
  BY <1>4, <1>b, RelocatedPlaces
<1>7. NoLater(L, z, wl, vListInsert(wl, T, Generic(t)))
  BY <1>2, <1>6, LaterInsert
<1>8. QED
  BY <1>1, <1>3, <1>5, <1>7, LaterTwice

\* A new task is made ready.
LEMMA LaterNew ==
  ASSUME NEW L \in Lists, NEW z \in Items, NEW xl, WellFormed(xl),
         NEW t \in AllTasks, Generic(t) # z, NEW p \in Priorities,
         xl.container[Generic(t)] = Null, xl.container[Event(t)] = Null
  PROVE  NoLater(L, z, xl, EnterReady(xl, t, p))
<1> DEFINE wl == [xl EXCEPT !.container = [x \in Items |->
                              IF Owner(x) = t THEN Null ELSE @[x]]]
           zl == listSET_LIST_ITEM_VALUE(wl, Event(t), EventItemValue(p))
<1>1. /\ xl \in XLists(Lists, Items) /\ xl.container \in [Items -> Lists \cup {Null}]
      /\ \A x \in Items : Owner(x) = t => xl.container[x] = Null
  BY ContainerType, ItemFacts DEF WellFormed, ListsOK
<1>2. wl = xl
  <2>1. xl.container = [x \in Items |-> IF Owner(x) = t THEN Null ELSE xl.container[x]]
    BY <1>1
  <2>2. xl = [xl EXCEPT !.container = xl.container]
    BY <1>1 DEF XLists
  <2>3. QED
    BY <2>1, <2>2
<1> HIDE DEF wl
<1>3. /\ Event(t) \in Items /\ Generic(t) \in Items /\ EventItemValue(p) \in TickType
      /\ Ready(p) \in Lists
  BY ItemFacts, ConstantFacts, ListFacts
<1>4. Relocated(xl, zl, t, Null, Null) /\ NoLater(L, z, xl, zl)
  BY <1>2, <1>3, ValueSet, LaterSet
<1>5. EnterReady(xl, t, p) = vListInsertEnd(zl, Ready(p), Generic(t))
  BY DEF EnterReady, AddToReady, wl
<1> HIDE DEF zl
<1>6. WellFormed(zl) /\ zl.container[Generic(t)] = Null
  BY <1>4, RelocatedPlaces
<1>7. NoLater(L, z, zl, vListInsertEnd(zl, Ready(p), Generic(t)))
  BY <1>3, <1>6, LaterInsertEnd
<1>8. QED
  BY <1>4, <1>5, <1>7, LaterTwice

\* The search of vTaskSwitchContext, unless it comes to that task.
LEMMA LaterSwitch ==
  ASSUME NEW L \in Lists, NEW u \in AllTasks, NEW xl, WellFormed(xl),
         SwitchTo(xl), pxCurrentTCB' # u
  PROVE  NoLater(L, Generic(u), xl, lists')
<1> DEFINE found == ReadyAtOrBelow(xl, uxTopReadyPriority)
           top   == HighestOf(found)
           z     == Generic(u)
<1>1. z \in Items /\ Owner(z) = u /\ found \subseteq Priorities
  BY ItemFacts DEF ReadyAtOrBelow
<1>2. CASE found = {}
  <2>1. lists' = xl
    BY <1>2 DEF SwitchTo
  <2>2. QED
    BY <1>1, <2>1, LaterSame
<1>3. CASE found # {}
  <2>1. /\ lists' = AdvanceIndex(xl, Ready(top))
        /\ pxCurrentTCB' = Owner(ItemAtIndex(AdvanceIndex(xl, Ready(top)), Ready(top)))
    BY <1>3 DEF SwitchTo
  <2>2. top \in found
    BY <1>1, <1>3, HighestExists
  <2>3. Ready(top) \in Lists /\ ~ listLIST_IS_EMPTY(xl, Ready(top))
    BY <2>2, ListFacts DEF ReadyAtOrBelow
  <2> HIDE DEF top
  <2>4. ItemAtIndex(AdvanceIndex(xl, Ready(top)), Ready(top)) # z
    BY <1>1, <2>1
  <2>5. QED
    BY <1>1, <2>1, <2>3, <2>4, LaterAdvance
<1>4. QED
  BY <1>2, <1>3

-----------------------------------------------------------------------------
(* No step puts off the turn of a ready task                               *)

\* The current step selects task u, or brings it no further from its turn.
Fair(u) ==
  NoLater(Ready(uxPriority[u]), Generic(u), lists, lists') \/ pxCurrentTCB' = u

\* The list of a ready task is none of the other ones.
LEMMA TurnFacts ==
  ASSUME IInv, NEW u \in AllTasks, IsReady(u), NEW L, L = Ready(uxPriority[u])
  PROVE  /\ L \in Lists /\ L \notin DelayedLists /\ L \notin EventLists
         /\ L # Pending /\ L # Suspended /\ L # Termination
         /\ \A p : p # uxPriority[u] => Ready(p) # L
         /\ Generic(u) \in Items /\ u \in tcb /\ WellFormed(lists)
         /\ \A x \in AllTasks : x # u => Generic(x) # Generic(u)
         /\ \A x \in AllTasks : Container(x) \in DelayedLists \cup {Suspended} =>
              Generic(x) # Generic(u)
<1>1. uxPriority[u] \in Priorities /\ WellFormed(lists)
  BY PlaceFacts
<1>2. /\ L \in Lists /\ L \notin DelayedLists /\ L \notin EventLists
      /\ L # Pending /\ L # Suspended /\ L # Termination
      /\ \A p : p # uxPriority[u] => Ready(p) # L
  BY <1>1, ListFacts
<1>3. Container(u) = L /\ L # Null
  BY <1>2, ListFacts DEF IsReady
<1>4. u \in tcb
  BY <1>3, PlaceFacts
<1>5. \A x \in AllTasks : x # u => Generic(x) # Generic(u)
  BY ItemFacts
<1>6. QED
  BY <1>1, <1>2, <1>3, <1>4, <1>5, ItemFacts

\* A step that leaves the lists alone.
LEMMA FairStill ==
  ASSUME IInv, NEW u \in AllTasks, IsReady(u), lists' = lists
  PROVE  Fair(u)
BY LaterSame, TurnFacts DEF Fair

\* xTaskGenericCreate.
LEMMA CreateFair ==
  ASSUME IInv, NEW u \in AllTasks, IsReady(u), NEW t \in AllTasks,
         NEW asked \in RequestedPriorities \cup {0}, CreateTask(t, asked)
  PROVE  Fair(u)
<1> DEFINE first == pxCurrentTCB = Null /\ uxCurrentNumberOfTasks = 0
           yl    == IF first THEN vListInitialise(Lists, Items) ELSE lists
           z     == Generic(u)
<1>0. PICK L : L = Ready(uxPriority[u])
  OBVIOUS
<1>1. PICK p \in Priorities : p = CapPriority(asked)
  BY CapFacts
<1>2. t \notin tcb /\ lists' = EnterReady(yl, t, p)
  BY <1>1 DEF CreateTask
<1>3. /\ L \in Lists /\ z \in Items /\ u \in tcb /\ Generic(t) # z
      /\ Container(t) = Null /\ lists.container[Event(t)] = Null
      /\ WellFormed(lists) /\ lists.container[Generic(t)] = Null
  <2>1. Container(t) = Null
    BY <1>2 DEF IInv, Placement
  <2>2. L \in Lists /\ z \in Items /\ u \in tcb
    BY <1>0, TurnFacts
  <2>3. Generic(t) # z
    BY <1>2, <2>2, ItemFacts
  <2>4. QED
    BY <2>1, <2>2, <2>3, PlaceFacts, ListFacts DEF Container
<1>4. /\ NoLater(L, z, lists, yl) /\ WellFormed(yl)
      /\ yl.container[Event(t)] = Null /\ yl.container[Generic(t)] = Null
  <2>1. CASE first
    <3> DEFINE zl == vListInitialise(Lists, Items)
    <3>1. WellFormed(zl) /\ \A x \in Items : zl.container[x] = Null
      BY InitialListsOK, ListFacts DEF WellFormed
    <3>2. yl = zl
      BY <2>1
    <3> HIDE DEF zl, yl
    <3>3. NoLater(L, z, lists, zl)
      BY <1>3, <3>1, ListFacts DEF NoLater
    <3>4. QED
      BY <3>1, <3>2, <3>3, ItemFacts
  <2>2. CASE ~ first
    BY <1>3, <2>2, LaterSame
  <2>3. QED
    BY <2>1, <2>2
<1> HIDE DEF yl
<1>5. NoLater(L, z, yl, EnterReady(yl, t, p))
  BY <1>3, <1>4, LaterNew
<1>6. QED
  BY <1>0, <1>2, <1>4, <1>5, LaterTwice DEF Fair

\* A task that is unlinked goes to another list.
LEMMA UnlinkFair ==
  ASSUME IInv, NEW u \in AllTasks, IsReady(u), NEW x, Handle(x),
         NEW M \in {Termination, Suspended}
  PROVE  NoLater(Ready(uxPriority[u]), Generic(u), lists,
                 vListInsertEnd(Unlink(lists, x), M, Generic(x)))
<1>1. PICK L : L = Ready(uxPriority[u])
  OBVIOUS
<1>2. /\ L \in Lists /\ M \in Lists /\ M # L /\ Generic(u) \in Items
      /\ WellFormed(lists)
  BY <1>1, TurnFacts, ListFacts
<1>3. /\ x \in AllTasks /\ lists.container[Generic(x)] \in Lists
      /\ lists.container[Event(x)] \in (Lists \ {Termination}) \cup {Null}
  BY HandleFacts, PlaceFacts
<1>4. QED
  BY <1>1, <1>2, <1>3, LaterUnlink

\* What main() does before the scheduler runs.
LEMMA MainFair ==
  ASSUME IInv, NEW u \in AllTasks, IsReady(u), Main
  PROVE  Fair(u)
<1>1. ASSUME NEW t \in Tasks, NEW p \in RequestedPriorities,
             CreateBeforeStart(t, p)
      PROVE  Fair(u)
  BY <1>1, CreateFair DEF CreateBeforeStart, AllTasks
<1>2. ASSUME NEW x \in Tasks, DeleteBeforeStart(x)
      PROVE  Fair(u)
  BY <1>2, UnlinkFair DEF DeleteBeforeStart, Delete, Fair
<1>3. ASSUME NEW x \in Tasks, SuspendBeforeStart(x), pxCurrentTCB' # u
      PROVE  Fair(u)
  <2> DEFINE yl == Suspend(lists, x)
  <2>0. PICK L : L = Ready(uxPriority[u])
    OBVIOUS
  <2>1. NoLater(L, Generic(u), lists, yl) /\ L \in Lists
    BY <1>3, <2>0, UnlinkFair, TurnFacts DEF SuspendBeforeStart, Suspend
  <2>2. WellFormed(yl)
    BY <2>1 DEF NoLater
  <2>3. lists' = yl \/ SwitchTo(yl)
    BY <1>3 DEF SuspendBeforeStart
  <2> HIDE DEF yl
  <2>4. CASE SwitchTo(yl)
    <3>1. NoLater(L, Generic(u), yl, lists')
      BY <1>3, <2>1, <2>2, <2>4, LaterSwitch
    <3>2. QED
      BY <2>0, <2>1, <3>1, LaterTwice DEF Fair
  <2>5. QED
    BY <2>0, <2>1, <2>3, <2>4 DEF Fair
<1>4. CASE vTaskStartScheduler
  BY <1>4, CreateFair DEF vTaskStartScheduler, AllTasks
<1>5. QED
  BY <1>1, <1>2, <1>3, <1>4 DEF Main, Fair

\* vTaskResume and xTaskResumeFromISR: the task was suspended.
LEMMA ResumeFair ==
  ASSUME IInv, NEW u \in AllTasks, IsReady(u), NEW x, Handle(x),
         xTaskIsTaskSuspended(x), ResumeNow(x)
  PROVE  Fair(u)
<1>1. PICK L : L = Ready(uxPriority[u])
  OBVIOUS
<1>2. /\ x \in AllTasks /\ WellFormed(lists) /\ uxPriority[x] \in Priorities
      /\ lists.container[Generic(x)] \in Lists
  BY HandleFacts, PlaceFacts
<1>3. Container(x) = Suspended
  BY DEF xTaskIsTaskSuspended, listIS_CONTAINED_WITHIN, Container
<1>4. /\ L \in Lists /\ Generic(u) \in Items /\ Generic(x) # Generic(u)
      /\ Ready(uxPriority[x]) \in Lists
  BY <1>1, <1>2, <1>3, TurnFacts, ListFacts
<1>5. QED
  BY <1>1, <1>2, <1>4, LaterMove DEF ResumeNow, AddToReady, Fair

\* xTaskRemoveFromEventList: the task was waiting.
LEMMA RemoveFromFair ==
  ASSUME IInv, NEW u \in AllTasks, IsReady(u), NEW e \in Events,
         ~ listLIST_IS_EMPTY(lists, EventList(e)), xTaskRemoveFromEventList(e)
  PROVE  Fair(u)
<1> DEFINE t == FirstWaiting(e)
<1>0. PICK L : L = Ready(uxPriority[u])
  OBVIOUS
<1>1. /\ t \in AllTasks /\ WellFormed(lists)
      /\ Container(t) \in DelayedLists \cup {Suspended}
      /\ lists.container[Generic(t)] \in Lists
      /\ lists.container[Event(t)] \in Lists \ {Termination}
  BY FirstOfEvents DEF EventLists, FirstWaiting
<1>2. \/ lists' = vListInsertEnd(vListRemove(vListRemove(lists, Event(t)), Generic(t)),
                                 Ready(uxPriority[t]), Generic(t))
      \/ lists' = vListInsertEnd(vListRemove(lists, Event(t)), Pending, Event(t))
  BY DEF xTaskRemoveFromEventList, AddToReady
<1> HIDE DEF t
<1>3. uxPriority[t] \in Priorities
  BY <1>1, PlaceFacts
<1>4. /\ Ready(uxPriority[t]) \in Lists /\ L \in Lists /\ L # Pending
      /\ Generic(u) \in Items /\ Generic(t) # Generic(u)
  BY <1>0, <1>1, <1>3, TurnFacts, ListFacts
<1>5. NoLater(L, Generic(u), lists, lists')
  BY <1>1, <1>2, <1>4, LaterEventOff, LaterPending
<1>6. QED
  BY <1>0, <1>5 DEF Fair

\* A post.
LEMMA PostFair ==
  ASSUME IInv, NEW u \in AllTasks, IsReady(u), NEW e \in Events, Post(e)
  PROVE  Fair(u)
<1>1. CASE queueLocked[e]
  BY <1>1, FairStill DEF Post, listVars
<1>2. CASE ~ queueLocked[e]
  BY <1>2, RemoveFromFair DEF Post
<1>3. QED
  BY <1>1, <1>2

\* vTaskPrioritySet: the ready list of the new priority is another one.
LEMMA PrioritySetFair ==
  ASSUME IInv, NEW u \in AllTasks, IsReady(u), NEW t, NEW x,
         NEW asked \in RequestedPriorities, vTaskPrioritySet(t, x, asked)
  PROVE  Fair(u)
<1>0. PICK L : L = Ready(uxPriority[u])
  OBVIOUS
<1>1. PICK new \in Priorities : new = CapPriority(asked)
  BY CapFacts
<1> DEFINE xl == listSET_LIST_ITEM_VALUE(lists, Event(x), EventItemValue(new))
<1>2. /\ x \in AllTasks /\ WellFormed(lists) /\ Event(x) \in Items
      /\ EventItemValue(new) \in TickType /\ Ready(new) \in Lists
      /\ L \in Lists /\ Generic(u) \in Items
      /\ Ready(new) # L \/ Generic(x) # Generic(u)
  <2>1. Handle(x) /\ new # uxPriority[x]
    BY <1>1 DEF vTaskPrioritySet
  <2>2. x \in AllTasks
    BY <2>1, HandleFacts
  <2>3. Ready(new) # L \/ Generic(x) # Generic(u)
    BY <1>0, <2>1, <2>2, TurnFacts
  <2>4. QED
    BY <1>0, <2>2, <2>3, TurnFacts, ItemFacts, ListFacts, ConstantFacts
<1>3. \/ lists' = xl
      \/ /\ lists' = vListInsertEnd(vListRemove(xl, Generic(x)), Ready(new), Generic(x))
         /\ lists.container[Generic(x)] = Ready(uxPriority[x])
  BY <1>1 DEF vTaskPrioritySet, AddToReady, listIS_CONTAINED_WITHIN
<1>4. NoLater(L, Generic(u), lists, xl)
  BY <1>2, LaterSet
<1>5. Relocated(lists, xl, x, lists.container[Generic(x)], lists.container[Event(x)])
  BY <1>2, ValueSet
<1> HIDE DEF xl
<1>6. CASE lists' = xl
  BY <1>0, <1>4, <1>6 DEF Fair
<1>7. CASE lists' # xl
  <2>1. uxPriority[x] \in Priorities
    BY <1>2, PlaceFacts
  <2>2. WellFormed(xl) /\ xl.container[Generic(x)] \in Lists
    BY <1>2, <1>3, <1>5, <1>7, <2>1, RelocatedPlaces, ListFacts
  <2>3. NoLater(L, Generic(u), xl, lists')
    BY <1>2, <1>3, <1>7, <2>2, LaterMove
  <2>4. QED
    BY <1>0, <1>4, <2>3, LaterTwice DEF Fair
<1>8. QED
  BY <1>6, <1>7

\* A task making a call of its own accord.
LEMMA CallFair ==
  ASSUME IInv, NEW u \in AllTasks, IsReady(u), NEW t, ApplicationCall(t)
  PROVE  Fair(u)
<1>1. ASSUME NEW x \in Tasks, NEW p \in RequestedPriorities, xTaskCreate(t, x, p)
      PROVE  Fair(u)
  BY <1>1, CreateFair DEF xTaskCreate, AllTasks
<1>2. ASSUME NEW x, vTaskDelete(t, x)
      PROVE  Fair(u)
  BY <1>2, UnlinkFair DEF vTaskDelete, Delete, Fair
<1>3. ASSUME NEW x, vTaskSuspend(t, x)
      PROVE  Fair(u)
  BY <1>3, UnlinkFair DEF vTaskSuspend, Suspend, Fair
<1>4. ASSUME NEW x, vTaskResume(t, x)
      PROVE  Fair(u)
  BY <1>4, ResumeFair DEF vTaskResume
<1>5. ASSUME NEW x, NEW p \in RequestedPriorities, vTaskPrioritySet(t, x, p)
      PROVE  Fair(u)
  BY <1>5, PrioritySetFair
<1>6. ASSUME NEW e \in Events, QueueSend(t, e)
      PROVE  Fair(u)
  BY <1>6, PostFair DEF QueueSend
<1>7. ASSUME lists' = lists
      PROVE  Fair(u)
  BY <1>7, FairStill
<1>8. QED
  BY <1>1, <1>2, <1>3, <1>4, <1>5, <1>6, <1>7
     DEF ApplicationCall, vTaskSuspendAll, EnterDelay, DelayZero, portYIELD,
         QueueWait, SuspendAllVars, listVars

\* The middle of the blocking calls.
LEMMA BlockFair ==
  ASSUME IInv, NEW u \in AllTasks, IsReady(u), NEW t, Blocks(t)
  PROVE  Fair(u)
<1>0. PICK L : L = Ready(uxPriority[u])
  OBVIOUS
<1>1. /\ L \in Lists /\ L \notin DelayedLists /\ L \notin EventLists
      /\ L # Suspended /\ Generic(u) \in Items
      /\ xTickCount \in Nat /\ Delays \subseteq Nat /\ TickType \subseteq Nat
  BY <1>0, TurnFacts, TasksAssumption DEF IInv, TypeOK, TickType
<1>t. ASSUME NEW a \in Nat, NEW b \in Nat
      PROVE  Tick(a + b) \in TickType
  <2>1. a + b \in Nat
    OBVIOUS
  <2>2. QED
    BY <2>1, TickInRange
<1>2. ASSUME NEW d \in Delays, vTaskDelay(t, d)
      PROVE  Fair(u)
  <2>1. PICK wake \in TickType : wake = Tick(xTickCount + d)
    BY <1>1, <1>t
  <2>2. At(t, "vTaskDelay") /\ lists' = BlockUntil(lists, t, wake)
    BY <1>2, <2>1 DEF vTaskDelay
  <2>3. NoLater(L, Generic(u), lists, lists')
    BY <1>1, <2>2, BlockingFacts, LaterBlock
  <2>4. QED
    BY <1>0, <2>3 DEF Fair
<1>3. ASSUME NEW previous \in TickType, NEW increment \in TickType,
             vTaskDelayUntil(t, previous, increment)
      PROVE  Fair(u)
  <2>1. PICK wake \in TickType : wake = Tick(previous + increment)
    BY <1>1, <1>t
  <2>2. /\ At(t, "vTaskDelayUntil")
        /\ lists' = BlockUntil(lists, t, wake) \/ lists' = lists
    BY <1>3, <2>1 DEF vTaskDelayUntil
  <2>3. CASE lists' = lists
    BY <2>3, FairStill
  <2>4. CASE lists' = BlockUntil(lists, t, wake)
    <3>1. NoLater(L, Generic(u), lists, lists')
      BY <1>1, <2>2, <2>4, BlockingFacts, LaterBlock
    <3>2. QED
      BY <1>0, <3>1 DEF Fair
  <2>5. QED
    BY <2>2, <2>3, <2>4
<1>4. ASSUME NEW e \in Events, NEW ticks \in Delays, vTaskPlaceOnEventList(t, e, ticks)
      PROVE  Fair(u)
  <2> DEFINE xl == vListInsert(lists, EventList(e), Event(t))
  <2>1. PICK wake \in TickType : wake = Tick(xTickCount + ticks)
    BY <1>1, <1>t
  <2>2. /\ At(t, "place")
        /\ \/ lists' = vListInsertEnd(vListRemove(xl, Generic(t)), Suspended, Generic(t))
           \/ lists' = BlockUntil(xl, t, wake)
    BY <1>4, <2>1 DEF vTaskPlaceOnEventList
  <2>3. /\ WellFormed(lists) /\ t \in AllTasks
        /\ lists.container[Generic(t)] \in Lists /\ lists.container[Event(t)] = Null
        /\ pxDelayedTaskList \in DelayedLists /\ pxOverflowDelayedTaskList \in DelayedLists
    BY <2>2, BlockingFacts
  <2>4. /\ EventList(e) \in Lists \ {Termination} /\ EventList(e) # L
        /\ Event(t) \in Items /\ Suspended \in Lists
    BY <1>1, <2>3, ItemFacts, ListFacts DEF EventLists
  <2>5. NoLater(L, Generic(u), lists, xl)
    BY <1>1, <2>3, <2>4, LaterInsert
  <2>6. Relocated(lists, xl, t, lists.container[Generic(t)], EventList(e))
    BY <2>3, <2>4, InsertEvent
  <2> HIDE DEF xl
  <2>7. WellFormed(xl) /\ xl.container[Generic(t)] \in Lists
    BY <2>3, <2>6, RelocatedPlaces
  <2>8. NoLater(L, Generic(u), xl, lists')
    BY <1>1, <2>2, <2>3, <2>4, <2>7, LaterMove, LaterBlock
  <2>9. QED
    BY <1>0, <2>5, <2>8, LaterTwice DEF Fair
<1>5. QED
  BY <1>2, <1>3, <1>4 DEF Blocks

\* A call that goes on.
LEMMA FinishFair ==
  ASSUME IInv, NEW u \in AllTasks, IsReady(u), NEW t, FinishCall(t)
  PROVE  Fair(u)
<1>1. ASSUME NEW e \in Events, QueueUnlock(t, e)
      PROVE  Fair(u)
  <2>1. CASE queuePosted[e] /\ ~ listLIST_IS_EMPTY(lists, EventList(e))
    BY <1>1, <2>1, RemoveFromFair DEF QueueUnlock
  <2>2. CASE ~ (queuePosted[e] /\ ~ listLIST_IS_EMPTY(lists, EventList(e)))
    BY <1>1, <2>2, FairStill DEF QueueUnlock, listVars
  <2>3. QED
    BY <2>1, <2>2
<1>2. CASE CreatedYield(t) \/ xTaskResumeAll(t) \/ EndWithYield(t)
  BY <1>2, FairStill DEF CreatedYield, xTaskResumeAll, EndWithYield, portYIELD,
     listVars
<1>3. QED
  BY <1>1, <1>2, BlockFair DEF FinishCall, Blocks

\* The idle task.
LEMMA IdleFair ==
  ASSUME IInv, NEW u \in AllTasks, IsReady(u), IdleTask
  PROVE  Fair(u)
<1>0. PICK L : L = Ready(uxPriority[u])
  OBVIOUS
<1>1. CASE IdleReap
  <2> DEFINE t == Owner(HeadItem(lists, Termination))
  <2>1. /\ lists' = vListRemove(lists, Generic(t)) /\ pc[Idle] = "idleReap"
    BY <1>1, AtFacts DEF IdleReap
  <2>2. /\ WellFormed(lists) /\ Termination \in Lists /\ L \in Lists
        /\ Generic(u) \in Items /\ ~ listLIST_IS_EMPTY(lists, Termination)
    BY <1>0, <2>1, TurnFacts, ListFacts DEF IInv, LabelsOK
  <2>3. /\ HeadItem(lists, Termination) \in Items
        /\ lists.container[HeadItem(lists, Termination)] = Termination
    BY <2>2, HeadOnList DEF WellFormed
  <2>4. /\ t \in AllTasks /\ Generic(t) \in Items
        /\ HeadItem(lists, Termination) = Generic(t)
             \/ HeadItem(lists, Termination) = Event(t)
    BY <2>3, ItemFacts
  <2> HIDE DEF t
  <2>5. lists.container[Generic(t)] \in Lists
    BY <2>2, <2>3, <2>4, PlaceFacts, ListFacts
  <2>6. NoLater(L, Generic(u), lists, lists')
    BY <2>1, <2>2, <2>4, <2>5, LaterRemove
  <2>7. QED
    BY <1>0, <2>6 DEF Fair
<1>2. QED
  BY <1>1, FairStill DEF IdleTask, IdleCheck, IdleLook, IdleFree, IdleYield,
     SuspendAllVars, listVars

\* The loops that run with interrupts masked: the tasks they make ready were
\* pending or delayed.
LEMMA LoopFair ==
  ASSUME IInv, NEW u \in AllTasks, IsReady(u), MaskedLoop
  PROVE  Fair(u)
<1>0. PICK L : L = Ready(uxPriority[u])
  OBVIOUS
<1>1. CASE DrainPending
  <2> DEFINE t == Owner(HeadItem(lists, Pending))
  <2>1. /\ lists' = vListInsertEnd(vListRemove(vListRemove(lists, Event(t)), Generic(t)),
                                   Ready(uxPriority[t]), Generic(t))
        /\ ~ listLIST_IS_EMPTY(lists, Pending)
    BY <1>1 DEF DrainPending, AddToReady
  <2>2. /\ t \in AllTasks /\ WellFormed(lists)
        /\ Container(t) \in DelayedLists \cup {Suspended}
        /\ lists.container[Generic(t)] \in Lists
        /\ lists.container[Event(t)] \in Lists \ {Termination}
    BY <2>1, FirstOfEvents
  <2> HIDE DEF t
  <2>3. uxPriority[t] \in Priorities
    BY <2>2, PlaceFacts
  <2>4. /\ Ready(uxPriority[t]) \in Lists /\ L \in Lists /\ Generic(u) \in Items
        /\ Generic(t) # Generic(u)
    BY <1>0, <2>2, <2>3, TurnFacts, ListFacts
  <2>5. NoLater(L, Generic(u), lists, lists')
    BY <2>1, <2>2, <2>4, LaterEventOff
  <2>6. QED
    BY <1>0, <2>5 DEF Fair
<1>2. CASE WakeOne
  <2> DEFINE t == Owner(HeadItem(lists, pxDelayedTaskList))
  <2>1. /\ lists' = vListInsertEnd(Unlink(lists, t), Ready(uxPriority[t]), Generic(t))
        /\ ~ listLIST_IS_EMPTY(lists, pxDelayedTaskList)
    BY <1>2 DEF WakeOne, Expired, AddToReady
  <2>2. /\ WellFormed(lists) /\ pxDelayedTaskList \in DelayedLists
        /\ pxDelayedTaskList \in Lists
    BY WellFormedNow, ListFacts DEF IInv, TypeOK
  <2>3. /\ HeadItem(lists, pxDelayedTaskList) \in Items
        /\ lists.container[HeadItem(lists, pxDelayedTaskList)] = pxDelayedTaskList
    BY <2>1, <2>2, HeadOnList DEF WellFormed
  <2>4. /\ t \in AllTasks
        /\ HeadItem(lists, pxDelayedTaskList) = Generic(t)
             \/ HeadItem(lists, pxDelayedTaskList) = Event(t)
    BY <2>3, ItemFacts
  <2> HIDE DEF t
  <2>5. /\ lists.container[Generic(t)] \in Lists /\ Container(t) \in DelayedLists
        /\ lists.container[Event(t)] \in (Lists \ {Termination}) \cup {Null}
        /\ uxPriority[t] \in Priorities
    <3>1. /\ lists.container[Event(t)] \in EventLists \cup {Pending, Null}
          /\ lists.container[Event(t)] \in (Lists \ {Termination}) \cup {Null}
          /\ uxPriority[t] \in Priorities
      BY <2>4, PlaceFacts
    <3>2. lists.container[Event(t)] # pxDelayedTaskList
      BY <2>2, <3>1, ListFacts
    <3>3. lists.container[Generic(t)] = pxDelayedTaskList
      BY <2>3, <2>4, <3>2
    <3>4. QED
      BY <2>2, <3>1, <3>3 DEF Container
  <2>6. /\ Ready(uxPriority[t]) \in Lists /\ L \in Lists /\ Generic(u) \in Items
        /\ Generic(t) # Generic(u)
    BY <1>0, <2>4, <2>5, TurnFacts, ListFacts
  <2>7. NoLater(L, Generic(u), lists, lists')
    BY <2>1, <2>2, <2>4, <2>5, <2>6, LaterUnlink
  <2>8. QED
    BY <1>0, <2>7 DEF Fair
<1>3. ASSUME lists' = lists
      PROVE  Fair(u)
  BY <1>3, FairStill
<1>4. QED
  BY <1>1, <1>2, <1>3 DEF MaskedLoop, DrainDone, ReplayTick, ResumeAllDone,
     TickDone, ReplayWakeDone, listVars

\* Interrupts and the context switch.
LEMMA PortFair ==
  ASSUME IInv, NEW u \in AllTasks, IsReady(u), Interrupt \/ vTaskSwitchContext
  PROVE  Fair(u)
<1>0. PICK L : L = Ready(uxPriority[u])
  OBVIOUS
<1>1. CASE TickISR
  BY <1>1, FairStill DEF TickISR, listVars
<1>2. ASSUME NEW e \in Events, EventISR(e)
      PROVE  Fair(u)
  BY <1>2, PostFair DEF EventISR
<1>3. ASSUME NEW x, xTaskResumeFromISR(x)
      PROVE  Fair(u)
  <2>1. Handle(x) /\ xTaskIsTaskSuspended(x)
    BY <1>3 DEF xTaskResumeFromISR
  <2>2. CASE uxSchedulerSuspended = 0
    BY <1>3, <2>1, <2>2, ResumeFair DEF xTaskResumeFromISR
  <2>3. CASE uxSchedulerSuspended # 0
    <3>1. /\ lists' = vListInsertEnd(lists, Pending, Event(x))
          /\ lists.container[Event(x)] = Null
      BY <1>3, <2>1, <2>3 DEF xTaskResumeFromISR, xTaskIsTaskSuspended,
                              listIS_CONTAINED_WITHIN
    <3>2. /\ x \in AllTasks /\ WellFormed(lists) /\ Event(x) \in Items
          /\ Generic(u) \in Items /\ L \in Lists /\ Pending \in Lists /\ Pending # L
      BY <1>0, <2>1, HandleFacts, TurnFacts, ItemFacts, ListFacts
    <3>3. NoLater(L, Generic(u), lists, lists')
      BY <3>1, <3>2, LaterInsertEnd
    <3>4. QED
      BY <1>0, <3>3 DEF Fair
  <2>4. QED
    BY <2>2, <2>3
<1>4. CASE vTaskSwitchContext
  <2>1. lists' = lists \/ SwitchTo(lists)
    BY <1>4 DEF vTaskSwitchContext, listVars
  <2>2. CASE SwitchTo(lists)
    <3>1. L \in Lists /\ WellFormed(lists)
      BY <1>0, TurnFacts
    <3>2. QED
      BY <1>0, <2>2, <3>1, LaterSwitch DEF Fair
  <2>3. QED
    BY <2>1, <2>2, FairStill
<1>5. QED
  BY <1>1, <1>2, <1>3, <1>4 DEF Interrupt

\* Every step is fair to every ready task.
LEMMA StepFair ==
  ASSUME IInv, [Next]_vars, NEW u \in AllTasks, IsReady(u)
  PROVE  Fair(u)
<1>1. CASE UNCHANGED vars
  BY <1>1, FairStill DEF vars, listVars
<1>2. QED
  BY <1>1, MainFair, CallFair, FinishFair, IdleFair, LoopFair, PortFair DEF Next

\* Whatever is put on a ready list, taken off it, or selected from it, a task
\* on that list comes no further from its turn: vListInsertEnd puts others
\* behind pxIndex, and vListRemove moves pxIndex back when it takes the item
\* it points to.
THEOREM TurnsAreFair ==
  ASSUME "DeleteBeforeStart" \notin Calls
  PROVE  Spec => FairShare
<1>1. ASSUME IInv, [Next]_vars, NEW t \in AllTasks,
             IsReady(t), IsReady(t)', uxPriority'[t] = uxPriority[t]
      PROVE  TurnsUntil(t)' <= TurnsUntil(t) \/ pxCurrentTCB' = t
  <2>1. PICK L : L = Ready(uxPriority[t])
    OBVIOUS
  <2>2. TurnsUntil(t) = Turn(lists, L, Generic(t))
    BY <2>1 DEF TurnsUntil, Turn, TurnAt
  <2>3. TurnsUntil(t)' = Turn(lists', L, Generic(t))
    BY <1>1, <2>1 DEF TurnsUntil, Turn, TurnAt
  <2>4. lists'.container[Generic(t)] = L
    BY <1>1, <2>1 DEF IsReady, Container
  <2>5. NoLater(L, Generic(t), lists, lists') \/ pxCurrentTCB' = t
    BY <1>1, <2>1, StepFair DEF Fair
  <2>6. QED
    BY <2>2, <2>3, <2>4, <2>5 DEF NoLater
<1>2. IInv /\ [Next]_vars =>
        [\A t \in AllTasks :
           IsReady(t) /\ IsReady(t)' /\ uxPriority'[t] = uxPriority[t]
             => TurnsUntil(t)' <= TurnsUntil(t) \/ pxCurrentTCB' = t]_vars
  BY <1>1
<1>3. QED
  BY <1>2, InvariantHolds, PTL DEF Spec, FairShare
=============================================================================
