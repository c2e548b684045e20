---------------------------- MODULE Tasks_proofs ----------------------------
(***************************************************************************)
(* Proofs about tasks.c: the lists stay well formed, every task stays on   *)
(* the list its state calls for, the counters of the idle task are exact,  *)
(* a deleted task does not run, the search of vTaskSwitchContext ends, and *)
(* vTaskSuspendAll holds the processor.                                    *)
(*                                                                         *)
(* The facts about lists come first: a call on an item of task t yields    *)
(* lists that are `Relocated', which is all the rest of the proof uses.    *)
(* IInv is the inductive invariant; there is one lemma per action that     *)
(* says it is kept, and most rest on MoveInv (a task moves from list to    *)
(* list) or LeaveInv (the current task leaves the ready lists).            *)
(***************************************************************************)
EXTENDS Tasks, XList_proofs, FiniteSetTheorems

-----------------------------------------------------------------------------
(* Lists and items are pairwise different values.                          *)

\* Every item belongs to one task, which owns two different ones.
LEMMA ItemFacts ==
  /\ \A t \in AllTasks : /\ Generic(t) \in Items /\ Event(t) \in Items
                         /\ Owner(Generic(t)) = t /\ Owner(Event(t)) = t
                         /\ \A s \in AllTasks : /\ Generic(t) # Event(s)
                                                /\ Generic(t) = Generic(s) => t = s
                                                /\ Event(t) = Event(s) => t = s
  /\ \A x \in Items : /\ Owner(x) \in AllTasks
                      /\ x = Generic(Owner(x)) \/ x = Event(Owner(x))
BY DEF Generic, Event, Items, Owner

\* The lists of tasks.c are pairwise different.
LEMMA ListFacts ==
  /\ \A p \in Priorities : /\ Ready(p) \in Lists /\ Ready(p) \notin DelayedLists
                           /\ Ready(p) \notin EventLists /\ Ready(p) # Pending
                           /\ Ready(p) # Suspended /\ Ready(p) # Termination
                           /\ \A q : Ready(p) = Ready(q) => p = q
  /\ DelayedLists \subseteq Lists /\ EventLists \subseteq Lists
  /\ DelayedLists \cap EventLists = {}
  /\ \A L \in {Pending, Suspended, Termination} :
       L \in Lists /\ L \notin DelayedLists /\ L \notin EventLists
  /\ Pending # Suspended /\ Pending # Termination /\ Suspended # Termination
  /\ Delayed(1) # Delayed(2)
  /\ Null \notin Lists /\ Null \notin AllTasks
BY NullAssumption, TasksAssumption
   DEF Lists, ReadyLists, DelayedLists, EventLists, Ready, Delayed, EventList,
       Pending, Suspended, Termination

\* Priorities and the values stored in event items are in range.
LEMMA ConstantFacts ==
  /\ 0 \in Priorities /\ Priorities \subseteq Nat
  /\ \A p \in Priorities : EventItemValue(p) \in TickType
  /\ \A n \in Nat : CapPriority(n) \in Priorities
  /\ CapPriority(0) = 0
BY TasksAssumption, MaxDelayAssumption
   DEF Priorities, EventItemValue, TickType, CapPriority

\* A tick count never leaves portTickType.
LEMMA TickInRange == \A n \in Nat : Tick(n) \in TickType
BY MaxDelayAssumption DEF Tick, TickType

-----------------------------------------------------------------------------
(* What the list operations of tasks.c do to the two items of one task.    *)

WellFormed(xl) == ListsOK(xl, Lists, Items)

Terminated(xl, t) == IF xl.container[Generic(t)] = Termination THEN 1 ELSE 0

\* yl is xl with the two items of task t on lists (or Null) G and E.
Relocated(xl, yl, t, G, E) ==
  /\ WellFormed(yl)
  /\ yl.container = [xl.container EXCEPT ![Generic(t)] = G, ![Event(t)] = E]
  /\ Len(yl.ring[Termination]) - Terminated(yl, t)
       = Len(xl.ring[Termination]) - Terminated(xl, t)

\* What ListsOK says of containers and of the termination list.
LEMMA ContainerType ==
  ASSUME NEW xl, WellFormed(xl)
  PROVE  /\ xl.container \in [Items -> Lists \cup {Null}]
         /\ Len(xl.ring[Termination]) \in Nat
BY ListFacts, NotEmpty DEF WellFormed, ListsOK, XLists

\* Two moves of one task compose.
LEMMA RelocatedTwice ==
  ASSUME NEW xl, NEW yl, NEW zl, NEW t \in AllTasks, NEW G, NEW E, NEW H, NEW F,
         WellFormed(xl), Relocated(xl, yl, t, G, E), Relocated(yl, zl, t, H, F)
  PROVE  Relocated(xl, zl, t, H, F)
<1>1. /\ xl.container \in [Items -> Lists \cup {Null}]
      /\ Generic(t) \in Items /\ Event(t) \in Items /\ Generic(t) # Event(t)
  BY ContainerType, ItemFacts
<1>2. zl.container = [xl.container EXCEPT ![Generic(t)] = H, ![Event(t)] = F]
  BY <1>1 DEF Relocated
<1>3. Len(zl.ring[Termination]) - Terminated(zl, t)
        = Len(xl.ring[Termination]) - Terminated(xl, t)
  BY DEF Relocated
<1>4. QED
  BY <1>2, <1>3 DEF Relocated

\* A list operation on the generic item relocates the task ...
LEMMA GenericMoved ==
  ASSUME NEW xl, NEW yl, NEW t \in AllTasks, NEW L \in Lists \cup {Null},
         WellFormed(xl), Moved(xl, yl, Lists, Items, Generic(t), L),
         L = Null \/ xl.container[Generic(t)] = Null
  PROVE  Relocated(xl, yl, t, L, xl.container[Event(t)])
<1>1. /\ xl.container \in [Items -> Lists \cup {Null}]
      /\ Generic(t) \in Items /\ Event(t) \in Items /\ Generic(t) # Event(t)
      /\ Termination \in Lists /\ Null \notin Lists
      /\ Len(xl.ring[Termination]) \in Nat
  BY ContainerType, ItemFacts, ListFacts
<1>2. /\ yl.container = [xl.container EXCEPT ![Generic(t)] = L]
      /\ WellFormed(yl)
      /\ yl.container = [xl.container EXCEPT ![Generic(t)] = L,
                                             ![Event(t)] = xl.container[Event(t)]]
  BY <1>1 DEF Moved, WellFormed
<1>3. yl.container[Generic(t)] = L /\ Len(yl.ring[Termination]) \in Nat
  BY <1>1, <1>2, ContainerType
<1>4. Len(yl.ring[Termination]) - Terminated(yl, t)
        = Len(xl.ring[Termination]) - Terminated(xl, t)
  <2>1. CASE L = Termination
    <3>1. xl.container[Generic(t)] = Null /\ Termination # Null
      BY <1>1, <2>1
    <3>2. Terminated(xl, t) = 0 /\ Terminated(yl, t) = 1
      BY <3>1, <1>3, <2>1 DEF Terminated
    <3>3. Len(yl.ring[Termination]) = Len(xl.ring[Termination]) + 1
      BY <1>1, <2>1 DEF Moved
    <3>4. QED
      BY <3>2, <3>3, <1>1
  <2>2. CASE xl.container[Generic(t)] = Termination
    <3>1. L = Null /\ Termination # Null
      BY <1>1, <2>2
    <3>2. Terminated(xl, t) = 1 /\ Terminated(yl, t) = 0
      BY <3>1, <1>3, <2>2 DEF Terminated
    <3>3. Len(yl.ring[Termination]) = Len(xl.ring[Termination]) - 1
      BY <1>1, <2>2 DEF Moved
    <3>4. QED
      BY <3>2, <3>3, <1>1
  <2>3. CASE L # Termination /\ xl.container[Generic(t)] # Termination
    BY <1>1, <1>3, <2>3 DEF Moved, Terminated
  <2>4. QED
    BY <2>1, <2>2, <2>3
<1>5. QED
  BY <1>2, <1>4 DEF Relocated

\* ... and so does one on its event item.
LEMMA EventMoved ==
  ASSUME NEW xl, NEW yl, NEW t \in AllTasks, NEW L \in Lists \cup {Null},
         WellFormed(xl), Moved(xl, yl, Lists, Items, Event(t), L),
         L # Termination, xl.container[Event(t)] # Termination
  PROVE  Relocated(xl, yl, t, xl.container[Generic(t)], L)
<1>1. /\ xl.container \in [Items -> Lists \cup {Null}]
      /\ Generic(t) \in Items /\ Event(t) \in Items /\ Generic(t) # Event(t)
      /\ Termination \in Lists /\ Null \notin Lists
      /\ Len(xl.ring[Termination]) \in Nat
  BY ContainerType, ItemFacts, ListFacts
<1>2. /\ yl.container = [xl.container EXCEPT ![Event(t)] = L]
      /\ WellFormed(yl)
      /\ yl.container = [xl.container EXCEPT
                           ![Generic(t)] = xl.container[Generic(t)],
                           ![Event(t)] = L]
  BY <1>1 DEF Moved, WellFormed
<1>3. yl.ring[Termination] = xl.ring[Termination]
  BY <1>1 DEF Moved
<1>4. Terminated(yl, t) = Terminated(xl, t)
  BY <1>1, <1>2 DEF Terminated
<1>5. QED
  BY <1>2, <1>3, <1>4 DEF Relocated

\* The four basic calls, for either item of a task.
LEMMA RemoveGeneric ==
  ASSUME NEW xl, NEW t \in AllTasks, WellFormed(xl),
         xl.container[Generic(t)] \in Lists
  PROVE  Relocated(xl, vListRemove(xl, Generic(t)), t, Null, xl.container[Event(t)])
BY RemoveKeeps, GenericMoved, ItemFacts, ListFacts DEF WellFormed

\* vListInsertEnd of the generic item.
LEMMA AppendGeneric ==
  ASSUME NEW xl, NEW t \in AllTasks, NEW L \in Lists, WellFormed(xl),
         xl.container[Generic(t)] = Null
  PROVE  Relocated(xl, vListInsertEnd(xl, L, Generic(t)), t, L, xl.container[Event(t)])
BY InsertEndKeeps, GenericMoved, ItemFacts, ListFacts DEF WellFormed

\* vListInsert of the generic item.
LEMMA InsertGeneric ==
  ASSUME NEW xl, NEW t \in AllTasks, NEW L \in Lists, WellFormed(xl),
         xl.container[Generic(t)] = Null
  PROVE  Relocated(xl, vListInsert(xl, L, Generic(t)), t, L, xl.container[Event(t)])
BY InsertKeeps, GenericMoved, ItemFacts, ListFacts DEF WellFormed

\* vListRemove of the event item.
LEMMA RemoveEvent ==
  ASSUME NEW xl, NEW t \in AllTasks, WellFormed(xl),
         xl.container[Event(t)] \in Lists \ {Termination}
  PROVE  Relocated(xl, vListRemove(xl, Event(t)), t, xl.container[Generic(t)], Null)
BY RemoveKeeps, EventMoved, ItemFacts, ListFacts DEF WellFormed

\* vListInsertEnd of the event item.
LEMMA AppendEvent ==
  ASSUME NEW xl, NEW t \in AllTasks, NEW L \in Lists \ {Termination}, WellFormed(xl),
         xl.container[Event(t)] = Null
  PROVE  Relocated(xl, vListInsertEnd(xl, L, Event(t)), t, xl.container[Generic(t)], L)
BY InsertEndKeeps, EventMoved, ItemFacts, ListFacts DEF WellFormed

\* vListInsert of the event item.
LEMMA InsertEvent ==
  ASSUME NEW xl, NEW t \in AllTasks, NEW L \in Lists \ {Termination}, WellFormed(xl),
         xl.container[Event(t)] = Null
  PROVE  Relocated(xl, vListInsert(xl, L, Event(t)), t, xl.container[Generic(t)], L)
BY InsertKeeps, EventMoved, ItemFacts, ListFacts DEF WellFormed

\* Setting the value of an item moves nothing.
LEMMA ValueSet ==
  ASSUME NEW xl, NEW t \in AllTasks, NEW x \in Items, NEW v \in TickType, WellFormed(xl)
  PROVE  Relocated(xl, listSET_LIST_ITEM_VALUE(xl, x, v), t,
                   xl.container[Generic(t)], xl.container[Event(t)])
<1> DEFINE yl == listSET_LIST_ITEM_VALUE(xl, x, v)
<1>a. SameLists(xl, yl, Lists, Items)
  BY SetValueKeeps DEF WellFormed
<1> HIDE DEF yl
<1>1. WellFormed(yl) /\ yl.container = xl.container /\ yl.ring = xl.ring
  BY <1>a DEF WellFormed, SameLists
<1>2. xl.container = [xl.container EXCEPT ![Generic(t)] = xl.container[Generic(t)],
                                          ![Event(t)] = xl.container[Event(t)]]
  BY ContainerType, ItemFacts
<1>3. Relocated(xl, yl, t, xl.container[Generic(t)], xl.container[Event(t)])
  BY <1>1, <1>2 DEF Relocated, Terminated
<1>4. QED
  BY <1>3 DEF yl

\* Where every item is after a relocation.
LEMMA RelocatedPlaces ==
  ASSUME NEW xl, NEW yl, NEW t \in AllTasks, NEW G, NEW E,
         WellFormed(xl), Relocated(xl, yl, t, G, E)
  PROVE  /\ WellFormed(yl)
         /\ yl.container[Generic(t)] = G /\ yl.container[Event(t)] = E
         /\ \A s \in AllTasks \ {t} :
              /\ yl.container[Generic(s)] = xl.container[Generic(s)]
              /\ yl.container[Event(s)] = xl.container[Event(s)]
BY ContainerType, ItemFacts DEF Relocated

\* Off its list and to the end of another one.
LEMMA MoveGeneric ==
  ASSUME NEW xl, NEW t \in AllTasks, NEW L \in Lists, WellFormed(xl),
         xl.container[Generic(t)] \in Lists
  PROVE  Relocated(xl, vListInsertEnd(vListRemove(xl, Generic(t)), L, Generic(t)),
                   t, L, xl.container[Event(t)])
<1> DEFINE yl == vListRemove(xl, Generic(t))
           zl == vListInsertEnd(yl, L, Generic(t))
<1>1. Relocated(xl, yl, t, Null, xl.container[Event(t)])
  BY RemoveGeneric
<1> HIDE DEF yl
<1>2. /\ WellFormed(yl) /\ yl.container[Generic(t)] = Null
      /\ yl.container[Event(t)] = xl.container[Event(t)]
  BY <1>1, RelocatedPlaces
<1>3. Relocated(yl, zl, t, L, yl.container[Event(t)])
  BY <1>2, AppendGeneric
<1> HIDE DEF zl
<1>4. Relocated(xl, zl, t, L, xl.container[Event(t)])
  BY <1>1, <1>2, <1>3, RelocatedTwice
<1>5. QED
  BY <1>4 DEF zl, yl

\* Unlink takes both items of a task off their lists.
LEMMA UnlinkMoves ==
  ASSUME NEW xl, NEW t \in AllTasks, WellFormed(xl),
         xl.container[Generic(t)] \in Lists,
         xl.container[Event(t)] \in (Lists \ {Termination}) \cup {Null}
  PROVE  Relocated(xl, Unlink(xl, t), t, Null, Null)
<1> DEFINE yl == vListRemove(xl, Generic(t))
<1>1. Relocated(xl, yl, t, Null, xl.container[Event(t)])
  BY RemoveGeneric
<1>u. Unlink(xl, t) = IF yl.container[Event(t)] = Null THEN yl
                      ELSE vListRemove(yl, Event(t))
  BY DEF Unlink
<1> HIDE DEF yl
<1>2. /\ WellFormed(yl) /\ yl.container[Generic(t)] = Null
      /\ yl.container[Event(t)] = xl.container[Event(t)]
  BY <1>1, RelocatedPlaces
<1>3. CASE yl.container[Event(t)] = Null
  BY <1>1, <1>2, <1>3, <1>u
<1>4. CASE yl.container[Event(t)] # Null
  <2>1. Relocated(yl, vListRemove(yl, Event(t)), t, yl.container[Generic(t)], Null)
    BY <1>2, <1>4, RemoveEvent
  <2> DEFINE zl == vListRemove(yl, Event(t))
  <2> HIDE DEF zl
  <2>2. Relocated(yl, zl, t, Null, Null)
    BY <2>1, <1>2 DEF zl
  <2>3. Relocated(xl, zl, t, Null, Null)
    BY <2>2, <1>1, RelocatedTwice
  <2>4. QED
    BY <2>3, <1>4, <1>u DEF zl
<1>5. QED
  BY <1>3, <1>4

\* Off every list and to the end of another one.
LEMMA UnlinkTo ==
  ASSUME NEW xl, NEW t \in AllTasks, NEW L \in Lists, WellFormed(xl),
         xl.container[Generic(t)] \in Lists,
         xl.container[Event(t)] \in (Lists \ {Termination}) \cup {Null}
  PROVE  Relocated(xl, vListInsertEnd(Unlink(xl, t), L, Generic(t)), t, L, Null)
<1> DEFINE yl == Unlink(xl, t)
           zl == vListInsertEnd(yl, L, Generic(t))
<1>1. Relocated(xl, yl, t, Null, Null)
  BY UnlinkMoves
<1> HIDE DEF yl
<1>2. /\ WellFormed(yl) /\ yl.container[Generic(t)] = Null
      /\ yl.container[Event(t)] = Null
  BY <1>1, RelocatedPlaces
<1>3. Relocated(yl, zl, t, L, yl.container[Event(t)])
  BY <1>2, AppendGeneric
<1> HIDE DEF zl
<1>4. Relocated(xl, zl, t, L, Null)
  BY <1>1, <1>2, <1>3, RelocatedTwice
<1>5. QED
  BY <1>4 DEF zl, yl

\* The event item off its list, then the task to the end of another one.
LEMMA EventOffThenMove ==
  ASSUME NEW xl, NEW t \in AllTasks, NEW L \in Lists, WellFormed(xl),
         xl.container[Generic(t)] \in Lists,
         xl.container[Event(t)] \in Lists \ {Termination}
  PROVE  Relocated(xl, vListInsertEnd(vListRemove(vListRemove(xl, Event(t)), Generic(t)),
                                      L, Generic(t)), t, L, Null)
<1> DEFINE yl == vListRemove(xl, Event(t))
           zl == vListInsertEnd(vListRemove(yl, Generic(t)), L, Generic(t))
<1>1. Relocated(xl, yl, t, xl.container[Generic(t)], Null)
  BY RemoveEvent
<1> HIDE DEF yl
<1>2. /\ WellFormed(yl) /\ yl.container[Generic(t)] = xl.container[Generic(t)]
      /\ yl.container[Event(t)] = Null
  BY <1>1, RelocatedPlaces
<1>3. Relocated(yl, zl, t, L, yl.container[Event(t)])
  BY <1>2, MoveGeneric
<1> HIDE DEF zl
<1>4. Relocated(xl, zl, t, L, Null)
  BY <1>1, <1>2, <1>3, RelocatedTwice
<1>5. QED
  BY <1>4 DEF zl, yl

\* The event item from its list to xPendingReadyList.
LEMMA EventToPending ==
  ASSUME NEW xl, NEW t \in AllTasks, WellFormed(xl),
         xl.container[Event(t)] \in Lists \ {Termination}
  PROVE  Relocated(xl, vListInsertEnd(vListRemove(xl, Event(t)), Pending, Event(t)),
                   t, xl.container[Generic(t)], Pending)
<1> DEFINE yl == vListRemove(xl, Event(t))
           zl == vListInsertEnd(yl, Pending, Event(t))
<1>1. Relocated(xl, yl, t, xl.container[Generic(t)], Null)
  BY RemoveEvent
<1> HIDE DEF yl
<1>2. /\ WellFormed(yl) /\ yl.container[Generic(t)] = xl.container[Generic(t)]
      /\ yl.container[Event(t)] = Null /\ Pending \in Lists \ {Termination}
  BY <1>1, RelocatedPlaces, ListFacts
<1>3. Relocated(yl, zl, t, yl.container[Generic(t)], Pending)
  BY <1>2, AppendEvent
<1> HIDE DEF zl
<1>4. Relocated(xl, zl, t, xl.container[Generic(t)], Pending)
  BY <1>1, <1>2, <1>3, RelocatedTwice
<1>5. QED
  BY <1>4 DEF zl, yl

\* From the ready list to a delayed list.
LEMMA BlockUntilMoves ==
  ASSUME NEW xl, NEW t \in AllTasks, NEW wake \in TickType, WellFormed(xl),
         xl.container[Generic(t)] \in Lists,
         pxDelayedTaskList \in DelayedLists, pxOverflowDelayedTaskList \in DelayedLists
  PROVE  \E L \in DelayedLists :
           Relocated(xl, BlockUntil(xl, t, wake), t, L, xl.container[Event(t)])
<1> DEFINE L  == IF wake < xTickCount THEN pxOverflowDelayedTaskList
                 ELSE pxDelayedTaskList
           yl == vListRemove(xl, Generic(t))
           wl == listSET_LIST_ITEM_VALUE(yl, Generic(t), wake)
           zl == vListInsert(wl, L, Generic(t))
<1>u. BlockUntil(xl, t, wake) = zl
  BY DEF BlockUntil
<1>0. L \in DelayedLists /\ L \in Lists /\ Generic(t) \in Items
  BY ListFacts, ItemFacts
<1>1. Relocated(xl, yl, t, Null, xl.container[Event(t)])
  BY RemoveGeneric
<1> HIDE DEF yl, L
<1>2. /\ WellFormed(yl) /\ yl.container[Generic(t)] = Null
      /\ yl.container[Event(t)] = xl.container[Event(t)]
  BY <1>1, RelocatedPlaces
<1>a. Relocated(yl, wl, t, yl.container[Generic(t)], yl.container[Event(t)])
  BY <1>0, <1>2, ValueSet
<1> HIDE DEF wl
<1>3. Relocated(yl, wl, t, Null, xl.container[Event(t)])
  BY <1>2, <1>a
<1>4. /\ WellFormed(wl) /\ wl.container[Generic(t)] = Null
      /\ wl.container[Event(t)] = xl.container[Event(t)]
  <2>1. WellFormed(yl)
    BY <1>2
  <2>2. QED
    BY <2>1, <1>3, RelocatedPlaces
<1>5. Relocated(wl, zl, t, L, wl.container[Event(t)])
  BY <1>0, <1>4, InsertGeneric
<1> HIDE DEF zl
<1>6. Relocated(xl, wl, t, Null, xl.container[Event(t)])
  BY <1>1, <1>3, RelocatedTwice
<1>7. Relocated(xl, zl, t, L, xl.container[Event(t)])
  BY <1>4, <1>5, <1>6, RelocatedTwice
<1>8. QED
  BY <1>0, <1>7, <1>u

-----------------------------------------------------------------------------
(* The inductive invariant                                                 *)

IdleLabels == {"run", "idleLook", "idleFound", "idleEmpty", "idleReap",
               "idleFree", "idleYield"}
TaskLabels == {"run", "created", "yield", "vTaskDelay", "vTaskDelayUntil",
               "blocked", "place", "unlock"}

\* Labels inside a vTaskSuspendAll of the call itself.
Holding == {"vTaskDelay", "vTaskDelayUntil", "place", "unlock", "blocked",
            "idleLook", "idleFound", "idleEmpty"}

\* Only the current task can be between a vTaskSuspendAll and the matching
\* xTaskResumeAll of a call, and what the idle task saw remains true.
LabelsOK ==
  /\ pc[Idle] \in IdleLabels
  /\ \A t \in Tasks : pc[t] \in TaskLabels
  /\ \A t \in AllTasks : pc[t] \in Holding => t = pxCurrentTCB
  /\ pc[Idle] \in {"idleFound", "idleReap"} => ~ listLIST_IS_EMPTY(lists, Termination)
  /\ reaped # Null <=> pc[Idle] = "idleFree"

\* How kernel, uxSchedulerSuspended and the label of the current task go
\* together.
KernelOK ==
  /\ kernel # "none" => xSchedulerRunning /\ uxSchedulerSuspended = 0
  /\ kernel \in {"drain", "replay", "replayWake"} =>
       /\ pc[pxCurrentTCB] \in {"run", "blocked", "idleFound", "idleEmpty"}
       /\ ~ yieldPending
  /\ kernel = "replayWake" => uxMissedTicks > 0
  /\ kernel = "tick" => pc[pxCurrentTCB] \notin Holding
  /\ kernel = "none" /\ pxCurrentTCB # Null /\ pc[pxCurrentTCB] \in Holding =>
       uxSchedulerSuspended = 1
  /\ pxCurrentTCB # Null
       /\ pc[pxCurrentTCB] \in {"yield", "idleReap", "idleFree", "idleYield"} =>
       uxSchedulerSuspended = 0
  /\ pxCurrentTCB = Idle /\ pc[Idle] = "run" => uxSchedulerSuspended = 0

\* The current task is ready, unless it has left the ready lists in a call it
\* has not finished or its yield is about to be taken.
CurrentOK ==
  /\ xSchedulerRunning => pxCurrentTCB # Null /\ ~ fault
  /\ ~ fault /\ pxCurrentTCB # Null =>
     /\ /\ pc[pxCurrentTCB] \notin {"yield", "unlock", "blocked"}
        /\ ~ (yieldPending /\ uxSchedulerSuspended = 0)
        => IsReady(pxCurrentTCB)
     /\ pc[pxCurrentTCB] \in {"unlock", "blocked"} =>
          Container(pxCurrentTCB) # Termination

\* The idle task exists from vTaskStartScheduler on and never leaves its list.
IdleOK ==
  /\ Idle \in tcb <=> xSchedulerRunning
  /\ Idle \in tcb => Container(Idle) = Ready(0) /\ uxPriority[Idle] = 0
  /\ reaped # Idle

BeforeOK ==
  ~ xSchedulerRunning =>
    /\ \A t \in AllTasks : pc[t] = "run"
    /\ uxSchedulerSuspended = 0 /\ ~ yieldPending

TopOK ==
  \A t \in AllTasks, p \in Priorities :
    Container(t) = Ready(p) => p <= uxTopReadyPriority

IInv ==
  /\ TypeOK
  /\ ListsAgree
  /\ Placement
  /\ Accounting
  /\ LabelsOK
  /\ KernelOK
  /\ CurrentOK
  /\ IdleOK
  /\ BeforeOK
  /\ TopOK

\* TypeOK and ListsAgree are ListsOK for the current lists.
LEMMA WellFormedNow ==
  /\ TypeOK /\ ListsAgree => WellFormed(lists)
  /\ WellFormed(lists') => ListsAgree' /\ lists' \in XLists(Lists, Items)
BY DEF TypeOK, ListsAgree, WellFormed, ListsOK

\* A call that moves the items of one application task, and perhaps gives it
\* another priority, to where a task may be.
LEMMA MoveTask ==
  ASSUME TypeOK, ListsAgree, Placement, TopOK, IdleOK,
         NEW t \in Tasks, t \in tcb, t # reaped, Container(t) # Termination,
         NEW G, NEW E, NEW p \in Priorities,
         Relocated(lists, lists', t, G, E),
         G \in {Ready(p), Suspended, Termination} \cup DelayedLists,
         E \in EventLists \cup {Pending, Null},
         E # Null => G \in DelayedLists \cup {Suspended},
         uxPriority' = [uxPriority EXCEPT ![t] = p],
         tcb' = tcb, reaped' = reaped, xSchedulerRunning' = xSchedulerRunning,
         uxTopReadyPriority' \in Priorities
  PROVE  /\ ListsAgree' /\ Placement' /\ IdleOK'
         /\ uxTopReadyPriority <= uxTopReadyPriority'
              /\ (G = Ready(p) => p <= uxTopReadyPriority') => TopOK'
         /\ lists' \in XLists(Lists, Items)
         /\ uxPriority' \in [AllTasks -> Priorities] /\ uxPriority'[t] = p
         /\ Len(lists'.ring[Termination])
              = Len(lists.ring[Termination]) + (IF G = Termination THEN 1 ELSE 0)
         /\ ~ listLIST_IS_EMPTY(lists, Termination) =>
              ~ listLIST_IS_EMPTY(lists', Termination)
         /\ lists'.container[Generic(t)] = G
         /\ \A s \in AllTasks \ {t} :
              /\ lists'.container[Generic(s)] = lists.container[Generic(s)]
              /\ uxPriority'[s] = uxPriority[s]
<1>1. WellFormed(lists) /\ t \in AllTasks /\ Idle \in AllTasks /\ t # Idle
  BY WellFormedNow, TasksAssumption DEF AllTasks
<1>2. /\ WellFormed(lists')
      /\ lists'.container[Generic(t)] = G /\ lists'.container[Event(t)] = E
      /\ \A s \in AllTasks \ {t} :
           /\ lists'.container[Generic(s)] = lists.container[Generic(s)]
           /\ lists'.container[Event(s)] = lists.container[Event(s)]
  <2>1. ASSUME NEW yl, Relocated(lists, yl, t, G, E)
        PROVE  /\ WellFormed(yl)
               /\ yl.container[Generic(t)] = G /\ yl.container[Event(t)] = E
               /\ \A s \in AllTasks \ {t} :
                    /\ yl.container[Generic(s)] = lists.container[Generic(s)]
                    /\ yl.container[Event(s)] = lists.container[Event(s)]
    BY <1>1, <2>1, RelocatedPlaces
  <2>2. Relocated(lists, lists', t, G, E)
    OBVIOUS
  <2>3. QED
    BY <2>1, <2>2
<1>3. ListsAgree' /\ lists' \in XLists(Lists, Items)
  BY <1>2, WellFormedNow
<1>4. /\ uxPriority \in [AllTasks -> Priorities]
      /\ uxPriority' \in [AllTasks -> Priorities] /\ uxPriority'[t] = p
      /\ \A s \in AllTasks \ {t} : uxPriority'[s] = uxPriority[s]
  BY <1>1 DEF TypeOK
<1>5. Placement'
  <2>1. ASSUME NEW s \in AllTasks
        PROVE  /\ lists'.container[Generic(s)] \in
                    {Ready(uxPriority'[s]), Suspended, Termination, Null} \cup DelayedLists
               /\ lists'.container[Event(s)] \in EventLists \cup {Pending, Null}
               /\ lists'.container[Event(s)] # Null =>
                    lists'.container[Generic(s)] \in DelayedLists \cup {Suspended}
               /\ lists'.container[Generic(s)] = Null <=> s \notin tcb' \/ s = reaped'
    <3>1. CASE s = t
      <4>1. G # Null
        BY ListFacts
      <4>2. QED
        BY <3>1, <4>1, <1>2, <1>4
    <3>2. CASE s # t
      BY <3>2, <1>2, <1>4 DEF Placement, Container
    <3>3. QED
      BY <3>1, <3>2
  <2>2. QED
    BY <2>1 DEF Placement, Container
<1>6. ASSUME uxTopReadyPriority <= uxTopReadyPriority',
             G = Ready(p) => p <= uxTopReadyPriority'
      PROVE  TopOK'
  <2>1. ASSUME NEW s \in AllTasks, NEW q \in Priorities,
               lists'.container[Generic(s)] = Ready(q)
        PROVE  q <= uxTopReadyPriority'
    <3>1. CASE s = t
      <4>1. G = Ready(q)
        BY <2>1, <3>1, <1>2
      <4>2. q = p
        BY <4>1, ListFacts
      <4>3. QED
        BY <1>6, <4>1, <4>2
    <3>2. CASE s # t
      <4>1. q <= uxTopReadyPriority /\ uxTopReadyPriority \in Priorities
        BY <2>1, <3>2, <1>2 DEF TopOK, Container, TypeOK
      <4>2. QED
        BY <1>6, <4>1, ConstantFacts
    <3>3. QED
      BY <3>1, <3>2
  <2>2. QED
    BY <2>1 DEF TopOK, Container
<1>7. IdleOK'
  BY <1>1, <1>2, <1>4 DEF IdleOK, Container
<1>8. /\ Len(lists'.ring[Termination])
           = Len(lists.ring[Termination]) + (IF G = Termination THEN 1 ELSE 0)
      /\ Len(lists.ring[Termination]) \in Nat
  <2>1. Terminated(lists, t) = 0
    BY DEF Terminated, Container
  <2>2. Terminated(lists', t) = IF G = Termination THEN 1 ELSE 0
    BY <1>2 DEF Terminated
  <2>3. /\ Len(lists.ring[Termination]) \in Nat
        /\ Len(lists'.ring[Termination]) \in Nat
    BY <1>1, <1>2, ContainerType
  <2>4. Len(lists'.ring[Termination]) - Terminated(lists', t)
          = Len(lists.ring[Termination]) - Terminated(lists, t)
    BY DEF Relocated
  <2>5. CASE G = Termination
    BY <2>1, <2>2, <2>3, <2>4, <2>5
  <2>6. CASE G # Termination
    BY <2>1, <2>2, <2>3, <2>4, <2>6
  <2>7. QED
    BY <2>5, <2>6
<1>9. ~ listLIST_IS_EMPTY(lists, Termination) =>
        ~ listLIST_IS_EMPTY(lists', Termination)
  <2>1. /\ listLIST_IS_EMPTY(lists, Termination) <=> Len(lists.ring[Termination]) = 0
        /\ listLIST_IS_EMPTY(lists', Termination) <=> Len(lists'.ring[Termination]) = 0
    BY <1>1, <1>2, ListFacts, NotEmpty DEF WellFormed
  <2>2. CASE G = Termination
    BY <1>8, <2>1, <2>2
  <2>3. CASE G # Termination
    BY <1>8, <2>1, <2>3
  <2>4. QED
    BY <2>2, <2>3
<1>10. QED
  BY <1>2, <1>3, <1>4, <1>5, <1>6, <1>7, <1>8, <1>9

-----------------------------------------------------------------------------
(* Steps that move no list item.                                           *)

StaticVars == <<lists, uxTopReadyPriority, tcb, uxPriority, reaped,
                uxCurrentNumberOfTasks, uxTasksDeleted, xSchedulerRunning>>

\* A step that leaves these variables alone keeps what is said of them.
LEMMA StaticKept ==
  ASSUME IInv, UNCHANGED StaticVars
  PROVE  /\ ListsAgree' /\ Placement' /\ Accounting' /\ IdleOK' /\ TopOK'
BY DEF IInv, StaticVars, ListsAgree, Placement, Accounting, IdleOK, TopOK,
       Container

\* Who At(t, l) is.
LEMMA AtFacts ==
  ASSUME IInv, NEW t, NEW l, At(t, l)
  PROVE  /\ xSchedulerRunning /\ kernel = "none" /\ ~ fault /\ ~ yieldPending
         /\ t = pxCurrentTCB /\ pc[t] = l /\ t \in AllTasks /\ t \in tcb /\ t # Null
BY ListFacts DEF IInv, At, InterruptsOn, CurrentOK, TypeOK

\* vTaskSuspendAll.
LEMMA SuspendAllInv ==
  ASSUME IInv, NEW t, vTaskSuspendAll(t)
  PROVE  IInv'
<1>1. /\ xSchedulerRunning /\ kernel = "none" /\ ~ fault /\ ~ yieldPending
      /\ t = pxCurrentTCB /\ pc[t] = "run" /\ t \in Tasks /\ t # Idle
      /\ uxSchedulerSuspended < MaxSuspendDepth
  BY AtFacts, TasksAssumption DEF vTaskSuspendAll, Call
<1>2. /\ UNCHANGED <<StaticVars, pc, kernel, pxCurrentTCB, yieldPending, fault,
                     uxMissedTicks>>
      /\ UNCHANGED <<uxTopUsedPriority, askedPriority, timeVars, missedVars,
                     loopVars, queueVars>>
      /\ uxSchedulerSuspended' = uxSchedulerSuspended + 1
  BY DEF vTaskSuspendAll, SuspendAllVars, listVars, taskVars, timeVars,
         missedVars, loopVars, queueVars, StaticVars
<1>3. ListsAgree' /\ Placement' /\ Accounting' /\ IdleOK' /\ TopOK'
  BY <1>2, StaticKept
<1>4. TypeOK'
  BY <1>1, <1>2, TasksAssumption
     DEF IInv, TypeOK, StaticVars, timeVars, missedVars, loopVars, queueVars
<1>5. LabelsOK' /\ KernelOK' /\ CurrentOK' /\ BeforeOK'
  BY <1>1, <1>2 DEF IInv, LabelsOK, KernelOK, CurrentOK, BeforeOK, StaticVars,
     IsReady, Container, Holding
<1>6. QED
  BY <1>3, <1>4, <1>5 DEF IInv

\* The end of xTaskGenericCreate.
LEMMA CreatedYieldInv ==
  ASSUME IInv, NEW t, CreatedYield(t)
  PROVE  IInv'
<1>1. /\ xSchedulerRunning /\ kernel = "none" /\ ~ fault /\ ~ yieldPending
      /\ t = pxCurrentTCB /\ pc[t] = "created" /\ t \in AllTasks /\ t # Idle /\ t \in Tasks
  <2>1. At(t, "created")
    BY DEF CreatedYield
  <2>2. QED
    BY <2>1, AtFacts DEF IInv, LabelsOK, IdleLabels, AllTasks
<1>2. /\ UNCHANGED <<StaticVars, kernel, pxCurrentTCB, fault,
                     uxSchedulerSuspended, uxMissedTicks, xMissedYield,
                     xYieldRequired, uxTopUsedPriority, xTickCount,
                     pxDelayedTaskList, pxOverflowDelayedTaskList,
                     xNumOfOverflows, queueLocked, queuePosted>>
      /\ pc' = [pc EXCEPT ![t] = "run"] /\ yieldPending' \in BOOLEAN
      /\ askedPriority' = [askedPriority EXCEPT ![t] = 0]
  BY DEF CreatedYield, Goto, SuspendAllVars, LoopUnchanged, listVars, taskVars,
         timeVars, missedVars, loopVars, queueVars, StaticVars
<1>3. ListsAgree' /\ Placement' /\ Accounting' /\ IdleOK' /\ TopOK'
  BY <1>2, StaticKept
<1>4. TypeOK'
  BY <1>1, <1>2 DEF IInv, TypeOK, StaticVars, Labels
<1>5. LabelsOK' /\ KernelOK' /\ CurrentOK' /\ BeforeOK'
  BY <1>1, <1>2 DEF IInv, LabelsOK, KernelOK, CurrentOK, BeforeOK, StaticVars,
     TypeOK, IsReady, Container, Holding, TaskLabels, IdleLabels
<1>6. QED
  BY <1>3, <1>4, <1>5 DEF IInv

\* The portYIELD at the end of a blocking call.
LEMMA EndWithYieldInv ==
  ASSUME IInv, NEW t, EndWithYield(t)
  PROVE  IInv'
<1>1. /\ xSchedulerRunning /\ kernel = "none" /\ ~ fault /\ ~ yieldPending
      /\ t = pxCurrentTCB /\ pc[t] = "yield" /\ t \in AllTasks /\ t # Idle /\ t \in Tasks
  <2>1. At(t, "yield")
    BY DEF EndWithYield
  <2>2. QED
    BY <2>1, AtFacts DEF IInv, LabelsOK, IdleLabels, AllTasks
<1>2. /\ UNCHANGED <<StaticVars, kernel, pxCurrentTCB, fault,
                     uxSchedulerSuspended, uxMissedTicks, xMissedYield,
                     xYieldRequired, uxTopUsedPriority, askedPriority,
                     xTickCount, pxDelayedTaskList, pxOverflowDelayedTaskList,
                     xNumOfOverflows, queueLocked, queuePosted>>
      /\ pc' = [pc EXCEPT ![t] = "run"] /\ yieldPending' = TRUE
  BY DEF EndWithYield, portYIELD, Goto, SuspendAllVars, LoopUnchanged, listVars, taskVars,
         timeVars, missedVars, loopVars, queueVars, StaticVars
<1>3. ListsAgree' /\ Placement' /\ Accounting' /\ IdleOK' /\ TopOK'
  BY <1>2, StaticKept
<1>4. TypeOK'
  BY <1>1, <1>2 DEF IInv, TypeOK, StaticVars, Labels
<1>5. LabelsOK' /\ KernelOK' /\ CurrentOK' /\ BeforeOK'
  BY <1>1, <1>2 DEF IInv, LabelsOK, KernelOK, CurrentOK, BeforeOK, StaticVars,
     TypeOK, IsReady, Container, Holding, TaskLabels, IdleLabels
<1>6. QED
  BY <1>3, <1>4, <1>5 DEF IInv

\* vTaskDelay( 0 ).
LEMMA DelayZeroInv ==
  ASSUME IInv, NEW t, DelayZero(t)
  PROVE  IInv'
<1>1. /\ xSchedulerRunning /\ kernel = "none" /\ ~ fault /\ ~ yieldPending
      /\ t = pxCurrentTCB /\ pc[t] = "run" /\ t \in AllTasks /\ t # Idle
      /\ t \in Tasks /\ uxSchedulerSuspended = 0
  BY AtFacts, TasksAssumption DEF DelayZero, Call, BlockingCall
<1>2. /\ UNCHANGED <<StaticVars, kernel, pxCurrentTCB, fault,
                     uxSchedulerSuspended, uxMissedTicks, xMissedYield,
                     xYieldRequired, uxTopUsedPriority, askedPriority,
                     xTickCount, pxDelayedTaskList, pxOverflowDelayedTaskList,
                     xNumOfOverflows, queueLocked, queuePosted>>
      /\ pc' = [pc EXCEPT ![t] = "run"] /\ yieldPending' = TRUE
  BY DEF DelayZero, portYIELD, Goto, SuspendAllVars, LoopUnchanged, listVars, taskVars,
         timeVars, missedVars, loopVars, queueVars, StaticVars
<1>3. ListsAgree' /\ Placement' /\ Accounting' /\ IdleOK' /\ TopOK'
  BY <1>2, StaticKept
<1>4. TypeOK'
  BY <1>1, <1>2 DEF IInv, TypeOK, StaticVars, Labels
<1>5. LabelsOK' /\ KernelOK' /\ CurrentOK' /\ BeforeOK'
  BY <1>1, <1>2 DEF IInv, LabelsOK, KernelOK, CurrentOK, BeforeOK, StaticVars,
     TypeOK, IsReady, Container, Holding, TaskLabels, IdleLabels
<1>6. QED
  BY <1>3, <1>4, <1>5 DEF IInv

\* The vTaskSuspendAll that a delay begins with.
LEMMA EnterDelayInv ==
  ASSUME IInv, NEW t, NEW f \in {"vTaskDelay", "vTaskDelayUntil"}, EnterDelay(t, f)
  PROVE  IInv'
<1>1. /\ xSchedulerRunning /\ kernel = "none" /\ ~ fault /\ ~ yieldPending
      /\ t = pxCurrentTCB /\ pc[t] = "run" /\ t \in AllTasks /\ t # Idle
      /\ t \in Tasks /\ uxSchedulerSuspended = 0
  BY AtFacts, TasksAssumption DEF EnterDelay, Call, BlockingCall
<1>2. /\ UNCHANGED <<StaticVars, kernel, pxCurrentTCB, yieldPending, fault,
                     uxMissedTicks, xMissedYield, xYieldRequired,
                     uxTopUsedPriority, askedPriority, xTickCount,
                     pxDelayedTaskList, pxOverflowDelayedTaskList,
                     xNumOfOverflows, queueLocked, queuePosted>>
      /\ pc' = [pc EXCEPT ![t] = f] /\ uxSchedulerSuspended' = uxSchedulerSuspended + 1
  BY DEF EnterDelay, Goto, SuspendAllVars, LoopUnchanged, listVars, taskVars,
         timeVars, missedVars, loopVars, queueVars, StaticVars
<1>3. ListsAgree' /\ Placement' /\ Accounting' /\ IdleOK' /\ TopOK'
  BY <1>2, StaticKept
<1>4. TypeOK'
  BY <1>1, <1>2, TasksAssumption DEF IInv, TypeOK, StaticVars, Labels
<1>5. LabelsOK' /\ KernelOK' /\ CurrentOK' /\ BeforeOK'
  BY <1>1, <1>2 DEF IInv, LabelsOK, KernelOK, CurrentOK, BeforeOK, StaticVars,
     TypeOK, IsReady, Container, Holding, TaskLabels, IdleLabels
<1>6. QED
  BY <1>3, <1>4, <1>5 DEF IInv

\* The vTaskSuspendAll that a queue call begins with.
LEMMA QueueWaitInv ==
  ASSUME IInv, NEW t, NEW e \in Events, QueueWait(t, e)
  PROVE  IInv'
<1>1. /\ xSchedulerRunning /\ kernel = "none" /\ ~ fault /\ ~ yieldPending
      /\ t = pxCurrentTCB /\ pc[t] = "run" /\ t \in AllTasks /\ t # Idle
      /\ t \in Tasks /\ uxSchedulerSuspended = 0
  BY AtFacts, TasksAssumption DEF QueueWait, Call, BlockingCall
<1>2. /\ UNCHANGED <<StaticVars, kernel, pxCurrentTCB, yieldPending, fault,
                     uxMissedTicks, xMissedYield, xYieldRequired,
                     uxTopUsedPriority, askedPriority, xTickCount,
                     pxDelayedTaskList, pxOverflowDelayedTaskList,
                     xNumOfOverflows, queuePosted>>
      /\ pc' = [pc EXCEPT ![t] = "place"] /\ uxSchedulerSuspended' = uxSchedulerSuspended + 1
      /\ queueLocked' = [queueLocked EXCEPT ![e] = TRUE]
  BY DEF QueueWait, Goto, SuspendAllVars, LoopUnchanged, listVars, taskVars,
         timeVars, missedVars, loopVars, queueVars, StaticVars
<1>3. ListsAgree' /\ Placement' /\ Accounting' /\ IdleOK' /\ TopOK'
  BY <1>2, StaticKept
<1>4. TypeOK'
  BY <1>1, <1>2, TasksAssumption DEF IInv, TypeOK, StaticVars, Labels
<1>5. LabelsOK' /\ KernelOK' /\ CurrentOK' /\ BeforeOK'
  BY <1>1, <1>2 DEF IInv, LabelsOK, KernelOK, CurrentOK, BeforeOK, StaticVars,
     TypeOK, IsReady, Container, Holding, TaskLabels, IdleLabels
<1>6. QED
  BY <1>3, <1>4, <1>5 DEF IInv

\* Counting a tick keeps the types of the time variables.
LEMMA CountTickType ==
  ASSUME TypeOK, CountTick
  PROVE  /\ xTickCount' \in TickType
         /\ xNumOfOverflows' \in 0 .. OverflowModulus - 1
         /\ {pxDelayedTaskList', pxOverflowDelayedTaskList'} = DelayedLists
<1>1. xTickCount' \in TickType
  BY TickInRange, MaxDelayAssumption DEF TypeOK, CountTick, TickType
<1>2. xNumOfOverflows' \in 0 .. OverflowModulus - 1
  BY DEF TypeOK, CountTick, OverflowModulus
<1>3. {pxDelayedTaskList', pxOverflowDelayedTaskList'} = DelayedLists
  BY DEF TypeOK, CountTick
<1>4. QED
  BY <1>1, <1>2, <1>3

\* The entry of xTaskResumeAll.
LEMMA ResumeAllInv ==
  ASSUME IInv, NEW t, xTaskResumeAll(t)
  PROVE  IInv'
<1>1. /\ xSchedulerRunning /\ kernel = "none" /\ ~ fault /\ ~ yieldPending
      /\ t = pxCurrentTCB /\ t \in AllTasks
      /\ \/ pc[t] = "run" /\ t # Idle
         \/ pc[t] \in {"blocked", "idleFound", "idleEmpty"} /\ uxSchedulerSuspended = 1
  <2>1. \/ Call(t, "vTaskSuspendAll")
        \/ \E l \in {"blocked", "idleFound", "idleEmpty"} : At(t, l)
    BY DEF xTaskResumeAll
  <2>2. CASE Call(t, "vTaskSuspendAll")
    BY <2>2, AtFacts, TasksAssumption DEF Call
  <2>3. ASSUME NEW l \in {"blocked", "idleFound", "idleEmpty"}, At(t, l)
        PROVE  /\ xSchedulerRunning /\ kernel = "none" /\ ~ fault /\ ~ yieldPending
               /\ t = pxCurrentTCB /\ t \in AllTasks
               /\ pc[t] \in {"blocked", "idleFound", "idleEmpty"}
               /\ uxSchedulerSuspended = 1
    BY <2>3, AtFacts DEF IInv, KernelOK, Holding
  <2>4. QED
    BY <2>1, <2>2, <2>3
<1>2. /\ UNCHANGED <<StaticVars, pxCurrentTCB, yieldPending, fault,
                     uxMissedTicks, xMissedYield, xYieldRequired,
                     uxTopUsedPriority, askedPriority, xTickCount,
                     pxDelayedTaskList, pxOverflowDelayedTaskList,
                     xNumOfOverflows, queueLocked, queuePosted>>
      /\ uxSchedulerSuspended > 0 /\ uxSchedulerSuspended' = uxSchedulerSuspended - 1
      /\ \/ kernel' = "drain" /\ pc' = pc /\ uxSchedulerSuspended = 1
         \/ pc[t] = "run" /\ pc' = [pc EXCEPT ![t] = "run"] /\ kernel' = kernel
         \/ pc[t] = "blocked" /\ pc' = [pc EXCEPT ![t] = "yield"] /\ kernel' = kernel
         \/ pc[t] = "idleFound" /\ pc' = [pc EXCEPT ![t] = "idleReap"] /\ kernel' = kernel
         \/ pc[t] = "idleEmpty" /\ pc' = [pc EXCEPT ![t] = "idleYield"] /\ kernel' = kernel
  <2> USE DEF xTaskResumeAll, AfterResumeAll, Goto
  <2>1. CASE pc[t] = "run"
    BY <1>1, <2>1 DEF listVars, taskVars, timeVars, missedVars, queueVars, StaticVars
  <2>2. CASE pc[t] = "blocked"
    BY <1>1, <2>2 DEF listVars, taskVars, timeVars, missedVars, queueVars, StaticVars
  <2>3. CASE pc[t] = "idleFound"
    BY <1>1, <2>3 DEF listVars, taskVars, timeVars, missedVars, queueVars, StaticVars
  <2>4. CASE pc[t] = "idleEmpty"
    BY <1>1, <2>4 DEF listVars, taskVars, timeVars, missedVars, queueVars, StaticVars
  <2>5. QED
    BY <1>1, <2>1, <2>2, <2>3, <2>4
<1>3. ListsAgree' /\ Placement' /\ Accounting' /\ IdleOK' /\ TopOK'
  BY <1>2, StaticKept
<1>4. TypeOK'
  <2>1. CASE pc' = pc /\ kernel' = "drain"
    BY <2>1, <1>1, <1>2, TasksAssumption DEF IInv, TypeOK, StaticVars, Labels
  <2>2. CASE pc[t] = "run" /\ pc' = [pc EXCEPT ![t] = "run"] /\ kernel' = kernel
    BY <2>2, <1>1, <1>2, TasksAssumption DEF IInv, TypeOK, StaticVars, Labels
  <2>3. CASE pc[t] = "blocked" /\ pc' = [pc EXCEPT ![t] = "yield"] /\ kernel' = kernel
    BY <2>3, <1>1, <1>2, TasksAssumption DEF IInv, TypeOK, StaticVars, Labels
  <2>4. CASE pc[t] = "idleFound" /\ pc' = [pc EXCEPT ![t] = "idleReap"] /\ kernel' = kernel
    BY <2>4, <1>1, <1>2, TasksAssumption DEF IInv, TypeOK, StaticVars, Labels
  <2>5. CASE pc[t] = "idleEmpty" /\ pc' = [pc EXCEPT ![t] = "idleYield"] /\ kernel' = kernel
    BY <2>5, <1>1, <1>2, TasksAssumption DEF IInv, TypeOK, StaticVars, Labels
  <2>6. QED
    BY <1>1, <1>2, <2>1, <2>2, <2>3, <2>4, <2>5
<1>5. LabelsOK' /\ KernelOK' /\ CurrentOK' /\ BeforeOK'
  <2>1. CASE pc' = pc /\ kernel' = "drain"
    BY <2>1, <1>1, <1>2 DEF IInv, LabelsOK, KernelOK, CurrentOK, BeforeOK, StaticVars,
     TypeOK, IsReady, Container, Holding, TaskLabels, IdleLabels
  <2>2. CASE pc[t] = "run" /\ pc' = [pc EXCEPT ![t] = "run"] /\ kernel' = kernel
    BY <2>2, <1>1, <1>2 DEF IInv, LabelsOK, KernelOK, CurrentOK, BeforeOK, StaticVars,
     TypeOK, IsReady, Container, Holding, TaskLabels, IdleLabels
  <2>3. CASE pc[t] = "blocked" /\ pc' = [pc EXCEPT ![t] = "yield"] /\ kernel' = kernel
    BY <2>3, <1>1, <1>2 DEF IInv, LabelsOK, KernelOK, CurrentOK, BeforeOK, StaticVars,
     TypeOK, IsReady, Container, Holding, TaskLabels, IdleLabels
  <2>4. CASE pc[t] = "idleFound" /\ pc' = [pc EXCEPT ![t] = "idleReap"] /\ kernel' = kernel
    BY <2>4, <1>1, <1>2 DEF IInv, LabelsOK, KernelOK, CurrentOK, BeforeOK, StaticVars,
     TypeOK, IsReady, Container, Holding, TaskLabels, IdleLabels
  <2>5. CASE pc[t] = "idleEmpty" /\ pc' = [pc EXCEPT ![t] = "idleYield"] /\ kernel' = kernel
    BY <2>5, <1>1, <1>2 DEF IInv, LabelsOK, KernelOK, CurrentOK, BeforeOK, StaticVars,
     TypeOK, IsReady, Container, Holding, TaskLabels, IdleLabels
  <2>6. QED
    BY <1>1, <1>2, <2>1, <2>2, <2>3, <2>4, <2>5
<1>6. QED
  BY <1>3, <1>4, <1>5 DEF IInv

\* The test of prvCheckTasksWaitingTermination.
LEMMA IdleCheckInv ==
  ASSUME IInv, IdleCheck
  PROVE  IInv'
<1>1. /\ xSchedulerRunning /\ kernel = "none" /\ ~ fault /\ ~ yieldPending
      /\ Idle = pxCurrentTCB /\ pc[Idle] = "run" /\ Idle \in AllTasks
      /\ uxSchedulerSuspended = 0
  BY AtFacts DEF IdleCheck, IInv, KernelOK
<1>2. /\ UNCHANGED <<StaticVars, kernel, pxCurrentTCB, yieldPending, fault,
                     uxMissedTicks, xMissedYield, xYieldRequired,
                     uxTopUsedPriority, askedPriority, xTickCount,
                     pxDelayedTaskList, pxOverflowDelayedTaskList,
                     xNumOfOverflows, queueLocked, queuePosted>>
      /\ \/ /\ pc' = [pc EXCEPT ![Idle] = "idleLook"]
            /\ uxSchedulerSuspended' = uxSchedulerSuspended + 1
         \/ /\ pc' = [pc EXCEPT ![Idle] = "idleYield"]
            /\ UNCHANGED uxSchedulerSuspended
  BY DEF IdleCheck, Goto, SuspendAllVars, LoopUnchanged, listVars, taskVars,
         timeVars, missedVars, loopVars, queueVars, StaticVars
<1>3. ListsAgree' /\ Placement' /\ Accounting' /\ IdleOK' /\ TopOK'
  BY <1>2, StaticKept
<1>4. TypeOK'
  <2>1. CASE pc' = [pc EXCEPT ![Idle] = "idleLook"] /\ uxSchedulerSuspended' = uxSchedulerSuspended + 1
    BY <2>1, <1>1, <1>2, TasksAssumption DEF IInv, TypeOK, StaticVars, Labels
  <2>2. CASE pc' = [pc EXCEPT ![Idle] = "idleYield"] /\ UNCHANGED uxSchedulerSuspended
    BY <2>2, <1>1, <1>2, TasksAssumption DEF IInv, TypeOK, StaticVars, Labels
  <2>3. QED
    BY <1>1, <1>2, <2>1, <2>2
<1>5. LabelsOK' /\ KernelOK' /\ CurrentOK' /\ BeforeOK'
  <2>1. pc \in [AllTasks -> Labels] /\ LabelsOK /\ KernelOK /\ CurrentOK /\ Idle # Null
    BY ListFacts, <1>1 DEF IInv, TypeOK
  <2>2. CASE pc' = [pc EXCEPT ![Idle] = "idleLook"] /\ uxSchedulerSuspended' = 1
    <3>1. LabelsOK'
      BY <2>1, <2>2, <1>1, <1>2, TasksAssumption DEF LabelsOK, StaticVars, Holding, IdleLabels,
            TaskLabels, AllTasks
    <3>2. KernelOK'
      BY <2>1, <2>2, <1>1, <1>2 DEF KernelOK, StaticVars, Holding
    <3>3. CurrentOK' /\ BeforeOK'
      BY <2>1, <2>2, <1>1, <1>2 DEF CurrentOK, BeforeOK, StaticVars, IsReady, Container
    <3>4. QED
      BY <3>1, <3>2, <3>3
  <2>3. CASE pc' = [pc EXCEPT ![Idle] = "idleYield"] /\ uxSchedulerSuspended' = 0
    <3>1. LabelsOK'
      BY <2>1, <2>3, <1>1, <1>2, TasksAssumption DEF LabelsOK, StaticVars, Holding, IdleLabels,
            TaskLabels, AllTasks
    <3>2. KernelOK'
      BY <2>1, <2>3, <1>1, <1>2 DEF KernelOK, StaticVars, Holding
    <3>3. CurrentOK' /\ BeforeOK'
      BY <2>1, <2>3, <1>1, <1>2 DEF CurrentOK, BeforeOK, StaticVars, IsReady, Container
    <3>4. QED
      BY <3>1, <3>2, <3>3
  <2>4. QED
    BY <1>1, <1>2, <2>2, <2>3
<1>6. QED
  BY <1>3, <1>4, <1>5 DEF IInv

\* The idle task reads the termination list with the scheduler suspended.
LEMMA IdleLookInv ==
  ASSUME IInv, IdleLook
  PROVE  IInv'
<1>1. /\ xSchedulerRunning /\ kernel = "none" /\ ~ fault /\ ~ yieldPending
      /\ Idle = pxCurrentTCB /\ pc[Idle] = "idleLook" /\ Idle \in AllTasks
  BY AtFacts DEF IdleLook
<1>2. /\ UNCHANGED <<StaticVars, kernel, pxCurrentTCB, yieldPending, fault,
                     uxSchedulerSuspended, uxMissedTicks, xMissedYield,
                     xYieldRequired, uxTopUsedPriority, askedPriority,
                     xTickCount, pxDelayedTaskList, pxOverflowDelayedTaskList,
                     xNumOfOverflows, queueLocked, queuePosted>>
      /\ \/ pc' = [pc EXCEPT ![Idle] = "idleEmpty"]
         \/ /\ pc' = [pc EXCEPT ![Idle] = "idleFound"]
            /\ ~ listLIST_IS_EMPTY(lists, Termination)
  BY DEF IdleLook, Goto, SuspendAllVars, LoopUnchanged, listVars, taskVars,
         timeVars, missedVars, loopVars, queueVars, StaticVars
<1>3. ListsAgree' /\ Placement' /\ Accounting' /\ IdleOK' /\ TopOK'
  BY <1>2, StaticKept
<1>4. TypeOK'
  <2>1. CASE pc' = [pc EXCEPT ![Idle] = "idleEmpty"]
    BY <2>1, <1>1, <1>2 DEF IInv, TypeOK, StaticVars, Labels
  <2>2. CASE pc' = [pc EXCEPT ![Idle] = "idleFound"] /\ ~ listLIST_IS_EMPTY(lists, Termination)
    BY <2>2, <1>1, <1>2 DEF IInv, TypeOK, StaticVars, Labels
  <2>3. QED
    BY <1>1, <1>2, <2>1, <2>2
<1>5. LabelsOK' /\ KernelOK' /\ CurrentOK' /\ BeforeOK'
  <2>1. CASE pc' = [pc EXCEPT ![Idle] = "idleEmpty"]
    BY <2>1, <1>1, <1>2 DEF IInv, LabelsOK, KernelOK, CurrentOK, BeforeOK, StaticVars,
     TypeOK, IsReady, Container, Holding, TaskLabels, IdleLabels
  <2>2. CASE pc' = [pc EXCEPT ![Idle] = "idleFound"] /\ ~ listLIST_IS_EMPTY(lists, Termination)
    BY <2>2, <1>1, <1>2 DEF IInv, LabelsOK, KernelOK, CurrentOK, BeforeOK, StaticVars,
     TypeOK, IsReady, Container, Holding, TaskLabels, IdleLabels
  <2>3. QED
    BY <1>1, <1>2, <2>1, <2>2
<1>6. QED
  BY <1>3, <1>4, <1>5 DEF IInv

\* The idle task yields.
LEMMA IdleYieldInv ==
  ASSUME IInv, IdleYield
  PROVE  IInv'
<1>1. /\ xSchedulerRunning /\ kernel = "none" /\ ~ fault /\ ~ yieldPending
      /\ Idle = pxCurrentTCB /\ pc[Idle] = "idleYield" /\ Idle \in AllTasks
  BY AtFacts DEF IdleYield
<1>2. /\ UNCHANGED <<StaticVars, kernel, pxCurrentTCB, fault,
                     uxSchedulerSuspended, uxMissedTicks, xMissedYield,
                     xYieldRequired, uxTopUsedPriority, askedPriority,
                     xTickCount, pxDelayedTaskList, pxOverflowDelayedTaskList,
                     xNumOfOverflows, queueLocked, queuePosted>>
      /\ pc' = [pc EXCEPT ![Idle] = "run"] /\ yieldPending' \in BOOLEAN
  BY DEF IdleYield, Goto, SuspendAllVars, LoopUnchanged, listVars, taskVars,
         timeVars, missedVars, loopVars, queueVars, StaticVars
<1>3. ListsAgree' /\ Placement' /\ Accounting' /\ IdleOK' /\ TopOK'
  BY <1>2, StaticKept
<1>4. TypeOK'
  BY <1>1, <1>2 DEF IInv, TypeOK, StaticVars, Labels
<1>5. LabelsOK' /\ KernelOK' /\ CurrentOK' /\ BeforeOK'
  BY <1>1, <1>2 DEF IInv, LabelsOK, KernelOK, CurrentOK, BeforeOK, StaticVars,
     TypeOK, IsReady, Container, Holding, TaskLabels, IdleLabels
<1>6. QED
  BY <1>3, <1>4, <1>5 DEF IInv

\* xPendingReadyList is empty.
LEMMA DrainDoneInv ==
  ASSUME IInv, DrainDone
  PROVE  IInv'
<1>1. /\ xSchedulerRunning /\ kernel = "drain" /\ ~ fault
      /\ uxSchedulerSuspended = 0 /\ pxCurrentTCB \in AllTasks
      /\ pxCurrentTCB # Null /\ ~ yieldPending
      /\ pc[pxCurrentTCB] \in {"run", "blocked", "idleFound", "idleEmpty"}
  BY ListFacts DEF DrainDone, LoopStep, IInv, KernelOK, CurrentOK, TypeOK
<1>2. /\ UNCHANGED <<StaticVars, pc, pxCurrentTCB, yieldPending, fault,
                     uxSchedulerSuspended, uxMissedTicks, xMissedYield,
                     uxTopUsedPriority, askedPriority, xTickCount,
                     pxDelayedTaskList, pxOverflowDelayedTaskList,
                     xNumOfOverflows, queueLocked, queuePosted>>
      /\ kernel' = "replay" /\ xYieldRequired' \in BOOLEAN
  BY DEF DrainDone, SuspendAllVars, LoopUnchanged, listVars, taskVars,
         timeVars, missedVars, loopVars, queueVars, StaticVars
<1>3. ListsAgree' /\ Placement' /\ Accounting' /\ IdleOK' /\ TopOK'
  BY <1>2, StaticKept
<1>4. TypeOK'
  BY <1>1, <1>2 DEF IInv, TypeOK, StaticVars, Labels
<1>5. LabelsOK' /\ KernelOK' /\ CurrentOK' /\ BeforeOK'
  BY <1>1, <1>2 DEF IInv, LabelsOK, KernelOK, CurrentOK, BeforeOK, StaticVars,
     TypeOK, IsReady, Container, Holding, TaskLabels, IdleLabels
<1>6. QED
  BY <1>3, <1>4, <1>5 DEF IInv

\* One missed tick is replayed.
LEMMA ReplayTickInv ==
  ASSUME IInv, ReplayTick
  PROVE  IInv'
<1>1. /\ xSchedulerRunning /\ kernel = "replay" /\ ~ fault
      /\ uxSchedulerSuspended = 0 /\ pxCurrentTCB \in AllTasks
      /\ pxCurrentTCB # Null /\ ~ yieldPending
      /\ pc[pxCurrentTCB] \in {"run", "blocked", "idleFound", "idleEmpty"}
      /\ uxMissedTicks > 0
  BY ListFacts DEF ReplayTick, LoopStep, IInv, KernelOK, CurrentOK, TypeOK
<1>2. /\ UNCHANGED <<StaticVars, pc, pxCurrentTCB, yieldPending, fault,
                     uxSchedulerSuspended, uxMissedTicks, xMissedYield,
                     xYieldRequired, uxTopUsedPriority, askedPriority,
                     queueLocked, queuePosted>>
      /\ CountTick /\ kernel' = "replayWake"
  BY DEF ReplayTick, SuspendAllVars, LoopUnchanged, listVars, taskVars,
         timeVars, missedVars, loopVars, queueVars, StaticVars
<1>3. ListsAgree' /\ Placement' /\ Accounting' /\ IdleOK' /\ TopOK'
  BY <1>2, StaticKept
<1>4. TypeOK'
  BY <1>1, <1>2, CountTickType DEF IInv, TypeOK, StaticVars, Labels
<1>5. LabelsOK' /\ KernelOK' /\ CurrentOK' /\ BeforeOK'
  BY <1>1, <1>2 DEF IInv, LabelsOK, KernelOK, CurrentOK, BeforeOK, StaticVars,
     TypeOK, IsReady, Container, Holding, TaskLabels, IdleLabels
<1>6. QED
  BY <1>3, <1>4, <1>5 DEF IInv

\* The end of xTaskResumeAll.
LEMMA ResumeAllDoneInv ==
  ASSUME IInv, ResumeAllDone
  PROVE  IInv'
<1>1. /\ xSchedulerRunning /\ kernel = "replay" /\ ~ fault
      /\ uxSchedulerSuspended = 0 /\ pxCurrentTCB \in AllTasks
      /\ pxCurrentTCB # Null /\ ~ yieldPending
      /\ pc[pxCurrentTCB] \in {"run", "blocked", "idleFound", "idleEmpty"}
  BY ListFacts DEF ResumeAllDone, LoopStep, IInv, KernelOK, CurrentOK, TypeOK
<1>2. /\ UNCHANGED <<StaticVars, pxCurrentTCB, fault, uxSchedulerSuspended,
                     uxMissedTicks, uxTopUsedPriority, askedPriority,
                     xTickCount, pxDelayedTaskList, pxOverflowDelayedTaskList,
                     xNumOfOverflows, queueLocked, queuePosted>>
      /\ kernel' = "none" /\ xYieldRequired' = FALSE /\ xMissedYield' = FALSE
      /\ yieldPending' \in BOOLEAN
      /\ \E l : /\ pc' = [pc EXCEPT ![pxCurrentTCB] = l]
                /\ pc[pxCurrentTCB] = "run" => l = "run"
                /\ pc[pxCurrentTCB] = "blocked" =>
                     IF yieldPending' THEN l = "run" ELSE l = "yield"
                /\ pc[pxCurrentTCB] = "idleFound" => l = "idleReap"
                /\ pc[pxCurrentTCB] = "idleEmpty" => l = "idleYield"
  BY DEF ResumeAllDone, AfterResumeAll, Goto, SuspendAllVars, LoopUnchanged, listVars, taskVars,
         timeVars, missedVars, loopVars, queueVars, StaticVars
<1>3. ListsAgree' /\ Placement' /\ Accounting' /\ IdleOK' /\ TopOK'
  BY <1>2, StaticKept
<1>4. TypeOK'
  BY <1>1, <1>2 DEF IInv, TypeOK, StaticVars, Labels
<1>5. LabelsOK' /\ KernelOK' /\ CurrentOK' /\ BeforeOK'
  BY <1>1, <1>2 DEF IInv, LabelsOK, KernelOK, CurrentOK, BeforeOK, StaticVars,
     TypeOK, IsReady, Container, Holding, TaskLabels, IdleLabels
<1>6. QED
  BY <1>3, <1>4, <1>5 DEF IInv

\* The end of the tick interrupt.
LEMMA TickDoneInv ==
  ASSUME IInv, TickDone
  PROVE  IInv'
<1>1. /\ xSchedulerRunning /\ kernel = "tick" /\ ~ fault
      /\ uxSchedulerSuspended = 0 /\ pxCurrentTCB \in AllTasks
      /\ pxCurrentTCB # Null /\ pc[pxCurrentTCB] \notin Holding
  BY ListFacts DEF TickDone, LoopStep, IInv, KernelOK, CurrentOK, TypeOK
<1>2. /\ UNCHANGED <<StaticVars, pc, pxCurrentTCB, fault, uxSchedulerSuspended,
                     uxMissedTicks, xMissedYield, xYieldRequired,
                     uxTopUsedPriority, askedPriority, xTickCount,
                     pxDelayedTaskList, pxOverflowDelayedTaskList,
                     xNumOfOverflows, queueLocked, queuePosted>>
      /\ kernel' = "none" /\ yieldPending' = TRUE
  BY DEF TickDone, SuspendAllVars, LoopUnchanged, listVars, taskVars,
         timeVars, missedVars, loopVars, queueVars, StaticVars
<1>3. ListsAgree' /\ Placement' /\ Accounting' /\ IdleOK' /\ TopOK'
  BY <1>2, StaticKept
<1>4. TypeOK'
  BY <1>1, <1>2 DEF IInv, TypeOK, StaticVars, Labels
<1>5. LabelsOK' /\ KernelOK' /\ CurrentOK' /\ BeforeOK'
  BY <1>1, <1>2 DEF IInv, LabelsOK, KernelOK, CurrentOK, BeforeOK, StaticVars,
     TypeOK, IsReady, Container, Holding, TaskLabels, IdleLabels
<1>6. QED
  BY <1>3, <1>4, <1>5 DEF IInv

\* The end of one replayed tick.
LEMMA ReplayWakeDoneInv ==
  ASSUME IInv, ReplayWakeDone
  PROVE  IInv'
<1>1. /\ xSchedulerRunning /\ kernel = "replayWake" /\ ~ fault
      /\ uxSchedulerSuspended = 0 /\ pxCurrentTCB \in AllTasks
      /\ pxCurrentTCB # Null /\ ~ yieldPending
      /\ pc[pxCurrentTCB] \in {"run", "blocked", "idleFound", "idleEmpty"}
      /\ uxMissedTicks > 0
  BY ListFacts DEF ReplayWakeDone, LoopStep, IInv, KernelOK, CurrentOK, TypeOK
<1>2. /\ UNCHANGED <<StaticVars, pc, pxCurrentTCB, yieldPending, fault,
                     uxSchedulerSuspended, xMissedYield, xYieldRequired,
                     uxTopUsedPriority, askedPriority, xTickCount,
                     pxDelayedTaskList, pxOverflowDelayedTaskList,
                     xNumOfOverflows, queueLocked, queuePosted>>
      /\ kernel' = "replay" /\ uxMissedTicks' = uxMissedTicks - 1
  BY DEF ReplayWakeDone, SuspendAllVars, LoopUnchanged, listVars, taskVars,
         timeVars, missedVars, loopVars, queueVars, StaticVars
<1>3. ListsAgree' /\ Placement' /\ Accounting' /\ IdleOK' /\ TopOK'
  BY <1>2, StaticKept
<1>4. TypeOK'
  BY <1>1, <1>2, TasksAssumption DEF IInv, TypeOK, StaticVars, Labels
<1>5. LabelsOK' /\ KernelOK' /\ CurrentOK' /\ BeforeOK'
  BY <1>1, <1>2 DEF IInv, LabelsOK, KernelOK, CurrentOK, BeforeOK, StaticVars,
     TypeOK, IsReady, Container, Holding, TaskLabels, IdleLabels
<1>6. QED
  BY <1>3, <1>4, <1>5 DEF IInv

\* The tick interrupt.
LEMMA TickISRInv ==
  ASSUME IInv, TickISR
  PROVE  IInv'
<1>1. /\ xSchedulerRunning /\ kernel = "none" /\ ~ fault
      /\ pxCurrentTCB \in AllTasks /\ pxCurrentTCB # Null
  BY ListFacts DEF TickISR, InterruptsOn, IInv, CurrentOK, TypeOK
<1>2. /\ UNCHANGED <<StaticVars, pc, pxCurrentTCB, fault, uxSchedulerSuspended,
                     xMissedYield, xYieldRequired, uxTopUsedPriority,
                     askedPriority, queueLocked, queuePosted>>
      /\ \/ /\ uxSchedulerSuspended = 0 /\ CountTick /\ kernel' = "tick"
            /\ UNCHANGED <<uxMissedTicks, yieldPending>>
         \/ /\ uxSchedulerSuspended # 0 /\ uxMissedTicks < MaxMissedTicks
            /\ uxMissedTicks' = uxMissedTicks + 1 /\ yieldPending' = TRUE
            /\ UNCHANGED <<timeVars, kernel>>
  BY DEF TickISR, SuspendAllVars, LoopUnchanged, listVars, taskVars,
         timeVars, missedVars, loopVars, queueVars, StaticVars
<1>3. ListsAgree' /\ Placement' /\ Accounting' /\ IdleOK' /\ TopOK'
  BY <1>2, StaticKept
<1>4. TypeOK'
  <2>1. CASE uxSchedulerSuspended = 0
    BY <2>1, <1>1, <1>2, CountTickType, TasksAssumption DEF IInv, TypeOK, StaticVars, Labels
  <2>2. CASE uxSchedulerSuspended # 0
    <3>1. /\ uxMissedTicks < MaxMissedTicks /\ uxMissedTicks' = uxMissedTicks + 1
          /\ yieldPending' = TRUE /\ UNCHANGED <<timeVars, kernel>>
      BY <2>2, <1>2
    <3>2. uxMissedTicks \in 0 .. MaxMissedTicks /\ MaxMissedTicks \in Nat
      BY TasksAssumption DEF IInv, TypeOK
    <3>3. uxMissedTicks' \in 0 .. MaxMissedTicks
      BY <3>1, <3>2
    <3>4. QED
      BY <3>1, <3>3, <1>2 DEF IInv, TypeOK, StaticVars, timeVars
  <2>3. QED
    BY <2>1, <2>2
<1>5. LabelsOK' /\ KernelOK' /\ CurrentOK' /\ BeforeOK'
  BY <1>1, <1>2 DEF IInv, LabelsOK, KernelOK, CurrentOK, BeforeOK, StaticVars,
     TypeOK, IsReady, Container, Holding, TaskLabels, IdleLabels
<1>6. QED
  BY <1>3, <1>4, <1>5 DEF IInv

-----------------------------------------------------------------------------
(* Steps that move one application task and leave every task where it is   *)
(* in its call (or take the current one from "unlock" to "blocked").        *)

\* The common part of the steps that take one task from list to list and leave
\* the current task ready if it was.
LEMMA MoveInv ==
  ASSUME IInv, xSchedulerRunning,
         NEW t \in Tasks, t \in tcb, t # reaped, Container(t) # Termination,
         NEW G, NEW E, NEW p \in Priorities,
         Relocated(lists, lists', t, G, E),
         G \in {Ready(p), Suspended, Termination} \cup DelayedLists,
         E \in EventLists \cup {Pending, Null},
         E # Null => G \in DelayedLists \cup {Suspended},
         t = pxCurrentTCB => (IsReady(t) => G = Ready(p)) /\ G # Termination,
         uxPriority' = [uxPriority EXCEPT ![t] = p],
         uxTopReadyPriority' \in Priorities,
         uxTopReadyPriority <= uxTopReadyPriority',
         G = Ready(p) => p <= uxTopReadyPriority',
         uxTasksDeleted' = uxTasksDeleted + (IF G = Termination THEN 1 ELSE 0),
         UNCHANGED <<tcb, reaped, xSchedulerRunning, uxCurrentNumberOfTasks,
                     uxTopUsedPriority, askedPriority, timeVars, uxMissedTicks,
                     kernel, pxCurrentTCB, uxSchedulerSuspended, fault>>,
         \/ UNCHANGED pc
         \/ /\ pc[pxCurrentTCB] = "unlock" /\ kernel = "none"
            /\ pc' = [pc EXCEPT ![pxCurrentTCB] = "blocked"],
         yieldPending' \in BOOLEAN, yieldPending => yieldPending',
         kernel # "none" => UNCHANGED yieldPending,
         xMissedYield' \in BOOLEAN, xYieldRequired' \in BOOLEAN,
         queueLocked' \in [Events -> BOOLEAN], queuePosted' \in [Events -> BOOLEAN]
  PROVE  IInv'
<1>1. /\ TypeOK /\ ListsAgree /\ Placement /\ TopOK /\ IdleOK
      /\ tcb' = tcb /\ reaped' = reaped /\ xSchedulerRunning' = xSchedulerRunning
  BY DEF IInv
<1>2. /\ ListsAgree' /\ Placement' /\ TopOK' /\ IdleOK'
      /\ lists' \in XLists(Lists, Items)
      /\ uxPriority' \in [AllTasks -> Priorities] /\ uxPriority'[t] = p
      /\ Len(lists'.ring[Termination])
           = Len(lists.ring[Termination]) + (IF G = Termination THEN 1 ELSE 0)
      /\ ~ listLIST_IS_EMPTY(lists, Termination) =>
           ~ listLIST_IS_EMPTY(lists', Termination)
      /\ lists'.container[Generic(t)] = G
      /\ \A s \in AllTasks \ {t} :
           /\ lists'.container[Generic(s)] = lists.container[Generic(s)]
           /\ uxPriority'[s] = uxPriority[s]
  <2>1. /\ t \in tcb /\ t # reaped /\ Container(t) # Termination
        /\ Relocated(lists, lists', t, G, E)
        /\ G \in {Ready(p), Suspended, Termination} \cup DelayedLists
        /\ E \in EventLists \cup {Pending, Null}
        /\ E # Null => G \in DelayedLists \cup {Suspended}
        /\ uxPriority' = [uxPriority EXCEPT ![t] = p]
        /\ uxTopReadyPriority' \in Priorities
    OBVIOUS
  <2>2. uxTopReadyPriority <= uxTopReadyPriority' /\ (G = Ready(p) => p <= uxTopReadyPriority')
    OBVIOUS
  <2>3. /\ ListsAgree' /\ Placement' /\ IdleOK'
        /\ uxTopReadyPriority <= uxTopReadyPriority'
             /\ (G = Ready(p) => p <= uxTopReadyPriority') => TopOK'
        /\ lists' \in XLists(Lists, Items)
        /\ uxPriority' \in [AllTasks -> Priorities] /\ uxPriority'[t] = p
        /\ Len(lists'.ring[Termination])
             = Len(lists.ring[Termination]) + (IF G = Termination THEN 1 ELSE 0)
        /\ ~ listLIST_IS_EMPTY(lists, Termination) =>
             ~ listLIST_IS_EMPTY(lists', Termination)
        /\ lists'.container[Generic(t)] = G
        /\ \A s \in AllTasks \ {t} :
             /\ lists'.container[Generic(s)] = lists.container[Generic(s)]
             /\ uxPriority'[s] = uxPriority[s]
    BY <1>1, <2>1, MoveTask
  <2>4. QED
    BY <2>2, <2>3
<1>3. uxTasksDeleted' \in Nat
  BY <1>1 DEF TypeOK
<1>c. pxCurrentTCB # Null /\ pxCurrentTCB \in AllTasks /\ pc \in [AllTasks -> Labels]
  BY ListFacts DEF IInv, TypeOK, CurrentOK
<1>l. \/ UNCHANGED pc
      \/ /\ pc[pxCurrentTCB] = "unlock" /\ pc'[pxCurrentTCB] = "blocked"
         /\ kernel = "none" /\ pc' \in [AllTasks -> Labels]
         /\ \A s \in AllTasks \ {pxCurrentTCB} : pc'[s] = pc[s]
  BY <1>c DEF Labels
<1>4. TypeOK'
  BY <1>1, <1>2, <1>3, <1>l DEF TypeOK, timeVars
<1>5. Accounting'
  BY <1>1, <1>2 DEF IInv, Accounting, listCURRENT_LIST_LENGTH
<1>6. LabelsOK'
  BY <1>2, <1>c, <1>l DEF IInv, LabelsOK, TaskLabels, IdleLabels, AllTasks
<1>7. KernelOK' /\ BeforeOK'
  BY <1>c, <1>l DEF IInv, KernelOK, BeforeOK, Holding
<1>8. CurrentOK'
  <2>1. CASE t = pxCurrentTCB
    BY <1>2, <1>l, <2>1 DEF IInv, CurrentOK, IsReady, Container
  <2>2. CASE t # pxCurrentTCB /\ pxCurrentTCB # Null
    <3>1. pxCurrentTCB \in AllTasks \ {t}
      BY <1>1, <2>2 DEF TypeOK
    <3>2. QED
      BY <1>2, <1>l, <2>2, <3>1 DEF IInv, CurrentOK, IsReady, Container
  <2>3. QED
    BY <1>c, <2>1, <2>2
<1>9. QED
  BY <1>2, <1>4, <1>5, <1>6, <1>7, <1>8 DEF IInv

\* Unchanged variables, in the form the lemmas above ask for.
LEMMA SamePriority ==
  ASSUME IInv, NEW t \in AllTasks, UNCHANGED uxPriority
  PROVE  \E p \in Priorities : /\ uxPriority' = [uxPriority EXCEPT ![t] = p]
                               /\ p = uxPriority[t]
<1>1. uxPriority[t] \in Priorities
  BY DEF IInv, TypeOK
<1>2. uxPriority' = [uxPriority EXCEPT ![t] = uxPriority[t]]
  BY DEF IInv, TypeOK
<1>3. QED
  BY <1>1, <1>2

\* What a step leaves alone keeps its type.
LEMMA RestKept ==
  ASSUME IInv
  PROVE  /\ UNCHANGED uxTopReadyPriority =>
              /\ uxTopReadyPriority' \in Priorities
              /\ uxTopReadyPriority <= uxTopReadyPriority'
         /\ UNCHANGED yieldPending => yieldPending' \in BOOLEAN
         /\ UNCHANGED xMissedYield => xMissedYield' \in BOOLEAN
         /\ UNCHANGED xYieldRequired => xYieldRequired' \in BOOLEAN
         /\ UNCHANGED queueLocked => queueLocked' \in [Events -> BOOLEAN]
         /\ UNCHANGED queuePosted => queuePosted' \in [Events -> BOOLEAN]
BY ConstantFacts DEF IInv, TypeOK

\* A step of the current task that takes it off the ready lists.
LEMMA LeaveInv ==
  ASSUME IInv, xSchedulerRunning, kernel = "none", ~ fault, ~ yieldPending,
         NEW t \in Tasks, t = pxCurrentTCB, t \in tcb, t # reaped,
         Container(t) # Termination,
         NEW G, NEW E,
         Relocated(lists, lists', t, G, E),
         G \in {Suspended, Termination} \cup DelayedLists,
         E \in EventLists \cup {Pending, Null},
         E # Null => G \in DelayedLists \cup {Suspended},
         NEW l, pc' = [pc EXCEPT ![t] = l],
         \/ l = "yield" /\ uxSchedulerSuspended = 0
         \/ l \in {"unlock", "blocked"} /\ uxSchedulerSuspended = 1 /\ G # Termination,
         uxTasksDeleted' = uxTasksDeleted + (IF G = Termination THEN 1 ELSE 0),
         UNCHANGED <<uxPriority, uxTopReadyPriority, tcb, reaped, xSchedulerRunning,
                     uxCurrentNumberOfTasks, uxTopUsedPriority, askedPriority,
                     timeVars, missedVars, queueVars, loopVars, pxCurrentTCB,
                     uxSchedulerSuspended, fault, yieldPending>>
  PROVE  IInv'
<1>1. /\ TypeOK /\ ListsAgree /\ Placement /\ TopOK /\ IdleOK /\ t \in AllTasks
      /\ tcb' = tcb /\ reaped' = reaped /\ xSchedulerRunning' = xSchedulerRunning
      /\ t # Idle /\ t # Null
  BY ListFacts, TasksAssumption DEF IInv, AllTasks
<1>a. PICK p \in Priorities : uxPriority' = [uxPriority EXCEPT ![t] = p]
  BY <1>1, SamePriority
<1>p. /\ G # Ready(p) /\ G \in {Ready(p), Suspended, Termination} \cup DelayedLists
      /\ uxTopReadyPriority' \in Priorities
      /\ uxTopReadyPriority <= uxTopReadyPriority'
  <2>1. G # Ready(p)
    BY ListFacts
  <2>2. uxTopReadyPriority \in Priorities /\ uxTopReadyPriority \in Nat
    BY <1>1, ConstantFacts DEF TypeOK
  <2>3. QED
    BY <2>1, <2>2
<1>2. /\ ListsAgree' /\ Placement' /\ TopOK' /\ IdleOK'
      /\ lists' \in XLists(Lists, Items)
      /\ Len(lists'.ring[Termination])
           = Len(lists.ring[Termination]) + (IF G = Termination THEN 1 ELSE 0)
      /\ ~ listLIST_IS_EMPTY(lists, Termination) =>
           ~ listLIST_IS_EMPTY(lists', Termination)
      /\ lists'.container[Generic(t)] = G
  <2>1. /\ G = Ready(p) => p <= uxTopReadyPriority'
        /\ t \in tcb /\ t # reaped /\ Container(t) # Termination
        /\ Relocated(lists, lists', t, G, E)
        /\ E \in EventLists \cup {Pending, Null}
        /\ E # Null => G \in DelayedLists \cup {Suspended}
    BY <1>p
  <2> HIDE DEF TypeOK
  <2>2. QED
    BY ONLY <1>1, <1>a, <1>p, <2>1, MoveTask, t \in Tasks
<1>3. uxTasksDeleted' \in Nat
  BY <1>1 DEF TypeOK
<1>4. TypeOK'
  BY <1>1, <1>2, <1>3 DEF TypeOK, timeVars, missedVars, queueVars, loopVars, Labels
<1>5. Accounting'
  BY <1>1, <1>2 DEF IInv, Accounting, listCURRENT_LIST_LENGTH
<1>c. pc'[t] = l /\ \A s \in AllTasks \ {t} : pc'[s] = pc[s]
  BY <1>1 DEF TypeOK
<1>6. LabelsOK'
  BY <1>1, <1>2, <1>c DEF IInv, LabelsOK, TaskLabels, AllTasks
<1>7. KernelOK' /\ BeforeOK'
  BY <1>1, <1>c DEF IInv, KernelOK, BeforeOK, loopVars, Holding
<1>8. CurrentOK'
  BY <1>1, <1>2, <1>c DEF CurrentOK, Container
<1>9. QED
  BY <1>2, <1>4, <1>5, <1>6, <1>7, <1>8 DEF IInv

\* prvAddTaskToReadyQueue only raises uxTopReadyPriority.
LEMMA Raised ==
  ASSUME TypeOK, NEW p \in Priorities, RaiseTop(p)
  PROVE  /\ uxTopReadyPriority' \in Priorities
         /\ uxTopReadyPriority <= uxTopReadyPriority' /\ p <= uxTopReadyPriority'
BY ConstantFacts DEF TypeOK, RaiseTop

\* Where the items of an existing task are.
LEMMA PlaceFacts ==
  ASSUME IInv, NEW x \in AllTasks
  PROVE  /\ Container(x) \in Lists \cup {Null}
         /\ lists.container[Event(x)] \in (Lists \ {Termination}) \cup {Null}
         /\ lists.container[Event(x)] \in EventLists \cup {Pending, Null}
         /\ lists.container[Event(x)] # Null =>
              /\ Container(x) \in DelayedLists \cup {Suspended}
              /\ x \in Tasks
         /\ Container(x) # Null => x \in tcb /\ x # reaped
         /\ uxPriority[x] \in Priorities
         /\ WellFormed(lists)
<1>1. /\ uxPriority[x] \in Priorities /\ WellFormed(lists)
      /\ Container(x) \in {Ready(uxPriority[x]), Suspended, Termination, Null}
                            \cup DelayedLists
      /\ lists.container[Event(x)] \in EventLists \cup {Pending, Null}
      /\ lists.container[Event(x)] # Null => Container(x) \in DelayedLists \cup {Suspended}
      /\ Container(x) = Null <=> x \notin tcb \/ x = reaped
  BY WellFormedNow DEF IInv, TypeOK, Placement
<1>2. 0 \in Priorities
  BY ConstantFacts
<1>3. x = Idle => Container(x) \notin DelayedLists \cup {Suspended}
  BY <1>1, <1>2, ListFacts DEF IInv, IdleOK
<1>4. QED
  BY <1>1, <1>3, ListFacts DEF AllTasks

\* What a handle the application may use stands for.
LEMMA HandleFacts ==
  ASSUME IInv, NEW x, Handle(x)
  PROVE  /\ x \in Tasks /\ x \in AllTasks /\ x \in tcb /\ x # reaped
         /\ Container(x) # Termination /\ Container(x) \in Lists
         /\ lists.container[Generic(x)] \in Lists
<1>1. x \in Tasks /\ x \in AllTasks /\ Container(x) \notin {Termination, Null}
  BY DEF Handle, AllTasks
<1>2. QED
  BY <1>1, PlaceFacts DEF Container

-----------------------------------------------------------------------------
(* vTaskDelete, vTaskSuspend, vTaskResume, vTaskPrioritySet                *)

\* vTaskDelete of the caller or of another task.
LEMMA DeleteInv ==
  ASSUME IInv, NEW t, NEW x, vTaskDelete(t, x)
  PROVE  IInv'
<1>1. /\ xSchedulerRunning /\ kernel = "none" /\ ~ fault /\ ~ yieldPending
      /\ t = pxCurrentTCB /\ pc[t] = "run" /\ Handle(x)
      /\ x = t => uxSchedulerSuspended = 0
  BY AtFacts DEF vTaskDelete, Call, Delete
<1>2. /\ lists' = vListInsertEnd(Unlink(lists, x), Termination, Generic(x))
      /\ uxTasksDeleted' = uxTasksDeleted + 1
      /\ pc' = IF x = t THEN [pc EXCEPT ![t] = "yield"] ELSE pc
      /\ UNCHANGED <<uxPriority, uxTopReadyPriority, tcb, reaped, xSchedulerRunning,
                     uxCurrentNumberOfTasks, uxTopUsedPriority, askedPriority,
                     timeVars, missedVars, queueVars, loopVars, pxCurrentTCB,
                     uxSchedulerSuspended, fault, yieldPending>>
  BY DEF vTaskDelete, Delete, Goto
<1>3. /\ x \in Tasks /\ x \in AllTasks /\ x \in tcb /\ x # reaped
      /\ Container(x) # Termination
      /\ uxPriority[x] \in Priorities /\ WellFormed(lists)
      /\ lists.container[Generic(x)] \in Lists
      /\ lists.container[Event(x)] \in (Lists \ {Termination}) \cup {Null}
  BY <1>1, HandleFacts, PlaceFacts
<1>4. Relocated(lists, lists', x, Termination, Null)
  BY <1>2, <1>3, UnlinkTo, ListFacts
<1>5. CASE x = t
  BY <1>1, <1>2, <1>3, <1>4, <1>5, LeaveInv
<1>6. CASE x # t
  <2>1. PICK p \in Priorities : uxPriority' = [uxPriority EXCEPT ![x] = p]
    BY <1>2, <1>3, SamePriority
  <2>2. /\ Termination # Ready(p) /\ Termination # Null
        /\ uxTopReadyPriority' \in Priorities /\ uxTopReadyPriority <= uxTopReadyPriority'
        /\ yieldPending' \in BOOLEAN /\ xMissedYield' \in BOOLEAN
        /\ xYieldRequired' \in BOOLEAN /\ queueLocked' \in [Events -> BOOLEAN]
        /\ queuePosted' \in [Events -> BOOLEAN]
    BY <1>2, RestKept, ListFacts DEF missedVars, loopVars, queueVars
  <2>3. QED
    BY <1>1, <1>2, <1>3, <1>4, <1>6, <2>1, <2>2, MoveInv
       DEF missedVars, loopVars
<1>7. QED
  BY <1>5, <1>6

\* vTaskSuspend of the caller or of another task.
LEMMA SuspendInv ==
  ASSUME IInv, NEW t, NEW x, vTaskSuspend(t, x)
  PROVE  IInv'
<1>1. /\ xSchedulerRunning /\ kernel = "none" /\ ~ fault /\ ~ yieldPending
      /\ t = pxCurrentTCB /\ pc[t] = "run" /\ Handle(x)
      /\ x = t => uxSchedulerSuspended = 0
  BY AtFacts DEF vTaskSuspend, Call
<1>2. /\ lists' = vListInsertEnd(Unlink(lists, x), Suspended, Generic(x))
      /\ pc' = IF x = t THEN [pc EXCEPT ![t] = "yield"] ELSE pc
      /\ UNCHANGED <<uxPriority, uxTopReadyPriority, tcb, reaped, xSchedulerRunning,
                     uxCurrentNumberOfTasks, uxTasksDeleted, uxTopUsedPriority,
                     askedPriority, timeVars, missedVars, queueVars, loopVars,
                     pxCurrentTCB, uxSchedulerSuspended, fault, yieldPending>>
  BY DEF vTaskSuspend, Suspend, Goto, taskVars
<1>3. /\ x \in Tasks /\ x \in AllTasks /\ x \in tcb /\ x # reaped
      /\ Container(x) # Termination
      /\ uxPriority[x] \in Priorities /\ WellFormed(lists)
      /\ lists.container[Generic(x)] \in Lists
      /\ lists.container[Event(x)] \in (Lists \ {Termination}) \cup {Null}
  BY <1>1, HandleFacts, PlaceFacts
<1>4. Relocated(lists, lists', x, Suspended, Null)
  BY <1>2, <1>3, UnlinkTo, ListFacts
<1>d. /\ Suspended # Termination
      /\ uxTasksDeleted' = uxTasksDeleted + (IF Suspended = Termination THEN 1 ELSE 0)
  BY <1>2, ListFacts DEF IInv, TypeOK
<1>5. CASE x = t
  BY <1>1, <1>2, <1>3, <1>4, <1>5, <1>d, LeaveInv
<1>6. CASE x # t
  <2>1. PICK p \in Priorities : uxPriority' = [uxPriority EXCEPT ![x] = p]
    BY <1>2, <1>3, SamePriority
  <2>2. /\ Suspended # Ready(p)
        /\ uxTopReadyPriority' \in Priorities /\ uxTopReadyPriority <= uxTopReadyPriority'
        /\ yieldPending' \in BOOLEAN /\ xMissedYield' \in BOOLEAN
        /\ xYieldRequired' \in BOOLEAN /\ queueLocked' \in [Events -> BOOLEAN]
        /\ queuePosted' \in [Events -> BOOLEAN]
    BY <1>2, RestKept, ListFacts DEF missedVars, loopVars, queueVars
  <2>3. QED
    BY <1>1, <1>2, <1>3, <1>4, <1>6, <1>d, <2>1, <2>2, MoveInv
       DEF missedVars, loopVars
<1>7. QED
  BY <1>5, <1>6

\* vTaskResume and xTaskResumeFromISR with the scheduler running.
LEMMA ResumeNowInv ==
  ASSUME IInv, xSchedulerRunning, kernel = "none", ~ fault, NEW x, Handle(x),
         xTaskIsTaskSuspended(x), ResumeNow(x),
         UNCHANGED <<taskVars, timeVars, missedVars, queueVars, loopVars,
                     pxCurrentTCB, xSchedulerRunning, uxSchedulerSuspended, pc, fault>>
  PROVE  IInv'
<1>2. /\ lists' = vListInsertEnd(vListRemove(lists, Generic(x)), Ready(uxPriority[x]),
                                 Generic(x))
      /\ RaiseTop(uxPriority[x])
      /\ yieldPending' = (yieldPending \/ NotBelowCurrent(x))
      /\ UNCHANGED <<uxPriority, tcb, reaped, uxCurrentNumberOfTasks, uxTasksDeleted,
                     uxTopUsedPriority, askedPriority>>
  BY DEF ResumeNow, AddToReady, taskVars
<1>3. /\ x \in Tasks /\ x \in AllTasks /\ x \in tcb /\ x # reaped
      /\ Container(x) # Termination
      /\ uxPriority[x] \in Priorities /\ WellFormed(lists)
      /\ lists.container[Generic(x)] \in Lists
      /\ lists.container[Event(x)] = Null
      /\ Container(x) = Suspended
  BY HandleFacts, PlaceFacts DEF xTaskIsTaskSuspended, listIS_CONTAINED_WITHIN, Container
<1>p. PICK p \in Priorities : /\ uxPriority' = [uxPriority EXCEPT ![x] = p]
                              /\ p = uxPriority[x]
  BY <1>2, <1>3, SamePriority
<1>4. Relocated(lists, lists', x, Ready(p), Null)
  BY <1>2, <1>3, <1>p, MoveGeneric, ListFacts
<1>5. /\ Ready(p) # Termination
      /\ uxTasksDeleted' = uxTasksDeleted + (IF Ready(p) = Termination THEN 1 ELSE 0)
  BY <1>2, ListFacts DEF IInv, TypeOK
<1>6. /\ uxTopReadyPriority' \in Priorities
      /\ uxTopReadyPriority <= uxTopReadyPriority' /\ p <= uxTopReadyPriority'
  BY <1>2, <1>p, Raised DEF IInv
<1>7. /\ yieldPending' \in BOOLEAN /\ xMissedYield' \in BOOLEAN
      /\ xYieldRequired' \in BOOLEAN /\ queueLocked' \in [Events -> BOOLEAN]
      /\ queuePosted' \in [Events -> BOOLEAN]
  <2>1. yieldPending' \in BOOLEAN
    BY <1>2
  <2>2. QED
    BY <2>1, RestKept DEF missedVars, loopVars, queueVars
<1>8. /\ yieldPending => yieldPending'
      /\ UNCHANGED <<kernel, uxMissedTicks>>
  BY <1>2 DEF loopVars, missedVars
<1>9. QED
  BY <1>2, <1>3, <1>4, <1>5, <1>6, <1>7, <1>8, <1>p, MoveInv

\* vTaskResume.
LEMMA ResumeInv ==
  ASSUME IInv, NEW t, NEW x, vTaskResume(t, x)
  PROVE  IInv'
<1>1. /\ xSchedulerRunning /\ kernel = "none" /\ ~ fault
      /\ Handle(x) /\ xTaskIsTaskSuspended(x) /\ ResumeNow(x) /\ x # pxCurrentTCB
  BY AtFacts DEF vTaskResume, Call
<1>2. QED
  BY <1>1, ResumeNowInv DEF vTaskResume

\* xTaskResumeFromISR, with and without the scheduler suspended.
LEMMA ResumeFromISRInv ==
  ASSUME IInv, NEW x, xTaskResumeFromISR(x)
  PROVE  IInv'
<1>1. /\ xSchedulerRunning /\ kernel = "none" /\ ~ fault
      /\ Handle(x) /\ xTaskIsTaskSuspended(x)
      /\ UNCHANGED <<taskVars, timeVars, missedVars, queueVars, loopVars,
                     pxCurrentTCB, xSchedulerRunning, uxSchedulerSuspended, pc, fault>>
  BY DEF xTaskResumeFromISR, InterruptsOn
<1>2. CASE uxSchedulerSuspended = 0
  BY <1>1, <1>2, ResumeNowInv DEF xTaskResumeFromISR
<1>3. CASE uxSchedulerSuspended # 0
  <2>1. /\ lists' = vListInsertEnd(lists, Pending, Event(x))
        /\ UNCHANGED <<uxTopReadyPriority, yieldPending>>
    BY <1>3 DEF xTaskResumeFromISR
  <2>2. /\ x \in Tasks /\ x \in AllTasks /\ x \in tcb /\ x # reaped
        /\ Container(x) # Termination /\ WellFormed(lists)
        /\ lists.container[Event(x)] = Null
        /\ lists.container[Generic(x)] = Suspended
    BY <1>1, HandleFacts, PlaceFacts
       DEF xTaskIsTaskSuspended, listIS_CONTAINED_WITHIN
  <2>3. Relocated(lists, lists', x, Suspended, Pending)
    <3>1. Pending \in Lists \ {Termination}
      BY ListFacts
    <3>2. QED
      BY <2>1, <2>2, <3>1, AppendEvent
  <2>4. PICK p \in Priorities : uxPriority' = [uxPriority EXCEPT ![x] = p]
    BY <1>1, <2>2, SamePriority DEF taskVars
  <2>5. /\ Suspended # Termination /\ Suspended # Ready(p)
        /\ uxTasksDeleted' = uxTasksDeleted + (IF Suspended = Termination THEN 1 ELSE 0)
    BY <1>1, ListFacts DEF IInv, TypeOK, taskVars
  <2>6. /\ uxTopReadyPriority' \in Priorities /\ uxTopReadyPriority <= uxTopReadyPriority'
        /\ yieldPending' \in BOOLEAN /\ xMissedYield' \in BOOLEAN
        /\ xYieldRequired' \in BOOLEAN /\ queueLocked' \in [Events -> BOOLEAN]
        /\ queuePosted' \in [Events -> BOOLEAN]
    BY <1>1, <2>1, RestKept DEF missedVars, loopVars, queueVars
  <2>7. x = pxCurrentTCB => ~ IsReady(x)
    <3>1. uxPriority[x] \in Priorities
      BY <2>2, PlaceFacts
    <3>2. QED
      BY <2>2, <3>1, ListFacts DEF IsReady, Container
  <2>8. UNCHANGED <<tcb, reaped, uxCurrentNumberOfTasks, uxTopUsedPriority,
                    askedPriority, kernel, uxMissedTicks>>
    BY <1>1 DEF taskVars, missedVars, loopVars
  <2>9. QED
    BY <1>1, <2>1, <2>2, <2>3, <2>4, <2>5, <2>6, <2>7, <2>8, MoveInv
<1>4. QED
  BY <1>2, <1>3

\* vTaskPrioritySet, of a ready task or of one that is not.
LEMMA PrioritySetInv ==
  ASSUME IInv, NEW t, NEW x, NEW asked \in RequestedPriorities,
         vTaskPrioritySet(t, x, asked)
  PROVE  IInv'
<1> DEFINE new == CapPriority(asked)
           xl  == listSET_LIST_ITEM_VALUE(lists, Event(x), EventItemValue(new))
<1>1. /\ xSchedulerRunning /\ kernel = "none" /\ ~ fault /\ ~ yieldPending
      /\ Handle(x)
  BY AtFacts DEF vTaskPrioritySet, Call
<1>2. /\ uxPriority' = [uxPriority EXCEPT ![x] = new]
      /\ IF lists.container[Generic(x)] = Ready(uxPriority[x])
         THEN /\ lists' = vListInsertEnd(vListRemove(xl, Generic(x)), Ready(new),
                                         Generic(x))
              /\ RaiseTop(new)
         ELSE lists' = xl /\ UNCHANGED uxTopReadyPriority
      /\ yieldPending' \in BOOLEAN
      /\ UNCHANGED <<tcb, uxCurrentNumberOfTasks, uxTasksDeleted,
                     uxTopUsedPriority, askedPriority, reaped, timeVars,
                     missedVars, queueVars, loopVars, pxCurrentTCB,
                     xSchedulerRunning, uxSchedulerSuspended, pc, fault>>
  <2>1. yieldPending' \in BOOLEAN
    BY DEF vTaskPrioritySet
  <2>2. QED
    BY <2>1 DEF vTaskPrioritySet, AddToReady, listIS_CONTAINED_WITHIN
<1>3. /\ x \in Tasks /\ x \in AllTasks /\ x \in tcb /\ x # reaped
      /\ Container(x) # Termination /\ WellFormed(lists)
      /\ lists.container[Generic(x)] \in Lists
      /\ lists.container[Event(x)] \in EventLists \cup {Pending, Null}
  BY <1>1, HandleFacts, PlaceFacts
<1>4. new \in Priorities /\ EventItemValue(new) \in TickType /\ Event(x) \in Items
  BY <1>3, ConstantFacts, ItemFacts, TasksAssumption
<1>5. Relocated(lists, xl, x, lists.container[Generic(x)], lists.container[Event(x)])
  BY <1>3, <1>4, ValueSet
<1> HIDE DEF xl, new
<1>6. PICK p \in Priorities : p = new
  BY <1>4
<1>7. /\ yieldPending' \in BOOLEAN /\ xMissedYield' \in BOOLEAN
      /\ xYieldRequired' \in BOOLEAN /\ queueLocked' \in [Events -> BOOLEAN]
      /\ queuePosted' \in [Events -> BOOLEAN]
      /\ UNCHANGED <<kernel, uxMissedTicks>>
  BY <1>2, RestKept DEF missedVars, loopVars, queueVars
<1>8. CASE lists.container[Generic(x)] = Ready(uxPriority[x])
  <2>1. uxPriority[x] \in Priorities /\ lists.container[Event(x)] = Null
    <3>1. uxPriority[x] \in Priorities
      BY <1>3, PlaceFacts
    <3>2. Ready(uxPriority[x]) \notin DelayedLists \cup {Suspended}
      BY <3>1, ListFacts
    <3>3. QED
      BY <1>3, <1>8, <3>1, <3>2, PlaceFacts DEF Container
  <2>2. /\ WellFormed(xl) /\ xl.container[Generic(x)] \in Lists
        /\ xl.container[Event(x)] = Null
    BY <1>3, <1>5, <2>1, RelocatedPlaces
  <2>3. /\ Ready(p) \in Lists /\ Ready(p) # Termination
        /\ uxTasksDeleted' = uxTasksDeleted + (IF Ready(p) = Termination THEN 1 ELSE 0)
    BY <1>2, ListFacts DEF IInv, TypeOK
  <2>a. lists' = vListInsertEnd(vListRemove(xl, Generic(x)), Ready(p), Generic(x))
    BY <1>2, <1>6, <1>8
  <2>4. Relocated(xl, lists', x, Ready(p), Null)
    BY <1>3, <2>2, <2>3, <2>a, MoveGeneric
  <2>5. Relocated(lists, lists', x, Ready(p), Null)
    BY <1>3, <1>5, <2>4, RelocatedTwice
  <2>6. /\ uxTopReadyPriority' \in Priorities
        /\ uxTopReadyPriority <= uxTopReadyPriority' /\ p <= uxTopReadyPriority'
    BY <1>2, <1>6, <1>8, Raised DEF IInv
  <2>7. QED
    BY <1>1, <1>2, <1>3, <1>6, <1>7, <2>3, <2>5, <2>6, MoveInv
<1>9. CASE lists.container[Generic(x)] # Ready(uxPriority[x])
  <2>1. /\ Container(x) \in {Suspended} \cup DelayedLists
        /\ Container(x) = lists.container[Generic(x)]
    BY <1>3, <1>9, ListFacts DEF IInv, Placement, Container
  <2>2. /\ Container(x) # Ready(p)
        /\ uxTasksDeleted' = uxTasksDeleted + (IF Container(x) = Termination THEN 1 ELSE 0)
        /\ Container(x) \in {Ready(p), Suspended, Termination} \cup DelayedLists
    <3>1. Container(x) # Ready(p)
      BY <2>1, ListFacts
    <3>2. uxTasksDeleted' = uxTasksDeleted + 0
      BY <1>2 DEF IInv, TypeOK
    <3>3. QED
      BY <1>3, <2>1, <3>1, <3>2
  <2>3. PICK G, E : /\ G = Container(x) /\ E = lists.container[Event(x)]
                    /\ Relocated(lists, lists', x, G, E)
    BY <1>2, <1>5, <1>9, <2>1
  <2>4. /\ uxTopReadyPriority' \in Priorities /\ uxTopReadyPriority <= uxTopReadyPriority'
        /\ ~ IsReady(x)
        /\ E # Null => G \in DelayedLists \cup {Suspended}
    BY <1>2, <1>9, <2>1, <2>3, RestKept DEF IsReady, Container
  <2>5. QED
    BY <1>1, <1>2, <1>3, <1>6, <1>7, <2>1, <2>2, <2>3, <2>4, MoveInv
<1>10. QED
  BY <1>8, <1>9

-----------------------------------------------------------------------------
(* Tasks taken off an event list, off xPendingReadyList, off a delayed list *)

\* A list of event items holds application tasks that are blocked.
LEMMA FirstOfEvents ==
  ASSUME IInv, NEW L \in EventLists \cup {Pending}, ~ listLIST_IS_EMPTY(lists, L),
         NEW t, t = Owner(HeadItem(lists, L))
  PROVE  /\ t \in Tasks /\ t \in AllTasks /\ t \in tcb /\ t # reaped
         /\ Container(t) \in DelayedLists \cup {Suspended}
         /\ lists.container[Generic(t)] \in Lists
         /\ lists.container[Event(t)] = L /\ L \in Lists \ {Termination}
         /\ WellFormed(lists) /\ ~ IsReady(t)
<1>1. WellFormed(lists) /\ L \in Lists \ {Termination} /\ L # Null
  BY WellFormedNow, ListFacts DEF IInv
<1>2. HeadItem(lists, L) \in Items /\ lists.container[HeadItem(lists, L)] = L
  BY <1>1, HeadOnList DEF WellFormed
<1>3. t \in AllTasks /\ (HeadItem(lists, L) = Generic(t) \/ HeadItem(lists, L) = Event(t))
  BY <1>2, ItemFacts
<1>4. Container(t) # L
  <2>1. Container(t) \in {Ready(uxPriority[t]), Suspended, Termination, Null}
                           \cup DelayedLists
    BY <1>3 DEF IInv, Placement
  <2>2. uxPriority[t] \in Priorities
    BY <1>3, PlaceFacts
  <2>3. QED
    BY <1>1, <2>1, <2>2, ListFacts
<1>5. lists.container[Event(t)] = L
  BY <1>2, <1>3, <1>4 DEF Container
<1>6. Container(t) \in DelayedLists \cup {Suspended} /\ t \in Tasks
  BY <1>1, <1>3, <1>5, PlaceFacts
<1>7. Container(t) \in Lists /\ Container(t) # Null
  BY <1>6, ListFacts
<1>8. t \in tcb /\ t # reaped
  BY <1>3, <1>7, PlaceFacts
<1>9. ~ IsReady(t)
  <2>1. uxPriority[t] \in Priorities
    BY <1>3, PlaceFacts
  <2>2. QED
    BY <1>6, <2>1, ListFacts DEF IsReady
<1>10. QED
  BY <1>1, <1>3, <1>5, <1>6, <1>7, <1>8, <1>9 DEF Container

\* What xTaskRemoveFromEventList does to the lists.
LEMMA EventRemoved ==
  ASSUME IInv, NEW e \in Events, ~ listLIST_IS_EMPTY(lists, EventList(e)),
         xTaskRemoveFromEventList(e), UNCHANGED uxPriority
  PROVE  \E t \in Tasks, p \in Priorities, G \in Lists, E \in {Pending, Null} :
           /\ t \in tcb /\ t # reaped /\ ~ IsReady(t) /\ Container(t) # Termination
           /\ Relocated(lists, lists', t, G, E)
           /\ G \in {Ready(p), Suspended} \cup DelayedLists /\ G # Termination
           /\ E \in {Pending, Null} /\ (E # Null => G \in DelayedLists \cup {Suspended})
           /\ uxPriority' = [uxPriority EXCEPT ![t] = p]
           /\ uxTopReadyPriority' \in Priorities
           /\ uxTopReadyPriority <= uxTopReadyPriority'
           /\ G = Ready(p) => p <= uxTopReadyPriority'
<1>1. PICK t : t = Owner(HeadItem(lists, EventList(e)))
  OBVIOUS
<1>2. EventList(e) \in EventLists \cup {Pending}
  BY DEF EventLists
<1>3. /\ t \in Tasks /\ t \in AllTasks /\ t \in tcb /\ t # reaped
      /\ Container(t) \in DelayedLists \cup {Suspended}
      /\ lists.container[Generic(t)] \in Lists
      /\ lists.container[Event(t)] \in Lists \ {Termination}
      /\ WellFormed(lists) /\ ~ IsReady(t)
  BY <1>1, <1>2, FirstOfEvents
<1>4. PICK p \in Priorities : /\ uxPriority' = [uxPriority EXCEPT ![t] = p]
                              /\ p = uxPriority[t]
  BY <1>3, SamePriority
<1>5. Container(t) # Termination
  BY <1>3, ListFacts
<1>6. CASE uxSchedulerSuspended = 0
  <2>1. /\ lists' = vListInsertEnd(vListRemove(vListRemove(lists, Event(t)), Generic(t)),
                                   Ready(p), Generic(t))
        /\ RaiseTop(p)
    BY <1>1, <1>4, <1>6 DEF xTaskRemoveFromEventList, FirstWaiting, AddToReady
  <2>2. Relocated(lists, lists', t, Ready(p), Null)
    BY <1>3, <2>1, EventOffThenMove, ListFacts
  <2>3. /\ uxTopReadyPriority' \in Priorities
        /\ uxTopReadyPriority <= uxTopReadyPriority' /\ p <= uxTopReadyPriority'
    BY <2>1, Raised DEF IInv
  <2>4. QED
    BY <1>3, <1>4, <1>5, <2>2, <2>3, ListFacts
<1>7. CASE uxSchedulerSuspended # 0
  <2>1. /\ lists' = vListInsertEnd(vListRemove(lists, Event(t)), Pending, Event(t))
        /\ UNCHANGED uxTopReadyPriority
    BY <1>1, <1>7 DEF xTaskRemoveFromEventList, FirstWaiting
  <2>2. Relocated(lists, lists', t, Container(t), Pending)
    BY <1>3, <2>1, EventToPending DEF Container
  <2>3. uxTopReadyPriority' \in Priorities /\ uxTopReadyPriority <= uxTopReadyPriority'
    BY <2>1, RestKept
  <2>4. Container(t) # Ready(p)
    BY <1>3, <1>4 DEF IsReady
  <2>5. QED
    BY <1>3, <1>4, <1>5, <2>2, <2>3, <2>4, ListFacts
<1>8. QED
  BY <1>6, <1>7

\* A post, by a task or by an interrupt.
LEMMA PostInv ==
  ASSUME IInv, xSchedulerRunning, kernel = "none", NEW e \in Events, Post(e)
  PROVE  IInv'
<1>1. UNCHANGED <<taskVars, timeVars, missedVars, queueLocked, loopVars, pxCurrentTCB,
                  xSchedulerRunning, uxSchedulerSuspended, pc, fault>>
  BY DEF Post
<1>2. CASE queueLocked[e]
  <2>1. /\ queuePosted' = [queuePosted EXCEPT ![e] = TRUE]
        /\ UNCHANGED <<listVars, yieldPending>>
    BY <1>2 DEF Post
  <2>2. /\ ListsAgree' /\ Placement' /\ Accounting' /\ IdleOK' /\ TopOK'
    BY <1>1, <2>1, StaticKept DEF StaticVars, listVars, taskVars
  <2>3. TypeOK'
    BY <1>1, <2>1 DEF IInv, TypeOK, listVars, taskVars, timeVars, missedVars, loopVars
  <2>4. LabelsOK' /\ KernelOK' /\ CurrentOK' /\ BeforeOK'
    BY <1>1, <2>1 DEF IInv, LabelsOK, KernelOK, CurrentOK, BeforeOK, IsReady, Container,
       listVars, taskVars, missedVars, loopVars
  <2>5. QED
    BY <2>2, <2>3, <2>4 DEF IInv
<1>3. CASE ~ queueLocked[e]
  <2>1. /\ ~ listLIST_IS_EMPTY(lists, EventList(e))
        /\ xTaskRemoveFromEventList(e)
        /\ yieldPending' = (yieldPending \/ NotBelowCurrent(FirstWaiting(e)))
        /\ UNCHANGED queuePosted
    BY <1>3 DEF Post
  <2>2. UNCHANGED <<uxPriority, tcb, reaped, uxCurrentNumberOfTasks, uxTasksDeleted,
                    uxTopUsedPriority, askedPriority, kernel, uxMissedTicks>>
    BY <1>1 DEF taskVars, loopVars, missedVars
  <2>3. PICK t \in Tasks, p \in Priorities, G \in Lists,
                E \in {Pending, Null} :
           /\ t \in tcb /\ t # reaped /\ ~ IsReady(t) /\ Container(t) # Termination
           /\ Relocated(lists, lists', t, G, E)
           /\ G \in {Ready(p), Suspended} \cup DelayedLists /\ G # Termination
           /\ E \in {Pending, Null} /\ (E # Null => G \in DelayedLists \cup {Suspended})
           /\ uxPriority' = [uxPriority EXCEPT ![t] = p]
           /\ uxTopReadyPriority' \in Priorities
           /\ uxTopReadyPriority <= uxTopReadyPriority'
           /\ G = Ready(p) => p <= uxTopReadyPriority'
    BY <2>1, <2>2, EventRemoved
  <2>4. /\ yieldPending' \in BOOLEAN /\ xMissedYield' \in BOOLEAN
        /\ xYieldRequired' \in BOOLEAN /\ queueLocked' \in [Events -> BOOLEAN]
        /\ queuePosted' \in [Events -> BOOLEAN]
    <3>1. yieldPending' \in BOOLEAN
      BY <2>1
    <3>2. QED
      BY <3>1, <1>1, <2>1, RestKept DEF missedVars, loopVars
  <2>5. /\ yieldPending => yieldPending'
        /\ uxTasksDeleted' = uxTasksDeleted + (IF G = Termination THEN 1 ELSE 0)
    BY <2>1, <2>2, <2>3 DEF IInv, TypeOK
  <2>6. QED
    BY <1>1, <2>2, <2>3, <2>4, <2>5, MoveInv
<1>4. QED
  BY <1>2, <1>3

\* A post by a task.
LEMMA QueueSendInv ==
  ASSUME IInv, NEW t, NEW e \in Events, QueueSend(t, e)
  PROVE  IInv'
<1>1. xSchedulerRunning /\ kernel = "none" /\ Post(e)
  BY AtFacts DEF QueueSend, BlockingCall, Call
<1>2. QED
  BY <1>1, PostInv

\* A post by an interrupt.
LEMMA EventISRInv ==
  ASSUME IInv, NEW e \in Events, EventISR(e)
  PROVE  IInv'
<1>1. xSchedulerRunning /\ kernel = "none" /\ Post(e)
  BY DEF EventISR, InterruptsOn
<1>2. QED
  BY <1>1, PostInv

\* Unlocking a queue hands on the post that came meanwhile.
LEMMA QueueUnlockInv ==
  ASSUME IInv, NEW t, NEW e \in Events, QueueUnlock(t, e)
  PROVE  IInv'
<1>1. /\ xSchedulerRunning /\ kernel = "none" /\ ~ fault /\ ~ yieldPending
      /\ t = pxCurrentTCB /\ pc[t] = "unlock" /\ t \in AllTasks /\ t # Null
      /\ t # Idle /\ uxSchedulerSuspended = 1 /\ Container(t) # Termination
  <2>1. At(t, "unlock")
    BY DEF QueueUnlock
  <2>2. /\ xSchedulerRunning /\ kernel = "none" /\ ~ fault /\ ~ yieldPending
        /\ t = pxCurrentTCB /\ pc[t] = "unlock" /\ t \in AllTasks /\ t # Null
    BY <2>1, AtFacts
  <2>3. QED
    BY <2>2 DEF IInv, LabelsOK, KernelOK, CurrentOK, IdleLabels, Holding
<1>2. /\ pc' = [pc EXCEPT ![t] = "blocked"]
      /\ queueLocked' = [queueLocked EXCEPT ![e] = FALSE]
      /\ queuePosted' = [queuePosted EXCEPT ![e] = FALSE]
      /\ UNCHANGED <<tcb, uxPriority, uxCurrentNumberOfTasks, uxTasksDeleted,
                     uxTopUsedPriority, askedPriority, reaped, timeVars,
                     uxMissedTicks, kernel, xYieldRequired, pxCurrentTCB,
                     xSchedulerRunning, uxSchedulerSuspended, yieldPending, fault>>
  BY DEF QueueUnlock, Goto, taskVars, loopVars
<1>3. queueLocked' \in [Events -> BOOLEAN] /\ queuePosted' \in [Events -> BOOLEAN]
  BY <1>2 DEF IInv, TypeOK
<1>4. CASE queuePosted[e] /\ ~ listLIST_IS_EMPTY(lists, EventList(e))
  <2>1. /\ xTaskRemoveFromEventList(e)
        /\ xMissedYield' = (xMissedYield \/ NotBelowCurrent(FirstWaiting(e)))
    BY <1>4 DEF QueueUnlock
  <2>3. PICK s \in Tasks, p \in Priorities, G \in Lists,
                E \in {Pending, Null} :
           /\ s \in tcb /\ s # reaped /\ ~ IsReady(s) /\ Container(s) # Termination
           /\ Relocated(lists, lists', s, G, E)
           /\ G \in {Ready(p), Suspended} \cup DelayedLists /\ G # Termination
           /\ E \in {Pending, Null} /\ (E # Null => G \in DelayedLists \cup {Suspended})
           /\ uxPriority' = [uxPriority EXCEPT ![s] = p]
           /\ uxTopReadyPriority' \in Priorities
           /\ uxTopReadyPriority <= uxTopReadyPriority'
           /\ G = Ready(p) => p <= uxTopReadyPriority'
    BY <1>2, <1>4, <2>1, EventRemoved
  <2>4. xMissedYield' \in BOOLEAN
    BY <2>1
  <2>5. yieldPending' \in BOOLEAN /\ xYieldRequired' \in BOOLEAN
    BY <1>2, RestKept
  <2>6. /\ uxTasksDeleted' = uxTasksDeleted + (IF G = Termination THEN 1 ELSE 0)
        /\ pc[pxCurrentTCB] = "unlock" /\ pc' = [pc EXCEPT ![pxCurrentTCB] = "blocked"]
    BY <1>1, <1>2, <2>3 DEF IInv, TypeOK
  <2>7. QED
    BY <1>1, <1>2, <1>3, <2>3, <2>4, <2>5, <2>6, MoveInv
<1>5. CASE ~ (queuePosted[e] /\ ~ listLIST_IS_EMPTY(lists, EventList(e)))
  <2>1. UNCHANGED <<lists, uxTopReadyPriority, xMissedYield>>
    BY <1>5 DEF QueueUnlock, listVars
  <2>2. /\ ListsAgree' /\ Placement' /\ Accounting' /\ IdleOK' /\ TopOK'
    BY <1>2, <2>1, StaticKept DEF StaticVars
  <2>3. TypeOK'
    BY <1>1, <1>2, <1>3, <2>1 DEF IInv, TypeOK, Labels, timeVars
  <2>4. LabelsOK' /\ KernelOK' /\ CurrentOK' /\ BeforeOK'
    BY <1>1, <1>2, <2>1 DEF IInv, TypeOK, LabelsOK, KernelOK, CurrentOK, BeforeOK,
       IsReady, Container, Holding, IdleLabels, TaskLabels
  <2>5. QED
    BY <2>2, <2>3, <2>4 DEF IInv
<1>6. QED
  BY <1>4, <1>5

\* One task leaves xPendingReadyList.
LEMMA DrainPendingInv ==
  ASSUME IInv, DrainPending
  PROVE  IInv'
<1>1. /\ kernel = "drain" /\ xSchedulerRunning /\ ~ listLIST_IS_EMPTY(lists, Pending)
  BY DEF DrainPending, LoopStep, IInv, KernelOK
<1>2. PICK t : t = Owner(HeadItem(lists, Pending))
  OBVIOUS
<1>3. /\ t \in Tasks /\ t \in AllTasks /\ t \in tcb /\ t # reaped
      /\ Container(t) \in DelayedLists \cup {Suspended}
      /\ lists.container[Generic(t)] \in Lists
      /\ lists.container[Event(t)] \in Lists \ {Termination}
      /\ WellFormed(lists) /\ ~ IsReady(t)
  BY <1>1, <1>2, FirstOfEvents
<1>4. /\ lists' = vListInsertEnd(vListRemove(vListRemove(lists, Event(t)), Generic(t)),
                                 Ready(uxPriority[t]), Generic(t))
      /\ RaiseTop(uxPriority[t])
      /\ xYieldRequired' = (xYieldRequired \/ NotBelowCurrent(t))
      /\ UNCHANGED <<tcb, uxPriority, uxCurrentNumberOfTasks, uxTasksDeleted,
                     uxTopUsedPriority, askedPriority, reaped, timeVars, missedVars,
                     queueVars, kernel, pxCurrentTCB, xSchedulerRunning,
                     uxSchedulerSuspended, yieldPending, pc, fault>>
  BY <1>2 DEF DrainPending, AddToReady, LoopUnchanged, taskVars
<1>5. PICK p \in Priorities : /\ uxPriority' = [uxPriority EXCEPT ![t] = p]
                              /\ p = uxPriority[t]
  BY <1>3, <1>4, SamePriority
<1>6. Relocated(lists, lists', t, Ready(p), Null)
  BY <1>3, <1>4, <1>5, EventOffThenMove, ListFacts
<1>7. /\ uxTopReadyPriority' \in Priorities
      /\ uxTopReadyPriority <= uxTopReadyPriority' /\ p <= uxTopReadyPriority'
  BY <1>4, <1>5, Raised DEF IInv
<1>8. /\ yieldPending' \in BOOLEAN /\ xMissedYield' \in BOOLEAN
      /\ xYieldRequired' \in BOOLEAN /\ queueLocked' \in [Events -> BOOLEAN]
      /\ queuePosted' \in [Events -> BOOLEAN]
  <2>1. xYieldRequired' \in BOOLEAN
    BY <1>4
  <2>2. QED
    BY <2>1, <1>4, RestKept DEF missedVars, queueVars
<1>9. /\ Ready(p) # Termination /\ Container(t) # Termination
      /\ uxTasksDeleted' = uxTasksDeleted + (IF Ready(p) = Termination THEN 1 ELSE 0)
      /\ UNCHANGED uxMissedTicks
  BY <1>3, <1>4, ListFacts DEF IInv, TypeOK, missedVars
<1>10. QED
  BY <1>1, <1>3, <1>4, <1>5, <1>6, <1>7, <1>8, <1>9, MoveInv

\* One task leaves the delayed list.
LEMMA WakeOneInv ==
  ASSUME IInv, WakeOne
  PROVE  IInv'
<1>1. /\ kernel # "none" /\ xSchedulerRunning
      /\ ~ listLIST_IS_EMPTY(lists, pxDelayedTaskList)
  BY DEF WakeOne, Expired, IInv, KernelOK
<1>2. PICK t : t = Owner(HeadItem(lists, pxDelayedTaskList))
  OBVIOUS
<1>3. /\ t \in Tasks /\ t \in AllTasks /\ t \in tcb /\ t # reaped
      /\ Container(t) \in DelayedLists /\ Container(t) # Termination
      /\ lists.container[Generic(t)] \in Lists
      /\ lists.container[Event(t)] \in (Lists \ {Termination}) \cup {Null}
      /\ WellFormed(lists) /\ ~ IsReady(t)
  <2>1. WellFormed(lists) /\ pxDelayedTaskList \in DelayedLists /\ pxDelayedTaskList \in Lists
    BY WellFormedNow, ListFacts DEF IInv, TypeOK
  <2>2. /\ HeadItem(lists, pxDelayedTaskList) \in Items
        /\ lists.container[HeadItem(lists, pxDelayedTaskList)] = pxDelayedTaskList
    BY <1>1, <2>1, HeadOnList DEF WellFormed
  <2>3. /\ t \in AllTasks
        /\ \/ HeadItem(lists, pxDelayedTaskList) = Generic(t)
           \/ HeadItem(lists, pxDelayedTaskList) = Event(t)
    BY <1>2, <2>2, ItemFacts
  <2>4. lists.container[Event(t)] \notin DelayedLists
    BY <2>3, PlaceFacts, ListFacts
  <2>5. Container(t) \in DelayedLists
    BY <2>1, <2>2, <2>3, <2>4 DEF Container
  <2>6. t \in tcb /\ t # reaped /\ Container(t) # Termination /\ Container(t) \in Lists
    BY <2>3, <2>5, PlaceFacts, ListFacts
  <2>7. t # Idle
    BY <2>5, <2>6, ConstantFacts, ListFacts DEF IInv, IdleOK
  <2>8. uxPriority[t] \in Priorities
    BY <2>3, PlaceFacts
  <2>9. ~ IsReady(t)
    BY <2>5, <2>8, ListFacts DEF IsReady
  <2>10. QED
    BY <2>1, <2>3, <2>5, <2>6, <2>7, <2>9, PlaceFacts DEF Container, AllTasks
<1>4. /\ lists' = vListInsertEnd(Unlink(lists, t), Ready(uxPriority[t]), Generic(t))
      /\ RaiseTop(uxPriority[t])
      /\ UNCHANGED <<tcb, uxPriority, uxCurrentNumberOfTasks, uxTasksDeleted,
                     uxTopUsedPriority, askedPriority, reaped, timeVars, missedVars,
                     queueVars, loopVars, pxCurrentTCB, xSchedulerRunning,
                     uxSchedulerSuspended, yieldPending, pc, fault>>
  BY <1>2 DEF WakeOne, AddToReady, LoopUnchanged, taskVars
<1>5. PICK p \in Priorities : /\ uxPriority' = [uxPriority EXCEPT ![t] = p]
                              /\ p = uxPriority[t]
  BY <1>3, <1>4, SamePriority
<1>6. Relocated(lists, lists', t, Ready(p), Null)
  BY <1>3, <1>4, <1>5, UnlinkTo, ListFacts
<1>7. /\ uxTopReadyPriority' \in Priorities
      /\ uxTopReadyPriority <= uxTopReadyPriority' /\ p <= uxTopReadyPriority'
  BY <1>4, <1>5, Raised DEF IInv
<1>8. /\ yieldPending' \in BOOLEAN /\ xMissedYield' \in BOOLEAN
      /\ xYieldRequired' \in BOOLEAN /\ queueLocked' \in [Events -> BOOLEAN]
      /\ queuePosted' \in [Events -> BOOLEAN]
  BY <1>4, RestKept DEF missedVars, queueVars, loopVars
<1>9. /\ Ready(p) # Termination
      /\ uxTasksDeleted' = uxTasksDeleted + (IF Ready(p) = Termination THEN 1 ELSE 0)
      /\ UNCHANGED <<uxMissedTicks, kernel>>
  BY <1>4, ListFacts DEF IInv, TypeOK, missedVars, loopVars
<1>10. QED
  BY <1>1, <1>3, <1>4, <1>5, <1>6, <1>7, <1>8, <1>9, MoveInv

-----------------------------------------------------------------------------
(* Blocking calls                                                          *)

\* The current task in the middle of a blocking call, still ready.
LEMMA BlockingFacts ==
  ASSUME IInv, NEW t, NEW l \in {"vTaskDelay", "vTaskDelayUntil", "place"}, At(t, l)
  PROVE  /\ xSchedulerRunning /\ kernel = "none" /\ ~ fault /\ ~ yieldPending
         /\ t = pxCurrentTCB /\ pc[t] = l /\ t \in Tasks /\ t \in AllTasks /\ t # Idle
         /\ t # Null /\ t \in tcb /\ t # reaped /\ Container(t) # Termination
         /\ uxSchedulerSuspended = 1
         /\ lists.container[Generic(t)] \in Lists /\ lists.container[Event(t)] = Null
         /\ WellFormed(lists)
         /\ pxDelayedTaskList \in DelayedLists /\ pxOverflowDelayedTaskList \in DelayedLists
<1>1. /\ xSchedulerRunning /\ kernel = "none" /\ ~ fault /\ ~ yieldPending
      /\ t = pxCurrentTCB /\ pc[t] = l /\ t \in AllTasks /\ t # Null
  BY AtFacts
<1>2. /\ t # Idle /\ t \in Tasks /\ IsReady(t) /\ uxSchedulerSuspended = 1
  BY <1>1 DEF IInv, LabelsOK, IdleLabels, CurrentOK, KernelOK, Holding, AllTasks
<1>3. uxPriority[t] \in Priorities
  BY <1>1, PlaceFacts
<1>4. /\ Container(t) \in Lists /\ Container(t) \notin DelayedLists \cup {Suspended}
      /\ Container(t) # Termination /\ Container(t) # Null
  BY <1>2, <1>3, ListFacts DEF IsReady
<1>5. t \in tcb /\ t # reaped /\ lists.container[Event(t)] = Null /\ WellFormed(lists)
  BY <1>1, <1>4, PlaceFacts
<1>6. pxDelayedTaskList \in DelayedLists /\ pxOverflowDelayedTaskList \in DelayedLists
  BY DEF IInv, TypeOK
<1>7. QED
  BY <1>1, <1>2, <1>4, <1>5, <1>6 DEF Container

\* Blocking on the delayed list for wake ends the call's critical part.
LEMMA BlockInv ==
  ASSUME IInv, NEW t, NEW l \in {"vTaskDelay", "vTaskDelayUntil"}, At(t, l),
         NEW wake \in TickType, lists' = BlockUntil(lists, t, wake),
         pc' = [pc EXCEPT ![t] = "blocked"],
         UNCHANGED <<uxTopReadyPriority, taskVars, timeVars, missedVars, queueVars,
                     loopVars, pxCurrentTCB, xSchedulerRunning,
                     uxSchedulerSuspended, yieldPending, fault>>
  PROVE  IInv'
<1>1. /\ xSchedulerRunning /\ kernel = "none" /\ ~ fault /\ ~ yieldPending
      /\ t = pxCurrentTCB /\ t \in Tasks /\ t \in AllTasks /\ t \in tcb /\ t # reaped
      /\ Container(t) # Termination /\ uxSchedulerSuspended = 1
      /\ lists.container[Generic(t)] \in Lists /\ lists.container[Event(t)] = Null
      /\ WellFormed(lists)
      /\ pxDelayedTaskList \in DelayedLists /\ pxOverflowDelayedTaskList \in DelayedLists
  BY BlockingFacts
<1>2. PICK L \in DelayedLists : Relocated(lists, lists', t, L, Null)
  BY <1>1, BlockUntilMoves
<1>3. /\ L # Termination /\ UNCHANGED <<uxPriority, tcb, reaped,
         uxCurrentNumberOfTasks, uxTopUsedPriority, askedPriority>>
      /\ uxTasksDeleted' = uxTasksDeleted + (IF L = Termination THEN 1 ELSE 0)
  BY ListFacts DEF taskVars, IInv, TypeOK
<1>4. QED
  BY <1>1, <1>2, <1>3, LeaveInv

\* vTaskDelay blocks its caller.
LEMMA DelayInv ==
  ASSUME IInv, NEW t, NEW ticks \in Delays, vTaskDelay(t, ticks)
  PROVE  IInv'
<1>1. Tick(xTickCount + ticks) \in TickType
  BY TickInRange, TasksAssumption, MaxDelayAssumption DEF IInv, TypeOK, TickType
<1>2. QED
  BY <1>1, BlockInv DEF vTaskDelay, Goto

\* vTaskDelayUntil blocks its caller or not.
LEMMA DelayUntilInv ==
  ASSUME IInv, NEW t, NEW previous \in TickType, NEW increment \in TickType,
         vTaskDelayUntil(t, previous, increment)
  PROVE  IInv'
<1>1. Tick(previous + increment) \in TickType
  BY TickInRange, MaxDelayAssumption DEF TickType
<1>2. CASE ShouldDelay(xTickCount, previous, Tick(previous + increment))
  BY <1>1, <1>2, BlockInv DEF vTaskDelayUntil, Goto
<1>3. CASE ~ ShouldDelay(xTickCount, previous, Tick(previous + increment))
  <2>1. /\ pc' = [pc EXCEPT ![t] = "blocked"]
        /\ UNCHANGED <<lists, uxTopReadyPriority, taskVars, timeVars, missedVars,
                       queueVars, loopVars, pxCurrentTCB, xSchedulerRunning,
                       uxSchedulerSuspended, yieldPending, fault>>
    BY <1>3 DEF vTaskDelayUntil, Goto
  <2>2. At(t, "vTaskDelayUntil")
    BY DEF vTaskDelayUntil
  <2>3. /\ xSchedulerRunning /\ kernel = "none" /\ ~ fault /\ ~ yieldPending
        /\ t = pxCurrentTCB /\ t \in AllTasks /\ t # Idle /\ t # Null
        /\ Container(t) # Termination /\ uxSchedulerSuspended = 1
    BY <2>2, BlockingFacts
  <2>4. /\ ListsAgree' /\ Placement' /\ Accounting' /\ IdleOK' /\ TopOK'
    BY <2>1, StaticKept DEF StaticVars, taskVars
  <2>5. TypeOK'
    BY <2>1, <2>3 DEF IInv, TypeOK, Labels, taskVars, timeVars, missedVars, queueVars,
       loopVars
  <2>6. LabelsOK' /\ KernelOK' /\ CurrentOK' /\ BeforeOK'
    BY <2>1, <2>3 DEF IInv, TypeOK, LabelsOK, KernelOK, CurrentOK, BeforeOK, IsReady,
       Container, Holding, IdleLabels, TaskLabels, taskVars, missedVars, loopVars
  <2>7. QED
    BY <2>4, <2>5, <2>6 DEF IInv
<1>4. QED
  BY <1>2, <1>3

\* vTaskPlaceOnEventList blocks its caller on both of its items.
LEMMA PlaceInv ==
  ASSUME IInv, NEW t, NEW e \in Events, NEW ticks \in Delays,
         vTaskPlaceOnEventList(t, e, ticks)
  PROVE  IInv'
<1>1. /\ xSchedulerRunning /\ kernel = "none" /\ ~ fault /\ ~ yieldPending
      /\ t = pxCurrentTCB /\ t \in Tasks /\ t \in AllTasks /\ t \in tcb /\ t # reaped
      /\ Container(t) # Termination /\ uxSchedulerSuspended = 1
      /\ lists.container[Generic(t)] \in Lists /\ lists.container[Event(t)] = Null
      /\ WellFormed(lists)
      /\ pxDelayedTaskList \in DelayedLists /\ pxOverflowDelayedTaskList \in DelayedLists
  <2>1. At(t, "place")
    BY DEF vTaskPlaceOnEventList
  <2>2. QED
    BY <2>1, BlockingFacts
<1> DEFINE xl == vListInsert(lists, EventList(e), Event(t))
<1>2. /\ lists' = IF ticks = portMAX_DELAY
                  THEN vListInsertEnd(vListRemove(xl, Generic(t)), Suspended, Generic(t))
                  ELSE BlockUntil(xl, t, Tick(xTickCount + ticks))
      /\ pc' = [pc EXCEPT ![t] = "unlock"]
      /\ UNCHANGED <<uxPriority, uxTopReadyPriority, tcb, reaped, xSchedulerRunning,
                     uxCurrentNumberOfTasks, uxTasksDeleted, uxTopUsedPriority,
                     askedPriority, timeVars, missedVars, queueVars, loopVars,
                     pxCurrentTCB, uxSchedulerSuspended, fault, yieldPending>>
  BY DEF vTaskPlaceOnEventList, Goto, taskVars
<1>3. EventList(e) \in EventLists /\ EventList(e) \in Lists \ {Termination}
  BY ListFacts DEF EventLists
<1>4. Relocated(lists, xl, t, lists.container[Generic(t)], EventList(e))
  BY <1>1, <1>3, InsertEvent
<1> HIDE DEF xl
<1>5. /\ WellFormed(xl) /\ xl.container[Generic(t)] \in Lists
      /\ xl.container[Event(t)] = EventList(e)
  BY <1>1, <1>4, RelocatedPlaces
<1>6. PICK G \in DelayedLists \cup {Suspended} : Relocated(xl, lists', t, G, EventList(e))
  <2>1. CASE ticks = portMAX_DELAY
    <3>1. Relocated(xl, lists', t, Suspended, EventList(e))
      BY <1>1, <1>2, <1>5, <2>1, MoveGeneric, ListFacts
    <3>2. QED
      BY <3>1
  <2>2. CASE ticks # portMAX_DELAY
    <3>1. Tick(xTickCount + ticks) \in TickType
      BY TickInRange, TasksAssumption, MaxDelayAssumption DEF IInv, TypeOK, TickType
    <3>2. \E L \in DelayedLists : Relocated(xl, lists', t, L, EventList(e))
      BY <1>1, <1>2, <1>5, <2>2, <3>1, BlockUntilMoves
    <3>3. QED
      BY <3>2
  <2>3. QED
    BY <2>1, <2>2
<1>7. Relocated(lists, lists', t, G, EventList(e))
  BY <1>1, <1>4, <1>6, RelocatedTwice
<1>8. /\ G # Termination
      /\ uxTasksDeleted' = uxTasksDeleted + (IF G = Termination THEN 1 ELSE 0)
  BY <1>2, ListFacts DEF IInv, TypeOK
<1>10. QED
  BY <1>1, <1>2, <1>3, <1>7, <1>8, LeaveInv

-----------------------------------------------------------------------------
(* Context switches                                                        *)

\* A set of priorities that is not empty has a highest element.
LEMMA HighestExists ==
  ASSUME NEW S, S \subseteq Priorities, S # {}
  PROVE  HighestOf(S) \in S /\ \A q \in S : q <= HighestOf(S)
<1> DEFINE U == {n \in Nat : \A q \in S : q <= n}
<1>1. S \subseteq Nat /\ configMAX_PRIORITIES \in U
  BY TasksAssumption DEF Priorities
<1>2. U \subseteq Nat /\ U # {}
  BY <1>1
<1> HIDE DEF U
<1>3. PICK m \in U : \A n \in U : ~ (<<n, m>> \in OpToRel(<, Nat))
  BY <1>2, NatLessThanWellFounded, WFMin
<1>4. \A n \in U : ~ (n < m)
  BY <1>2, <1>3 DEF OpToRel
<1>5. m \in Nat /\ \A q \in S : q <= m
  BY <1>2, <1>3 DEF U
<1>6. m \in S
  <2>1. SUFFICES ASSUME m \notin S PROVE FALSE
    OBVIOUS
  <2>2. \A q \in S : q <= m - 1
    BY <1>1, <1>5, <2>1
  <2>3. m - 1 \in Nat
    <3>1. PICK q \in S : q \in Nat /\ q <= m - 1
      BY <1>1, <2>2
    <3>2. QED
      BY <1>5, <3>1
  <2>4. m - 1 \in U
    BY <2>2, <2>3 DEF U
  <2>5. QED
    BY <1>4, <1>5, <2>4
<1>7. \E p \in S : \A q \in S : q <= p
  BY <1>5, <1>6
<1>8. QED
  BY <1>7 DEF HighestOf

\* The items of a well-formed xl are where tasks may be.
Placed(xl) ==
  \A t \in AllTasks :
    /\ xl.container[Generic(t)] \in
         {Ready(uxPriority[t]), Suspended, Termination, Null} \cup DelayedLists
    /\ xl.container[Event(t)] \in EventLists \cup {Pending, Null}
    /\ \A p \in Priorities :
         xl.container[Generic(t)] = Ready(p) => p <= uxTopReadyPriority

\* The search loop either finds a ready task of the highest priority or no
\* task is ready.
LEMMA SwitchFinds ==
  ASSUME TypeOK, NEW xl, WellFormed(xl), Placed(xl), SwitchTo(xl)
  PROVE  /\ WellFormed(lists')
         /\ lists'.container = xl.container /\ lists'.ring = xl.ring
         /\ uxTopReadyPriority' \in Priorities
         /\ \A t \in AllTasks, p \in Priorities :
              xl.container[Generic(t)] = Ready(p) => p <= uxTopReadyPriority'
         /\ \/ /\ UNCHANGED fault
               /\ pxCurrentTCB' \in AllTasks
               /\ xl.container[Generic(pxCurrentTCB')] = Ready(uxPriority[pxCurrentTCB'])
               /\ uxTopReadyPriority' = uxPriority[pxCurrentTCB']
            \/ /\ fault' = TRUE /\ UNCHANGED pxCurrentTCB
               /\ \A t \in AllTasks, p \in Priorities :
                    xl.container[Generic(t)] # Ready(p)
<1> DEFINE found == ReadyAtOrBelow(xl, uxTopReadyPriority)
<1>1. found \subseteq Priorities /\ uxTopReadyPriority \in Priorities
  BY DEF ReadyAtOrBelow, TypeOK
<1>2. ASSUME NEW t \in AllTasks, NEW p \in Priorities, xl.container[Generic(t)] = Ready(p)
      PROVE  p \in found
  <2>1. p <= uxTopReadyPriority
    BY <1>2 DEF Placed
  <2>2. ~ listLIST_IS_EMPTY(xl, Ready(p))
    BY <1>2, NotEmpty, ListFacts, ItemFacts DEF WellFormed
  <2>3. QED
    BY <2>1, <2>2 DEF ReadyAtOrBelow
<1>3. CASE found = {}
  <2>1. /\ fault' = TRUE /\ lists' = xl
        /\ UNCHANGED <<uxTopReadyPriority, pxCurrentTCB>>
    BY <1>3 DEF SwitchTo
  <2>2. QED
    BY <1>1, <1>2, <1>3, <2>1
<1>4. CASE found # {}
  <2> DEFINE top  == HighestOf(found)
             next == AdvanceIndex(xl, Ready(top))
             item == ItemAtIndex(next, Ready(top))
  <2>1. /\ uxTopReadyPriority' = top /\ lists' = next
        /\ pxCurrentTCB' = Owner(item) /\ UNCHANGED fault
    BY <1>4 DEF SwitchTo
  <2>2. top \in found /\ \A q \in found : q <= top
    BY <1>1, <1>4, HighestExists
  <2>3. /\ top \in Priorities /\ Ready(top) \in Lists
        /\ ~ listLIST_IS_EMPTY(xl, Ready(top))
    BY <2>2, ListFacts DEF ReadyAtOrBelow
  <2> HIDE DEF top, found
  <2>4. /\ SameLists(xl, next, Lists, Items)
        /\ item \in Items /\ xl.container[item] = Ready(top)
    BY <2>3, AdvanceKeeps DEF WellFormed
  <2> HIDE DEF item, next
  <2>5. WellFormed(next) /\ next.container = xl.container /\ next.ring = xl.ring
    BY <2>4 DEF SameLists, WellFormed
  <2>6. PICK c : c = Owner(item)
    OBVIOUS
  <2>7. c \in AllTasks /\ (item = Generic(c) \/ item = Event(c))
    BY <2>4, <2>6, ItemFacts
  <2>8. xl.container[Event(c)] # Ready(top)
    BY <2>3, <2>7, ListFacts DEF Placed
  <2>9. xl.container[Generic(c)] = Ready(top)
    BY <2>4, <2>7, <2>8
  <2>10. uxPriority[c] = top
    BY <2>3, <2>7, <2>9, ListFacts DEF Placed
  <2>11. pxCurrentTCB' = c
    BY <2>1, <2>6
  <2>12. \A t \in AllTasks, p \in Priorities :
           xl.container[Generic(t)] = Ready(p) => p <= top
    BY <1>2, <2>2
  <2>13. QED
    BY <2>1, <2>3, <2>5, <2>7, <2>9, <2>10, <2>11, <2>12
<1>5. QED
  BY <1>3, <1>4

\* The current lists are where tasks may be.
LEMMA PlacedNow ==
  ASSUME IInv
  PROVE  Placed(lists) /\ WellFormed(lists)
BY WellFormedNow DEF IInv, Placement, TopOK, Placed, Container

\* vTaskSwitchContext, with and without the scheduler suspended.
LEMMA SwitchContextInv ==
  ASSUME IInv, vTaskSwitchContext
  PROVE  IInv'
<1>1. /\ xSchedulerRunning /\ kernel = "none" /\ ~ fault /\ yieldPending
      /\ yieldPending' = FALSE
      /\ UNCHANGED <<taskVars, timeVars, uxMissedTicks, queueVars, loopVars,
                     xSchedulerRunning, uxSchedulerSuspended, pc>>
  BY DEF vTaskSwitchContext, InterruptsOn
<1>2. CASE uxSchedulerSuspended # 0
  <2>1. /\ xMissedYield' = TRUE
        /\ UNCHANGED <<listVars, pxCurrentTCB, fault>>
    BY <1>2 DEF vTaskSwitchContext
  <2>2. /\ ListsAgree' /\ Placement' /\ Accounting' /\ IdleOK' /\ TopOK'
    BY <1>1, <2>1, StaticKept DEF StaticVars, listVars, taskVars
  <2>3. TypeOK'
    BY <1>1, <2>1 DEF IInv, TypeOK, listVars, taskVars, timeVars, queueVars, loopVars
  <2>4. LabelsOK' /\ KernelOK' /\ CurrentOK' /\ BeforeOK'
    BY <1>1, <1>2, <2>1 DEF IInv, LabelsOK, KernelOK, CurrentOK, BeforeOK, IsReady,
       Container, listVars, taskVars, loopVars
  <2>5. QED
    BY <2>2, <2>3, <2>4 DEF IInv
<1>3. CASE uxSchedulerSuspended = 0
  <2>1. SwitchTo(lists) /\ UNCHANGED xMissedYield
    BY <1>3 DEF vTaskSwitchContext
  <2>a. /\ WellFormed(lists')
        /\ lists'.container = lists.container /\ lists'.ring = lists.ring
        /\ uxTopReadyPriority' \in Priorities
        /\ \A t \in AllTasks, p \in Priorities :
             lists.container[Generic(t)] = Ready(p) => p <= uxTopReadyPriority'
        /\ \/ /\ UNCHANGED fault
              /\ pxCurrentTCB' \in AllTasks
              /\ lists.container[Generic(pxCurrentTCB')] = Ready(uxPriority[pxCurrentTCB'])
           \/ /\ fault' = TRUE /\ UNCHANGED pxCurrentTCB
              /\ \A t \in AllTasks, p \in Priorities :
                   lists.container[Generic(t)] # Ready(p)
    BY <2>1, PlacedNow, SwitchFinds DEF IInv
  <2>b. lists.container[Generic(Idle)] = Ready(0) /\ Idle \in AllTasks
    BY <1>1 DEF IInv, IdleOK, Container, AllTasks
  <2>2. /\ UNCHANGED fault
        /\ pxCurrentTCB' \in AllTasks
        /\ lists.container[Generic(pxCurrentTCB')] = Ready(uxPriority[pxCurrentTCB'])
    BY <2>a, <2>b, ConstantFacts
  <2>3. PICK c \in AllTasks : c = pxCurrentTCB'
    BY <2>2
  <2>4. Container(c) = Ready(uxPriority[c]) /\ c \in tcb /\ c # Null
    <3>1. Container(c) = Ready(uxPriority[c]) /\ uxPriority[c] \in Priorities
      BY <2>2, <2>3, PlaceFacts DEF Container
    <3>2. Container(c) # Null
      BY <3>1, ListFacts
    <3>3. QED
      BY <3>1, <3>2, PlaceFacts, ListFacts
  <2>5. UNCHANGED <<tcb, uxPriority, uxCurrentNumberOfTasks, uxTasksDeleted,
                    uxTopUsedPriority, askedPriority, reaped>>
    BY <1>1 DEF taskVars
  <2>6. ListsAgree' /\ lists' \in XLists(Lists, Items)
    BY <2>a, WellFormedNow
  <2>7. TypeOK'
    BY <1>1, <2>1, <2>a, <2>2, <2>3, <2>4, <2>5, <2>6
       DEF IInv, TypeOK, timeVars, queueVars, loopVars
  <2>8. Placement' /\ IdleOK'
    BY <1>1, <2>a, <2>5 DEF IInv, Placement, IdleOK, Container
  <2>9. Accounting'
    BY <2>a, <2>5 DEF IInv, Accounting, listCURRENT_LIST_LENGTH
  <2>10. TopOK'
    BY <2>a DEF TopOK, Container
  <2>11. \A t \in AllTasks : pc[t] \notin Holding
    BY <1>1, <1>3 DEF IInv, LabelsOK, KernelOK, CurrentOK
  <2>12. LabelsOK'
    BY <1>1, <2>11, <2>a, <2>5 DEF IInv, LabelsOK, listLIST_IS_EMPTY
  <2>13. KernelOK' /\ BeforeOK'
    BY <1>1, <1>3, <2>3, <2>11 DEF IInv, KernelOK, BeforeOK, loopVars
  <2>14. CurrentOK'
    BY <1>1, <2>2, <2>3, <2>4, <2>5, <2>11, <2>a
       DEF CurrentOK, IsReady, Container, Holding
  <2>15. QED
    BY <2>6, <2>7, <2>8, <2>9, <2>10, <2>12, <2>13, <2>14 DEF IInv
<1>4. uxSchedulerSuspended = 0 \/ uxSchedulerSuspended # 0
  OBVIOUS
<1>5. QED
  BY <1>2, <1>3, <1>4

\* main() suspends a task, the current one included.
LEMMA SuspendBeforeStartInv ==
  ASSUME IInv, NEW x, SuspendBeforeStart(x)
  PROVE  IInv'
<1>1. /\ ~ xSchedulerRunning /\ kernel = "none" /\ ~ fault /\ ~ yieldPending
      /\ uxSchedulerSuspended = 0 /\ Handle(x)
      /\ UNCHANGED <<taskVars, timeVars, missedVars, queueVars, loopVars,
                     xSchedulerRunning, uxSchedulerSuspended, yieldPending, pc>>
  BY DEF SuspendBeforeStart, BeforeStart, IInv, KernelOK, BeforeOK
<1>2. /\ x \in Tasks /\ x \in AllTasks /\ x \in tcb /\ x # reaped
      /\ Container(x) # Termination /\ WellFormed(lists)
      /\ lists.container[Generic(x)] \in Lists
      /\ lists.container[Event(x)] \in (Lists \ {Termination}) \cup {Null}
  BY <1>1, HandleFacts, PlaceFacts
<1> DEFINE xl == Suspend(lists, x)
<1>3. Relocated(lists, xl, x, Suspended, Null)
  BY <1>2, UnlinkTo, ListFacts DEF Suspend
<1>4. /\ WellFormed(xl)
      /\ xl.container[Generic(x)] = Suspended /\ xl.container[Event(x)] = Null
      /\ \A s \in AllTasks \ {x} :
           /\ xl.container[Generic(s)] = lists.container[Generic(s)]
           /\ xl.container[Event(s)] = lists.container[Event(s)]
  BY <1>2, <1>3, RelocatedPlaces
<1>u. \/ lists' = xl /\ UNCHANGED <<uxTopReadyPriority, fault>>
           /\ \/ UNCHANGED pxCurrentTCB /\ x # pxCurrentTCB
              \/ pxCurrentTCB' = Null
      \/ SwitchTo(xl)
  BY DEF SuspendBeforeStart
<1> HIDE DEF xl
<1>5. Placed(xl)
  <2>1. \A p \in Priorities : Suspended # Ready(p)
    BY ListFacts
  <2>2. Placed(lists)
    BY PlacedNow
  <2>3. QED
    BY <1>4, <2>1, <2>2 DEF Placed
<1>6. /\ lists'.container = xl.container /\ lists'.ring = xl.ring /\ WellFormed(lists')
      /\ uxTopReadyPriority' \in Priorities
      /\ \A t \in AllTasks, p \in Priorities :
           xl.container[Generic(t)] = Ready(p) => p <= uxTopReadyPriority'
      /\ \/ UNCHANGED pxCurrentTCB /\ UNCHANGED fault /\ x # pxCurrentTCB
         \/ pxCurrentTCB' = Null
         \/ /\ UNCHANGED fault /\ pxCurrentTCB' \in AllTasks
            /\ xl.container[Generic(pxCurrentTCB')] = Ready(uxPriority[pxCurrentTCB'])
         \/ fault' = TRUE /\ UNCHANGED pxCurrentTCB
  <2>1. CASE SwitchTo(xl)
    BY <1>4, <1>5, <2>1, SwitchFinds DEF IInv
  <2>2. CASE lists' = xl /\ UNCHANGED <<uxTopReadyPriority, fault>>
               /\ \/ UNCHANGED pxCurrentTCB /\ x # pxCurrentTCB
                  \/ pxCurrentTCB' = Null
    BY <1>4, <1>5, <2>2 DEF Placed, IInv, TypeOK
  <2>3. QED
    BY <1>u, <2>1, <2>2
<1>f. fault' \in BOOLEAN
  BY <1>u DEF SwitchTo, IInv, TypeOK
<1>7. Relocated(lists, lists', x, Suspended, Null)
  BY <1>3, <1>6 DEF Relocated, Terminated
<1>8. PICK p \in Priorities : uxPriority' = [uxPriority EXCEPT ![x] = p]
  BY <1>1, <1>2, SamePriority DEF taskVars
<1>9. /\ TypeOK /\ ListsAgree /\ Placement /\ TopOK /\ IdleOK
      /\ UNCHANGED <<tcb, reaped, uxPriority, uxCurrentNumberOfTasks, uxTasksDeleted,
                     uxTopUsedPriority, askedPriority, xSchedulerRunning>>
  BY <1>1 DEF IInv, taskVars
<1>10. /\ ListsAgree' /\ Placement' /\ IdleOK'
       /\ lists' \in XLists(Lists, Items)
       /\ Len(lists'.ring[Termination])
            = Len(lists.ring[Termination]) + (IF Suspended = Termination THEN 1 ELSE 0)
       /\ ~ listLIST_IS_EMPTY(lists, Termination) =>
            ~ listLIST_IS_EMPTY(lists', Termination)
       /\ \A s \in AllTasks \ {x} :
            lists'.container[Generic(s)] = lists.container[Generic(s)]
  <2>1. /\ Suspended \in {Ready(p), Suspended, Termination} \cup DelayedLists
        /\ uxTopReadyPriority' \in Priorities
        /\ tcb' = tcb /\ reaped' = reaped /\ xSchedulerRunning' = xSchedulerRunning
        /\ TypeOK /\ ListsAgree /\ Placement /\ TopOK /\ IdleOK
    BY <1>6, <1>9
  <2>2. x \in tcb /\ x # reaped /\ Container(x) # Termination /\ x \in Tasks
    BY <1>2
  <2>3. PICK G, E : G = Suspended /\ E = Null
    OBVIOUS
  <2>4. /\ Relocated(lists, lists', x, G, E)
        /\ G \in {Ready(p), Suspended, Termination} \cup DelayedLists
        /\ E \in EventLists \cup {Pending, Null}
        /\ E # Null => G \in DelayedLists \cup {Suspended}
    BY <1>7, <2>3
  <2>5. /\ ListsAgree' /\ Placement' /\ IdleOK'
        /\ lists' \in XLists(Lists, Items)
        /\ Len(lists'.ring[Termination])
             = Len(lists.ring[Termination]) + (IF G = Termination THEN 1 ELSE 0)
        /\ ~ listLIST_IS_EMPTY(lists, Termination) =>
             ~ listLIST_IS_EMPTY(lists', Termination)
        /\ \A s \in AllTasks \ {x} :
             lists'.container[Generic(s)] = lists.container[Generic(s)]
    BY <1>8, <2>1, <2>2, <2>4, MoveTask
  <2>6. QED
    BY <2>3, <2>5
<1>11. TopOK'
  BY <1>6 DEF TopOK, Container
<1>12. Accounting'
  BY <1>9, <1>10, ListFacts DEF IInv, Accounting, listCURRENT_LIST_LENGTH, TypeOK
<1>13. pxCurrentTCB' \in tcb \cup {Null}
  <2>1. ASSUME NEW c \in AllTasks, xl.container[Generic(c)] = Ready(uxPriority[c])
        PROVE  c \in tcb
    <3>1. uxPriority[c] \in Priorities
      BY PlaceFacts
    <3>2. c # x
      BY <1>4, <2>1, <3>1, ListFacts
    <3>3. Container(c) # Null
      BY <1>4, <2>1, <3>1, <3>2, ListFacts DEF Container
    <3>4. QED
      BY <3>3, PlaceFacts
  <2>2. QED
    BY <1>6, <1>9, <2>1 DEF TypeOK
<1>14. TypeOK'
  BY <1>1, <1>6, <1>9, <1>10, <1>13, <1>f
     DEF TypeOK, timeVars, missedVars, queueVars, loopVars
<1>15. \A t \in AllTasks : pc[t] = "run" /\ pc'[t] = "run"
  BY <1>1 DEF IInv, BeforeOK
<1>16. LabelsOK' /\ KernelOK' /\ BeforeOK'
  <2>1. pxCurrentTCB' # Null => pxCurrentTCB' \in AllTasks
    BY <1>9, <1>13 DEF TypeOK
  <2>2. Idle \in AllTasks /\ Tasks \subseteq AllTasks
    BY DEF AllTasks
  <2>3. LabelsOK'
    BY <1>1, <1>9, <1>15, <2>2 DEF IInv, LabelsOK, Holding
  <2>4. KernelOK' /\ BeforeOK'
    BY <1>1, <1>15, <2>1 DEF IInv, KernelOK, BeforeOK, loopVars, missedVars, Holding
  <2>5. QED
    BY <2>3, <2>4
<1>17. CurrentOK'
  <2>1. ASSUME ~ fault', pxCurrentTCB' # Null
        PROVE  IsReady(pxCurrentTCB)' /\ pc'[pxCurrentTCB'] = "run"
    <3>1. pxCurrentTCB' \in AllTasks
      BY <1>9, <1>13, <2>1 DEF TypeOK
    <3>2. CASE UNCHANGED pxCurrentTCB /\ x # pxCurrentTCB
      <4>1. IsReady(pxCurrentTCB)
        BY <1>1, <1>15, <2>1, <3>1, <3>2 DEF IInv, CurrentOK
      <4>2. QED
        BY <1>9, <1>10, <1>15, <3>1, <3>2, <4>1 DEF IsReady, Container
    <3>3. CASE xl.container[Generic(pxCurrentTCB')] = Ready(uxPriority[pxCurrentTCB'])
      BY <1>6, <1>9, <1>15, <3>1, <3>3 DEF IsReady, Container
    <3>4. QED
      BY <1>6, <2>1, <3>2, <3>3
  <2>2. QED
    BY <1>1, <2>1 DEF CurrentOK
<1>18. QED
  BY <1>10, <1>11, <1>12, <1>14, <1>16, <1>17 DEF IInv

-----------------------------------------------------------------------------
(* The idle task frees deleted tasks                                       *)

\* Only finitely many TCBs are allocated.
LEMMA TcbFinite ==
  ASSUME IInv
  PROVE  IsFiniteSet(tcb) /\ IsFiniteSet(tcb \ {reaped}) /\ Null \notin tcb
<1>1. IsFiniteSet(AllTasks)
  BY TasksAssumption, FS_AddElement DEF AllTasks
<1>2. tcb \subseteq AllTasks
  BY DEF IInv, TypeOK
<1>3. QED
  BY <1>1, <1>2, FS_Subset, ListFacts

\* The idle task takes a task off the termination list.
LEMMA IdleReapInv ==
  ASSUME IInv, IdleReap
  PROVE  IInv'
<1>1. /\ xSchedulerRunning /\ kernel = "none" /\ ~ fault /\ ~ yieldPending
      /\ Idle = pxCurrentTCB /\ pc[Idle] = "idleReap" /\ Idle \in AllTasks
      /\ Idle \in tcb /\ Idle # Null
  BY AtFacts DEF IdleReap
<1>2. PICK t : t = Owner(HeadItem(lists, Termination))
  OBVIOUS
<1>3. /\ reaped' = t /\ lists' = vListRemove(lists, Generic(t))
      /\ uxCurrentNumberOfTasks' = uxCurrentNumberOfTasks - 1
      /\ uxTasksDeleted' = uxTasksDeleted - 1
      /\ pc' = [pc EXCEPT ![Idle] = "idleFree"]
      /\ UNCHANGED <<uxTopReadyPriority, tcb, uxPriority, uxTopUsedPriority,
                     askedPriority, timeVars, missedVars, queueVars, loopVars,
                     pxCurrentTCB, xSchedulerRunning, uxSchedulerSuspended,
                     yieldPending, fault>>
  BY <1>2 DEF IdleReap, Goto
<1>4. /\ reaped = Null /\ ~ listLIST_IS_EMPTY(lists, Termination)
      /\ uxSchedulerSuspended = 0
  BY <1>1 DEF IInv, LabelsOK, KernelOK
<1>5. WellFormed(lists) /\ Termination \in Lists
  BY WellFormedNow, ListFacts DEF IInv
<1>6. /\ HeadItem(lists, Termination) \in Items
      /\ lists.container[HeadItem(lists, Termination)] = Termination
  BY <1>4, <1>5, HeadOnList DEF WellFormed
<1>7. /\ t \in AllTasks
      /\ HeadItem(lists, Termination) = Generic(t) \/ HeadItem(lists, Termination) = Event(t)
  BY <1>2, <1>6, ItemFacts
<1>8. /\ Container(t) = Termination /\ lists.container[Event(t)] = Null
      /\ t \in tcb /\ t # Null /\ t # Idle
  <2>1. lists.container[Event(t)] # Termination
    BY <1>5, <1>7, PlaceFacts, ListFacts
  <2>2. Container(t) = Termination
    BY <1>6, <1>7, <2>1 DEF Container
  <2>3. lists.container[Event(t)] = Null /\ t \in tcb
    BY <1>7, <2>2, PlaceFacts, ListFacts
  <2>4. t # Idle
    BY <2>2, <1>1, ConstantFacts, ListFacts DEF IInv, IdleOK
  <2>5. QED
    BY <1>7, <2>2, <2>3, <2>4, ListFacts
<1>9. Relocated(lists, vListRemove(lists, Generic(t)), t, Null, Null)
  BY <1>5, <1>7, <1>8, RemoveGeneric DEF Container
<1>10. /\ WellFormed(lists')
       /\ lists'.container[Generic(t)] = Null /\ lists'.container[Event(t)] = Null
       /\ \A s \in AllTasks \ {t} :
            /\ lists'.container[Generic(s)] = lists.container[Generic(s)]
            /\ lists'.container[Event(s)] = lists.container[Event(s)]
       /\ Len(lists'.ring[Termination]) - Terminated(lists', t)
            = Len(lists.ring[Termination]) - Terminated(lists, t)
  <2>1. PICK yl : yl = vListRemove(lists, Generic(t))
    OBVIOUS
  <2>2. Relocated(lists, yl, t, Null, Null)
    BY <1>9, <2>1
  <2>3. /\ WellFormed(yl)
        /\ yl.container[Generic(t)] = Null /\ yl.container[Event(t)] = Null
        /\ \A s \in AllTasks \ {t} :
             /\ yl.container[Generic(s)] = lists.container[Generic(s)]
             /\ yl.container[Event(s)] = lists.container[Event(s)]
    BY <1>5, <1>7, <2>2, RelocatedPlaces
  <2>4. Len(yl.ring[Termination]) - Terminated(yl, t)
          = Len(lists.ring[Termination]) - Terminated(lists, t)
    BY <2>2 DEF Relocated
  <2>5. lists' = yl
    BY <1>3, <2>1
  <2>6. QED
    BY <2>3, <2>4, <2>5
<1>11. /\ Len(lists'.ring[Termination]) = Len(lists.ring[Termination]) - 1
       /\ Len(lists'.ring[Termination]) \in Nat
  <2>1. Terminated(lists', t) = 0 /\ Terminated(lists, t) = 1
    BY <1>8, <1>10, ListFacts DEF Terminated, Container
  <2>2. Len(lists'.ring[Termination]) \in Nat /\ Len(lists.ring[Termination]) \in Nat
    BY <1>5, <1>10, ContainerType
  <2>3. QED
    BY <1>10, <2>1, <2>2
<1>12. /\ uxTasksDeleted' = Len(lists'.ring[Termination]) /\ uxTasksDeleted' \in Nat
  BY <1>3, <1>11 DEF IInv, Accounting, listCURRENT_LIST_LENGTH
<1>13. /\ uxCurrentNumberOfTasks' = Cardinality(tcb \ {t})
       /\ uxCurrentNumberOfTasks' \in Nat
  <2>1. tcb \ {reaped} = tcb /\ IsFiniteSet(tcb)
    BY <1>4, TcbFinite
  <2>2. uxCurrentNumberOfTasks = Cardinality(tcb)
    BY <2>1 DEF IInv, Accounting
  <2>3. Cardinality(tcb \ {t}) = Cardinality(tcb) - 1 /\ IsFiniteSet(tcb \ {t})
    BY <1>8, <2>1, FS_RemoveElement
  <2>4. Cardinality(tcb \ {t}) \in Nat
    BY <2>3, FS_CardinalityType
  <2>5. QED
    BY <1>3, <2>2, <2>3, <2>4
<1>14. ListsAgree' /\ lists' \in XLists(Lists, Items)
  BY <1>10, WellFormedNow
<1>15. TypeOK'
  BY <1>1, <1>3, <1>8, <1>12, <1>13, <1>14
     DEF IInv, TypeOK, Labels, timeVars, missedVars, queueVars, loopVars
<1>16. Placement'
  <2>1. ASSUME NEW s \in AllTasks
        PROVE  /\ lists'.container[Generic(s)] \in
                    {Ready(uxPriority[s]), Suspended, Termination, Null} \cup DelayedLists
               /\ lists'.container[Event(s)] \in EventLists \cup {Pending, Null}
               /\ lists'.container[Event(s)] # Null =>
                    lists'.container[Generic(s)] \in DelayedLists \cup {Suspended}
               /\ lists'.container[Generic(s)] = Null <=> s \notin tcb \/ s = t
    <3>1. CASE s = t
      BY <1>10, <3>1
    <3>2. CASE s # t
      <4>1. s # reaped
        BY <1>4, ListFacts
      <4>2. QED
        BY <1>10, <3>2, <4>1 DEF IInv, Placement, Container
    <3>3. QED
      BY <3>1, <3>2
  <2>2. QED
    BY <1>3, <2>1 DEF Placement, Container
<1>17. Accounting'
  BY <1>3, <1>12, <1>13 DEF Accounting, listCURRENT_LIST_LENGTH
<1>18. IdleOK' /\ TopOK'
  <2>1. IdleOK'
    BY <1>1, <1>3, <1>8, <1>10 DEF IInv, IdleOK, Container
  <2>2. ASSUME NEW s \in AllTasks, NEW p \in Priorities,
               lists'.container[Generic(s)] = Ready(p)
        PROVE  p <= uxTopReadyPriority
    <3>1. s # t
      BY <1>10, <2>2, ListFacts
    <3>2. QED
      BY <1>10, <2>2, <3>1 DEF IInv, TopOK, Container
  <2>3. QED
    BY <1>3, <2>1, <2>2 DEF TopOK, Container
<1>19. LabelsOK' /\ KernelOK' /\ BeforeOK'
  BY <1>1, <1>3, <1>4, <1>8, TasksAssumption
     DEF IInv, TypeOK, LabelsOK, KernelOK, BeforeOK, Holding, IdleLabels, TaskLabels,
         loopVars, missedVars, AllTasks
<1>20. CurrentOK'
  <2>1. IsReady(Idle) /\ pc'[Idle] = "idleFree"
    BY <1>1, <1>3 DEF IInv, CurrentOK, TypeOK
  <2>2. Container(Idle)' = Ready(uxPriority'[Idle])
    BY <1>1, <1>3, <1>8, <1>10, <2>1 DEF IsReady, Container
  <2>3. QED
    BY <1>1, <1>3, <2>1, <2>2 DEF CurrentOK, IsReady
<1>21. QED
  BY <1>14, <1>15, <1>16, <1>17, <1>18, <1>19, <1>20 DEF IInv

\* prvDeleteTCB.
LEMMA IdleFreeInv ==
  ASSUME IInv, IdleFree
  PROVE  IInv'
<1>1. /\ xSchedulerRunning /\ kernel = "none" /\ ~ fault /\ ~ yieldPending
      /\ Idle = pxCurrentTCB /\ pc[Idle] = "idleFree" /\ Idle \in AllTasks
      /\ Idle \in tcb /\ Idle # Null
  BY AtFacts DEF IdleFree
<1>2. PICK t : t = reaped
  OBVIOUS
<1>3. /\ tcb' = tcb \ {t} /\ reaped' = Null
      /\ pc' = [pc EXCEPT ![Idle] = "idleYield", ![t] = "run"]
      /\ uxPriority' = [uxPriority EXCEPT ![t] = 0]
      /\ askedPriority' = [askedPriority EXCEPT ![t] = 0]
      /\ UNCHANGED <<lists, uxTopReadyPriority, uxCurrentNumberOfTasks, uxTasksDeleted,
                     uxTopUsedPriority, timeVars, missedVars, queueVars, loopVars,
                     pxCurrentTCB, xSchedulerRunning, uxSchedulerSuspended,
                     yieldPending, fault>>
  BY <1>2 DEF IdleFree, listVars
<1>4. /\ t # Null /\ t \in tcb /\ t \in AllTasks /\ t # Idle /\ t \in Tasks
      /\ uxSchedulerSuspended = 0
  BY <1>1, <1>2 DEF IInv, LabelsOK, TypeOK, IdleOK, KernelOK, AllTasks
<1>5. /\ pc'[Idle] = "idleYield" /\ pc'[t] = "run" /\ pc' \in [AllTasks -> Labels]
      /\ \A s \in AllTasks \ {Idle, t} : pc'[s] = pc[s]
      /\ \A s \in AllTasks \ {t} : uxPriority'[s] = uxPriority[s]
      /\ uxPriority' \in [AllTasks -> Priorities]
  BY <1>1, <1>3, <1>4, ConstantFacts DEF IInv, TypeOK, Labels
<1>6. TypeOK'
  BY <1>1, <1>3, <1>4, <1>5 DEF IInv, TypeOK, timeVars, missedVars, queueVars, loopVars
<1>7. ListsAgree' /\ TopOK'
  BY <1>3 DEF IInv, ListsAgree, TopOK, Container
<1>8. Placement'
  <2>1. ASSUME NEW s \in AllTasks
        PROVE  /\ Container(s) \in
                    {Ready(uxPriority'[s]), Suspended, Termination, Null} \cup DelayedLists
               /\ lists.container[Event(s)] \in EventLists \cup {Pending, Null}
               /\ lists.container[Event(s)] # Null =>
                    Container(s) \in DelayedLists \cup {Suspended}
               /\ Container(s) = Null <=> s \notin tcb'
    <3>1. CASE s = t
      BY <1>2, <1>3, <1>4, <3>1 DEF IInv, Placement
    <3>2. CASE s # t
      BY <1>2, <1>3, <1>5, <3>2 DEF IInv, Placement
    <3>3. QED
      BY <3>1, <3>2
  <2>2. Null \notin AllTasks
    BY ListFacts
  <2>3. QED
    BY <1>3, <2>1, <2>2 DEF Placement, Container
<1>9. Accounting'
  <2>1. tcb' \ {reaped'} = tcb \ {reaped}
    BY <1>2, <1>3, TcbFinite
  <2>2. QED
    BY <1>3, <2>1 DEF IInv, Accounting
<1>10. IdleOK'
  BY <1>1, <1>3, <1>4, <1>5 DEF IInv, IdleOK, Container
<1>11. LabelsOK' /\ KernelOK' /\ BeforeOK'
  BY <1>1, <1>3, <1>4, <1>5, TasksAssumption
     DEF IInv, LabelsOK, KernelOK, BeforeOK, Holding, IdleLabels, TaskLabels,
         loopVars, missedVars, AllTasks
<1>12. CurrentOK'
  <2>1. IsReady(Idle)
    BY <1>1 DEF IInv, CurrentOK
  <2>2. Container(Idle)' = Ready(uxPriority'[Idle])
    BY <1>1, <1>3, <1>4, <1>5, <2>1 DEF IsReady, Container
  <2>3. QED
    BY <1>1, <1>3, <1>5, <2>2 DEF CurrentOK, IsReady
<1>13. QED
  BY <1>6, <1>7, <1>8, <1>9, <1>10, <1>11, <1>12 DEF IInv

-----------------------------------------------------------------------------
(* xTaskGenericCreate                                                      *)

\* The lists after prvInitialiseTaskLists (for the first task) and
\* prvInitialiseTCBVariables: the items of a new task are on no list.
LEMMA EnterReadyMoves ==
  ASSUME NEW xl, NEW yl, NEW t \in AllTasks, NEW p \in Priorities,
         WellFormed(xl), WellFormed(yl), yl.container = xl.container,
         Len(yl.ring[Termination]) = Len(xl.ring[Termination]),
         xl.container[Generic(t)] = Null, xl.container[Event(t)] = Null
  PROVE  Relocated(xl, EnterReady(yl, t, p), t, Ready(p), Null)
<1> DEFINE wl == [yl EXCEPT !.container = [x \in Items |->
                              IF Owner(x) = t THEN Null ELSE @[x]]]
           zl == listSET_LIST_ITEM_VALUE(wl, Event(t), EventItemValue(p))
<1>1. /\ yl \in XLists(Lists, Items) /\ yl.container \in [Items -> Lists \cup {Null}]
      /\ \A x \in Items : Owner(x) = t => yl.container[x] = Null
  BY ContainerType, ItemFacts DEF WellFormed, ListsOK
<1>2. wl = yl
  <2>1. yl.container = [x \in Items |-> IF Owner(x) = t THEN Null ELSE yl.container[x]]
    BY <1>1
  <2>2. yl = [yl EXCEPT !.container = yl.container]
    BY <1>1 DEF XLists
  <2>3. QED
    BY <2>1, <2>2
<1> HIDE DEF wl
<1>3. Event(t) \in Items /\ EventItemValue(p) \in TickType
  BY ItemFacts, ConstantFacts
<1>4. Relocated(yl, zl, t, Null, Null)
  BY <1>2, <1>3, ValueSet
<1>u. EnterReady(yl, t, p) = vListInsertEnd(zl, Ready(p), Generic(t))
  BY DEF EnterReady, AddToReady, wl
<1> HIDE DEF zl
<1>5. /\ WellFormed(zl) /\ zl.container[Generic(t)] = Null /\ zl.container[Event(t)] = Null
  <2>1. WellFormed(yl)
    OBVIOUS
  <2>2. QED
    BY ONLY <2>1, <1>4, RelocatedPlaces, t \in AllTasks
<1>6. Relocated(zl, EnterReady(yl, t, p), t, Ready(p), Null)
  BY <1>5, <1>u, AppendGeneric, ListFacts
<1>7. Relocated(yl, EnterReady(yl, t, p), t, Ready(p), Null)
  BY <1>4, <1>6, RelocatedTwice
<1>8. Terminated(yl, t) = Terminated(xl, t)
  BY DEF Terminated
<1>9. QED
  BY <1>7, <1>8 DEF Relocated

\* Before the first task is created no list holds an item.
LEMMA FirstTask ==
  ASSUME IInv, pxCurrentTCB = Null, uxCurrentNumberOfTasks = 0
  PROVE  /\ tcb = {} /\ \A x \in Items : lists.container[x] = Null
         /\ Len(lists.ring[Termination]) = 0
<1>1. ~ xSchedulerRunning /\ Idle \in AllTasks
  BY DEF IInv, CurrentOK, AllTasks
<1>2. reaped = Null
  BY <1>1 DEF IInv, BeforeOK, LabelsOK
<1>3. tcb = {}
  <2>1. Cardinality(tcb \ {reaped}) = 0
    BY DEF IInv, Accounting
  <2>2. tcb \ {reaped} = {}
    BY <2>1, TcbFinite, FS_EmptySet
  <2>3. QED
    BY <1>2, <2>2, TcbFinite
<1>4. \A t \in AllTasks : lists.container[Generic(t)] = Null /\ lists.container[Event(t)] = Null
  <2>1. ASSUME NEW t \in AllTasks
        PROVE  lists.container[Generic(t)] = Null /\ lists.container[Event(t)] = Null
    <3>1. Container(t) = Null
      BY <1>3 DEF IInv, Placement
    <3>2. QED
      BY <3>1, PlaceFacts, ListFacts DEF Container
  <2>2. QED
    BY <2>1
<1>5. \A x \in Items : lists.container[x] = Null
  BY <1>4, ItemFacts
<1>6. WellFormed(lists) /\ Termination \in Lists /\ Null \notin Lists
  BY WellFormedNow, ListFacts DEF IInv
<1>7. listLIST_IS_EMPTY(lists, Termination)
  BY <1>5, <1>6, HeadOnList DEF WellFormed
<1>8. QED
  BY <1>3, <1>5, <1>6, <1>7, NotEmpty DEF WellFormed

\* xTaskGenericCreate caps the priority it is asked for.
LEMMA CapFacts ==
  ASSUME NEW asked \in RequestedPriorities \cup {0}
  PROVE  asked \in Nat /\ CapPriority(asked) \in Priorities
BY TasksAssumption, ConstantFacts

\* What xTaskGenericCreate does to the lists and to the bookkeeping.
LEMMA CreateLists ==
  ASSUME IInv, NEW t \in AllTasks, NEW asked \in RequestedPriorities \cup {0},
         CreateTask(t, asked),
         IF t = Idle THEN asked = 0 /\ xSchedulerRunning'
         ELSE xSchedulerRunning' = xSchedulerRunning
  PROVE  /\ ListsAgree' /\ Placement' /\ TopOK' /\ Accounting' /\ IdleOK'
         /\ lists' \in XLists(Lists, Items)
         /\ t \notin tcb /\ tcb' = tcb \cup {t} /\ reaped' = reaped
         /\ uxPriority' \in [AllTasks -> Priorities]
         /\ uxTopReadyPriority' \in Priorities /\ uxTopUsedPriority' \in Priorities
         /\ uxCurrentNumberOfTasks' \in Nat /\ uxTasksDeleted' = uxTasksDeleted
         /\ {pxDelayedTaskList', pxOverflowDelayedTaskList'} = DelayedLists
         /\ lists'.container[Generic(t)] = Ready(uxPriority'[t])
         /\ \A s \in AllTasks \ {t} :
              /\ lists'.container[Generic(s)] = lists.container[Generic(s)]
              /\ uxPriority'[s] = uxPriority[s]
         /\ ~ listLIST_IS_EMPTY(lists, Termination) =>
              ~ listLIST_IS_EMPTY(lists', Termination)
<1> DEFINE first == pxCurrentTCB = Null /\ uxCurrentNumberOfTasks = 0
           yl    == IF first THEN vListInitialise(Lists, Items) ELSE lists
<1>1. PICK p \in Priorities : p = CapPriority(asked)
  BY CapFacts
<1>2. /\ t \notin tcb /\ tcb' = tcb \cup {t} /\ reaped' = reaped
      /\ uxPriority' = [uxPriority EXCEPT ![t] = p]
      /\ uxCurrentNumberOfTasks' = uxCurrentNumberOfTasks + 1
      /\ uxTopUsedPriority' = (IF p > uxTopUsedPriority THEN p ELSE uxTopUsedPriority)
      /\ lists' = EnterReady(yl, t, p)
      /\ RaiseTop(p) /\ uxTasksDeleted' = uxTasksDeleted
      /\ IF first
         THEN pxDelayedTaskList' = Delayed(1) /\ pxOverflowDelayedTaskList' = Delayed(2)
         ELSE UNCHANGED <<pxDelayedTaskList, pxOverflowDelayedTaskList>>
  BY <1>1 DEF CreateTask
<1>3. /\ Container(t) = Null /\ lists.container[Event(t)] = Null /\ t # Null
      /\ WellFormed(lists) /\ lists.container[Generic(t)] = Null
  <2>1. Container(t) = Null
    BY <1>2 DEF IInv, Placement
  <2>2. QED
    BY <2>1, PlaceFacts, ListFacts DEF Container
<1>4. /\ WellFormed(yl) /\ yl.container = lists.container
      /\ Len(yl.ring[Termination]) = Len(lists.ring[Termination])
  <2>1. CASE first
    <3>1. yl = vListInitialise(Lists, Items)
      BY <2>1
    <3> DEFINE zl == vListInitialise(Lists, Items)
    <3>2. /\ WellFormed(zl) /\ \A x \in Items : zl.container[x] = Null
          /\ Len(zl.ring[Termination]) = 0
      BY InitialListsOK, ListFacts DEF WellFormed
    <3> HIDE DEF zl
    <3>3. /\ zl.container \in [Items -> Lists \cup {Null}]
          /\ lists.container \in [Items -> Lists \cup {Null}]
      BY <1>3, <3>2, ContainerType
    <3>4. /\ \A x \in Items : lists.container[x] = Null
          /\ Len(lists.ring[Termination]) = 0
      BY <2>1, FirstTask
    <3>5. zl.container = lists.container
      BY <3>2, <3>3, <3>4
    <3>6. yl = zl
      BY <3>1 DEF zl
    <3> HIDE DEF yl
    <3>7. QED
      BY <3>2, <3>4, <3>5, <3>6
  <2>2. CASE ~ first
    BY <1>3, <2>2
  <2>3. QED
    BY <2>1, <2>2
<1> HIDE DEF yl
<1>5. Relocated(lists, EnterReady(yl, t, p), t, Ready(p), Null)
  BY <1>3, <1>4, EnterReadyMoves
<1>6. /\ WellFormed(lists')
      /\ lists'.container[Generic(t)] = Ready(p) /\ lists'.container[Event(t)] = Null
      /\ \A s \in AllTasks \ {t} :
           /\ lists'.container[Generic(s)] = lists.container[Generic(s)]
           /\ lists'.container[Event(s)] = lists.container[Event(s)]
      /\ Len(lists'.ring[Termination]) - Terminated(lists', t)
           = Len(lists.ring[Termination]) - Terminated(lists, t)
  <2>1. PICK zl : zl = EnterReady(yl, t, p)
    OBVIOUS
  <2>2. Relocated(lists, zl, t, Ready(p), Null)
    BY <1>5, <2>1
  <2>3. /\ WellFormed(zl)
        /\ zl.container[Generic(t)] = Ready(p) /\ zl.container[Event(t)] = Null
        /\ \A s \in AllTasks \ {t} :
             /\ zl.container[Generic(s)] = lists.container[Generic(s)]
             /\ zl.container[Event(s)] = lists.container[Event(s)]
    <3>1. WellFormed(lists)
      BY <1>3
    <3>2. QED
      BY ONLY <3>1, <2>2, RelocatedPlaces, t \in AllTasks
  <2>4. Len(zl.ring[Termination]) - Terminated(zl, t)
          = Len(lists.ring[Termination]) - Terminated(lists, t)
    BY <2>2 DEF Relocated
  <2>5. lists' = zl
    BY <1>2, <2>1
  <2>6. QED
    BY <2>3, <2>4, <2>5
<1>7. /\ Len(lists'.ring[Termination]) = Len(lists.ring[Termination])
      /\ Len(lists.ring[Termination]) \in Nat
  <2>1. Ready(p) # Termination /\ Termination # Null
    BY ListFacts
  <2>2. Terminated(lists', t) = 0 /\ Terminated(lists, t) = 0
    BY <1>3, <1>6, <2>1 DEF Terminated
  <2>3. Len(lists'.ring[Termination]) \in Nat /\ Len(lists.ring[Termination]) \in Nat
    BY <1>3, <1>6, ContainerType
  <2>4. QED
    BY <1>6, <2>2, <2>3
<1>8. ListsAgree' /\ lists' \in XLists(Lists, Items)
  BY <1>6, WellFormedNow
<1>9. /\ uxPriority' \in [AllTasks -> Priorities] /\ uxPriority'[t] = p
      /\ \A s \in AllTasks \ {t} : uxPriority'[s] = uxPriority[s]
  BY <1>2 DEF IInv, TypeOK
<1>10. /\ uxTopReadyPriority' \in Priorities
       /\ uxTopReadyPriority <= uxTopReadyPriority' /\ p <= uxTopReadyPriority'
  BY <1>2, Raised DEF IInv
<1>11. uxTopUsedPriority' \in Priorities
  BY <1>2 DEF IInv, TypeOK
<1>12. {pxDelayedTaskList', pxOverflowDelayedTaskList'} = DelayedLists
  BY <1>2 DEF IInv, TypeOK, DelayedLists
<1>13. reaped # t
  BY <1>2, <1>3 DEF IInv, TypeOK
<1>14. Accounting' /\ uxCurrentNumberOfTasks' \in Nat
  <2>1. tcb' \ {reaped'} = (tcb \ {reaped}) \cup {t} /\ t \notin tcb \ {reaped}
    BY <1>2, <1>13
  <2>2. Cardinality(tcb' \ {reaped'}) = Cardinality(tcb \ {reaped}) + 1
    BY <2>1, TcbFinite, FS_AddElement
  <2>3. uxCurrentNumberOfTasks' \in Nat
    BY <1>2 DEF IInv, TypeOK
  <2>4. QED
    BY <1>2, <1>7, <2>2, <2>3 DEF IInv, Accounting, listCURRENT_LIST_LENGTH
<1>15. Placement'
  <2>1. ASSUME NEW s \in AllTasks
        PROVE  /\ lists'.container[Generic(s)] \in
                    {Ready(uxPriority'[s]), Suspended, Termination, Null} \cup DelayedLists
               /\ lists'.container[Event(s)] \in EventLists \cup {Pending, Null}
               /\ lists'.container[Event(s)] # Null =>
                    lists'.container[Generic(s)] \in DelayedLists \cup {Suspended}
               /\ lists'.container[Generic(s)] = Null <=> s \notin tcb' \/ s = reaped'
    <3>1. CASE s = t
      <4>1. Ready(p) # Null
        BY ListFacts
      <4>2. QED
        BY <3>1, <4>1, <1>2, <1>6, <1>9, <1>13
    <3>2. CASE s # t
      BY <3>2, <1>2, <1>6, <1>9 DEF IInv, Placement, Container
    <3>3. QED
      BY <3>1, <3>2
  <2>2. QED
    BY <2>1 DEF Placement, Container
<1>16. TopOK'
  <2>1. ASSUME NEW s \in AllTasks, NEW q \in Priorities,
               lists'.container[Generic(s)] = Ready(q)
        PROVE  q <= uxTopReadyPriority'
    <3>1. CASE s = t
      <4>1. q = p
        BY <2>1, <3>1, <1>6, ListFacts
      <4>2. QED
        BY <4>1, <1>10
    <3>2. CASE s # t
      <4>1. q <= uxTopReadyPriority /\ uxTopReadyPriority \in Priorities
        BY <2>1, <3>2, <1>6 DEF IInv, TopOK, Container, TypeOK
      <4>2. QED
        BY <4>1, <1>10, ConstantFacts
    <3>3. QED
      BY <3>1, <3>2
  <2>2. QED
    BY <2>1 DEF TopOK, Container
<1>17. IdleOK'
  <2>1. Idle \in AllTasks
    BY DEF AllTasks
  <2>2. CASE t = Idle
    <3>1. p = 0 /\ xSchedulerRunning'
      BY <1>1, <2>2, ConstantFacts
    <3>2. QED
      BY <1>2, <1>6, <1>9, <2>2, <3>1 DEF IInv, IdleOK, Container
  <2>3. CASE t # Idle
    BY <1>2, <1>6, <1>9, <2>1, <2>3 DEF IInv, IdleOK, Container
  <2>4. QED
    BY <2>2, <2>3
<1>18. ~ listLIST_IS_EMPTY(lists, Termination) =>
         ~ listLIST_IS_EMPTY(lists', Termination)
  BY <1>3, <1>6, <1>7, NotEmpty, ListFacts DEF WellFormed
<1>19. QED
  BY <1>2, <1>6, <1>8, <1>9, <1>10, <1>11, <1>12, <1>14, <1>15, <1>16, <1>17, <1>18

\* A task created before the scheduler runs, the idle task included.
LEMMA CreateEarly ==
  ASSUME IInv, ~ xSchedulerRunning, ~ fault,
         NEW t \in AllTasks, NEW asked \in RequestedPriorities \cup {0},
         CreateTask(t, asked),
         IF t = Idle THEN asked = 0 /\ xSchedulerRunning'
         ELSE xSchedulerRunning' = xSchedulerRunning,
         xTickCount' \in TickType, UNCHANGED <<pc, askedPriority>>
  PROVE  IInv'
<1>1. /\ ListsAgree' /\ Placement' /\ TopOK' /\ Accounting' /\ IdleOK'
      /\ lists' \in XLists(Lists, Items)
      /\ t \notin tcb /\ tcb' = tcb \cup {t} /\ reaped' = reaped
      /\ uxPriority' \in [AllTasks -> Priorities]
      /\ uxTopReadyPriority' \in Priorities /\ uxTopUsedPriority' \in Priorities
      /\ uxCurrentNumberOfTasks' \in Nat /\ uxTasksDeleted' = uxTasksDeleted
      /\ {pxDelayedTaskList', pxOverflowDelayedTaskList'} = DelayedLists
      /\ lists'.container[Generic(t)] = Ready(uxPriority'[t])
      /\ \A s \in AllTasks \ {t} :
           /\ lists'.container[Generic(s)] = lists.container[Generic(s)]
           /\ uxPriority'[s] = uxPriority[s]
  BY CreateLists
<1>2. /\ UNCHANGED <<xNumOfOverflows, missedVars, queueVars, loopVars,
                     uxSchedulerSuspended, yieldPending, fault>>
      /\ pxCurrentTCB' \in {t, pxCurrentTCB}
      /\ pxCurrentTCB = Null => pxCurrentTCB' = t
  BY DEF CreateTask
<1>3. /\ pc' = pc /\ askedPriority' = askedPriority
      /\ \A s \in AllTasks : pc[s] = "run"
      /\ uxSchedulerSuspended = 0 /\ ~ yieldPending /\ kernel = "none"
      /\ pxCurrentTCB \in tcb \cup {Null} /\ tcb \subseteq AllTasks /\ t # Null
      /\ Idle \in AllTasks /\ Tasks \subseteq AllTasks
  BY ListFacts DEF IInv, BeforeOK, KernelOK, TypeOK, AllTasks
<1>4. TypeOK'
  <2>1. pxCurrentTCB' \in tcb' \cup {Null}
    BY <1>1, <1>2, <1>3
  <2>2. xSchedulerRunning' \in BOOLEAN
    BY DEF IInv, TypeOK
  <2>3. tcb' \subseteq AllTasks /\ reaped' \in tcb' \cup {Null}
    BY <1>1 DEF IInv, TypeOK
  <2>4. QED
    BY <1>1, <1>2, <1>3, <2>1, <2>2, <2>3
       DEF IInv, TypeOK, missedVars, queueVars, loopVars
<1>5. LabelsOK'
  BY <1>1, <1>3 DEF IInv, LabelsOK, Holding
<1>6. pxCurrentTCB' # Null => pxCurrentTCB' \in AllTasks
  BY <1>2, <1>3
<1>7. KernelOK' /\ BeforeOK'
  BY <1>2, <1>3, <1>6 DEF KernelOK, BeforeOK, loopVars, missedVars, Holding
<1>8. CurrentOK'
  <2>1. xSchedulerRunning' => pxCurrentTCB' # Null
    BY <1>2, <1>3
  <2>2. ASSUME pxCurrentTCB' # Null
        PROVE  IsReady(pxCurrentTCB)'
    <3>1. CASE pxCurrentTCB' = t
      BY <1>1, <3>1 DEF IsReady, Container
    <3>2. CASE pxCurrentTCB' = pxCurrentTCB /\ pxCurrentTCB # t
      <4>1. IsReady(pxCurrentTCB) /\ pxCurrentTCB \in AllTasks
        BY <1>3, <2>2, <3>2 DEF IInv, CurrentOK
      <4>2. QED
        BY <1>1, <3>2, <4>1 DEF IsReady, Container
    <3>3. QED
      BY <1>2, <3>1, <3>2
  <2>3. QED
    BY <1>2, <1>3, <1>6, <2>1, <2>2 DEF CurrentOK
<1>9. QED
  BY <1>1, <1>4, <1>5, <1>7, <1>8 DEF IInv

\* main() creates a task.
LEMMA CreateBeforeStartInv ==
  ASSUME IInv, NEW t, NEW asked \in RequestedPriorities, CreateBeforeStart(t, asked)
  PROVE  IInv'
<1>1. /\ ~ xSchedulerRunning /\ ~ fault /\ t \in AllTasks /\ t # Idle
      /\ CreateTask(t, asked)
      /\ UNCHANGED <<xTickCount, xSchedulerRunning, pc, askedPriority>>
  BY TasksAssumption DEF CreateBeforeStart, BeforeStart, AllTasks
<1>2. xTickCount' \in TickType
  BY <1>1 DEF IInv, TypeOK
<1>3. QED
  BY <1>1, <1>2, CreateEarly

\* vTaskStartScheduler creates the idle task and starts.
LEMMA StartInv ==
  ASSUME IInv, vTaskStartScheduler
  PROVE  IInv'
<1>1. /\ ~ xSchedulerRunning /\ ~ fault /\ Idle \in AllTasks
      /\ CreateTask(Idle, 0) /\ xSchedulerRunning' /\ xTickCount' = 0
      /\ UNCHANGED <<pc, askedPriority>>
  BY DEF vTaskStartScheduler, AllTasks
<1>2. xTickCount' \in TickType
  BY <1>1, MaxDelayAssumption DEF TickType
<1>3. QED
  BY <1>1, <1>2, CreateEarly

\* A running task creates another one.
LEMMA TaskCreateInv ==
  ASSUME IInv, NEW t, NEW new, NEW asked \in RequestedPriorities,
         xTaskCreate(t, new, asked)
  PROVE  IInv'
<1>1. /\ xSchedulerRunning /\ kernel = "none" /\ ~ fault /\ ~ yieldPending
      /\ t = pxCurrentTCB /\ pc[t] = "run" /\ t \in tcb /\ t \in AllTasks
      /\ t \in Tasks /\ t # Null
      /\ new \in Tasks /\ new \in AllTasks /\ new # Idle /\ t # Idle
      /\ CreateTask(new, asked)
      /\ pc' = [pc EXCEPT ![t] = "created", ![new] = "run"]
      /\ askedPriority' = [askedPriority EXCEPT ![t] = asked]
      /\ xTickCount' = xTickCount /\ xSchedulerRunning' = xSchedulerRunning
  BY AtFacts, TasksAssumption DEF xTaskCreate, Call, AllTasks
<1>2. /\ ListsAgree' /\ Placement' /\ TopOK' /\ Accounting' /\ IdleOK'
      /\ lists' \in XLists(Lists, Items)
      /\ new \notin tcb /\ tcb' = tcb \cup {new} /\ reaped' = reaped
      /\ uxPriority' \in [AllTasks -> Priorities]
      /\ uxTopReadyPriority' \in Priorities /\ uxTopUsedPriority' \in Priorities
      /\ uxCurrentNumberOfTasks' \in Nat /\ uxTasksDeleted' = uxTasksDeleted
      /\ {pxDelayedTaskList', pxOverflowDelayedTaskList'} = DelayedLists
      /\ \A s \in AllTasks \ {new} :
           /\ lists'.container[Generic(s)] = lists.container[Generic(s)]
           /\ uxPriority'[s] = uxPriority[s]
      /\ ~ listLIST_IS_EMPTY(lists, Termination) =>
           ~ listLIST_IS_EMPTY(lists', Termination)
  BY <1>1, CreateLists
<1>3. /\ UNCHANGED <<xNumOfOverflows, missedVars, queueVars, loopVars,
                     uxSchedulerSuspended, yieldPending, fault>>
      /\ pxCurrentTCB' = pxCurrentTCB
  BY <1>1 DEF CreateTask
<1>4. t # new /\ asked \in Nat
  BY <1>1, <1>2, TasksAssumption
<1>5. pc \in [AllTasks -> Labels] /\ "created" \in Labels /\ "run" \in Labels
  BY DEF IInv, TypeOK, Labels
<1>6. /\ pc'[t] = "created" /\ pc'[new] = "run"
      /\ \A s \in AllTasks \ {t, new} : pc'[s] = pc[s]
  BY <1>1, <1>4, <1>5
<1>7. TypeOK'
  <2>1. tcb' \subseteq AllTasks /\ reaped' \in tcb' \cup {Null}
        /\ pxCurrentTCB' \in tcb' \cup {Null}
    BY <1>1, <1>2, <1>3 DEF IInv, TypeOK
  <2>2. pc' \in [AllTasks -> Labels] /\ askedPriority' \in [AllTasks -> Nat]
    BY <1>1, <1>4, <1>5 DEF IInv, TypeOK
  <2>3. QED
    BY <1>1, <1>2, <1>3, <2>1, <2>2
       DEF IInv, TypeOK, missedVars, queueVars, loopVars
<1>8. LabelsOK'
  <2>1. Idle \in AllTasks /\ Tasks \subseteq AllTasks
    BY DEF AllTasks
  <2>2. pc'[Idle] = pc[Idle]
    BY <1>1, <1>6, <2>1
  <2>3. \A s \in Tasks : pc'[s] \in TaskLabels
    BY <1>6, <2>1 DEF IInv, LabelsOK, TaskLabels
  <2>4. \A s \in AllTasks : pc'[s] \in Holding => s = pxCurrentTCB'
    BY <1>3, <1>6 DEF IInv, LabelsOK, Holding
  <2>5. QED
    BY <1>2, <2>2, <2>3, <2>4 DEF IInv, LabelsOK
<1>9. KernelOK' /\ BeforeOK'
  BY <1>1, <1>3, <1>6 DEF IInv, KernelOK, BeforeOK, loopVars, missedVars, Holding
<1>10. CurrentOK'
  <2>1. IsReady(pxCurrentTCB)
    BY <1>1 DEF IInv, CurrentOK
  <2>2. IsReady(pxCurrentTCB)'
    BY <1>1, <1>2, <1>3, <1>4, <2>1 DEF IsReady, Container
  <2>3. QED
    BY <1>1, <1>3, <1>6, <2>2 DEF CurrentOK
<1>11. QED
  BY <1>2, <1>7, <1>8, <1>9, <1>10 DEF IInv

-----------------------------------------------------------------------------
(* The inductive invariant                                                 *)

\* Initially no list has an item and no call is in progress.
LEMMA InitInv == Init => IInv
<1> SUFFICES ASSUME Init PROVE IInv
  OBVIOUS
<1>1. PICK xl : xl = vListInitialise(Lists, Items)
  OBVIOUS
<1>2. /\ WellFormed(xl) /\ \A x \in Items : xl.container[x] = Null
      /\ Len(xl.ring[Termination]) = 0
  BY <1>1, InitialListsOK, ListFacts DEF WellFormed
<1>3. lists = xl
  BY <1>1 DEF Init, prvInitialiseTaskLists
<1>4. /\ ListsAgree /\ lists \in XLists(Lists, Items)
      /\ \A t \in AllTasks : /\ lists.container[Generic(t)] = Null
                             /\ lists.container[Event(t)] = Null
      /\ Len(lists.ring[Termination]) = 0
  BY <1>2, <1>3, ItemFacts DEF WellFormed, ListsOK, ListsAgree
<1>5. TypeOK
  <2>1. /\ uxPriority \in [AllTasks -> Priorities]
        /\ askedPriority \in [AllTasks -> Nat]
        /\ uxTopUsedPriority \in Priorities /\ uxTopReadyPriority \in Priorities
        /\ xTickCount \in TickType
    BY ConstantFacts, MaxDelayAssumption DEF Init, prvInitialiseTaskLists, TickType
  <2>2. {pxDelayedTaskList, pxOverflowDelayedTaskList} = DelayedLists
    BY DEF Init, prvInitialiseTaskLists, DelayedLists
  <2>3. /\ xNumOfOverflows \in 0 .. OverflowModulus - 1
        /\ uxSchedulerSuspended \in 0 .. MaxSuspendDepth + 1
        /\ uxMissedTicks \in 0 .. MaxMissedTicks
    BY TasksAssumption DEF Init, prvInitialiseTaskLists, OverflowModulus
  <2>4. /\ pc \in [AllTasks -> Labels]
        /\ queueLocked \in [Events -> BOOLEAN] /\ queuePosted \in [Events -> BOOLEAN]
    BY DEF Init, prvInitialiseTaskLists, Labels
  <2>5. QED
    BY <1>4, <2>1, <2>2, <2>3, <2>4 DEF Init, prvInitialiseTaskLists, TypeOK
<1>6. Placement
  BY <1>4 DEF Init, prvInitialiseTaskLists, Placement, Container
<1>7. Accounting
  <2>1. tcb \ {reaped} = {}
    BY DEF Init, prvInitialiseTaskLists
  <2>2. QED
    BY <1>4, <2>1, FS_EmptySet DEF Init, prvInitialiseTaskLists, Accounting, listCURRENT_LIST_LENGTH
<1>8. LabelsOK /\ KernelOK /\ CurrentOK /\ BeforeOK
  BY DEF Init, prvInitialiseTaskLists, LabelsOK, KernelOK, CurrentOK, BeforeOK, Holding, IdleLabels,
         TaskLabels, AllTasks
<1>9. IdleOK
  BY ListFacts DEF Init, prvInitialiseTaskLists, IdleOK, AllTasks
<1>10. TopOK
  BY <1>4, ListFacts DEF TopOK, Container
<1>11. QED
  BY <1>4, <1>5, <1>6, <1>7, <1>8, <1>9, <1>10 DEF IInv

\* One step per disjunct of Next.
LEMMA NextInv ==
  ASSUME "DeleteBeforeStart" \notin Calls, IInv, [Next]_vars
  PROVE  IInv'
<1>1. CASE Main
  <2>1. ~ \E t \in Tasks : DeleteBeforeStart(t)
    BY DEF DeleteBeforeStart, BeforeStart
  <2>2. QED
    BY <1>1, <2>1, CreateBeforeStartInv, SuspendBeforeStartInv, StartInv DEF Main
<1>2. ASSUME NEW t \in AllTasks, ApplicationCall(t) PROVE IInv'
  BY <1>2, TaskCreateInv, DeleteInv, SuspendInv, ResumeInv, PrioritySetInv,
     SuspendAllInv, EnterDelayInv, DelayZeroInv, QueueWaitInv, QueueSendInv
     DEF ApplicationCall
<1>3. ASSUME NEW t \in AllTasks, FinishCall(t) PROVE IInv'
  BY <1>3, CreatedYieldInv, DelayInv, DelayUntilInv, PlaceInv, QueueUnlockInv,
     ResumeAllInv, EndWithYieldInv DEF FinishCall
<1>4. CASE IdleTask
  BY <1>4, IdleCheckInv, IdleLookInv, IdleReapInv, IdleFreeInv, IdleYieldInv
     DEF IdleTask
<1>5. CASE MaskedLoop
  BY <1>5, DrainPendingInv, DrainDoneInv, ReplayTickInv, ResumeAllDoneInv,
     WakeOneInv, TickDoneInv, ReplayWakeDoneInv DEF MaskedLoop
<1>6. CASE Interrupt
  BY <1>6, TickISRInv, EventISRInv, ResumeFromISRInv DEF Interrupt
<1>7. CASE vTaskSwitchContext
  BY <1>7, SwitchContextInv
<1>8. CASE UNCHANGED vars
  BY <1>8 DEF vars, listVars, taskVars, timeVars, missedVars, queueVars, loopVars,
     IInv, TypeOK, ListsAgree, Placement, Accounting, LabelsOK, KernelOK, CurrentOK,
     IdleOK, BeforeOK, TopOK, Container, IsReady
<1>9. QED
  BY <1>1, <1>2, <1>3, <1>4, <1>5, <1>6, <1>7, <1>8 DEF Next

\* The inductive invariant holds in every reachable state, for any number of
\* tasks, priorities and queues and any tick width, provided that no task is
\* deleted before vTaskStartScheduler: that call alone of tasks.c breaks it
\* (it leaves pxCurrentTCB on a deleted task).
THEOREM InvariantHolds ==
  ASSUME "DeleteBeforeStart" \notin Calls
  PROVE  Spec => []IInv
<1>1. Init => IInv
  BY InitInv
<1>2. IInv /\ [Next]_vars => IInv'
  BY NextInv
<1>3. QED
  BY <1>1, <1>2, PTL DEF Spec

\* The variables of tasks.c keep their types; in particular
\* uxTopReadyPriority always indexes pxReadyTasksLists and the two counters of
\* the idle task never go below zero.
THEOREM TypeCorrect ==
  ASSUME "DeleteBeforeStart" \notin Calls
  PROVE  Spec => []TypeOK
<1>1. IInv => TypeOK
  BY DEF IInv
<1>2. QED
  BY <1>1, InvariantHolds, PTL

\* Rings and pvContainer back pointers agree through every call, interrupt
\* and half-finished loop of tasks.c.
THEOREM ListsStayLinked ==
  ASSUME "DeleteBeforeStart" \notin Calls
  PROVE  Spec => []ListsAgree
<1>1. IInv => ListsAgree
  BY DEF IInv
<1>2. QED
  BY <1>1, InvariantHolds, PTL

\* Every task is on the list its state calls for: a ready task on the list of
\* its own priority, one that waits on an event delayed or suspended as well,
\* and a freed one on none.
THEOREM TasksWellPlaced ==
  ASSUME "DeleteBeforeStart" \notin Calls
  PROVE  Spec => []Placement
<1>1. IInv => Placement
  BY DEF IInv
<1>2. QED
  BY <1>1, InvariantHolds, PTL

\* uxTasksDeleted and uxCurrentNumberOfTasks agree with the termination list
\* and the allocated TCBs.
THEOREM CountersExact ==
  ASSUME "DeleteBeforeStart" \notin Calls
  PROVE  Spec => []Accounting
<1>1. IInv => Accounting
  BY DEF IInv
<1>2. QED
  BY <1>1, InvariantHolds, PTL

\* A deleted task runs no further than the portYIELD of its own vTaskDelete.
THEOREM DeletedNeverRuns ==
  ASSUME "DeleteBeforeStart" \notin Calls
  PROVE  Spec => []DeletedStopped
<1>1. IInv => DeletedStopped
  <2> SUFFICES ASSUME IInv, InterruptsOn, ~ yieldPending, pc[pxCurrentTCB] # "yield"
               PROVE  Container(pxCurrentTCB) # Termination
    BY DEF DeletedStopped
  <2>1. pxCurrentTCB # Null /\ pxCurrentTCB \in AllTasks /\ ~ fault
    BY DEF IInv, InterruptsOn, CurrentOK, TypeOK
  <2>2. CASE pc[pxCurrentTCB] \in {"unlock", "blocked"}
    BY <2>1, <2>2 DEF IInv, CurrentOK
  <2>3. CASE pc[pxCurrentTCB] \notin {"unlock", "blocked"}
    <3>1. IsReady(pxCurrentTCB)
      BY <2>1, <2>3 DEF IInv, CurrentOK
    <3>2. QED
      BY <2>1, <3>1, PlaceFacts, ListFacts DEF IsReady
  <2>4. QED
    BY <2>2, <2>3
<1>2. QED
  BY <1>1, InvariantHolds, PTL

-----------------------------------------------------------------------------
(* The search of vTaskSwitchContext                                        *)

\* In the configurations whose main() suspends nothing either, no step makes
\* the search fail.
LEMMA FaultKept ==
  ASSUME "DeleteBeforeStart" \notin Calls, "SuspendBeforeStart" \notin Calls,
         IInv, IInv', ~ fault, [Next]_vars
  PROVE  ~ fault'
<1>1. CASE Main
  <2>1. /\ ~ \E t \in Tasks : DeleteBeforeStart(t)
        /\ ~ \E t \in Tasks : SuspendBeforeStart(t)
    BY DEF DeleteBeforeStart, SuspendBeforeStart, BeforeStart
  <2>2. QED
    BY <1>1, <2>1 DEF Main, CreateBeforeStart, vTaskStartScheduler, CreateTask
<1>2. ASSUME NEW t, ApplicationCall(t) PROVE UNCHANGED fault
  <2>1. ASSUME NEW x, NEW p, xTaskCreate(t, x, p) PROVE UNCHANGED fault
    BY <2>1 DEF xTaskCreate, CreateTask
  <2>2. ASSUME NEW x, vTaskDelete(t, x) PROVE UNCHANGED fault
    BY <2>2 DEF vTaskDelete, Delete
  <2>3. ASSUME NEW x, vTaskSuspend(t, x) PROVE UNCHANGED fault
    BY <2>3 DEF vTaskSuspend
  <2>4. ASSUME NEW x, vTaskResume(t, x) PROVE UNCHANGED fault
    BY <2>4 DEF vTaskResume
  <2>5. ASSUME NEW x, NEW p, vTaskPrioritySet(t, x, p) PROVE UNCHANGED fault
    BY <2>5 DEF vTaskPrioritySet
  <2>6. CASE vTaskSuspendAll(t)
    BY <2>6 DEF vTaskSuspendAll, SuspendAllVars
  <2>7. ASSUME NEW f, EnterDelay(t, f) PROVE UNCHANGED fault
    BY <2>7 DEF EnterDelay, SuspendAllVars
  <2>8. CASE DelayZero(t)
    BY <2>8 DEF DelayZero, portYIELD
  <2>9. ASSUME NEW e, QueueWait(t, e) PROVE UNCHANGED fault
    BY <2>9 DEF QueueWait, SuspendAllVars
  <2>10. ASSUME NEW e, QueueSend(t, e) PROVE UNCHANGED fault
    BY <2>10 DEF QueueSend, Post
  <2>11. QED
    BY <1>2, <2>1, <2>2, <2>3, <2>4, <2>5, <2>6, <2>7, <2>8, <2>9, <2>10
       DEF ApplicationCall
<1>3. ASSUME NEW t, FinishCall(t) PROVE UNCHANGED fault
  BY <1>3 DEF FinishCall, CreatedYield, vTaskDelay, vTaskDelayUntil,
     vTaskPlaceOnEventList, QueueUnlock, xTaskResumeAll, EndWithYield, portYIELD
<1>4. CASE IdleTask
  BY <1>4 DEF IdleTask, IdleCheck, IdleLook, IdleReap, IdleFree, IdleYield,
     SuspendAllVars
<1>5. CASE MaskedLoop
  BY <1>5 DEF MaskedLoop, DrainPending, DrainDone, ReplayTick, ResumeAllDone,
     WakeOne, TickDone, ReplayWakeDone, LoopUnchanged
<1>6. CASE Interrupt
  BY <1>6 DEF Interrupt, TickISR, EventISR, Post, xTaskResumeFromISR
<1>7. CASE vTaskSwitchContext
  <2>1. xSchedulerRunning'
    BY <1>7 DEF vTaskSwitchContext, InterruptsOn
  <2>2. QED
    BY <2>1 DEF IInv, CurrentOK
<1>8. CASE UNCHANGED vars
  BY <1>8 DEF vars
<1>9. QED
  BY <1>1, <1>2, <1>3, <1>4, <1>5, <1>6, <1>7, <1>8 DEF Next

\* Every non-empty ready list is one of the priority of a ready task, and the
\* idle task is always on the list of priority 0.
LEMMA ReadyBounded ==
  ASSUME IInv, ~ fault
  PROVE  TopReadyBound
<1>1. ASSUME NEW p \in Priorities, ~ listLIST_IS_EMPTY(lists, Ready(p))
      PROVE  p <= uxTopReadyPriority
  <2> DEFINE x == HeadItem(lists, Ready(p))
  <2>1. WellFormed(lists) /\ Ready(p) \in Lists
    BY WellFormedNow, ListFacts DEF IInv
  <2>2. x \in Items /\ lists.container[x] = Ready(p)
    BY <1>1, <2>1, HeadOnList DEF WellFormed
  <2> HIDE DEF x
  <2>3. Owner(x) \in AllTasks /\ (x = Generic(Owner(x)) \/ x = Event(Owner(x)))
    BY <2>2, ItemFacts
  <2>4. x # Event(Owner(x))
    BY <2>2, <2>3, PlaceFacts, ListFacts
  <2>5. Container(Owner(x)) = Ready(p)
    BY <2>2, <2>3, <2>4 DEF Container
  <2>6. QED
    BY <2>3, <2>5 DEF IInv, TopOK
<1>2. ASSUME xSchedulerRunning
      PROVE  0 \in Priorities /\ ~ listLIST_IS_EMPTY(lists, Ready(0))
  <2>1. 0 \in Priorities /\ Ready(0) \in Lists /\ WellFormed(lists)
    BY ConstantFacts, ListFacts, WellFormedNow DEF IInv
  <2>2. Generic(Idle) \in Items /\ lists.container[Generic(Idle)] = Ready(0)
    BY <1>2, ItemFacts DEF IInv, IdleOK, Container, AllTasks
  <2>3. QED
    BY <2>1, <2>2, NotEmpty DEF WellFormed
<1>3. QED
  BY <1>1, <1>2 DEF TopReadyBound

\* uxTopReadyPriority bounds the non-empty ready lists and the search of
\* vTaskSwitchContext always ends at a task, provided that no task is deleted
\* or suspended before vTaskStartScheduler.
THEOREM SearchAlwaysEnds ==
  ASSUME "DeleteBeforeStart" \notin Calls, "SuspendBeforeStart" \notin Calls
  PROVE  Spec => []TopReadyBound
<1>1. Init => IInv /\ ~ fault
  BY InitInv DEF Init, prvInitialiseTaskLists
<1>2. (IInv /\ ~ fault) /\ [Next]_vars => (IInv /\ ~ fault)'
  BY NextInv, FaultKept
<1>3. IInv /\ ~ fault => TopReadyBound
  BY ReadyBounded
<1>4. QED
  BY <1>1, <1>2, <1>3, PTL DEF Spec

-----------------------------------------------------------------------------
(* vTaskSuspendAll                                                         *)

\* What every step but the context switch, the tick and the creation of the
\* first task leaves alone.
LEMMA HeldWhileSuspended ==
  ASSUME IInv, [Next]_vars, uxSchedulerSuspended > 0
  PROVE  UNCHANGED <<pxCurrentTCB, timeVars>>
<1>1. xSchedulerRunning /\ kernel = "none" /\ pxCurrentTCB # Null
  BY DEF IInv, BeforeOK, KernelOK, CurrentOK
<1>2. CASE Main
  BY <1>1, <1>2 DEF Main, CreateBeforeStart, DeleteBeforeStart,
     SuspendBeforeStart, BeforeStart, vTaskStartScheduler
<1>3. ASSUME NEW t, ApplicationCall(t) PROVE UNCHANGED <<pxCurrentTCB, timeVars>>
  <2>1. ASSUME NEW x, NEW p, xTaskCreate(t, x, p)
        PROVE  UNCHANGED <<pxCurrentTCB, timeVars>>
    BY <1>1, <2>1 DEF xTaskCreate, CreateTask, timeVars
  <2>2. ASSUME NEW x, vTaskDelete(t, x) PROVE UNCHANGED <<pxCurrentTCB, timeVars>>
    BY <2>2 DEF vTaskDelete, Delete
  <2>3. ASSUME NEW x, vTaskSuspend(t, x) PROVE UNCHANGED <<pxCurrentTCB, timeVars>>
    BY <2>3 DEF vTaskSuspend
  <2>4. ASSUME NEW x, vTaskResume(t, x) PROVE UNCHANGED <<pxCurrentTCB, timeVars>>
    BY <2>4 DEF vTaskResume
  <2>5. ASSUME NEW x, NEW p, vTaskPrioritySet(t, x, p)
        PROVE  UNCHANGED <<pxCurrentTCB, timeVars>>
    BY <2>5 DEF vTaskPrioritySet
  <2>6. CASE vTaskSuspendAll(t)
    BY <2>6 DEF vTaskSuspendAll, SuspendAllVars
  <2>7. ASSUME NEW f, EnterDelay(t, f) PROVE UNCHANGED <<pxCurrentTCB, timeVars>>
    BY <2>7 DEF EnterDelay, SuspendAllVars
  <2>8. CASE DelayZero(t)
    BY <2>8 DEF DelayZero, portYIELD
  <2>9. ASSUME NEW e, QueueWait(t, e) PROVE UNCHANGED <<pxCurrentTCB, timeVars>>
    BY <2>9 DEF QueueWait, SuspendAllVars
  <2>10. ASSUME NEW e, QueueSend(t, e) PROVE UNCHANGED <<pxCurrentTCB, timeVars>>
    BY <2>10 DEF QueueSend, Post
  <2>11. QED
    BY <1>3, <2>1, <2>2, <2>3, <2>4, <2>5, <2>6, <2>7, <2>8, <2>9, <2>10
       DEF ApplicationCall
<1>4. ASSUME NEW t, FinishCall(t) PROVE UNCHANGED <<pxCurrentTCB, timeVars>>
  BY <1>4 DEF FinishCall, CreatedYield, vTaskDelay, vTaskDelayUntil,
     vTaskPlaceOnEventList, QueueUnlock, xTaskResumeAll, EndWithYield, portYIELD
<1>5. CASE IdleTask
  BY <1>5 DEF IdleTask, IdleCheck, IdleLook, IdleReap, IdleFree, IdleYield,
     SuspendAllVars
<1>6. CASE MaskedLoop
  BY <1>1, <1>6 DEF MaskedLoop, DrainPending, DrainDone, ReplayTick,
     ResumeAllDone, WakeOne, TickDone, ReplayWakeDone, LoopStep
<1>7. CASE Interrupt
  BY <1>7 DEF Interrupt, TickISR, EventISR, Post, xTaskResumeFromISR
<1>8. CASE vTaskSwitchContext
  BY <1>8 DEF vTaskSwitchContext
<1>9. CASE UNCHANGED vars
  BY <1>9 DEF vars
<1>10. QED
  BY <1>2, <1>3, <1>4, <1>5, <1>6, <1>7, <1>8, <1>9 DEF Next

\* While the scheduler stays suspended, however deeply, no interrupt takes the
\* processor from the task that suspended it and the tick count stands still.
THEOREM SuspendAllHolds ==
  ASSUME "DeleteBeforeStart" \notin Calls
  PROVE  Spec => SuspendAllHoldsCPU
<1>1. IInv /\ [Next]_vars =>
        [uxSchedulerSuspended > 0 /\ uxSchedulerSuspended' > 0
           => UNCHANGED <<pxCurrentTCB, timeVars>>]_vars
  BY HeldWhileSuspended
<1>2. QED
  BY <1>1, InvariantHolds, PTL DEF Spec, SuspendAllHoldsCPU
=============================================================================
